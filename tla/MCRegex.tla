------------------------------ MODULE MCRegex -------------------------------
(***************************************************************************)
(* Every pattern of one or two characters of an alphabet and of three of a *)
(* smaller one, and patterns for each construct.                           *)
(***************************************************************************)
EXTENDS RegexMeaning

\* The grammar, and what the early errors refuse.
Grammar ==
    { <<"a", "{", ",", "2", "}", "/">>, <<"x", "{", "/">>, <<"a", "{", "2", ",", "1", "}", "/">>,
      <<"a", "{", "2", ",", "1", "/">>, <<"a", "*", "*", "/">>, <<"a", "*", "?", "?", "/">>,
      <<"(", "?", "=", "a", ")", "*", "/">>, <<"(", "?", "=", "a", ")", "*", "/", "u">>,
      <<"(", "?", "<", "=", "a", ")", "*", "/">>, <<"^", "*", "/">>, <<"\\", "b", "+", "/">>,
      <<"|", "*", "/">>, <<"]", "*", "/">>, <<"a", "]", "/", "u">>, <<"(", "a", "/">>, <<"a", ")", "/">>,
      <<"a", "[", "/">>, <<"[", "a", "\\", "]", "/">>, <<"a", "\\", "/">>, <<"a", "\n", "/">>,
      <<"(", "?", "x", ")", "/">>,
      <<"(", "?", "<", "n", ">", "a", ")", "(", "?", "<", "n", ">", "b", ")", "/">>,
      <<"(", "?", "<", "1", ">", "a", ")", "/">>, <<"a", "/", "g", "g">>, <<"a", "/", "x">>,
      <<"a", "/", "g", "i", "m", "s", "u", "y", "v", "d">>,
      <<"(", "?", "<", "n", ">", "a", ")", "\\", "k", "/">>,
      <<"\\", "k", "<", "m", ">", "(", "?", "<", "n", ">", "a", ")", "/">>,
      <<"(", "?", ":", "a", "]", "/">>, <<"(", "?", "<", "n", "a", ")", "/">>, <<"/", "b">> }

\* Escapes, in the Unicode mode and out of it.
Escapes ==
    { <<"\\", "u", "{", "a", "}", "/", "u">>, <<"\\", "u", "{", "/", "u">>, <<"\\", "u", "a", "/", "u">>,
      <<"\\", "x", "a", "b", "/", "u">>, <<"\\", "x", "a", "/", "u">>, <<"\\", "x", "a", "/">>,
      <<"\\", "p", "{", "a", "}", "/", "u">>, <<"\\", "p", "/", "u">>, <<"\\", "c", "b", "/">>,
      <<"\\", "c", "/", "u">>, <<"\\", "c", "1", "/">>, <<"\\", "0", "/", "u">>,
      <<"\\", "0", "1", "/", "u">>, <<"\\", "1", "/", "u">>, <<"(", "a", ")", "\\", "1", "/", "u">>,
      <<"[", "\\", "1", "]", "/", "u">>, <<"(", "a", ")", "[", "(", "]", "\\", "2", "/", "u">>,
      <<"\\", "q", "/", "u">>, <<"\\", "q", "/">>, <<"[", "\\", "-", "a", "]", "/", "u">>,
      <<"\\", "-", "/", "u">>, <<"[", "b", "-", "a", "]", "/", "u">>, <<"[", "b", "-", "a", "]", "/">>,
      <<"[", "\\", "d", "-", "a", "]", "/", "u">>, <<"[", "a", "-", "\\", "d", "]", "/", "u">>,
      <<"[", "\\", "d", "-", "a", "]", "/">>, <<"[", "\\", "x", "-", "a", "]", "/">>,
      <<"[", "\\", "c", "b", "-", "a", "]", "/", "u">>,
      <<"(", "?", "<", "k", ">", "a", ")", "\\", "k", "<", "k", ">", "/", "u">>, <<"{", "/", "u">> }

\* What the engine cannot compile.
NotCompiled ==
    { <<"\\", "k", "/">>, <<"\\", "k", "<", "n", ">", "(", "?", "<", "n", ">", "a", ")", "/">>,
      <<"[", "]", "/">>, <<"[", "^", "]", "/">>, <<"[", "]", "a", "]", "/">>,
      <<"[", "a", "-", "\\", "]", "]", "/">>, <<"[", "]", "-", "a", "]", "/">> }

\* Alternatives, groups and loops.
Loops ==
    { <<"a", "|", "a", "b", "/">>, <<"(", "a", "|", "a", "b", ")", "(", "b", "|", "a", ")", "?", "/">>,
      <<"(", "?", ":", "a", "|", "b", ")", "*", "b", "/">>,
      <<"(", "a", ")", "|", "b", "|", "(", "c", ")", "/">>,
      <<"(", "?", ":", "a", "|", "(", "b", ")", ")", "*", "/">>, <<"(", "a", "*", ")", "*", "/">>,
      <<"(", "a", "*", ")", "+", "/">>, <<"(", "a", "?", ")", "*", "?", "b", "/">>,
      <<"(", "(", "a", ")", "|", "b", ")", "*", "/">>, <<"a", "*", "?", "b", "/">>,
      <<"(", "a", "+", "?", ")", "b", "?", "/">>, <<"a", "?", "?", "b", "/">>, <<"a", "{", "2", "}", "/">>,
      <<"a", "{", "1", ",", "2", "}", "?", "b", "/">>, <<"a", "{", "2", ",", "}", "/">>,
      <<"(", "b", "{", "0", ",", "1", "}", "a", ")", "{", "2", "}", "/">>,
      <<"(", "?", "<", "n", ">", "b", ")", "a", "|", "/">>, <<"(", "|", "a", ")", "+", "/">>,
      <<"(", "?", ":", "a", "?", ")", "/">> }

\* Characters, classes and anchors, with the flags that change them.
Leaves ==
    { <<".", "/", "s">>, <<".", "/", "g">>, <<"wide", ".", "/">>, <<"[", "^", "a", "]", "/", "g">>,
      <<"[", "a", "-", "b", "]", "/", "i">>, <<"[", "^", "A", "-", "B", "]", "/", "i">>,
      <<"B", "+", "/", "i">>, <<"[", "\\", "d", "_", "-", "]", "/">>, <<"\\", "w", "+", "/", "g">>,
      <<"\\", "W", "/">>, <<"\\", "D", "\\", "S", "/", "g">>, <<"^", "a", "/", "m">>,
      <<"a", "$", "/", "m">>, <<"^", "/", "g">>, <<"$", "/", "g">>, <<"^", "$", "/", "g", "m">>,
      <<"\\", "b", "a", "/", "g">>, <<"\\", "B", "b", "/">>, <<"\\", "n", "/">>,
      <<"[", "\\", "n", "a", "]", "/", "g">>, <<"a", "*", "/", "g">>, <<"(", "b", ")", "?", "/", "g">>,
      <<"\\", ".", "/", "g">> }

\* Lookaround and backreferences.
Extended ==
    { <<"(", "?", "=", "(", "a", ")", ")", "a", "/">>, <<"(", "?", "=", "a", "*", ")", "b", "/">>,
      <<"(", "?", "!", "a", ")", ".", "/", "g">>,
      <<"(", "?", "!", "(", "a", ")", ")", ".", "|", "a", "/">>,
      <<"(", "?", "<", "=", "a", ")", "b", "/">>, <<"(", "?", "<", "!", "a", ")", "b", "/">>,
      <<"(", "?", "<", "=", "(", "a", ")", "b", "?", ")", "a", "/">>,
      <<"(", "?", "<", "=", "a", "|", "a", "b", ")", "a", "/">>,
      <<"(", "?", "<", "!", "\\", "n", ")", "a", "/">>,
      <<"(", "?", "=", "a", "|", "(", "?", "!", "b", ")", ")", "/", "g">>,
      <<"(", "?", "<", "!", "^", ")", "a", "/", "g">>, <<"(", "a", ")", "\\", "1", "/">>,
      <<"(", "a", "|", "b", ")", "b", "?", "\\", "1", "/">>,
      <<"(", "?", "<", "n", ">", "a", ")", "b", "\\", "k", "<", "n", ">", "/">>,
      <<"\\", "1", "(", "a", ")", "/">>, <<"(", "a", "\\", "1", ")", "/">>,
      <<"(", "?", ":", "b", "(", "a", "\\", "1", ")", ")", "*", "/">>,
      <<"(", "?", ":", "(", "a", ")", "|", "b", ")", "*", "\\", "1", "/">>,
      <<"\\", "2", "(", "a", ")", "/">>,
      <<"(", "?", "=", "a", "|", "b", "a", ")", "b", "(", "a", ")", "\\", "1", "*", "/">>,
      <<"(", "a", "*", "?", ")", "\\", "1", "b", "/">>,
      <<"(", "?", "=", "(", "a", "+", "?", ")", ")", "\\", "1", "+", "b", "/">>,
      <<"(", "?", "=", "(", "?", ":", "(", "b", ")", "|", "a", ")", "+", ")", "/">>,
      <<"[", "]", "]", "(", "?", "=", "a", ")", "/">>,
      <<"(", "?", "=", "^", "a", "|", "b", "$", ")", "/">>,
      <<"(", "?", "=", "\\", "b", "[", "a", "b", "]", ".", "*", "?", ")", "a", "{", "1", "}", "/">> }

Alphabet  == {"a", "(", ")", "[", "]", "\\", "*", "?", "|", "^", "$", "-", ".", "k"}
Short     == {body \o <<"/">> : body \in (UNION {[1..n -> Alphabet] : n \in 1..2})
                                      \cup [1..3 -> {"a", "(", ")", "[", "]", "\\", "*", "?", "|", "^"}]}
MCTexts   == Short \cup Grammar \cup Escapes \cup NotCompiled \cup Loops \cup Leaves \cup Extended

MCInputs ==
    { <<>>, <<"a", "b">>, <<"a", "b", "a">>, <<"wide", "\n", "a", "a">>, <<"b", "a", "b", "a">>,
      <<"A", "b", "1", "_">>, <<"b">> }
\* A template that names the parts of the match, and groups there are or are not.
Template  == <<"$", "1", "$", "0", "1", "$", "9", "$", "<", "n", ">", "$", "<", "m", ">", "$", "<", "$", "'", "$", "backquote", "$", "$", "$", "a", "$">>
MCCalls   == {[op |-> o, with |-> <<>>] : o \in {"test", "exec", "search"}}
             \cup {[op |-> "replace", with |-> w] : w \in {<<"$", "&">>, <<"function">>, Template}}

=============================================================================
