---------------------------- MODULE RegexSyntax -----------------------------
(***************************************************************************)
(* A regular expression literal is read three times: by the lexer, which   *)
(* finds where it ends (js-lexer::lexer), by the early errors, which check *)
(* its pattern (js-parser::regexp), and, each time it is used, by the      *)
(* engine, which makes its tree (js-vm::regex).  Each step is one turn of  *)
(* the reader's loop.                                                      *)
(*                                                                         *)
(* Characters lists the characters there are in the order of their codes;  *)
(* "wide" is one that takes two bytes, "end" is the end of the text.        *)
(***************************************************************************)
EXTENDS Integers, Sequences, SequencesExt, FiniteSets, FiniteSetsExt

CONSTANT Texts    \* what follows the opening slash: body, slash and flags

VARIABLES text,
          stage,     \* "lex", "validate", "parse", "parsed"; or how it ended
          scan,      \* the locals of eat_regex
          check,     \* the locals of validate_pattern
          parse      \* the parser of the engine

syntaxVars == <<text, stage, scan, check, parse>>

Characters ==
    << "\n", "$", "&", "'", "(", ")", "*", "+", ",", "-", ".", "/", "0", "1", "2", "3", "4", "5",
       "6", "7", "8", "9", ":", "<", "=", ">", "?", "A", "B", "D", "P", "S", "W", "Z", "[", "\\",
       "]", "^", "_", "backquote", "a", "b", "c", "d", "g", "i", "k", "m", "n", "p", "q", "s", "u", "w",
       "x", "y", "z", "{", "|", "}", "wide" >>
Code     == [c \in ToSet(Characters) |-> CHOOSE i \in DOMAIN Characters : Characters[i] = c]
Between(lo, hi) == {c \in DOMAIN Code : Code[lo] <= Code[c] /\ Code[c] <= Code[hi]}
Digits   == Between("0", "9")
Letters  == Between("a", "z") \cup Between("A", "Z")
Hex      == Digits \cup {"a", "b", "c", "d", "A", "B", "D"}
IdChars  == Letters \cup Digits \cup {"$", "_", "wide"}

At(s, i) == IF i \in DOMAIN s THEN s[i] ELSE "end"
\* The first index from i on whose character is not in S.
RunEnd(s, i, S) == Min({j \in i..(Len(s) + 1) : At(s, j) \notin S})
\* The first index from i on with character c, or past the end.
Find(s, i, c) == Min({j \in i..Len(s) : s[j] = c} \cup {Len(s) + 1})
\* The characters from i to j that there are.
Part(s, i, j) == SubSeq(s, i, IF j < Len(s) THEN j ELSE Len(s))
Value(s, i, j) == FoldLeft(LAMBDA n, c : 10 * n + Code[c] - Code["0"], 0, SubSeq(s, i, j - 1))

-----------------------------------------------------------------------------
\* The lexer: eat_regex.  A name runs to its ">"; 0 when there is none.
NameEnd(i) ==
    LET j == RunEnd(text, i, IdChars) IN
    IF At(text, i) \in IdChars \ Digits /\ At(text, j) = ">" THEN j ELSE 0
Name(i) == SubSeq(text, i, NameEnd(i) - 1)

Lexing == stage = "lex"
C      == At(text, scan.pos)
Ahead(k) == At(text, scan.pos + k)
Scan(s) == scan' = s /\ UNCHANGED <<text, stage, check, parse>>
Refuse(how) == stage' = how /\ UNCHANGED <<text, scan, check, parse>>

LexEscape ==
    /\ Lexing /\ C = "\\"
    /\ LET e == Ahead(1)
           past(k) == [scan EXCEPT !.pos = @ + k, !.first = FALSE]
       IN CASE e \in {"end", "\n"} -> Refuse("rejected")
            [] e = "k" /\ Ahead(2) = "<" ->
                 LET i == scan.pos + 3 IN
                 IF NameEnd(i) = 0 THEN Refuse("rejected")
                 ELSE Scan([past(0) EXCEPT !.refs = Append(@, Name(i)), !.pos = NameEnd(i) + 1])
            [] e = "k" /\ Ahead(2) # "<" -> Scan([past(2) EXCEPT !.bare = TRUE])
            [] OTHER -> Scan(past(2))

\* A "]" does not end the beginning of the body.
LexClass ==
    /\ Lexing /\ C \in {"[", "]"}
    /\ Scan([scan EXCEPT !.class = (C = "["), !.pos = @ + 1, !.first = (@ /\ C = "]")])

LexGroup ==
    /\ Lexing /\ ~ scan.class /\ C = "("
    /\ LET named  == Ahead(1) = "?" /\ Ahead(2) = "<" /\ Ahead(3) \notin {"=", "!"}
           i      == scan.pos + 3
           opened == [scan EXCEPT !.depth = @ + 1, !.first = FALSE, !.parens = @ \cup {scan.pos}]
       IN IF \/ Ahead(1) = "?" /\ Ahead(2) \notin {":", "=", "!", "<"}
             \/ named /\ (NameEnd(i) = 0 \/ Name(i) \in ToSet(scan.names))
          THEN Refuse("rejected")
          ELSE IF named THEN Scan([opened EXCEPT !.names = Append(@, Name(i)), !.pos = NameEnd(i) + 1])
          ELSE Scan([opened EXCEPT !.pos = @ + 1])
LexGroupEnd ==
    /\ Lexing /\ ~ scan.class /\ C = ")"
    /\ IF scan.depth = 0 THEN Refuse("rejected")
       ELSE Scan([scan EXCEPT !.depth = @ - 1, !.pos = @ + 1, !.first = FALSE, !.parens = @ \cup {scan.pos}])

LexOther ==
    /\ Lexing
    /\ C \notin {"\\", "[", "]"} /\ (C \in {"(", ")", "/"} => scan.class)
    /\ IF C \in {"end", "\n"} \/ (C = "*" /\ scan.first) THEN Refuse("rejected")
       ELSE Scan([scan EXCEPT !.pos = @ + 1, !.first = FALSE])

\* The closing slash, and the flags.
Allowed == {"g", "i", "m", "s", "u", "y", "v", "d"}
FlagsText == SubSeq(text, scan.pos + 1, RunEnd(text, scan.pos + 1, IdChars) - 1)
LexEnd ==
    /\ Lexing /\ ~ scan.class /\ C = "/"
    /\ IF /\ scan.depth = 0
          /\ scan.bare => scan.names = <<>> /\ scan.refs = <<>>
          /\ ToSet(scan.refs) \subseteq ToSet(scan.names)
          /\ ToSet(FlagsText) \subseteq Allowed /\ IsInjective(FlagsText)
       THEN /\ stage' = "validate"
            /\ scan' = [scan EXCEPT !.flags = ToSet(FlagsText)]
            /\ UNCHANGED <<text, check, parse>>
       ELSE Refuse("rejected")

Lex == LexEscape \/ LexClass \/ LexGroup \/ LexGroupEnd \/ LexOther \/ LexEnd

-----------------------------------------------------------------------------
\* The early errors: validate_pattern.
pattern == SubSeq(text, 1, scan.pos - 1)
unicode == "u" \in scan.flags
Ch(i)   == At(pattern, i)

\* Mutant: a parenthesis in a class counts.
CountAllParens ==
    LET from[i \in 1..(Len(text) + 2)] ==
            CASE i > Len(pattern) -> 0
              [] Ch(i) = "\\" -> from[i + 2]
              [] Ch(i) = "(" -> from[i + 1] + (IF Ch(i + 1) # "?" \/ (Ch(i + 2) = "<" /\ Ch(i + 3) \notin {"=", "!"}) THEN 1 ELSE 0)
              [] OTHER -> from[i + 1]
    IN from[1]
\* capture_count: classes are told by their brackets alone.
CaptureCount ==
    LET from[i \in 1..(Len(text) + 2), class \in BOOLEAN] ==
            CASE i > Len(pattern) -> 0
              [] Ch(i) = "\\" -> from[i + 2, class]
              [] Ch(i) = "[" -> from[i + 1, TRUE]
              [] Ch(i) = "]" -> from[i + 1, FALSE]
              [] Ch(i) = "(" /\ ~ class ->
                   from[i + 1, FALSE]
                   + (IF Ch(i + 1) # "?" \/ (Ch(i + 2) = "<" /\ Ch(i + 3) \notin {"=", "!"}) THEN 1 ELSE 0)
              [] OTHER -> from[i + 1, class]
    IN from[1, FALSE]

\* parse_escape_kind: where the escape at i ends, 0 for an error.
HexEnd(i, n) == IF RunEnd(pattern, i, Hex) >= i + n THEN i + n ELSE 0
BracketEnd(i, open, close) ==
    LET j == Find(pattern, i + 1, close) IN
    IF Ch(i) = open /\ j > i + 1 /\ j <= Len(pattern) THEN j + 1 ELSE 0
CodePointEnd(i) ==
    LET j == RunEnd(pattern, i + 1, Hex) IN IF j > i + 1 /\ Ch(j) = "}" THEN j + 1 ELSE 0
SetEscapes(class) ==
    {"d", "D", "s", "S", "w", "W"} \cup (IF class THEN {} ELSE {"b", "B"}) \cup (IF unicode THEN {"p", "P"} ELSE {})
SyntaxCharacters == {"^", "$", "\\", ".", "*", "+", "?", "(", ")", "[", "]", "{", "}", "|", "/"}
EscapeEnd(i, class) ==
    LET e     == Ch(i + 1)
        after == i + 2
        digits == RunEnd(pattern, after, Digits)
        when(ok, end) == IF ok THEN end ELSE 0
    IN CASE e = "end" -> 0
         [] e = "c" -> IF Ch(after) \in Letters THEN after + 1 ELSE when(Ch(after) # "end" /\ ~ unicode, after)
         [] e = "0" -> when(~ (unicode /\ Ch(after) \in Digits), after)
         [] e = "x" /\ unicode -> HexEnd(after, 2)
         [] e = "u" /\ unicode -> IF Ch(after) = "{" THEN CodePointEnd(after) ELSE HexEnd(after, 4)
         [] e \in Digits \ {"0"} /\ unicode ->
              when(~ class /\ Value(pattern, i + 1, digits) <= CaptureCount, digits)
         [] e = "k" /\ unicode -> BracketEnd(after, "<", ">")
         [] e \in {"p", "P"} /\ unicode -> BracketEnd(after, "{", "}")
         [] OTHER -> when(~ unicode \/ e \in SetEscapes(class) \cup {"b", "n"} \cup SyntaxCharacters
                            \/ (class /\ e = "-"), after)

\* parse_class: a range is checked in a Unicode pattern only.
AtomEnd(i)  == IF Ch(i) = "\\" THEN EscapeEnd(i, TRUE) ELSE IF Ch(i) = "end" THEN 0 ELSE i + 1
\* What the atom at i stands for: a set is "", and the escapes that name a code are "\0", below any character.
AtomCode(i) ==
    LET e == Ch(i + 1) IN
    CASE Ch(i) # "\\" -> Code[Ch(i)]
      [] e \in {"0", "x", "u", "k"} -> 0
      [] OTHER -> Code[IF e = "c" THEN Ch(i + 2) ELSE e]
IsSet(i) == Ch(i) = "\\" /\ Ch(i + 1) \in SetEscapes(TRUE)
ClassEnd(i) ==
    LET from[j \in 1..(Len(text) + 1)] ==
            LET n == AtomEnd(j)
                m == AtomEnd(n + 1)
            IN CASE Ch(j) = "]" -> j + 1
                 [] Ch(j) # "]" /\ n = 0 -> 0
                 [] Ch(j) # "]" /\ n # 0 /\ ~ (Ch(n) = "-" /\ Ch(n + 1) # "]") -> from[n]
                 [] OTHER -> IF m = 0 \/ (unicode /\ (IsSet(j) \/ IsSet(n + 1) \/ AtomCode(j) > AtomCode(n + 1)))
                             THEN 0 ELSE from[m]
    IN from[IF Ch(i + 1) = "^" THEN i + 2 ELSE i + 1]

\* braced_quantifier: "{" min ("," max?)? "}"; max is -1 when there is none.
BracedQuantifier(i) ==
    LET j == RunEnd(pattern, i + 1, Digits)
        k == RunEnd(pattern, j + 1, Digits)
        close == IF Ch(j) = "," THEN k ELSE j
    IN [ok  |-> j > i + 1 /\ Ch(close) = "}",
        min |-> Value(pattern, i + 1, j),
        max |-> IF Ch(j) # "," THEN Value(pattern, i + 1, j) ELSE IF k = j + 1 THEN -1 ELSE Value(pattern, j + 1, k),
        end |-> close + 1]

\* group_prefix: what the group at i is for a quantifier, and its length.
GroupPrefix(i) ==
    LET name == Find(pattern, i + 3, ">") IN
    CASE Ch(i + 1) # "?" -> [kind |-> "atom", len |-> 1]
      [] Ch(i + 1) = "?" /\ Ch(i + 2) = ":" -> [kind |-> "atom", len |-> 3]
      [] Ch(i + 1) = "?" /\ Ch(i + 2) \in {"=", "!"} -> [kind |-> "look", len |-> 3]
      [] Ch(i + 1) = "?" /\ Ch(i + 2) = "<" /\ Ch(i + 3) \in {"=", "!"} -> [kind |-> "assertion", len |-> 4]
      [] OTHER -> [kind |-> IF Ch(i + 2) = "<" /\ name \in (i + 4)..Len(pattern) THEN "atom" ELSE "error",
                   len |-> name - i + 1]

Checking == stage = "validate"
D        == Ch(check.pos)
\* The loop goes on at pos, after something a quantifier may follow or not.
Go(pos, quantifiable) == [check EXCEPT !.pos = pos, !.quantifiable = quantifiable, !.just = FALSE]
Check(c) == check' = c /\ UNCHANGED <<text, stage, scan, parse>>
CheckIf(ok, c) == IF ok THEN Check(c) ELSE Refuse("rejected")

CheckEscape ==
    /\ Checking /\ D = "\\"
    /\ LET end == EscapeEnd(check.pos, FALSE) IN
       CheckIf(end # 0, Go(end, IF Ch(check.pos + 1) \in {"b", "B"} THEN "assertion" ELSE "atom"))
CheckClass ==
    /\ Checking /\ D = "["
    /\ CheckIf(ClassEnd(check.pos) # 0, Go(ClassEnd(check.pos), "atom"))
CheckGroup ==
    /\ Checking /\ D = "("
    /\ LET p == GroupPrefix(check.pos) IN
       CheckIf(p.kind # "error", [Go(check.pos + p.len, "none") EXCEPT
                                    !.groups = Append(@, p.kind), !.parens = @ \cup {check.pos}])
CheckGroupEnd ==
    /\ Checking /\ D = ")"
    /\ IF check.groups = <<>> THEN Refuse("rejected")
       ELSE Check([Go(check.pos + 1, Last(check.groups)) EXCEPT
                     !.groups = Front(@), !.parens = @ \cup {check.pos}])

\* Annex B lets a lookahead be quantified.
MayRepeat == check.quantifiable = "atom" \/ (check.quantifiable = "look" /\ ~ unicode)
Repeated(pos) == [Go(pos, "none") EXCEPT !.just = TRUE]
CheckQuantifier ==
    /\ Checking /\ D \in {"*", "+", "?"}
    /\ IF D = "?" /\ check.just THEN Check([check EXCEPT !.pos = @ + 1, !.just = FALSE])
       ELSE CheckIf(MayRepeat, Repeated(check.pos + 1))
CheckBrace ==
    /\ Checking /\ D = "{"
    /\ LET q == BracedQuantifier(check.pos) IN
       IF q.ok THEN CheckIf(MayRepeat /\ (q.max = -1 \/ q.max >= q.min), Repeated(q.end))
       ELSE CheckIf(~ unicode, Go(check.pos + 1, "atom"))
CheckOther ==
    /\ Checking /\ D \notin {"\\", "[", "(", ")", "*", "+", "?", "{", "end"}
    /\ CASE D \in {"^", "$"} -> Check(Go(check.pos + 1, "assertion"))
         [] D = "|" -> Check(Go(check.pos + 1, "none"))
         [] OTHER -> CheckIf(~ (D \in {"]", "}"} /\ unicode), Go(check.pos + 1, "atom"))
CheckEnd ==
    /\ Checking /\ D = "end"
    /\ Refuse(IF check.groups = <<>> THEN "parse" ELSE "rejected")

Validate == CheckEscape \/ CheckClass \/ CheckGroup \/ CheckGroupEnd \/ CheckQuantifier \/ CheckBrace
            \/ CheckOther \/ CheckEnd

-----------------------------------------------------------------------------
\* The engine's tree.
Node(k) == [k |-> k, char |-> "", ranges |-> {}, neg |-> FALSE, kids |-> <<>>, greedy |-> TRUE, n |-> 0]
Char(c)           == [Node("char") EXCEPT !.char = c]
Class(rs, neg)    == [Node("class") EXCEPT !.ranges = rs, !.neg = neg]
Loop(k, body, greedy) == [Node(k) EXCEPT !.kids = <<body>>, !.greedy = greedy]
Group(body, n)    == [Node("group") EXCEPT !.kids = <<body>>, !.n = n]
Look(body, ahead, neg) == [Node("look") EXCEPT !.kids = <<body>>, !.greedy = ahead, !.neg = neg]
Backref(n)        == [Node("backref") EXCEPT !.n = n]
Consuming == {"char", "dot", "class"}
Asserting == {"start", "end", "boundary"}
Concat(parts) == CASE Len(parts) = 0 -> Node("empty")
                   [] Len(parts) = 1 -> parts[1]
                   [] OTHER -> [Node("concat") EXCEPT !.kids = parts]
Alt(alts) == IF Len(alts) = 1 THEN alts[1] ELSE [Node("alt") EXCEPT !.kids = alts]

\* expand_repeat.
Copies(x, n) == [i \in 1..n |-> x]
ExpandRepeat(atom, min, max, greedy) ==
    Concat(Copies(atom, min) \o
           (IF max = -1 THEN <<Loop("star", atom, greedy)>>
            ELSE Copies(Loop("quest", atom, greedy), IF max > min THEN max - min ELSE 0)))

\* parse_quant, after its atom: the node and where to go on.
QuantifierNodes == [c \in {"*", "+", "?"} |-> CASE c = "*" -> "star" [] c = "+" -> "plus" [] c = "?" -> "quest"]
TryBraces(i) == BracedQuantifier(i)
Quantified(atom, i) ==
    LET lazy(j)  == Ch(j) = "?"
        after(j) == IF lazy(j) THEN j + 1 ELSE j
        q        == TryBraces(i)
    IN CASE Ch(i) \in DOMAIN QuantifierNodes ->
              [node |-> Loop(QuantifierNodes[Ch(i)], atom, ~ lazy(i + 1)), pos |-> after(i + 1)]
         [] Ch(i) = "{" /\ q.ok ->
              [node |-> ExpandRepeat(atom, q.min, q.max, ~ lazy(q.end)), pos |-> after(q.end)]
         [] OTHER -> [node |-> atom, pos |-> i]

\* parse_class: a "]" that comes first is a member.  pos is 0 for an error.
Escaped(i) == IF Ch(i) = "n" THEN "\n" ELSE Ch(i)
ClassAt(i) ==
    LET neg   == Ch(i + 1) = "^"
        first == IF neg THEN i + 2 ELSE i + 1
        \* The member at j: its character and where it ends.
        lo(j) == IF Ch(j) = "\\" THEN Escaped(j + 1) ELSE Ch(j)
        past(j) == IF Ch(j) = "\\" THEN j + 2 ELSE j + 1
        from[j \in 1..(Len(text) + 3)] ==
            LET n == past(j)
                range == Ch(j) # "]" /\ Ch(n) = "-" /\ Ch(n + 1) # "]"
                \* An escape ends a range only when another begins it.
                upper == IF Ch(j) = "\\" THEN lo(n + 1) ELSE Ch(n + 1)
                rest  == from[CASE ~ range -> n
                                [] range /\ Ch(j) = "\\" -> past(n + 1)
                                [] OTHER -> n + 2]
            IN CASE Ch(j) = "end" \/ lo(j) = "end" -> [pos |-> 0, ranges |-> {}]
                 [] Ch(j) = "]" /\ j # first -> [pos |-> j + 1, ranges |-> {}]
                 [] OTHER -> [rest EXCEPT !.ranges = @ \cup {<<lo(j), IF range THEN upper ELSE lo(j)>>}]
    IN [node |-> Class(from[first].ranges, neg), pos |-> from[first].pos]

\* parse_escape: the node, and where it ends; 0 for an error.
Digit == {<<"0", "9">>}
Word  == {<<"a", "z">>, <<"A", "Z">>, <<"0", "9">>, <<"_", "_">>}
Space == {<<"\n", "\n">>}
EscapeSets == [c \in {"d", "D", "w", "W", "s", "S"} |->
                 Class(CASE c \in {"d", "D"} -> Digit [] c \in {"w", "W"} -> Word [] OTHER -> Space,
                       c \in {"D", "W", "S"})]
EscapeAt(i, names) ==
    LET e == Ch(i + 1)
        digits == RunEnd(pattern, i + 1, Digits)
        close  == Find(pattern, i + 3, ">")
        name   == SubSeq(pattern, i + 3, close - 1)
        known  == {n \in DOMAIN names : names[n].name = name}
        is(node) == [node |-> node, pos |-> i + 2]
    IN CASE e = "end" -> [is(Node("empty")) EXCEPT !.pos = 0]
         [] e \in DOMAIN EscapeSets -> is(EscapeSets[e])
         [] e \in {"b", "B"} -> is([Node("boundary") EXCEPT !.neg = (e = "B")])
         [] e = "k" -> IF Ch(i + 2) # "<" \/ known = {} THEN [is(Node("empty")) EXCEPT !.pos = 0]
                       ELSE [node |-> Backref(names[Min(known)].n), pos |-> close + 1]
         [] e \in Digits \ {"0"} -> [node |-> Backref(Value(pattern, i + 1, digits)), pos |-> digits]
         [] OTHER -> is(Char(Escaped(i + 1)))

\* parse_atom, except for the groups.
AtomAt(i, names) ==
    CASE Ch(i) = "\\" -> EscapeAt(i, names)
      [] Ch(i) = "[" -> ClassAt(i)
      [] Ch(i) \in {".", "^", "$"} ->
           [node |-> Node(CASE Ch(i) = "." -> "dot" [] Ch(i) = "^" -> "start" [] Ch(i) = "$" -> "end"), pos |-> i + 1]
      [] OTHER -> [node |-> Char(Ch(i)), pos |-> i + 1]

-----------------------------------------------------------------------------
\* The engine's parser: the group being read is on top of the stack, with the
\* alternatives before the last bar and the parts after it.
Open(kind, n, ahead, neg) == [kind |-> kind, n |-> n, ahead |-> ahead, neg |-> neg, alts |-> <<>>, parts |-> <<>>]
Bottom == Open("plain", 0, TRUE, FALSE)

Parsing  == stage = "parse"
P        == Ch(parse.pos)
Reading  == Last(parse.stack)
Body(f)  == Alt(Append(f.alts, Concat(f.parts)))
Closed(f) == CASE f.kind = "plain" -> Body(f)
               [] f.kind = "group" -> Group(Body(f), f.n)
               [] f.kind = "look"  -> Look(Body(f), f.ahead, f.neg)
Parse(q) == parse' = q /\ UNCHANGED <<text, stage, scan, check>>
\* The atom that ends before i joins its group, with its quantifier.
Joined(q, atom, i) ==
    LET r == Quantified(atom, i)
        f == Last(q.stack)
    IN [q EXCEPT !.stack = Append(Front(@), [f EXCEPT !.parts = Append(@, r.node)]), !.pos = r.pos]

ParseAtom ==
    /\ Parsing /\ P \notin {"end", "|", "(", ")"}
    /\ LET a == AtomAt(parse.pos, parse.names) IN
       IF a.pos = 0 THEN Refuse("uncompiled") ELSE Parse(Joined(parse, a.node, a.pos))
ParseBar ==
    /\ Parsing /\ P = "|"
    /\ Parse([parse EXCEPT !.pos = @ + 1,
              !.stack = Append(Front(@), [Reading EXCEPT !.alts = Append(@, Concat(Reading.parts)), !.parts = <<>>])])
ParseGroup ==
    /\ Parsing /\ P = "("
    /\ LET i == parse.pos
           n == parse.groups + 1
           close == Find(pattern, i + 3, ">")
           name  == SubSeq(pattern, i + 3, close - 1)
           into(f, len) == [parse EXCEPT !.stack = Append(@, f), !.pos = @ + len, !.parens = @ \cup {i}]
           capture(len) == [into(Open("group", n, TRUE, FALSE), len) EXCEPT !.groups = n]
       IN CASE Ch(i + 1) # "?" -> Parse(capture(1))
            [] Ch(i + 1) = "?" /\ Ch(i + 2) = ":" -> Parse(into(Bottom, 3))
            [] Ch(i + 1) = "?" /\ Ch(i + 2) \in {"=", "!"} -> Parse(into(Open("look", 0, TRUE, Ch(i + 2) = "!"), 3))
            [] Ch(i + 1) = "?" /\ Ch(i + 2) = "<" /\ Ch(i + 3) \in {"=", "!"} ->
                 Parse(into(Open("look", 0, FALSE, Ch(i + 3) = "!"), 4))
            [] OTHER -> Parse([capture(close + 1 - i) EXCEPT !.names = Append(@, [name |-> name, n |-> n])])
ParseGroupEnd ==
    /\ Parsing /\ P = ")"
    /\ IF Len(parse.stack) = 1 THEN Refuse("uncompiled")
       ELSE Parse(Joined([parse EXCEPT !.stack = Front(@), !.parens = @ \cup {parse.pos}], Closed(Reading), parse.pos + 1))
ParseEnd ==
    /\ Parsing /\ P = "end"
    /\ Refuse(IF Len(parse.stack) = 1 THEN "parsed" ELSE "uncompiled")
Ast == Body(Reading)

ParsePattern == ParseAtom \/ ParseBar \/ ParseGroup \/ ParseGroupEnd \/ ParseEnd

-----------------------------------------------------------------------------
SyntaxInit ==
    /\ text \in Texts
    /\ stage = "lex"
    /\ scan = [pos |-> 1, class |-> FALSE, depth |-> 0, first |-> TRUE, names |-> <<>>, refs |-> <<>>,
               bare |-> FALSE, flags |-> {}, parens |-> {}]
    /\ check = [pos |-> 1, groups |-> <<>>, quantifiable |-> "none", just |-> FALSE, parens |-> {}]
    /\ parse = [pos |-> 1, stack |-> <<Bottom>>, names |-> <<>>, groups |-> 0, parens |-> {}]
SyntaxNext == Lex \/ Validate \/ ParsePattern

-----------------------------------------------------------------------------
\* The patterns that are valid but that the engine does not compile, or reads
\* as another pattern: a class that begins with "]", a range that ends at an
\* escape, and \k with no name or with the name of a group that comes later.
BracketFirst == \E i \in DOMAIN pattern : Ch(i) = "[" /\ (Ch(i + 1) = "]" \/ (Ch(i + 1) = "^" /\ Ch(i + 2) = "]"))
RangeToEscape == \E i \in DOMAIN pattern : Ch(i) = "-" /\ Ch(i + 1) = "\\"
NameAt(i) == Part(pattern, i, Find(pattern, i, ">"))
NamedBy(i, js) == \E j \in js : Part(pattern, j, j + 2) = <<"(", "?", "<">> /\ NameAt(j + 3) = NameAt(i + 3)
ForwardName ==
    \E i \in DOMAIN pattern :
        Ch(i) = "\\" /\ Ch(i + 1) = "k" /\ NamedBy(i, i..Len(pattern)) /\ ~ NamedBy(i, 1..i)

\* The three readers agree on an accepted pattern.  It compiles when it is used:
\* otherwise test() says false and exec() null for a literal the parser let
\* through.  They find the same parentheses to be groups and the same of them to
\* capture: a group the early errors did not see would shift the numbers that
\* they checked the backreferences against.
ReadAlike ==
    /\ stage = "uncompiled" => BracketFirst \/ RangeToEscape \/ ForwardName \/ scan.bare
    /\ stage = "parsed" /\ ~ BracketFirst /\ ~ RangeToEscape =>
        /\ scan.parens = check.parens /\ check.parens = parse.parens
        /\ parse.groups = CaptureCount
        /\ scan.names = [i \in DOMAIN parse.names |-> parse.names[i].name]

=============================================================================
