---------------------------- MODULE RegexSearch -----------------------------
(***************************************************************************)
(* The search of a compiled pattern in a string (js-vm::regex), and what   *)
(* test, exec, match, search and replace make of it (js-vm::builtins).     *)
(* A pattern with lookaround or backreferences is matched by backtracking  *)
(* over its tree, any other by the Pike machine over its instructions.     *)
(*                                                                         *)
(* Positions in the string are those of its characters from 1 on, and 0 in *)
(* a capture is one not taken; a match handed out is in bytes from 0 on.   *)
(***************************************************************************)
EXTENDS RegexSyntax

CONSTANTS Inputs,    \* the strings searched
          Calls,     \* the calls made: [op, with], where with is the replacement
          Compiled(_)   \* the instructions of a tree, none for a tree that is backtracked over

ASSUME InputsAssumption == \A s \in Inputs : s \in Seq(ToSet(Characters))

VARIABLES input, call,
          program,     \* RegexProgram.insns, empty for the backtracker
          search       \* the locals of find_all, and of the matcher it runs

vars == <<text, stage, scan, check, parse, input, call, program, search>>

N        == Len(input)
Has(f)   == f \in scan.flags
NoCaptures == [s \in 0..(2 * parse.groups + 1) |-> 0]

-----------------------------------------------------------------------------
\* Shared by the two matchers.
Lower(c)  == IF c \in Between("A", "Z") THEN CHOOSE l \in {"a", "b", "d", "p", "s", "w", "z"} :
                  <<c, l>> \in {<<"A", "a">>, <<"B", "b">>, <<"D", "d">>, <<"P", "p">>, <<"S", "s">>, <<"W", "w">>, <<"Z", "z">>}
             ELSE c
Upper(c)  == IF c \in {Lower(d) : d \in Between("A", "Z")} THEN CHOOSE u \in Between("A", "Z") : Lower(u) = c ELSE c
CharEq(a, b) == a = b \/ (Has("i") /\ Lower(a) = Lower(b))
ClassMatches(c, ranges, neg) ==
    LET forms == {c} \cup (IF Has("i") THEN {Lower(c), Upper(c)} ELSE {}) IN
    neg # \E r \in ranges, f \in forms : f \in Between(r[1], r[2])
IsWord(p)     == At(input, p) \in Letters \cup Digits \cup {"_"}
IsBoundary(p) == IsWord(p - 1) # IsWord(p)
\* Whether the node or instruction x takes the character at p.
Takes(x, p) ==
    p <= N /\ CASE x.k = "char" -> CharEq(input[p], x.char)
                [] x.k = "dot" -> Has("s") \/ input[p] # "\n"
                [] x.k = "class" -> ClassMatches(input[p], x.ranges, x.neg)
\* Whether the assertion x holds at p.
Holds(x, p) ==
    CASE x.k = "start" -> p = 1 \/ (Has("m") /\ input[p - 1] = "\n")
      [] x.k = "end" -> p = N + 1 \/ (Has("m") /\ input[p] = "\n")
      [] x.k = "boundary" -> IsBoundary(p) # x.neg

\* build_match, and start_char_index: characters to bytes and back.
Byte(p)   == p - 1 + Cardinality({q \in 1..(p - 1) : input[q] = "wide"})
BuildMatch(caps) ==
    [g \in 0..parse.groups |->
        IF caps[2 * g] = 0 \/ caps[2 * g + 1] = 0 THEN <<>> ELSE <<Byte(caps[2 * g]), Byte(caps[2 * g + 1])>>]
CharIndex(byte) ==
    LET past == {p \in 1..(N + 1) : Byte(p) >= byte} IN IF past = {} THEN 1 ELSE Min(past)

-----------------------------------------------------------------------------
\* What the backtracker has yet to do: match a node, close a group, or see
\* whether the loop or lookaround that was entered at `at` goes on.
Task(do, x, at) == [do |-> do, node |-> x, at |-> at]

\* find_all and run: from byte cur on, each start in turn.  A matcher begins.
\* todo: the Pike machine's calls of add, or what the backtracker has yet to match.
Attempt(p, s, insns) ==
    [s EXCEPT !.start = p, !.pos = p, !.next = <<>>, !.seen = {}, !.i = 1, !.failing = FALSE, !.trail = <<>>,
              !.threads = <<>>, !.matched = <<>>, !.caps = NoCaptures,
              !.todo = IF insns = <<>> THEN <<Task("match", Ast, 0)>> ELSE <<[pc |-> 1, caps |-> NoCaptures]>>]

Searching == stage = "search"
Pike      == Searching /\ program # <<>>
Search(s) == search' = s /\ UNCHANGED <<text, stage, scan, check, parse, input, call, program>>
\* Mutant: no attempt at the end of the string.
TryNextShort == IF search.start < N THEN Search(Attempt(search.start + 1, search, program))
                ELSE /\ stage' = "searched"
                     /\ UNCHANGED <<text, scan, check, parse, input, call, program, search>>
TryNext   == IF search.start <= N THEN Search(Attempt(search.start + 1, search, program))
             ELSE /\ stage' = "searched"
                  /\ UNCHANGED <<text, scan, check, parse, input, call, program, search>>

Global == Has("g") /\ call.op = "replace"
\* Mutant: after an empty match the search does not step over a character.
FoundStill(caps) ==
    LET m   == BuildMatch(caps)
        s   == [search EXCEPT !.found = Append(@, m), !.prev = search.cur, !.cur = m[0][2]]
    IN IF ~ Global \/ s.cur = s.prev
       THEN /\ search' = s
            /\ stage' = "searched"
            /\ UNCHANGED <<text, scan, check, parse, input, call, program>>
       ELSE Search(Attempt(CharIndex(s.cur), s, program))
\* A match is found: with the flag g the search goes on behind it, a character
\* further when it is empty, until it makes no progress.
Found(caps) ==
    LET m    == BuildMatch(caps)
        step == IF caps[1] > caps[0] \/ caps[0] > N THEN m[0][2] ELSE Byte(caps[0] + 1)
        s    == [search EXCEPT !.found = Append(@, m), !.prev = search.cur, !.cur = step]
    IN IF ~ Global \/ s.cur = s.prev
       THEN /\ search' = s
            /\ stage' = "searched"
            /\ UNCHANGED <<text, scan, check, parse, input, call, program>>
       ELSE Search(Attempt(CharIndex(s.cur), s, program))

-----------------------------------------------------------------------------
\* The Pike machine.  add follows a thread to the next instruction that takes
\* a character; no instruction is visited twice at a position.
Pending == search.todo # <<>>
Call    == Head(search.todo)
Add ==
    /\ Pike /\ Pending
    /\ LET x == program[Call.pc]
           s    == [search EXCEPT !.todo = Tail(@), !.seen = @ \cup {Call.pc}]
           to(pc, caps)  == [pc |-> pc, caps |-> caps]
           then(calls)   == Search([s EXCEPT !.todo = calls \o @])
           new == Call.pc \in DOMAIN program \ search.seen
       IN CASE ~ new -> Search([search EXCEPT !.todo = Tail(@)])
            [] new /\ x.k \in {"jmp", "split"} ->
                 then([i \in DOMAIN x.kids |-> to(x.kids[i], Call.caps)])
            [] new /\ x.k = "save" ->
                 then(<<to(Call.pc + 1, [Call.caps EXCEPT ![x.n] = search.pos])>>)
            [] new /\ x.k = "match" -> Search([s EXCEPT !.matched = <<Call.caps>>])
            [] new /\ x.k \in Asserting ->
                 IF Holds(x, search.pos) THEN then(<<to(Call.pc + 1, Call.caps)>>) ELSE Search(s)
            [] new /\ x.k \in Consuming -> Search([s EXCEPT !.next = Append(@, Call)])

\* The next thread at this character, then the next character.  search.next
\* are the threads of the position that is being added to, search.threads those
\* before it.
StepThread ==
    /\ Pike /\ ~ Pending /\ search.i <= Len(search.threads)
    /\ LET t == search.threads[search.i]
           s == [search EXCEPT !.i = @ + 1]
       IN Search(IF Takes(program[t.pc], search.pos - 1)
                 THEN [s EXCEPT !.todo = <<[t EXCEPT !.pc = @ + 1]>>] ELSE s)
\* Mutant: the threads of the last character are kept.
StepCharacterKeeping ==
    /\ Pike /\ ~ Pending /\ search.i > Len(search.threads)
    /\ IF search.next # <<>> /\ search.pos <= N
       THEN Search([search EXCEPT !.threads = search.next, !.seen = {}, !.i = 1, !.pos = @ + 1])
       ELSE IF search.matched = <<>> THEN TryNext ELSE Found(search.matched[1])
StepCharacter ==
    /\ Pike /\ ~ Pending /\ search.i > Len(search.threads)
    /\ IF search.next # <<>> /\ search.pos <= N
       THEN Search([search EXCEPT !.threads = search.next, !.next = <<>>, !.seen = {}, !.i = 1, !.pos = @ + 1])
       ELSE IF search.matched = <<>> THEN TryNext ELSE Found(search.matched[1])

-----------------------------------------------------------------------------
\* The backtracker.  The trail holds the branches to come back to: what was
\* left to do there, where, and with which captures.
Matching == Searching /\ program = <<>> /\ ~ search.failing /\ search.todo # <<>>
T        == Head(search.todo)
X        == T.node
Inner    == X.kids[1]
Rest     == Tail(search.todo)
Here     == search.pos
Branch(todo) == [k |-> "choice", node |-> X, todo |-> todo, pos |-> Here, caps |-> search.caps, from |-> 0]
Failing  == [search EXCEPT !.failing = TRUE]
GoOn(p)  == [search EXCEPT !.todo = Rest, !.pos = p]
OnlyIf(ok, p) == Search(IF ok THEN GoOn(p) ELSE Failing)
\* First one way, and on failure the other.
Either(first, second) == Search([search EXCEPT !.todo = first, !.trail = Append(@, Branch(second))])
Matches(k) == Matching /\ T.do = "match" /\ X.k \in k

MatchLeaf ==
    /\ Matches(Consuming \cup Asserting \cup {"empty"})
    /\ CASE X.k \in Consuming -> OnlyIf(Takes(X, Here), Here + 1)
         [] X.k \in Asserting -> OnlyIf(Holds(X, Here), Here)
         [] X.k = "empty" -> OnlyIf(TRUE, Here)
MatchConcat ==
    /\ Matches({"concat"})
    /\ Search([search EXCEPT !.todo = [i \in DOMAIN X.kids |-> Task("match", X.kids[i], 0)] \o Rest])
MatchAlt ==
    /\ Matches({"alt"})
    /\ Either(<<Task("match", X.kids[1], 0)>> \o Rest, <<Task("match", Alt(Tail(X.kids)), 0)>> \o Rest)
MatchGroup ==
    /\ Matches({"group"})
    /\ Search([search EXCEPT !.todo = <<Task("match", Inner, 0), Task("close", X, 0)>> \o Rest,
                             !.caps[2 * X.n] = Here])
CloseGroup ==
    /\ Matching /\ T.do = "close"
    /\ Search([GoOn(Here) EXCEPT !.caps[2 * X.n + 1] = Here])

\* A star goes on after a turn that took something; a plus matches once first.
Turn(then) == <<Task("match", Inner, 0), Task(then, X, Here)>> \o Rest
MatchLoop ==
    /\ Matches({"star", "plus", "quest"})
    /\ CASE X.k = "plus" -> Search([search EXCEPT !.todo = Turn("once")])
         [] X.k # "plus" ->
              LET body == IF X.k = "star" THEN Turn("again") ELSE <<Task("match", Inner, 0)>> \o Rest IN
              IF X.greedy THEN Either(body, Rest) ELSE Either(Rest, body)
EndTurn ==
    /\ Matching /\ T.do \in {"again", "once"}
    /\ CASE Here > T.at -> Search([search EXCEPT !.todo = <<Task("match", Loop("star", Inner, X.greedy), 0)>> \o Rest])
         [] ~ Here > T.at /\ T.do = "once" -> Search(GoOn(Here))
         [] ~ Here > T.at /\ T.do = "again" -> Search(Failing)

\* A group that is referred to from inside, in its second turn, begins behind
\* where it ended: the length underflows.
MatchBackref ==
    /\ Matches({"backref"})
    /\ LET taken == X.n <= parse.groups /\ search.caps[2 * X.n] # 0 /\ search.caps[2 * X.n + 1] # 0
           from  == search.caps[2 * X.n]
           to    == search.caps[2 * X.n + 1]
           end   == Here + to - from
       IN CASE X.n > parse.groups -> Search(Failing)
            [] ~ X.n > parse.groups /\ ~ taken -> Search(GoOn(Here))
            [] taken /\ to < from ->
                 /\ stage' = "panic"
                 /\ UNCHANGED <<text, scan, check, parse, input, call, program, search>>
            [] taken /\ ~ to < from ->
                 OnlyIf(end <= N + 1 /\ SubSeq(input, Here, end - 1) = SubSeq(input, from, to - 1), end)

\* Lookaround: ahead from here; behind, from a first position on, as far as
\* one from which the pattern ends here.
IsAhead(x) == x.greedy
Trial(e, trail) == [search EXCEPT !.todo = <<Task("match", e.node.kids[1], 0), Task("accept", e.node, 0)>>,
                                  !.pos = e.from, !.caps = e.caps, !.failing = FALSE, !.trail = Append(trail, e)]
MatchLook ==
    /\ Matches({"look"})
    /\ LET e == [Branch(Rest) EXCEPT !.k = "look"] IN
       Search(Trial([e EXCEPT !.from = IF IsAhead(X) \/ ~ X.neg THEN Here ELSE 1], search.trail))
\* The trial e missed: the next one, or, after the last, the verdict.
\* Mutant: what was captured in a branch that failed is kept.
PassedKeeping(e, caps, trail) == [search EXCEPT !.todo = e.todo, !.pos = e.pos, !.failing = FALSE, !.trail = trail]
Passed(e, caps, trail) == [search EXCEPT !.todo = e.todo, !.pos = e.pos, !.caps = caps, !.failing = FALSE, !.trail = trail]
Failed(trail)          == [search EXCEPT !.failing = TRUE, !.trail = trail]
Missed(e, trail) ==
    LET next == IF e.node.neg THEN e.from + 1 ELSE e.from - 1 IN
    IF ~ IsAhead(e.node) /\ next \in 1..e.pos THEN Trial([e EXCEPT !.from = next], trail)
    ELSE IF e.node.neg THEN Passed(e, e.caps, trail) ELSE Failed(trail)
\* The pattern of a lookaround matched; its own branches are given up.
Accept ==
    /\ Matching /\ T.do = "accept"
    /\ LET l     == Max({i \in DOMAIN search.trail : search.trail[i].k = "look"})
           e     == search.trail[l]
           trail == SubSeq(search.trail, 1, l - 1)
       IN Search(CASE ~ IsAhead(X) /\ Here # e.pos -> Missed(e, trail)
                   [] (IsAhead(X) \/ Here = e.pos) /\ X.neg -> Failed(trail)
                   [] OTHER -> Passed(e, search.caps, trail))

Backtrack ==
    /\ Searching /\ search.failing
    /\ IF search.trail = <<>> THEN TryNext
       ELSE LET e == Last(search.trail)
                trail == Front(search.trail)
            IN Search(IF e.k = "look" THEN Missed(e, trail) ELSE Passed(e, e.caps, trail))
MatchDone ==
    /\ Searching /\ program = <<>> /\ ~ search.failing /\ search.todo = <<>>
    /\ Found([search.caps EXCEPT ![0] = search.start, ![1] = Here])
-----------------------------------------------------------------------------
\* compile_regex_obj: a call compiles the pattern and starts at the beginning,
\* whatever lastIndex says.
Compile ==
    /\ stage = "parsed"
    /\ input' \in Inputs /\ call' \in Calls
    /\ program' = Compiled(Ast)
    /\ search' = Attempt(1, search, Compiled(Ast))
    /\ stage' = "search"
    /\ UNCHANGED <<text, scan, check, parse>>

\* The part of the input between two bytes; the i-th group of the match m.
Slice(from, to) == LET at(b) == CHOOSE p \in 1..(N + 1) : Byte(p) = b IN SubSeq(input, at(from), at(to) - 1)
Capture(m, g)   == IF m[g] = <<>> THEN <<>> ELSE Slice(m[g][1], m[g][2])

\* test, exec and match, and search.
Answer ==
    /\ stage = "searched" /\ call.op # "replace"
    /\ LET m == search.found[1]
           none == search.found = <<>>
       IN search' = [search EXCEPT !.answer =
            CASE call.op = "test" -> <<~ none>>
              [] call.op = "exec" -> IF none THEN <<>> ELSE [g \in 1..Cardinality(DOMAIN m) |-> <<m[g - 1] # <<>>, Capture(m, g - 1)>>]
              [] call.op = "search" -> <<IF none THEN -1 ELSE m[0][1]>>]
    /\ stage' = "answered"
    /\ UNCHANGED <<text, scan, check, parse, input, call, program>>

\* substitute_replacement: the template from its i-th character on.
Substituted(m) ==
    LET w == call.with
        Named(name) == LET g == {n \in DOMAIN parse.names : parse.names[n].name = name} IN
                       IF g = {} THEN <<>> ELSE Capture(m, parse.names[Min(g)].n)
        from[i \in 1..(Len(w) + 3)] ==
            LET c     == At(w, i + 1)
                close == Find(w, i + 2, ">")
                two   == Value(w, i + 1, i + 3)
                one   == Value(w, i + 1, i + 2)
            IN CASE i > Len(w) -> <<>>
                 [] i <= Len(w) /\ (w[i] # "$" \/ c = "end") -> <<w[i]>> \o from[i + 1]
                 [] OTHER ->
                      CASE c = "$" -> <<"$">> \o from[i + 2]
                        [] c = "&" -> Capture(m, 0) \o from[i + 2]
                        [] c = "backquote" -> Slice(0, m[0][1]) \o from[i + 2]
                        [] c = "'" -> Slice(m[0][2], Byte(N + 1)) \o from[i + 2]
                        [] c = "<" -> IF close > Len(w) THEN <<"$">> \o from[i + 1]
                                      ELSE Named(SubSeq(w, i + 2, close - 1)) \o from[close + 1]
                        [] c \in Digits ->
                             IF At(w, i + 2) \in Digits /\ two <= parse.groups /\ m[two] # <<>>
                             THEN Capture(m, two) \o from[i + 3]
                             ELSE (IF one <= parse.groups THEN Capture(m, one) ELSE <<>>) \o from[i + 2]
                        [] OTHER -> <<"$", c>> \o from[i + 2]
    IN from[1]

\* str_replace, a match at a time.  A function is called for each; it may throw.
Replace ==
    /\ stage = "searched" /\ call.op = "replace" /\ search.replaced < Len(search.found)
    /\ LET m == search.found[search.replaced + 1]
           with(r) == search' = [search EXCEPT !.replaced = @ + 1, !.last = m[0][2],
                                               !.answer = @ \o Slice(search.last, m[0][1]) \o r]
       IN IF call.with = <<"function">>
          THEN \/ with(<<"x">>) /\ UNCHANGED stage
               \/ stage' = "thrown" /\ UNCHANGED search
          ELSE with(Substituted(m)) /\ UNCHANGED stage
    /\ UNCHANGED <<text, scan, check, parse, input, call, program>>
EndReplace ==
    /\ stage = "searched" /\ call.op = "replace" /\ search.replaced = Len(search.found)
    /\ search' = [search EXCEPT !.answer = @ \o Slice(search.last, Byte(N + 1))]
    /\ stage' = "answered"
    /\ UNCHANGED <<text, scan, check, parse, input, call, program>>

-----------------------------------------------------------------------------
Init ==
    /\ SyntaxInit
    /\ input = <<>> /\ call = [op |-> "none", with |-> <<>>]
    /\ program = <<>>
    /\ search = [start |-> 0, pos |-> 0, todo |-> <<>>, next |-> <<>>, seen |-> {}, i |-> 1, threads |-> <<>>,
                 matched |-> <<>>, failing |-> FALSE, trail |-> <<>>, caps |-> <<>>, found |-> <<>>,
                 cur |-> 0, prev |-> -1, replaced |-> 0, last |-> 0, answer |-> <<>>]

Read   == SyntaxNext /\ UNCHANGED <<input, call, program, search>>
Ended  == stage \in {"rejected", "uncompiled", "panic", "thrown", "answered"} /\ UNCHANGED vars
Next ==
    \/ Read \/ Compile \/ Add \/ StepThread \/ StepCharacter
    \/ MatchLeaf \/ MatchConcat \/ MatchAlt \/ MatchGroup \/ CloseGroup \/ MatchLoop \/ EndTurn
    \/ MatchBackref \/ MatchLook \/ Accept \/ Backtrack \/ MatchDone
    \/ Answer \/ Replace \/ EndReplace \/ Ended
Spec == Init /\ [][Next]_vars

-----------------------------------------------------------------------------
\* What the Pike machine is to find.  A thread at instruction c[1] and position
\* c[2] moves to these; from position p on, threads are at these.
Threads == (1..Len(program)) \X (1..(N + 1))
Moves(c) ==
    LET x    == program[c[1]]
        p    == c[2]
        next == c[1] + 1
    IN IF x.k \in {"jmp", "split"} THEN ToSet(x.kids) \X {p}
       ELSE IF x.k = "save" \/ (x.k \in Asserting /\ Holds(x, p)) THEN {<<next, p>>}
       ELSE IF x.k \in Consuming /\ Takes(x, p) THEN {<<next, p + 1>>}
       ELSE {}
Onward(cs) == cs \cup UNION {Moves(c) : c \in cs}
Reached(p) ==
    LET steps == Cardinality(Threads)
        from[k \in 0..steps] == IF k = 0 THEN {<<1, p>>} ELSE Onward(from[k - 1])
    IN from[steps]
\* Where matches from p end.
Ends(p) == LET reached == Reached(p) IN {q \in 1..(N + 1) : <<Len(program), q>> \in reached}

\* Only the last instruction matches, the first saves where the match begins
\* and the one before the last where it ends; none is left to be patched: a
\* jump stays between the two.
Insns == [k : {"jmp", "split", "save", "match"} \cup Consuming \cup Asserting, kids : Seq(Nat), n : Nat,
          char : ToSet(Characters) \cup {""}, ranges : SUBSET (ToSet(Characters) \X ToSet(Characters)),
          neg : BOOLEAN, greedy : BOOLEAN]
WellCompiled ==
    program # <<>> =>
        /\ program \in Seq(Insns) /\ Len(program) >= 3
        /\ \A pc \in DOMAIN program :
             LET x == program[pc] IN
             /\ x.k \in {"jmp", "split"} => \A i \in DOMAIN x.kids : x.kids[i] \in 2..(Len(program) - 1)
             /\ x.k = "match" <=> pc = Len(program)
             /\ x.k = "save" /\ x.n = 0 <=> pc = 1
             /\ x.k = "save" /\ x.n = 1 <=> pc = Len(program) - 1

\* The Pike machine keeps one thread for an instruction, and so takes a time
\* that is linear in the string, as its comment promises.
OneThreadPerInstruction ==
    LET once(threads) == \A i, j \in DOMAIN threads : threads[i].pc = threads[j].pc => i = j
    IN program # <<>> => once(search.next) /\ once(search.threads)

\* The Pike machine's first match begins where the leftmost one does and ends
\* where the longest from there does, and it finds one if there is one.
Largest(S) == CHOOSE x \in S : \A y \in S : y <= x
Spans(m, p) == m[0] = <<Byte(p), Byte(Largest(Ends(p)))>>
IsFirst(m) == \E p \in 1..(N + 1) : /\ Ends(p) # {} /\ Spans(m, p)
                                    /\ \A q \in 1..(p - 1) : Ends(q) = {}
LeftmostLongest ==
    stage = "searched" /\ program # <<>> =>
        IF search.found = <<>> THEN \A p \in 1..(N + 1) : Ends(p) = {} ELSE IsFirst(search.found[1])

\* What a step of the Pike machine that ends an attempt makes of it.
AttemptDecided ==
    Pike /\ (stage' # stage \/ search'.start # search.start \/ search'.found # search.found) =>
      IF Ends(search.start) = {} THEN search'.found = search.found
      ELSE /\ Len(search'.found) = Len(search.found) + 1
           /\ Spans(Last(search'.found), search.start)
\* An attempt is given up only if no match begins there, and else it reports
\* the longest, in whatever order the threads came to it; so does each attempt
\* of a search for all matches.
AttemptsDecided == [][AttemptDecided]_vars

=============================================================================
