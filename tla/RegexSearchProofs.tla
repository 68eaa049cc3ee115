------------------------- MODULE RegexSearchProofs --------------------------
(***************************************************************************)
(* The Pike machine of RegexSearch finds what there is to find: in every   *)
(* string, with every program that is well compiled, an attempt reports    *)
(* the longest match that begins at its start, or that there is none.      *)
(*                                                                         *)
(* Reached(p) is the least set of threads that has the start and that no   *)
(* thread leaves (ReachedIsLeast).  The machine goes through it a position *)
(* at a time.  What it has visited is in that set (Visited), what follows  *)
(* from what it has visited is visited or about to be (Followed), and the  *)
(* lists hold the threads that take a character (Queued).  So when nothing *)
(* is left to do at a position, what was visited there is all of Reached   *)
(* there (Complete): the rest of the set would otherwise be a smaller one  *)
(* that no thread leaves.                                                  *)
(***************************************************************************)
EXTENDS RegexSearch, FiniteSetTheorems, WellFoundedInduction, TLAPS

BeforeUse == {"lex", "validate", "parse", "parsed"}
ParserFields == {"pos", "stack", "names", "groups", "parens"}
Fields == {"start", "pos", "todo", "next", "seen", "i", "threads", "matched", "failing", "trail", "caps",
           "found", "cur", "prev", "replaced", "last", "answer"}

\* What there is before a pattern is compiled.
Fresh ==
    /\ program = <<>>
    /\ DOMAIN parse = ParserFields /\ parse.groups \in Nat
    /\ DOMAIN search = Fields /\ search.found = <<>>

\* The readers of a pattern leave the search alone; only the last has groups.
LEMMA LexKeeps ==
    ASSUME Lex PROVE stage \in BeforeUse /\ parse' = parse
  <1>1. CASE LexEscape
    BY <1>1 DEF LexEscape, Lexing, BeforeUse, Scan, Refuse
  <1>2. CASE LexClass \/ LexGroup \/ LexGroupEnd \/ LexOther
    BY <1>2 DEF LexClass, LexGroup, LexGroupEnd, LexOther, Lexing, BeforeUse, Scan, Refuse
  <1>3. CASE LexEnd
    BY <1>3 DEF LexEnd, Lexing, BeforeUse, Refuse
  <1> QED BY <1>1, <1>2, <1>3 DEF Lex

LEMMA ValidateKeeps ==
    ASSUME Validate PROVE stage \in BeforeUse /\ parse' = parse
  BY DEF Validate, CheckEscape, CheckClass, CheckGroup, CheckGroupEnd, CheckQuantifier, CheckBrace, CheckOther,
         CheckEnd, Checking, BeforeUse, Check, CheckIf, Refuse

LEMMA ParseKeeps ==
    ASSUME ParsePattern, DOMAIN parse = ParserFields, parse.groups \in Nat
    PROVE  stage \in BeforeUse /\ DOMAIN parse' = ParserFields /\ parse'.groups \in Nat
  <1>1. CASE ParseAtom
    BY <1>1 DEF ParseAtom, Parsing, BeforeUse, Refuse, Parse, Joined, ParserFields
  <1>2. CASE ParseBar
    BY <1>2 DEF ParseBar, Parsing, BeforeUse, Parse, ParserFields
  <1>3. CASE ParseGroup
    <2> DEFINE into(f, len) == [parse EXCEPT !.stack = Append(@, f), !.pos = @ + len, !.parens = @ \cup {parse.pos}]
               capture(len) == [into(Open("group", parse.groups + 1, TRUE, FALSE), len) EXCEPT !.groups = parse.groups + 1]
               named(len, v) == [capture(len) EXCEPT !.names = v]
               Good(q) == DOMAIN q = ParserFields /\ q.groups \in Nat
    <2>1. ASSUME NEW f, NEW len PROVE Good(into(f, len))
      <3> DEFINE a == Append(parse.stack, f)
                 b == parse.pos + len
                 c == parse.parens \cup {parse.pos}
      <3>1. into(f, len) = [parse EXCEPT !.stack = a, !.pos = b, !.parens = c]
        OBVIOUS
      <3> HIDE DEF a, b, c
      <3>2. Good([parse EXCEPT !.stack = a, !.pos = b, !.parens = c])
        BY DEF ParserFields
      <3> QED BY <3>1, <3>2
    <2>2. ASSUME NEW len PROVE Good(capture(len))
      <3> DEFINE q == into(Open("group", parse.groups + 1, TRUE, FALSE), len)
      <3>1. Good(q)
        BY <2>1
      <3> HIDE DEF q
      <3>2. Good([q EXCEPT !.groups = parse.groups + 1])
        BY <3>1 DEF ParserFields
      <3> QED BY <3>2 DEF q
    <2>3. ASSUME NEW len, NEW v PROVE Good(named(len, v))
      <3> DEFINE q == capture(len)
      <3>1. Good(q)
        BY <2>2
      <3> HIDE DEF q
      <3>2. Good([q EXCEPT !.names = v])
        BY <3>1 DEF ParserFields
      <3> QED BY <3>2 DEF q
    <2>4. \/ \E f, len : parse' = into(f, len)
          \/ \E len : parse' = capture(len)
          \/ \E len, v : parse' = named(len, v)
      <3> DEFINE i == parse.pos
                 close == Find(pattern, i + 3, ">")
                 v == Append(capture(close + 1 - i).names, [name |-> SubSeq(pattern, i + 3, close - 1), n |-> parse.groups + 1])
                 is(k, c) == Ch(i + k) = c
      <3>1. CASE ~ is(1, "?")
        <4>1. parse' = capture(1)
          BY <1>3, <3>1, Zenon DEF ParseGroup, Parse
        <4> QED BY <4>1, Zenon
      <3>2. CASE is(1, "?") /\ is(2, ":")
        <4>1. parse' = into(Bottom, 3)
          BY <1>3, <3>2, Zenon DEF ParseGroup, Parse
        <4> QED BY <4>1, Zenon
      <3>3. CASE is(1, "?") /\ Ch(i + 2) \in {"=", "!"}
        <4>1. parse' = into(Open("look", 0, TRUE, Ch(i + 2) = "!"), 3)
          BY <1>3, <3>3, Zenon DEF ParseGroup, Parse
        <4> QED BY <4>1, Zenon
      <3>4. CASE is(1, "?") /\ is(2, "<") /\ Ch(i + 3) \in {"=", "!"}
        <4>1. parse' = into(Open("look", 0, FALSE, Ch(i + 3) = "!"), 4)
          BY <1>3, <3>4, Zenon DEF ParseGroup, Parse
        <4> QED BY <4>1, Zenon
      <3>5. CASE is(1, "?") /\ ~ is(2, ":") /\ Ch(i + 2) \notin {"=", "!"}
                 /\ ~ (is(2, "<") /\ Ch(i + 3) \in {"=", "!"})
        <4>1. parse' = named(close + 1 - i, v)
          BY <1>3, <3>5, Zenon DEF ParseGroup, Parse
        <4> QED BY <4>1, Zenon
      <3> QED BY <3>1, <3>2, <3>3, <3>4, <3>5
    <2> HIDE DEF into, capture, named, Good
    <2>5. Good(parse')
      BY <2>1, <2>2, <2>3, <2>4
    <2> QED BY <1>3, <2>5 DEF ParseGroup, Parsing, BeforeUse, Good
  <1>4. CASE ParseGroupEnd
    BY <1>4 DEF ParseGroupEnd, Parsing, BeforeUse, Refuse, Parse, Joined, ParserFields
  <1>5. CASE ParseEnd
    BY <1>5 DEF ParseEnd, Parsing, BeforeUse, Refuse
  <1> QED BY <1>1, <1>2, <1>3, <1>4, <1>5 DEF ParsePattern

LEMMA ReadKeeps ==
    ASSUME Read, Fresh PROVE Fresh'
  <1>1. stage \in BeforeUse /\ DOMAIN parse' = ParserFields /\ parse'.groups \in Nat
    BY LexKeeps, ValidateKeeps, ParseKeeps DEF Read, SyntaxNext, Fresh
  <1> QED BY <1>1 DEF Read, Fresh

-----------------------------------------------------------------------------
\* A nonempty set of natural numbers has a least member. A proof by induction
\* below takes the least number for which its statement fails.
LEMMA LeastNat ==
    ASSUME NEW ks \in SUBSET Nat, ks # {}
    PROVE  \E n \in ks : \A m \in ks : n <= m
  <1>1. \E n \in ks : \A m \in ks : <<m, n>> \notin OpToRel(<, Nat)
    BY NatLessThanWellFounded, WFMin
  <1>2. PICK n \in ks : \A m \in ks : <<m, n>> \notin OpToRel(<, Nat)
    BY <1>1
  <1>3. \A m \in ks : ~ (m < n)
    BY <1>2 DEF OpToRel
  <1> QED BY <1>3

\* Induction, over a set of natural numbers.
LEMMA NatSteps ==
    ASSUME NEW ks, 0 \in ks, \A k \in Nat : k \in ks => k + 1 \in ks
    PROVE  \A n \in Nat : n \in ks
  <1> DEFINE U == {i \in Nat : i \notin ks}
  <1>1. SUFFICES ASSUME U # {} PROVE FALSE
    OBVIOUS
  <1>2. PICK i \in U : \A j \in U : i <= j
    <2>1. U \in SUBSET Nat
      OBVIOUS
    <2> HIDE DEF U
    <2> QED BY <1>1, <2>1, LeastNat
  <1>3. i # 0
    BY <1>2
  <1>4. i - 1 \in Nat /\ ~ (i <= i - 1) /\ (i - 1) + 1 = i
    BY <1>2, <1>3
  <1>5. i - 1 \notin U
    BY <1>2, <1>4
  <1> QED BY <1>2, <1>4, <1>5

-----------------------------------------------------------------------------
\* What Reached has found after up to n steps, for each number of steps.
Stages(p, n, r) == r = [k \in 0..n |-> IF k = 0 THEN {<<1, p>>} ELSE Onward(r[k - 1])]

\* There are such sets, so the recursive function in Reached is one.
LEMMA StagesExist ==
    ASSUME NEW p, NEW n \in Nat
    PROVE  \E r : Stages(p, n, r)
  <1> DEFINE ks == {i \in Nat : \E r : Stages(p, i, r)}
  <1>1. 0 \in ks
    <2>1. Stages(p, 0, [k \in 0..0 |-> {<<1, p>>}])
      BY DEF Stages
    <2> QED BY <2>1
  <1>2. ASSUME NEW j \in Nat, j \in ks
        PROVE  j + 1 \in ks
    <2>1. PICK r : Stages(p, j, r)
      BY <1>2
    <2> DEFINE More(q, k) == IF k = 0 THEN {<<1, p>>} ELSE Onward(q[k - 1])
               s == [k \in 0..(j + 1) |-> More(r, k)]
    <2>2. \A k \in 0..j : s[k] = r[k]
      <3> TAKE k \in 0..j
      <3>1. r[k] = More(r, k)
        BY <2>1 DEF Stages
      <3>2. k \in 0..(j + 1)
        OBVIOUS
      <3> QED BY <3>1, <3>2
    <2>3. \A k \in 0..(j + 1) : More(r, k) = More(s, k)
      <3> TAKE k \in 0..(j + 1)
      <3>1. CASE k = 0
        BY <3>1
      <3>2. CASE k # 0
        <4>1. k - 1 \in 0..j
          BY <3>2
        <4>2. s[k - 1] = r[k - 1]
          BY <2>2, <4>1
        <4> HIDE DEF s
        <4> QED BY <3>2, <4>2
      <3> QED BY <3>1, <3>2
    <2>4. s = [k \in 0..(j + 1) |-> More(s, k)]
      BY <2>3
    <2>5. Stages(p, j + 1, s)
      <3> HIDE DEF s
      <3> QED BY <2>4 DEF Stages
    <2> QED BY <2>5
  <1> HIDE DEF ks
  <1>3. n \in ks
    BY <1>1, <1>2, NatSteps
  <1> QED BY <1>3 DEF ks

\* A set that no thread leaves.
Contained(cs) == \A c \in cs : Moves(c) \subseteq cs

\* A program as it is compiled, and a string.
Sane ==
    /\ program # <<>> /\ WellCompiled
    /\ input \in Seq(ToSet(Characters))

\* A thread stays in the program and in the string.
LEMMA MovesInside ==
    ASSUME Sane, NEW c \in Threads
    PROVE  Moves(c) \subseteq Threads
  <1> DEFINE x == program[c[1]]
             p == c[2]
             L == Len(program)
  <1>1. L \in Nat /\ N \in Nat /\ c[1] \in 1..L /\ p \in 1..(N + 1) /\ DOMAIN program = 1..L
        /\ x \in Insns
    BY DEF Sane, WellCompiled, Threads, N
  <1>2. /\ x.k \in {"jmp", "split"} => \A i \in DOMAIN x.kids : x.kids[i] \in 2..(L - 1)
        /\ x.k = "match" <=> c[1] = L
    BY <1>1 DEF Sane, WellCompiled
  <1>3. Takes(x, p) => p <= N
    BY DEF Takes
  <1>4. x.k \in {"jmp", "split"} => ToSet(x.kids) \subseteq 1..L
    BY <1>1, <1>2 DEF ToSet
  <1>5. c[1] # L => c[1] + 1 \in 1..L
    BY <1>1
  <1>6. p <= N => p + 1 \in 1..(N + 1)
    BY <1>1
  <1> HIDE DEF L, p
  <1>7. c[1] # L => x.k # "match"
    BY <1>2
  <1>8. x.k \in Asserting \cup Consuming \cup {"save"} => c[1] + 1 \in 1..L
    BY <1>2, <1>5 DEF Asserting, Consuming
  <1> HIDE DEF x
  <1>9. \A d \in Moves(c) : d \in (1..L) \X (1..(N + 1))
    <2>1. CASE x.k \in {"jmp", "split"}
      BY <1>1, <1>4, <2>1 DEF Moves, p, x
    <2>2. CASE x.k \notin {"jmp", "split"}
      BY <1>1, <1>3, <1>6, <1>8, <2>2 DEF Moves, p, x
    <2> QED BY <2>1, <2>2
  <1> QED BY <1>9 DEF Threads, L

\* There are as many threads as instructions times positions.
LEMMA ThreadsFinite == ASSUME Sane PROVE IsFiniteSet(Threads)
  <1>1. Len(program) \in Nat /\ N \in Nat
    BY DEF Sane, WellCompiled, N
  <1>2. IsFiniteSet(1..Len(program)) /\ IsFiniteSet(1..(N + 1))
    BY <1>1, FS_Interval
  <1> QED BY <1>2, FS_Product DEF Threads

\* Reached is the least set with the start that no thread leaves: if a step adds
\* nothing no thread does, and otherwise there is an element more.
LEMMA ReachedIsLeast ==
    ASSUME Sane, NEW p \in 1..(N + 1)
    PROVE  /\ Reached(p) \subseteq Threads /\ <<1, p>> \in Reached(p)
           /\ Contained(Reached(p))
           /\ \A ds : <<1, p>> \in ds /\ Contained(ds) => Reached(p) \subseteq ds
  <1> DEFINE n == Cardinality(Threads)
             c == CHOOSE r : Stages(p, n, r)
  <1>1. n \in Nat /\ IsFiniteSet(Threads)
    BY ThreadsFinite, FS_CardinalityType
  <1>2. PICK r : Stages(p, n, r) /\ Reached(p) = r[n]
    <2>1. \E r : Stages(p, n, r)
      BY <1>1, StagesExist
    <2>2. Stages(p, n, c)
      BY <2>1
    <2>3. Reached(p) = c[n]
      BY DEF Reached, Stages
    <2> QED BY <2>2, <2>3
  <1> HIDE DEF n
  <1>3. r[0] = {<<1, p>>}
    <2>1. 0 \in 0..n
      BY <1>1
    <2> QED BY <1>2, <2>1 DEF Stages
  <1>4. \A k \in Nat : k + 1 <= n => r[k + 1] = Onward(r[k])
    <2> TAKE k \in Nat
    <2> HAVE k + 1 <= n
    <2>1. k + 1 \in 0..n /\ k + 1 # 0 /\ (k + 1) - 1 = k
      BY <1>1
    <2>2. r[k + 1] = Onward(r[(k + 1) - 1])
      BY <1>2, <2>1 DEF Stages
    <2> QED BY <2>1, <2>2
  <1> DEFINE Good(k) ==
               /\ r[k] \in SUBSET Threads /\ <<1, p>> \in r[k]
               /\ \A ds : <<1, p>> \in ds /\ Contained(ds) => r[k] \subseteq ds
               /\ Contained(r[k]) \/ k <= Cardinality(r[k])
             ks == {k \in Nat : k <= n => Good(k)}
  <1>5. 0 \in ks
    <2>1. <<1, p>> \in Threads
      BY DEF Threads, Sane, WellCompiled
    <2>2. IsFiniteSet(r[0]) /\ Cardinality(r[0]) \in Nat
      BY <1>3, FS_Singleton, FS_CardinalityType
    <2>3. Good(0)
      BY <1>3, <2>1, <2>2
    <2> QED BY <2>3
  <1>6. ASSUME NEW k \in Nat, k \in ks
        PROVE  k + 1 \in ks
    <2> SUFFICES ASSUME k + 1 <= n PROVE Good(k + 1)
      OBVIOUS
    <2>1. Good(k)
      BY <1>1, <1>6
    <2>2. r[k + 1] = Onward(r[k])
      BY <1>4
    <2>3. r[k] \subseteq r[k + 1] /\ \A x \in r[k] : Moves(x) \subseteq r[k + 1]
      BY <2>2 DEF Onward
    <2>4. \A y \in r[k + 1] : y \in r[k] \/ \E x \in r[k] : y \in Moves(x)
      BY <2>2 DEF Onward
    <2>5. r[k + 1] \in SUBSET Threads
      BY <2>1, <2>4, MovesInside
    <2>6. \A ds : <<1, p>> \in ds /\ Contained(ds) => r[k + 1] \subseteq ds
      BY <2>1, <2>4 DEF Contained
    <2>7. Contained(r[k + 1]) \/ k + 1 <= Cardinality(r[k + 1])
      <3>1. CASE Contained(r[k])
        BY <2>3, <2>4, <3>1 DEF Contained
      <3>2. CASE ~ Contained(r[k])
        <4>1. r[k + 1] # r[k]
          BY <2>3, <3>2 DEF Contained
        <4>2. IsFiniteSet(r[k + 1])
          BY <1>1, <2>5, FS_Subset
        <4>3. Cardinality(r[k]) <= Cardinality(r[k + 1]) /\ Cardinality(r[k]) # Cardinality(r[k + 1])
          BY <2>3, <4>1, <4>2, FS_Subset
        <4>4. Cardinality(r[k]) \in Nat /\ Cardinality(r[k + 1]) \in Nat
          BY <1>1, <2>1, <4>2, FS_Subset, FS_CardinalityType
        <4>5. k <= Cardinality(r[k])
          BY <2>1, <3>2
        <4> QED BY <4>3, <4>4, <4>5
      <3> QED BY <3>1, <3>2
    <2> QED BY <2>1, <2>3, <2>5, <2>6, <2>7
  <1>7. Good(n)
    <2> HIDE DEF ks
    <2>1. n \in ks
      BY <1>1, <1>5, <1>6, NatSteps
    <2> HIDE DEF Good
    <2> QED BY <1>1, <2>1 DEF ks
  <1>8. Contained(r[n])
    <2>1. CASE n <= Cardinality(r[n])
      <3>1. Cardinality(r[n]) <= n /\ (n = Cardinality(r[n]) => Threads = r[n])
        BY <1>1, <1>7, FS_Subset DEF n
      <3>2. Cardinality(r[n]) \in Nat
        BY <1>1, <1>7, FS_Subset, FS_CardinalityType
      <3>3. r[n] = Threads
        BY <1>1, <2>1, <3>1, <3>2
      <3> QED BY <3>3, MovesInside DEF Contained
    <2> QED BY <1>7, <2>1
  <1> QED BY <1>2, <1>7, <1>8

-----------------------------------------------------------------------------
Addresses == 1..Len(program)
Slots     == 0..(2 * parse.groups + 1)
Captures  == [Slots -> Nat]
Runs      == [pc : Addresses, caps : Captures]
Results   == {BuildMatch(caps) : caps \in Captures}

Once(threads) == \A i, j \in DOMAIN threads : threads[i].pc = threads[j].pc => i = j
Pcs(threads)  == {c.pc : c \in ToSet(threads)}
Consumers(S)  == {pc \in S : program[pc].k \in Consuming}
Live(s, q)    == {pc \in Addresses : <<pc, q>> \in Reached(s.start)}
Known(s)      == s.seen \cup Pcs(s.todo)

Typed(s) ==
    /\ DOMAIN s = Fields
    /\ s.start \in 1..(N + 1) /\ s.pos \in s.start..(N + 1) /\ ~ s.failing
    /\ s.todo \in Seq(Runs) /\ s.next \in Seq(Runs) /\ s.threads \in Seq(Runs)
    /\ s.seen \subseteq Addresses /\ s.i \in 1..(Len(s.threads) + 1)

\* Nothing is visited that is not reached.
Visited(s) == Known(s) \subseteq Live(s, s.pos)

\* The lists hold the consumers.
Queued(s) ==
    /\ Pcs(s.next) = Consumers(s.seen) /\ Once(s.next)
    /\ Pcs(s.threads) = Consumers(IF s.pos = s.start THEN {} ELSE Live(s, s.pos - 1)) /\ Once(s.threads)

\* What was visited is followed.
Followed(s) ==
    /\ s.pos = s.start => 1 \in Known(s)
    /\ \A pc \in s.seen : program[pc].k \notin Consuming => \A d \in Moves(<<pc, s.pos>>) : d[1] \in Known(s)
    /\ \A j \in 1..(s.i - 1) : Takes(program[s.threads[j].pc], s.pos - 1) => s.threads[j].pc + 1 \in Known(s)

Captured(s) ==
    /\ \A c \in ToSet(s.todo) \cup ToSet(s.next) \cup ToSet(s.threads) : c.pc # 1 => c.caps[0] = s.start
    /\ \A c \in ToSet(s.todo) : c.pc = Len(program) => c.caps[1] = s.pos

Longest(s) ==
    LET L == Len(program) IN
    \/ /\ s.matched = <<>> /\ L \notin s.seen
       /\ \A q \in s.start..(s.pos - 1) : L \notin Live(s, q)
    \/ \E caps \in Captures :
          /\ s.matched = <<caps>> /\ caps[0] = s.start /\ caps[1] \in s.start..s.pos
          /\ L \in Live(s, caps[1])
          /\ \A q \in (caps[1] + 1)..(s.pos - 1) : L \notin Live(s, q)
          /\ L \in s.seen => caps[1] = s.pos

Attempting(s) == Typed(s) /\ Visited(s) /\ Queued(s) /\ Followed(s) /\ Captured(s) /\ Longest(s)

Earlier(s) ==
    /\ s.found \in Seq(Results)
    /\ IF s.found = <<>> THEN \A p \in 1..(s.start - 1) : Ends(p) = {} ELSE IsFirst(s.found[1])

Fixed == UNCHANGED <<program, input, scan, parse>>

\* What is read of the program, the string and the pattern stays with them.
LEMMA HoldsKept ==
    ASSUME Fixed, NEW x, NEW p
    PROVE  (Takes(x, p)' <=> Takes(x, p)) /\ (Holds(x, p)' <=> Holds(x, p))
  <1>1. N' = N /\ (\A f : Has(f)' <=> Has(f)) /\ (\A q : At(input, q)' = At(input, q))
    BY DEF Fixed, N, Has, At
  <1>2. \A c, d : CharEq(c, d)' <=> CharEq(c, d)
    BY <1>1 DEF CharEq
  <1>3. \A c, ranges, neg : ClassMatches(c, ranges, neg)' <=> ClassMatches(c, ranges, neg)
    BY <1>1 DEF ClassMatches
  <1>4. \A q : IsWord(q)' <=> IsWord(q)
    BY <1>1 DEF IsWord
  <1>5. \A q : IsBoundary(q)' <=> IsBoundary(q)
    BY <1>4 DEF IsBoundary
  <1>6. Takes(x, p)' <=> Takes(x, p)
    BY <1>1, <1>2, <1>3 DEF Takes, Fixed
  <1>7. Holds(x, p)' <=> Holds(x, p)
    BY <1>1, <1>5 DEF Holds, Fixed
  <1> QED BY <1>6, <1>7

LEMMA MovesKept ==
    ASSUME Fixed, NEW c
    PROVE  Moves(c)' = Moves(c)
  BY HoldsKept DEF Moves, Fixed

LEMMA ReachedKept ==
    ASSUME Fixed, NEW p
    PROVE  Reached(p)' = Reached(p)
  <1>1. Threads' = Threads
    BY DEF Threads, Fixed, N
  <1>2. \A cs : Onward(cs)' = Onward(cs)
    BY MovesKept DEF Onward
  <1> QED BY <1>1, <1>2 DEF Reached

LEMMA AttemptingKept ==
    ASSUME Fixed, Attempting(search')
    PROVE  Attempting(search)'
  <1>1. /\ \A x, p : Takes(x, p)' <=> Takes(x, p)
        /\ \A c : Moves(c)' = Moves(c)
        /\ \A p : Reached(p)' = Reached(p)
    BY HoldsKept, MovesKept, ReachedKept
  <1>2. N' = N /\ Addresses' = Addresses /\ Runs' = Runs /\ Captures' = Captures /\ \A ks : Consumers(ks)' = Consumers(ks)
    BY DEF Fixed, N, Addresses, Runs, Captures, Slots, Consumers
  <1>3. \A s, q : Live(s, q)' = Live(s, q)
    BY <1>1, <1>2 DEF Live
  <1> QED BY <1>1, <1>2, <1>3 DEF Attempting, Typed, Visited, Queued, Followed, Captured, Longest, Known, Fixed

LEMMA EndsKept ==
    ASSUME Fixed
    PROVE  /\ \A p : Ends(p)' = Ends(p)
           /\ \A m : IsFirst(m)' <=> IsFirst(m)
           /\ Results' = Results
  <1>1. N' = N /\ (\A p : Reached(p)' = Reached(p)) /\ (\A p : Byte(p)' = Byte(p))
    BY ReachedKept DEF Fixed, N, Byte
  <1>2. \A p : Ends(p)' = Ends(p)
    BY <1>1 DEF Ends, Fixed
  <1>3. \A m, p : Spans(m, p)' <=> Spans(m, p)
    BY <1>1, <1>2 DEF Spans
  <1>4. \A m : IsFirst(m)' <=> IsFirst(m)
    BY <1>1, <1>2, <1>3 DEF IsFirst
  <1>5. Results' = Results
    BY <1>1 DEF Results, BuildMatch, Captures, Slots, Fixed
  <1> QED BY <1>2, <1>4, <1>5

LEMMA EarlierKept ==
    ASSUME Fixed, Earlier(search')
    PROVE  Earlier(search)'
  BY EndsKept DEF Earlier

-----------------------------------------------------------------------------
\* The values of a sequence that is made from others.
LEMMA SetOfConcat ==
    ASSUME NEW S, NEW a \in Seq(S), NEW b \in Seq(S)
    PROVE  a \o b \in Seq(S) /\ ToSet(a \o b) = ToSet(a) \cup ToSet(b)
  <1>1. ToSet(a \o b) = ToSet(a) \cup ToSet(b)
    <2>1. DOMAIN (a \o b) = 1..(Len(a) + Len(b)) /\ Len(a) \in Nat /\ Len(b) \in Nat
      OBVIOUS
    <2>2. \A i \in DOMAIN (a \o b) : (a \o b)[i] = IF i <= Len(a) THEN a[i] ELSE b[i - Len(a)]
      OBVIOUS
    <2>3. \A i \in 1..Len(a) : i \in DOMAIN (a \o b) /\ (a \o b)[i] = a[i]
      BY <2>1, <2>2
    <2>4. \A i \in 1..Len(b) : Len(a) + i \in DOMAIN (a \o b) /\ (a \o b)[Len(a) + i] = b[i]
      BY <2>1, <2>2
    <2>5. \A i \in DOMAIN (a \o b) : i \in 1..Len(a) \/ i - Len(a) \in 1..Len(b)
      BY <2>1
    <2> DEFINE z == a \o b
    <2> HIDE DEF z
    <2>6. \A x \in ToSet(a) \cup ToSet(b) : x \in ToSet(z)
      <3>1. ASSUME NEW i \in DOMAIN a PROVE a[i] \in ToSet(z)
        <4>1. i \in DOMAIN z /\ z[i] = a[i]
          BY <2>3 DEF z
        <4> QED BY <4>1 DEF ToSet
      <3>2. ASSUME NEW i \in DOMAIN b PROVE b[i] \in ToSet(z)
        <4>1. Len(a) + i \in DOMAIN z /\ z[Len(a) + i] = b[i]
          BY <2>4 DEF z
        <4> QED BY <4>1 DEF ToSet
      <3> QED BY <3>1, <3>2 DEF ToSet
    <2>7. ASSUME NEW i \in DOMAIN z
          PROVE  z[i] \in ToSet(a) \cup ToSet(b)
      <3>1. CASE i <= Len(a)
        <4>1. z[i] = a[i] /\ i \in DOMAIN a
          BY <2>1, <2>2, <3>1 DEF z
        <4> QED BY <4>1 DEF ToSet
      <3>2. CASE ~ (i <= Len(a))
        <4>1. z[i] = b[i - Len(a)] /\ i - Len(a) \in DOMAIN b
          BY <2>1, <2>2, <3>2 DEF z
        <4> QED BY <4>1 DEF ToSet
      <3> QED BY <3>1, <3>2
    <2>8. \A x \in ToSet(z) : x \in ToSet(a) \cup ToSet(b)
      BY <2>7 DEF ToSet
    <2> QED BY <2>6, <2>8 DEF z
  <1> QED BY <1>1

LEMMA SetOfAppend ==
    ASSUME NEW S, NEW a \in Seq(S), NEW c \in S
    PROVE  Append(a, c) \in Seq(S) /\ ToSet(Append(a, c)) = ToSet(a) \cup {c}
  <1>1. ToSet(Append(a, c)) = ToSet(a) \cup {c}
    <2>1. /\ DOMAIN Append(a, c) = 1..(Len(a) + 1) /\ Append(a, c)[Len(a) + 1] = c /\ Len(a) \in Nat
          /\ \A i \in 1..Len(a) : Append(a, c)[i] = a[i]
      OBVIOUS
    <2> QED BY <2>1 DEF ToSet
  <1> QED BY <1>1

LEMMA SetOfTail ==
    ASSUME NEW S, NEW a \in Seq(S), a # <<>>
    PROVE  /\ Head(a) \in S /\ Tail(a) \in Seq(S) /\ ToSet(a) = {Head(a)} \cup ToSet(Tail(a))
  <1>1. Head(a) = a[1] /\ Tail(a) \in Seq(S) /\ Len(Tail(a)) = Len(a) - 1 /\ Len(a) \in Nat \ {0} /\ Head(a) \in S
        /\ DOMAIN a = 1..Len(a)
    OBVIOUS
  <1>2. \A i \in 1..(Len(a) - 1) : Tail(a)[i] = a[i + 1]
    OBVIOUS
  <1>3. DOMAIN Tail(a) = 1..(Len(a) - 1)
    BY <1>1
  <1>4. \A i \in 1..Len(a) : i = 1 \/ (i - 1 \in DOMAIN Tail(a) /\ Tail(a)[i - 1] = a[i])
    BY <1>1, <1>2, <1>3
  <1>5. \A i \in DOMAIN Tail(a) : i + 1 \in 1..Len(a) /\ a[i + 1] = Tail(a)[i]
    BY <1>1, <1>2, <1>3
  <1>6. ToSet(a) \subseteq {Head(a)} \cup ToSet(Tail(a))
    <2> SUFFICES ASSUME NEW i \in 1..Len(a), i # 1
                 PROVE  a[i] \in ToSet(Tail(a))
      BY <1>1 DEF ToSet
    <2> DEFINE z == Tail(a)
    <2> HIDE DEF z
    <2>1. i - 1 \in DOMAIN z /\ z[i - 1] = a[i]
      BY <1>4 DEF z
    <2> QED BY <2>1 DEF ToSet, z
  <1>7. {Head(a)} \cup ToSet(Tail(a)) \subseteq ToSet(a)
    BY <1>1, <1>5 DEF ToSet
  <1> QED BY <1>1, <1>6, <1>7

\* What well compiled means for an instruction.
LEMMA Inside ==
    ASSUME Sane
    PROVE  /\ Len(program) \in Nat /\ Len(program) >= 3 /\ N \in Nat /\ DOMAIN program = Addresses
           /\ program \in Seq(Insns)
           /\ \A pc \in Addresses :
                LET x == program[pc] IN
                /\ x \in Insns
                /\ x.k \in {"jmp", "split"} => \A i \in DOMAIN x.kids : x.kids[i] \in 2..(Len(program) - 1)
                /\ x.k = "match" <=> pc = Len(program)
                /\ x.k = "save" /\ x.n = 0 <=> pc = 1
                /\ x.k = "save" /\ x.n = 1 <=> pc = Len(program) - 1
  BY DEF Sane, WellCompiled, N, Addresses

\* What a thread does: it takes a character, or stays at its position.
LEMMA MoveOf ==
    ASSUME Sane, NEW c \in Threads, NEW d \in Moves(c)
    PROVE  /\ d \in Threads /\ d[1] # 1
           /\ \/ /\ program[c[1]].k \in Consuming /\ Takes(program[c[1]], c[2])
                 /\ d[1] = c[1] + 1 /\ d[2] = c[2] + 1
              \/ program[c[1]].k \notin Consuming /\ d[2] = c[2]
  <1> DEFINE x == program[c[1]]
  <1>1. d \in Threads /\ c[1] \in Addresses /\ c[1] # 0
    BY MovesInside DEF Threads, Addresses
  <1>2. x \in Insns /\ (x.k \in {"jmp", "split"} => \A i \in DOMAIN x.kids : x.kids[i] # 1)
    BY <1>1, Inside
  <1>3. c[1] \in Nat /\ c[2] \in Nat
    BY Inside DEF Threads
  <1>4. CASE x.k \in {"jmp", "split"}
    <2>1. d \in ToSet(x.kids) \X {c[2]}
      BY <1>4 DEF Moves
    <2>2. d[2] = c[2] /\ d[1] # 1
      BY <1>2, <1>4, <2>1 DEF ToSet
    <2> QED BY <1>1, <1>4, <2>2 DEF Consuming
  <1>5. CASE x.k \notin {"jmp", "split"} /\ x.k \notin Consuming
    <2>1. d = <<c[1] + 1, c[2]>>
      BY <1>5 DEF Moves
    <2> QED BY <1>1, <1>3, <1>5, <2>1
  <1>6. CASE x.k \in Consuming
    <2>1. d = <<c[1] + 1, c[2] + 1>> /\ Takes(x, c[2])
      BY <1>6 DEF Moves, Consuming, Asserting
    <2> QED BY <1>1, <1>3, <1>6, <2>1
  <1> QED BY <1>4, <1>5, <1>6

\* From p on, threads are at positions from p on, and only the first at 1.
LEMMA ReachedBehind ==
    ASSUME Sane, NEW p \in 1..(N + 1), NEW c \in Reached(p)
    PROVE  c[2] >= p /\ (c[1] = 1 => c[2] = p)
  <1> DEFINE ds == {d \in Threads : d[2] >= p /\ (d[1] = 1 => d[2] = p)}
  <1>1. <<1, p>> \in ds
    BY Inside DEF Threads
  <1>2. Contained(ds)
    <2> SUFFICES ASSUME NEW d \in ds, NEW e \in Moves(d) PROVE e \in ds
      BY DEF Contained
    <2>1. d \in Threads /\ e \in Threads
      BY MoveOf
    <2>2. d[2] \in Nat /\ e[2] \in Nat /\ p \in Nat
      BY <2>1, Inside DEF Threads
    <2>3. e[1] # 1 /\ (e[2] = d[2] + 1 \/ e[2] = d[2])
      BY <2>1, MoveOf
    <2> QED BY <2>1, <2>2, <2>3
  <1> HIDE DEF ds
  <1>3. Reached(p) \subseteq ds
    BY <1>1, <1>2, ReachedIsLeast
  <1> QED BY <1>3 DEF ds

-----------------------------------------------------------------------------
\* The fields of s but those of F are in t as they were.
Same(s, t, fs) == DOMAIN t = Fields /\ \A f \in Fields \ fs : t[f] = s[f]

\* Where an attempt is, and what is reached from its start.
LEMMA LiveIs ==
    ASSUME Sane, NEW s, Typed(s)
    PROVE  /\ Addresses = 1..Len(program) /\ s.start \in 1..(N + 1) /\ s.pos \in 1..(N + 1) /\ s.start <= s.pos
           /\ \A pc, q : pc \in Live(s, q) <=> <<pc, q>> \in Reached(s.start)
           /\ \A c \in Reached(s.start) : c \in Threads /\ Moves(c) \subseteq Reached(s.start)
  <1>1. s.start \in 1..(N + 1) /\ s.pos \in s.start..(N + 1) /\ N \in Nat
    BY Inside DEF Typed
  <1>2. Reached(s.start) \subseteq Threads /\ Contained(Reached(s.start))
    BY <1>1, ReachedIsLeast
  <1> QED BY <1>1, <1>2 DEF Contained, Live, Threads, Addresses

\* add goes on from an instruction that takes no character to those behind it.
LEMMA AddFollows ==
    ASSUME Sane, NEW s, Attempting(s), s.todo # <<>>,
           NEW x, x = program[Head(s.todo).pc], x.k \notin Consuming, x.k # "match",
           NEW cs \in Seq(Runs), Pcs(cs) = {d[1] : d \in Moves(<<Head(s.todo).pc, s.pos>>)},
           \A e \in ToSet(cs) : /\ e.pc # 1 => e.caps[0] = s.start
                                /\ e.pc = Len(program) => e.caps[1] = s.pos,
           NEW t, Same(s, t, {"todo", "seen"}),
           t.todo = cs \o Tail(s.todo), t.seen = s.seen \cup {Head(s.todo).pc}
    PROVE  Attempting(t)
  <1> DEFINE c == Head(s.todo)
  <1>1. /\ t.start = s.start /\ t.pos = s.pos /\ t.next = s.next /\ t.threads = s.threads /\ t.i = s.i
        /\ t.matched = s.matched /\ t.failing = s.failing /\ DOMAIN t = Fields
    BY DEF Same, Fields
  <1>2. Typed(s) /\ s.todo \in Seq(Runs)
    BY DEF Attempting, Typed
  <1>3. c \in Runs /\ Tail(s.todo) \in Seq(Runs) /\ ToSet(s.todo) = {c} \cup ToSet(Tail(s.todo))
    BY <1>2, SetOfTail
  <1>4. ToSet(t.todo) = ToSet(cs) \cup ToSet(Tail(s.todo)) /\ t.todo \in Seq(Runs)
    <2> DEFINE rest == Tail(s.todo)
    <2> HIDE DEF rest
    <2>1. rest \in Seq(Runs) /\ c \in Runs
      BY <1>3 DEF rest
    <2> HIDE DEF c
    <2>2. ToSet(cs \o rest) = ToSet(cs) \cup ToSet(rest) /\ cs \o rest \in Seq(Runs)
      BY <2>1, SetOfConcat
    <2> QED BY <2>2 DEF rest
  <1>5. c.pc \in Addresses
    BY <1>3 DEF Runs
  <1>6. Known(t) = Known(s) \cup Pcs(cs)
    BY <1>3, <1>4 DEF Known, Pcs
  <1>7. Typed(t)
    BY <1>1, <1>2, <1>4, <1>5 DEF Typed
  <1>8. Visited(t)
    <2>1. c.pc \in Live(s, s.pos)
      BY <1>3 DEF Attempting, Visited, Known, Pcs
    <2>2. \A d \in Moves(<<c.pc, s.pos>>) : d \in Reached(s.start) /\ d[2] = s.pos /\ d = <<d[1], d[2]>>
      <3>1. <<c.pc, s.pos>> \in Reached(s.start) /\ <<c.pc, s.pos>> \in Threads
        BY <1>2, <2>1, LiveIs
      <3>2. \A d \in Moves(<<c.pc, s.pos>>) : d \in Reached(s.start) /\ d \in Threads
        BY <1>2, <3>1, LiveIs
      <3> DEFINE b == <<c.pc, s.pos>>
      <3>3. b \in Threads /\ program[b[1]].k \notin Consuming /\ b[2] = s.pos
        BY <3>1
      <3> HIDE DEF b
      <3>4. \A d \in Moves(b) : d[2] = s.pos
        BY <3>3, MoveOf
      <3>5. \A d \in Threads : d = <<d[1], d[2]>>
        BY DEF Threads
      <3> QED BY <3>2, <3>4, <3>5 DEF b
    <2>3. Pcs(cs) \subseteq Live(s, s.pos)
      <3> SUFFICES ASSUME NEW d \in Moves(<<c.pc, s.pos>>)
                   PROVE  d[1] \in Live(s, s.pos)
        OBVIOUS
      <3>1. <<d[1], s.pos>> \in Reached(s.start)
        BY <2>2
      <3> QED BY <1>2, <3>1, LiveIs
    <2> QED BY <1>1, <1>6, <2>3 DEF Attempting, Visited, Live
  <1>9. Queued(t)
    <2>1. Consumers(t.seen) = Consumers(s.seen)
      BY DEF Consumers
    <2> QED BY <1>1, <2>1 DEF Attempting, Queued, Live
  <1>10. Followed(t)
    <2>1. \A pc \in t.seen : program[pc].k \notin Consuming => \A d \in Moves(<<pc, s.pos>>) : d[1] \in Known(t)
      BY <1>6 DEF Attempting, Followed
    <2> QED BY <1>1, <1>6, <2>1 DEF Attempting, Followed
  <1>11. Captured(t)
    BY <1>1, <1>3, <1>4 DEF Attempting, Captured
  <1>12. Longest(t)
    <2>1. c.pc # Len(program)
      BY <1>5, Inside
    <2>2. Len(program) \in t.seen <=> Len(program) \in s.seen
      BY <2>1
    <2> QED BY <1>1, <2>2 DEF Attempting, Longest, Live
  <1> QED BY <1>7, <1>8, <1>9, <1>10, <1>11, <1>12 DEF Attempting

\* An instruction that was visited at the position is not again.
LEMMA AddSkips ==
    ASSUME Sane, NEW s, Attempting(s), s.todo # <<>>, Head(s.todo).pc \in s.seen,
           NEW t, Same(s, t, {"todo"}), t.todo = Tail(s.todo)
    PROVE  Attempting(t)
  <1> DEFINE c == Head(s.todo)
  <1>1. /\ t.start = s.start /\ t.pos = s.pos /\ t.next = s.next /\ t.threads = s.threads /\ t.i = s.i
        /\ t.matched = s.matched /\ t.failing = s.failing /\ t.seen = s.seen /\ DOMAIN t = Fields
    BY DEF Same, Fields
  <1>2. Typed(s) /\ s.todo \in Seq(Runs)
    BY DEF Attempting, Typed
  <1>3. c \in Runs /\ Tail(s.todo) \in Seq(Runs) /\ ToSet(s.todo) = {c} \cup ToSet(Tail(s.todo))
    BY <1>2, SetOfTail
  <1>4. Known(t) = Known(s)
    BY <1>1, <1>3 DEF Known, Pcs
  <1>5. Typed(t)
    BY <1>1, <1>2, <1>3 DEF Typed
  <1>6. Visited(t) /\ Queued(t) /\ Followed(t) /\ Longest(t)
    BY <1>1, <1>4 DEF Attempting, Visited, Queued, Followed, Longest, Live
  <1>7. Captured(t)
    BY <1>1, <1>3 DEF Attempting, Captured
  <1> QED BY <1>5, <1>6, <1>7 DEF Attempting

\* The last instruction: the captures are the match, whatever was before.
LEMMA AddMatches ==
    ASSUME Sane, NEW s, Attempting(s), s.todo # <<>>,
           program[Head(s.todo).pc].k = "match",
           NEW t, Same(s, t, {"todo", "seen", "matched"}),
           t.todo = Tail(s.todo), t.seen = s.seen \cup {Head(s.todo).pc}, t.matched = <<Head(s.todo).caps>>
    PROVE  Attempting(t)
  <1> DEFINE c == Head(s.todo)
             L == Len(program)
  <1>1. /\ t.start = s.start /\ t.pos = s.pos /\ t.next = s.next /\ t.threads = s.threads /\ t.i = s.i
        /\ t.failing = s.failing /\ DOMAIN t = Fields
    BY DEF Same, Fields
  <1>2. Typed(s) /\ s.todo \in Seq(Runs)
    BY DEF Attempting, Typed
  <1>3. c \in Runs /\ Tail(s.todo) \in Seq(Runs) /\ ToSet(s.todo) = {c} \cup ToSet(Tail(s.todo))
    BY <1>2, SetOfTail
  <1>4. c.pc \in Addresses /\ c.caps \in Captures
    BY <1>3 DEF Runs
  <1>5. c.pc = L /\ L # 1
    BY <1>4, Inside
  <1>6. Known(t) = Known(s)
    BY <1>3 DEF Known, Pcs
  <1>7. Typed(t)
    BY <1>1, <1>2, <1>3, <1>4 DEF Typed
  <1>8. Visited(t)
    BY <1>1, <1>6 DEF Attempting, Visited, Live
  <1>9. Queued(t)
    <2>1. Consumers(t.seen) = Consumers(s.seen)
      BY DEF Consumers, Consuming
    <2> QED BY <1>1, <2>1 DEF Attempting, Queued, Live
  <1>10. Followed(t)
    <2>1. \A d \in Moves(<<c.pc, s.pos>>) : FALSE
      BY DEF Moves, Consuming, Asserting
    <2>2. \A pc \in t.seen : program[pc].k \notin Consuming => \A d \in Moves(<<pc, s.pos>>) : d[1] \in Known(t)
      BY <1>6, <2>1 DEF Attempting, Followed
    <2> QED BY <1>1, <1>6, <2>2 DEF Attempting, Followed
  <1>11. Captured(t)
    BY <1>1, <1>3 DEF Attempting, Captured
  <1>12. Longest(t)
    <2>1. c.caps[0] = s.start /\ c.caps[1] = s.pos
      BY <1>3, <1>5 DEF Attempting, Captured
    <2>2. L \in Live(s, s.pos)
      BY <1>3, <1>5 DEF Attempting, Visited, Known, Pcs
    <2>3. s.pos \in s.start..s.pos /\ \A q : q \notin (s.pos + 1)..(s.pos - 1)
      BY <1>2, Inside DEF Typed
    <2> QED BY <1>1, <1>4, <2>1, <2>2, <2>3 DEF Longest, Live
  <1> QED BY <1>7, <1>8, <1>9, <1>10, <1>11, <1>12 DEF Attempting

\* An instruction that takes a character waits for it.
LEMMA AddWaits ==
    ASSUME Sane, NEW s, Attempting(s), s.todo # <<>>, Head(s.todo).pc \notin s.seen,
           program[Head(s.todo).pc].k \in Consuming,
           NEW t, Same(s, t, {"todo", "seen", "next"}),
           t.todo = Tail(s.todo), t.seen = s.seen \cup {Head(s.todo).pc}, t.next = Append(s.next, Head(s.todo))
    PROVE  Attempting(t)
  <1> DEFINE c == Head(s.todo)
  <1>1. /\ t.start = s.start /\ t.pos = s.pos /\ t.threads = s.threads /\ t.i = s.i
        /\ t.matched = s.matched /\ t.failing = s.failing /\ DOMAIN t = Fields
    BY DEF Same, Fields
  <1>2. Typed(s) /\ s.todo \in Seq(Runs) /\ s.next \in Seq(Runs)
    BY DEF Attempting, Typed
  <1>3. c \in Runs /\ Tail(s.todo) \in Seq(Runs) /\ ToSet(s.todo) = {c} \cup ToSet(Tail(s.todo))
    BY <1>2, SetOfTail
  <1>4. c.pc \in Addresses
    BY <1>3 DEF Runs
  <1>5. ToSet(t.next) = ToSet(s.next) \cup {c} /\ t.next \in Seq(Runs)
    <2> DEFINE next == s.next
    <2>1. next \in Seq(Runs) /\ c \in Runs
      BY <1>2, <1>3
    <2> HIDE DEF next, c
    <2>2. ToSet(Append(next, c)) = ToSet(next) \cup {c} /\ Append(next, c) \in Seq(Runs)
      BY <2>1, SetOfAppend
    <2> QED BY <2>2 DEF next, c
  <1>6. Known(t) = Known(s)
    BY <1>3 DEF Known, Pcs
  <1>7. Typed(t)
    BY <1>1, <1>2, <1>3, <1>4, <1>5 DEF Typed
  <1>8. Visited(t)
    BY <1>1, <1>6 DEF Attempting, Visited, Live
  <1>9. Queued(t)
    <2>1. Consumers(t.seen) = Consumers(s.seen) \cup {c.pc}
      BY DEF Consumers
    <2>2. Pcs(t.next) = Pcs(s.next) \cup {c.pc}
      BY <1>5 DEF Pcs
    <2>3. c.pc \notin Pcs(s.next)
      BY DEF Attempting, Queued, Consumers
    <2>4. Once(t.next)
      <3>1. /\ DOMAIN t.next = 1..(Len(s.next) + 1) /\ t.next[Len(s.next) + 1] = c /\ Len(s.next) \in Nat
            /\ \A i \in 1..Len(s.next) : t.next[i] = s.next[i]
        BY <1>2, <1>3
      <3>2. \A i \in 1..Len(s.next) : s.next[i].pc # c.pc
        BY <1>2, <2>3 DEF Pcs, ToSet
      <3>3. Once(s.next) /\ DOMAIN s.next = 1..Len(s.next)
        BY <1>2 DEF Attempting, Queued
      <3> QED BY <3>1, <3>2, <3>3 DEF Once
    <2> QED BY <1>1, <2>1, <2>2, <2>4 DEF Attempting, Queued, Live
  <1>10. Followed(t)
    BY <1>1, <1>6 DEF Attempting, Followed
  <1>11. Captured(t)
    BY <1>1, <1>3, <1>5 DEF Attempting, Captured
  <1>12. Longest(t)
    <2>1. c.pc # Len(program)
      BY <1>4, Inside DEF Consuming
    <2>2. Len(program) \in t.seen <=> Len(program) \in s.seen
      BY <2>1
    <2> QED BY <1>1, <2>2 DEF Attempting, Longest, Live
  <1> QED BY <1>7, <1>8, <1>9, <1>10, <1>11, <1>12 DEF Attempting

-----------------------------------------------------------------------------
\* A thread that takes the character goes on behind it.
LEMMA ThreadMoves ==
    ASSUME Sane, NEW s, Attempting(s), s.todo = <<>>, s.i <= Len(s.threads),
           NEW c, c = s.threads[s.i], Takes(program[c.pc], s.pos - 1),
           NEW d \in Runs, d.pc = c.pc + 1, d.caps = c.caps,
           NEW t, Same(s, t, {"todo", "i"}), t.i = s.i + 1, t.todo = <<d>>
    PROVE  Attempting(t)
  <1>1. /\ t.start = s.start /\ t.pos = s.pos /\ t.next = s.next /\ t.threads = s.threads /\ t.seen = s.seen
        /\ t.matched = s.matched /\ t.failing = s.failing /\ DOMAIN t = Fields
    BY DEF Same, Fields
  <1>2. Typed(s) /\ s.threads \in Seq(Runs) /\ s.i \in 1..Len(s.threads) /\ Len(s.threads) \in Nat
    BY DEF Attempting, Typed
  <1>3. c \in Runs /\ c \in ToSet(s.threads)
    BY <1>2 DEF ToSet
  <1>4. ToSet(t.todo) = {d} /\ t.todo \in Seq(Runs) /\ ToSet(s.todo) = {}
    BY DEF ToSet
  <1>5. Known(t) = s.seen \cup {c.pc + 1} /\ Known(s) = s.seen
    BY <1>1, <1>4 DEF Known, Pcs
  <1>6. s.pos # s.start /\ c.pc \in Live(s, s.pos - 1) /\ program[c.pc].k \in Consuming
    <2>1. c.pc \in Consumers(IF s.pos = s.start THEN {} ELSE Live(s, s.pos - 1))
      BY <1>3 DEF Attempting, Queued, Pcs
    <2> QED BY <2>1 DEF Consumers
  <1>7. Typed(t)
    BY <1>1, <1>2, <1>4 DEF Typed
  <1>8. Visited(t)
    <2>1. <<c.pc, s.pos - 1>> \in Reached(s.start) /\ s.pos \in Nat
      <3>1. s.pos \in Nat
        BY <1>2, Inside, LiveIs
      <3>2. <<c.pc, s.pos - 1>> \in Reached(s.start)
        BY <1>2, <1>6, LiveIs
      <3> QED BY <3>1, <3>2
    <2>2. <<c.pc + 1, s.pos>> \in Moves(<<c.pc, s.pos - 1>>)
      BY <1>6, <2>1 DEF Moves, Consuming, Asserting
    <2>3. <<c.pc + 1, s.pos>> \in Reached(s.start)
      BY <1>2, <2>1, <2>2, LiveIs
    <2>4. c.pc + 1 \in Live(s, s.pos)
      BY <1>2, <2>3, LiveIs
    <2> QED BY <1>1, <1>5, <2>4 DEF Attempting, Visited, Live
  <1>9. Queued(t)
    BY <1>1 DEF Attempting, Queued, Live
  <1>10. Followed(t)
    <2>1. \A j \in 1..(t.i - 1) : j \in 1..(s.i - 1) \/ j = s.i
      BY <1>2
    <2>2. \A j \in 1..(t.i - 1) : Takes(program[s.threads[j].pc], s.pos - 1) => s.threads[j].pc + 1 \in Known(t)
      BY <1>5, <2>1 DEF Attempting, Followed
    <2> QED BY <1>1, <1>5, <2>2 DEF Attempting, Followed
  <1>11. Captured(t)
    <2>1. d.pc # 1 => d.caps[0] = s.start
      <3>1. c.pc # 1
        BY <1>3, <1>6, Inside DEF Runs, Consuming
      <3> QED BY <1>3, <3>1 DEF Attempting, Captured
    <2>2. d.pc # Len(program)
      <3>1. c.pc \in Addresses /\ program[c.pc].k # "save"
        BY <1>3, <1>6 DEF Runs, Consuming
      <3>2. c.pc # Len(program) - 1
        BY <3>1, Inside
      <3> QED BY <3>1, <3>2, Inside DEF Addresses
    <2> QED BY <1>1, <1>4, <2>1, <2>2 DEF Attempting, Captured
  <1>12. Longest(t)
    BY <1>1 DEF Attempting, Longest, Live
  <1> QED BY <1>7, <1>8, <1>9, <1>10, <1>11, <1>12 DEF Attempting

\* One that does not take it is gone.
LEMMA ThreadEnds ==
    ASSUME Sane, NEW s, Attempting(s), s.todo = <<>>, s.i <= Len(s.threads),
           ~ Takes(program[s.threads[s.i].pc], s.pos - 1),
           NEW t, Same(s, t, {"i"}), t.i = s.i + 1
    PROVE  Attempting(t)
  <1>1. /\ t.start = s.start /\ t.pos = s.pos /\ t.next = s.next /\ t.threads = s.threads /\ t.seen = s.seen
        /\ t.matched = s.matched /\ t.failing = s.failing /\ DOMAIN t = Fields /\ t.todo = s.todo
    BY DEF Same, Fields
  <1>2. Typed(s) /\ s.threads \in Seq(Runs) /\ s.i \in 1..Len(s.threads) /\ Len(s.threads) \in Nat
    BY DEF Attempting, Typed
  <1>3. Known(t) = Known(s)
    BY <1>1 DEF Known
  <1>4. Typed(t)
    BY <1>1, <1>2 DEF Typed
  <1>5. Visited(t) /\ Queued(t) /\ Captured(t) /\ Longest(t)
    BY <1>1, <1>3 DEF Attempting, Visited, Queued, Captured, Longest, Live
  <1>6. Followed(t)
    <2>1. \A j \in 1..(t.i - 1) : j \in 1..(s.i - 1) \/ j = s.i
      BY <1>2
    <2>2. \A j \in 1..(t.i - 1) : Takes(program[s.threads[j].pc], s.pos - 1) => s.threads[j].pc + 1 \in Known(t)
      BY <1>3, <2>1 DEF Attempting, Followed
    <2> QED BY <1>1, <1>3, <2>2 DEF Attempting, Followed
  <1> QED BY <1>4, <1>5, <1>6 DEF Attempting

\* When every thread was followed, the instructions visited at the position are
\* those that are reached there: the threads that are elsewhere or were visited
\* are a set that no thread leaves.
LEMMA Complete ==
    ASSUME Sane, NEW s, Attempting(s), s.todo = <<>>, s.i > Len(s.threads)
    PROVE  s.seen = Live(s, s.pos)
  <1> DEFINE ds == {d \in Reached(s.start) : d[2] = s.pos => d[1] \in s.seen}
  <1>1. Typed(s) /\ Known(s) = s.seen /\ s.pos \in Nat
    <2>1. Typed(s) /\ ToSet(s.todo) = {}
      BY DEF Attempting, ToSet
    <2> QED BY <2>1, LiveIs, Inside DEF Known, Pcs
  <1>2. <<1, s.start>> \in ds
    <2>1. <<1, s.start>> \in Reached(s.start)
      BY <1>1, LiveIs, ReachedIsLeast
    <2> QED BY <1>1, <2>1 DEF Attempting, Followed
  <1>3. ASSUME NEW c \in ds, NEW d \in Moves(c)
        PROVE  d \in ds
    <2>1. c \in Threads /\ d \in Reached(s.start) /\ c \in Reached(s.start)
      BY <1>1, LiveIs
    <2>2. c = <<c[1], c[2]>> /\ c[1] \in Addresses /\ c[2] \in Nat
      BY <2>1, Inside DEF Threads, Addresses
    <2> SUFFICES ASSUME d[2] = s.pos
                 PROVE  d[1] \in s.seen
      BY <2>1
    <2>3. CASE program[c[1]].k \notin Consuming /\ d[2] = c[2]
      <3>1. c[1] \in s.seen
        BY <2>3
      <3>2. d \in Moves(<<c[1], s.pos>>)
        BY <2>2, <2>3
      <3> QED BY <1>1, <2>3, <3>1, <3>2 DEF Attempting, Followed
    <2>4. CASE /\ program[c[1]].k \in Consuming /\ Takes(program[c[1]], c[2])
               /\ d[1] = c[1] + 1 /\ d[2] = c[2] + 1
      <3>1. c[2] = s.pos - 1
        BY <1>1, <2>2, <2>4
      <3>2. c[2] >= s.start
        BY <1>1, <2>1, LiveIs, ReachedBehind
      <3>3. s.pos # s.start /\ s.start \in Nat
        BY <1>1, <2>2, <3>1, <3>2, LiveIs, Inside
      <3>4. <<c[1], s.pos - 1>> \in Reached(s.start)
        BY <2>1, <2>2, <3>1
      <3>5. c[1] \in Live(s, s.pos - 1)
        BY <1>1, <3>4, LiveIs
      <3>6. c[1] \in Pcs(s.threads)
        BY <2>4, <3>3, <3>5 DEF Attempting, Queued, Consumers
      <3>7. PICK j \in DOMAIN s.threads : s.threads[j].pc = c[1]
        BY <3>6 DEF Pcs, ToSet
      <3>8. j \in 1..(s.i - 1)
        BY <1>1 DEF Typed
      <3> QED BY <1>1, <2>4, <3>1, <3>7, <3>8 DEF Attempting, Followed
    <2> QED BY <2>1, <2>3, <2>4, MoveOf
  <1>4. Reached(s.start) \subseteq ds
    <2>1. Contained(ds)
      BY <1>3 DEF Contained
    <2> HIDE DEF ds
    <2> QED BY <1>1, <1>2, <2>1, LiveIs, ReachedIsLeast
  <1>5. ASSUME NEW pc \in Live(s, s.pos)
        PROVE  pc \in s.seen
    <2>1. <<pc, s.pos>> \in ds
      BY <1>1, <1>4, LiveIs
    <2> QED BY <2>1
  <1> QED BY <1>1, <1>5 DEF Attempting, Visited

\* The next character.
LEMMA CharacterMoves ==
    ASSUME Sane, NEW s, Attempting(s), s.todo = <<>>, s.i > Len(s.threads), s.pos <= N,
           NEW t, Same(s, t, {"threads", "next", "seen", "i", "pos"}),
           t.threads = s.next, t.next = <<>>, t.seen = {}, t.i = 1, t.pos = s.pos + 1
    PROVE  Attempting(t)
  <1>1. /\ t.start = s.start /\ t.matched = s.matched /\ t.failing = s.failing /\ DOMAIN t = Fields /\ t.todo = <<>>
    BY DEF Same, Fields
  <1>2. Typed(s) /\ s.pos \in Nat /\ s.start \in Nat /\ s.start <= s.pos /\ N \in Nat
    BY LiveIs, Inside DEF Attempting
  <1>3. t.pos # t.start /\ t.pos - 1 = s.pos
    BY <1>1, <1>2
  <1>4. s.seen = Live(s, s.pos)
    BY Complete
  <1>5. ToSet(t.todo) = {} /\ ToSet(t.next) = {} /\ Known(t) = {}
    BY <1>1 DEF ToSet, Known, Pcs
  <1>6. Typed(t)
    BY <1>1, <1>2 DEF Typed
  <1>7. Visited(t) /\ Followed(t)
    BY <1>3, <1>5 DEF Visited, Followed
  <1>8. Queued(t)
    BY <1>1, <1>3, <1>4, <1>5 DEF Attempting, Queued, Live, Consumers, Pcs, Once
  <1>9. Captured(t)
    BY <1>1, <1>5 DEF Attempting, Captured
  <1>10. Longest(t)
    <2> DEFINE L == Len(program)
    <2>1. \A q : q \in s.start..(t.pos - 1) => q \in s.start..(s.pos - 1) \/ q = s.pos
      BY <1>2, <1>3
    <2>2. CASE /\ s.matched = <<>> /\ L \notin s.seen
               /\ \A q \in s.start..(s.pos - 1) : L \notin Live(s, q)
      BY <1>1, <1>4, <2>1, <2>2 DEF Longest, Live
    <2>3. ASSUME NEW caps \in Captures,
                 /\ s.matched = <<caps>> /\ caps[0] = s.start /\ caps[1] \in s.start..s.pos
                 /\ L \in Live(s, caps[1])
                 /\ \A q \in (caps[1] + 1)..(s.pos - 1) : L \notin Live(s, q)
                 /\ L \in s.seen => caps[1] = s.pos
          PROVE  Longest(t)
      <3>1. caps[1] \in s.start..t.pos
        BY <1>2, <2>3
      <3>2. \A q \in (caps[1] + 1)..(t.pos - 1) : q \in (caps[1] + 1)..(s.pos - 1) \/ (q = s.pos /\ caps[1] # s.pos)
        BY <1>2, <1>3, <2>3
      <3>3. \A q \in (caps[1] + 1)..(t.pos - 1) : L \notin Live(s, q)
        BY <1>4, <2>3, <3>2
      <3> QED BY <1>1, <2>3, <3>1, <3>3 DEF Longest, Live
    <2> QED BY <2>2, <2>3 DEF Attempting, Longest
  <1> QED BY <1>6, <1>7, <1>8, <1>9, <1>10 DEF Attempting

-----------------------------------------------------------------------------
\* An attempt begins with one thread, before the first instruction.
LEMMA AttemptBegins ==
    ASSUME Sane, parse.groups \in Nat, NEW p \in 1..(N + 1), NEW s, DOMAIN s = Fields,
           NEW t, t = Attempt(p, s, program)
    PROVE  Attempting(t) /\ t.start = p /\ t.found = s.found /\ Once(t.next) /\ Once(t.threads)
  <1> DEFINE first == [pc |-> 1, caps |-> NoCaptures]
  <1>1. program # <<>>
    BY DEF Sane
  <1>2. /\ t.start = p /\ t.pos = p /\ t.next = <<>> /\ t.seen = {} /\ t.i = 1 /\ t.failing = FALSE
        /\ t.threads = <<>> /\ t.matched = <<>> /\ t.todo = <<first>> /\ t.found = s.found /\ DOMAIN t = Fields
    BY <1>1 DEF Attempt, Fields
  <1>3. first \in Runs
    <2>1. NoCaptures \in Captures
      BY DEF NoCaptures, Captures, Slots
    <2>2. 1 \in Addresses
      <3>1. Len(program) \in Nat /\ Len(program) >= 3
        BY Inside
      <3> QED BY <3>1 DEF Addresses
    <2> QED BY <2>1, <2>2 DEF Runs
  <1>4. first.pc = 1
    OBVIOUS
  <1> HIDE DEF first
  <1>5. ToSet(t.todo) = {first} /\ ToSet(t.next) = {} /\ ToSet(t.threads) = {}
    BY <1>2 DEF ToSet
  <1>6. Known(t) = {1} /\ Pcs(t.next) = {} /\ Pcs(t.threads) = {}
    BY <1>2, <1>4, <1>5 DEF Known, Pcs
  <1>7. Typed(t)
    BY <1>2, <1>3, Inside DEF Typed
  <1>8. Visited(t)
    <2>1. <<1, p>> \in Reached(p)
      BY ReachedIsLeast
    <2>2. 1 \in Live(t, t.pos)
      BY <1>2, <1>7, <2>1, LiveIs
    <2> QED BY <1>6, <2>2 DEF Visited
  <1>9. Queued(t)
    BY <1>2, <1>6 DEF Queued, Once, Consumers
  <1>10. Followed(t)
    BY <1>2, <1>6 DEF Followed
  <1>11. Captured(t)
    BY <1>4, <1>5, Inside DEF Captured
  <1>12. Longest(t)
    <2>1. \A q : q \notin p..(p - 1)
      BY Inside
    <2> QED BY <1>2, <2>1 DEF Longest
  <1> QED BY <1>2, <1>7, <1>8, <1>9, <1>10, <1>11, <1>12 DEF Attempting, Once

\* When no thread waits, or the string is at its end, no match ends further on.
LEMMA NothingBehind ==
    ASSUME Sane, NEW s, Attempting(s), s.todo = <<>>, s.i > Len(s.threads), s.next = <<>> \/ s.pos > N,
           NEW q \in 1..(N + 1), q > s.pos
    PROVE  Len(program) \notin Live(s, q)
  <1>1. Typed(s) /\ s.pos \in 1..(N + 1) /\ s.start <= s.pos /\ N \in Nat /\ s.start \in Nat
    BY LiveIs, Inside DEF Attempting
  <1>2. s.next = <<>>
    BY <1>1
  <1>3. Consumers(Live(s, s.pos)) = {}
    <2>1. Pcs(s.next) = {}
      BY <1>2 DEF Pcs, ToSet
    <2> QED BY <2>1, Complete DEF Attempting, Queued
  <1> DEFINE ds == {d \in Reached(s.start) : d[2] <= s.pos}
  <1>4. <<1, s.start>> \in ds
    <2>1. <<1, s.start>> \in Reached(s.start)
      BY <1>1, LiveIs, ReachedIsLeast
    <2> QED BY <1>1, <2>1
  <1>5. ASSUME NEW c \in ds, NEW d \in Moves(c)
        PROVE  d \in ds
    <2>1. c \in Threads /\ d \in Reached(s.start) /\ c \in Reached(s.start)
      BY <1>1, LiveIs
    <2>2. c = <<c[1], c[2]>> /\ c[1] \in Addresses /\ c[2] \in Nat
      <3>1. c \in Addresses \X (1..(N + 1))
        BY <2>1 DEF Threads, Addresses
      <3> QED BY <1>1, <3>1
    <2>3. CASE program[c[1]].k \notin Consuming /\ d[2] = c[2]
      BY <2>1, <2>3
    <2>4. CASE program[c[1]].k \in Consuming /\ d[2] = c[2] + 1
      <3>1. c[2] # s.pos
        <4>1. SUFFICES ASSUME c[2] = s.pos PROVE FALSE
          OBVIOUS
        <4>2. <<c[1], s.pos>> \in Reached(s.start)
          BY <2>1, <2>2, <4>1
        <4>3. c[1] \in Live(s, s.pos)
          BY <1>1, <4>2, LiveIs
        <4> QED BY <1>3, <2>4, <4>3 DEF Consumers
      <3> QED BY <1>1, <2>1, <2>2, <2>4, <3>1
    <2> QED BY <2>1, <2>3, <2>4, MoveOf
  <1>6. Reached(s.start) \subseteq ds
    <2>1. Contained(ds)
      BY <1>5 DEF Contained
    <2> HIDE DEF ds
    <2> QED BY <1>1, <1>4, <2>1, LiveIs, ReachedIsLeast
  <1>7. SUFFICES ASSUME Len(program) \in Live(s, q) PROVE FALSE
    OBVIOUS
  <1>8. <<Len(program), q>> \in ds
    BY <1>1, <1>6, <1>7, LiveIs
  <1> QED BY <1>1, <1>8

\* What an attempt comes to.
LEMMA AttemptEnds ==
    ASSUME Sane, NEW s, Attempting(s), s.todo = <<>>, s.i > Len(s.threads), s.next = <<>> \/ s.pos > N
    PROVE  \/ s.matched = <<>> /\ Ends(s.start) = {}
           \/ \E caps \in Captures :
                 /\ s.matched = <<caps>> /\ caps[0] = s.start /\ caps[1] \in 1..(N + 1)
                 /\ Ends(s.start) # {} /\ Largest(Ends(s.start)) = caps[1]
  <1> DEFINE L == Len(program)
             ends == Ends(s.start)
  <1>1. Typed(s) /\ s.pos \in 1..(N + 1) /\ s.start <= s.pos /\ N \in Nat /\ s.start \in 1..(N + 1)
    BY LiveIs, Inside DEF Attempting
  <1>2. \A q \in 1..(N + 1) : q \in ends <=> L \in Live(s, q)
    <2> TAKE q \in 1..(N + 1)
    <2>1. L \in Live(s, q) <=> <<L, q>> \in Reached(s.start)
      BY <1>1, LiveIs
    <2> QED BY <2>1 DEF Ends
  <1>3. \A q \in ends : q \in 1..(N + 1) /\ s.start <= q /\ q <= s.pos
    <2> TAKE q \in ends
    <2>1. q \in 1..(N + 1) /\ <<L, q>> \in Reached(s.start)
      BY DEF Ends
    <2>2. s.start <= q
      <3> DEFINE c == <<L, q>>
      <3>1. c \in Reached(s.start) /\ c[2] = q
        BY <2>1
      <3> HIDE DEF c
      <3> QED BY <1>1, <2>1, <3>1, ReachedBehind
    <2>3. q <= s.pos
      BY <1>1, <1>2, <2>1, NothingBehind
    <2> QED BY <2>1, <2>2, <2>3
  <1>4. s.seen = Live(s, s.pos)
    BY Complete
  <1> HIDE DEF ends
  <1>5. CASE /\ s.matched = <<>> /\ L \notin s.seen
             /\ \A q \in s.start..(s.pos - 1) : L \notin Live(s, q)
    <2>1. ASSUME NEW q \in ends PROVE FALSE
      <3>1. q \in s.start..(s.pos - 1) \/ q = s.pos
        BY <1>1, <1>3
      <3> QED BY <1>2, <1>3, <1>4, <1>5, <3>1
    <2> QED BY <1>5, <2>1 DEF ends
  <1>6. ASSUME NEW caps \in Captures,
               /\ s.matched = <<caps>> /\ caps[0] = s.start /\ caps[1] \in s.start..s.pos
               /\ L \in Live(s, caps[1])
               /\ \A q \in (caps[1] + 1)..(s.pos - 1) : L \notin Live(s, q)
               /\ L \in s.seen => caps[1] = s.pos
        PROVE  caps[1] \in 1..(N + 1) /\ ends # {} /\ Largest(ends) = caps[1]
    <2>1. caps[1] \in 1..(N + 1)
      BY <1>1, <1>6
    <2>2. caps[1] \in ends
      BY <1>2, <1>6, <2>1
    <2>3. \A q \in ends : q <= caps[1]
      <3> TAKE q \in ends
      <3>1. SUFFICES ASSUME ~ (q <= caps[1]) PROVE FALSE
        OBVIOUS
      <3>2. q \in (caps[1] + 1)..(s.pos - 1) \/ q = s.pos
        BY <1>1, <1>3, <2>1, <3>1
      <3>3. L \in Live(s, q)
        BY <1>2, <1>3
      <3>4. q = s.pos /\ caps[1] # s.pos
        BY <1>1, <1>3, <1>6, <2>1, <3>1, <3>2, <3>3
      <3> QED BY <1>4, <1>6, <3>3, <3>4
    <2>4. \A q \in ends : (\A y \in ends : y <= q) => q = caps[1]
      BY <1>3, <2>1, <2>2, <2>3
    <2>5. Largest(ends) \in ends /\ \A y \in ends : y <= Largest(ends)
      BY <2>2, <2>3 DEF Largest
    <2> QED BY <2>1, <2>2, <2>4, <2>5
  <1> QED BY <1>5, <1>6 DEF Attempting, Longest, ends

\* The match that is handed out spans what the captures 0 and 1 hold.
LEMMA BuildSpans ==
    ASSUME Sane, parse.groups \in Nat, NEW p \in 1..(N + 1), NEW caps \in Captures,
           caps[0] = p, caps[1] \in 1..(N + 1), Largest(Ends(p)) = caps[1]
    PROVE  BuildMatch(caps) \in Results /\ Spans(BuildMatch(caps), p)
  <1>1. 0 \in 0..parse.groups /\ 2 * 0 = 0 /\ 2 * 0 + 1 = 1
    OBVIOUS
  <1>2. caps[0] # 0 /\ caps[1] # 0
    BY Inside
  <1>3. BuildMatch(caps)[0] = <<Byte(caps[0]), Byte(caps[1])>>
    BY <1>1, <1>2 DEF BuildMatch
  <1> QED BY <1>3 DEF Results, Spans

\* A byte is at some character, or the search begins again.
LEMMA CharIndexInside ==
    ASSUME N \in Nat, NEW b
    PROVE  CharIndex(b) \in 1..(N + 1)
  <1> DEFINE past == {p \in 1..(N + 1) : Byte(p) >= b}
  <1>1. CASE past = {}
    BY <1>1 DEF CharIndex
  <1>2. CASE past # {}
    <2>1. past \in SUBSET Nat /\ past \subseteq 1..(N + 1)
      OBVIOUS
    <2>2. CharIndex(b) = Min(past)
      BY <1>2 DEF CharIndex
    <2> HIDE DEF past
    <2>3. \E n \in past : \A m \in past : n <= m
      BY <1>2, <2>1, LeastNat
    <2>4. Min(past) \in past
      BY <2>3 DEF Min
    <2> QED BY <2>1, <2>2, <2>4
  <1> QED BY <1>1, <1>2

-----------------------------------------------------------------------------
\* The first parts of pairs with one second part.
LEMMA FirstOf ==
    ASSUME NEW a, NEW b
    PROVE  {d[1] : d \in {<<a, b>>}} = {a}
  OBVIOUS

LEMMA Firsts ==
    ASSUME NEW A, NEW b
    PROVE  {d[1] : d \in A \X {b}} = A
  <1>1. \A a \in A : <<a, b>> \in A \X {b} /\ <<a, b>>[1] = a
    OBVIOUS
  <1>2. \A d \in A \X {b} : d[1] \in A
    OBVIOUS
  <1> QED BY <1>1, <1>2

\* An instruction's threads go on behind it.
LEMMA AddKeeps ==
    ASSUME Sane, Attempting(search), parse.groups \in Nat, Add
    PROVE  /\ Attempting(search') /\ search'.found = search.found /\ search'.start = search.start
           /\ stage' = stage /\ Fixed
  <1> DEFINE s == search
             c == Head(s.todo)
             x == program[c.pc]
             rest == Tail(s.todo)
             seen == s.seen \cup {c.pc}
             L == Len(program)
             to(pc, caps) == [pc |-> pc, caps |-> caps]
             on(cs) == [[search EXCEPT !.todo = rest, !.seen = seen] EXCEPT !.todo = cs \o @]
  <1>1. Typed(s) /\ s.todo # <<>> /\ DOMAIN s = Fields
    BY DEF Attempting, Typed, Add, Pending
  <1>2. c \in Runs /\ c \in ToSet(s.todo) /\ rest \in Seq(Runs)
    <2>1. s.todo \in Seq(Runs)
      BY <1>1 DEF Typed
    <2> QED BY <1>1, <2>1, SetOfTail
  <1>3. c.pc \in Addresses /\ c.caps \in Captures
    BY <1>2 DEF Runs
  <1>4. L \in Nat /\ L >= 3 /\ DOMAIN program = Addresses /\ x \in Insns
    BY <1>3, Inside
  <1>5. /\ x.k \in {"jmp", "split"} => \A i \in DOMAIN x.kids : x.kids[i] \in 2..(L - 1)
        /\ x.k = "match" <=> c.pc = L
        /\ x.k = "save" /\ x.n = 0 <=> c.pc = 1
        /\ x.k = "save" /\ x.n = 1 <=> c.pc = L - 1
    BY <1>3, Inside
  <1>6. x.k \in {"jmp", "split", "save", "match"} \cup Consuming \cup Asserting
    BY <1>4 DEF Insns
  <1>7. Fixed /\ stage' = stage
    BY <1>3, <1>4, <1>6 DEF Add, Search, Call, Fixed, Consuming, Asserting
  <1>8. c.pc # 1 => c.caps[0] = s.start
    BY <1>2 DEF Attempting, Captured
  <1>9. s.start \in 1..(N + 1) /\ s.pos \in 1..(N + 1) /\ s.pos \in Nat
    BY <1>1, LiveIs, Inside
  <1>10. \A cs \in Seq(Runs) : /\ on(cs).todo = cs \o rest /\ on(cs).seen = seen
                              /\ Same(s, on(cs), {"todo", "seen"})
                              /\ on(cs).found = s.found /\ on(cs).start = s.start
    BY <1>1 DEF Same, Fields
  <1>11. CASE c.pc \in s.seen
    <2>1. search' = [search EXCEPT !.todo = Tail(@)]
      BY <1>11 DEF Add, Search, Call
    <2>2. Same(s, search', {"todo"}) /\ search'.todo = rest /\ search'.found = s.found /\ search'.start = s.start
      BY <1>1, <2>1 DEF Same, Fields
    <2>3. Attempting(search')
      BY <1>1, <1>11, <2>2, AddSkips
    <2> QED BY <1>7, <2>2, <2>3
  <1>12. CASE c.pc \notin s.seen /\ x.k \in Consuming
    <2>1. search' = [[search EXCEPT !.todo = Tail(@), !.seen = @ \cup {c.pc}] EXCEPT !.next = Append(@, c)]
      BY <1>3, <1>4, <1>12 DEF Add, Search, Call, Consuming, Asserting
    <2>2. /\ Same(s, search', {"todo", "seen", "next"}) /\ search'.todo = rest /\ search'.seen = seen
          /\ search'.next = Append(s.next, c) /\ search'.found = s.found /\ search'.start = s.start
      BY <1>1, <2>1 DEF Same, Fields
    <2>3. Attempting(search')
      BY <1>1, <1>12, <2>2, AddWaits
    <2> QED BY <1>7, <2>2, <2>3
  <1>13. CASE c.pc \notin s.seen /\ x.k = "match"
    <2>1. search' = [[search EXCEPT !.todo = Tail(@), !.seen = @ \cup {c.pc}] EXCEPT !.matched = <<c.caps>>]
      BY <1>3, <1>4, <1>13 DEF Add, Search, Call, Consuming, Asserting
    <2>2. /\ Same(s, search', {"todo", "seen", "matched"}) /\ search'.todo = rest /\ search'.seen = seen
          /\ search'.matched = <<c.caps>> /\ search'.found = s.found /\ search'.start = s.start
      BY <1>1, <2>1 DEF Same, Fields
    <2>3. Attempting(search')
      BY <1>1, <1>13, <2>2, AddMatches
    <2> QED BY <1>7, <2>2, <2>3
  <1>14. ASSUME NEW cs \in Seq(Runs), c.pc \notin s.seen, x.k \notin Consuming, x.k # "match",
                Pcs(cs) = {d[1] : d \in Moves(<<c.pc, s.pos>>)},
                \A e \in ToSet(cs) : /\ e.pc # 1 => e.caps[0] = s.start
                                     /\ e.pc = L => e.caps[1] = s.pos,
                search' = on(cs)
         PROVE  Attempting(search') /\ search'.found = s.found /\ search'.start = s.start
    <2>1. /\ search'.todo = cs \o rest /\ search'.seen = seen /\ Same(s, search', {"todo", "seen"})
          /\ search'.found = s.found /\ search'.start = s.start
      BY <1>10, <1>14
    <2> HIDE DEF on
    <2>2. Attempting(search')
      BY <1>1, <1>14, <2>1, AddFollows
    <2> QED BY <2>1, <2>2
  <1>15. CASE c.pc \notin s.seen /\ x.k \in {"jmp", "split"}
    <2> DEFINE cs == [i \in DOMAIN x.kids |-> to(x.kids[i], c.caps)]
    <2>1. search' = on(cs)
      BY <1>3, <1>4, <1>15 DEF Add, Search, Call, Consuming, Asserting
    <2>2. x.kids \in Seq(Nat)
      BY <1>4 DEF Insns
    <2>3. \A i \in DOMAIN x.kids : x.kids[i] \in Addresses /\ x.kids[i] # 1 /\ x.kids[i] # L
      BY <1>4, <1>5, <1>15 DEF Addresses
    <2>4. cs \in Seq(Runs)
      <3>1. \A i \in DOMAIN x.kids : to(x.kids[i], c.caps) \in Runs
        BY <1>3, <2>3 DEF Runs
      <3>2. DOMAIN x.kids = 1..Len(x.kids) /\ Len(x.kids) \in Nat
        BY <2>2
      <3> HIDE DEF to, x, c
      <3> QED BY <3>1, <3>2
    <2>5. ToSet(cs) = {to(x.kids[i], c.caps) : i \in DOMAIN x.kids}
      BY DEF ToSet
    <2>6. Pcs(cs) = ToSet(x.kids)
      <3> DEFINE ks == x.kids
                 all == ToSet(cs)
      <3>1. \A y : y \in all <=> \E i \in DOMAIN ks : y = to(ks[i], c.caps)
        BY <2>5
      <3>2. \A i : to(ks[i], c.caps).pc = ks[i]
        OBVIOUS
      <3> HIDE DEF ks, all, to
      <3>3. {y.pc : y \in all} = {ks[i] : i \in DOMAIN ks}
        BY <3>1, <3>2
      <3> QED BY <3>3 DEF Pcs, ToSet, ks, all
    <2>7. {d[1] : d \in Moves(<<c.pc, s.pos>>)} = ToSet(x.kids)
      <3>1. Moves(<<c.pc, s.pos>>) = ToSet(x.kids) \X {s.pos}
        BY <1>15 DEF Moves
      <3> QED BY <3>1, Firsts
    <2>8. c.pc # 1
      BY <1>5, <1>15
    <2>9. \A e \in ToSet(cs) : e.caps[0] = s.start /\ e.pc # L
      BY <1>8, <2>3, <2>5, <2>8
    <2>10. x.k \notin Consuming /\ x.k # "match"
      BY <1>15 DEF Consuming
    <2> HIDE DEF cs, on
    <2> QED BY <1>7, <1>14, <1>15, <2>1, <2>4, <2>6, <2>7, <2>9, <2>10
  <1>16. CASE c.pc \notin s.seen /\ x.k = "save"
    <2> DEFINE caps == [c.caps EXCEPT ![x.n] = s.pos]
               e == to(c.pc + 1, caps)
               cs == <<e>>
    <2>1. search' = on(cs)
      BY <1>3, <1>4, <1>16 DEF Add, Search, Call, Consuming, Asserting
    <2>2. c.pc + 1 \in Addresses /\ c.pc \in Nat
      BY <1>3, <1>4, <1>5, <1>16 DEF Addresses
    <2>3. caps \in Captures
      BY <1>3, <1>9 DEF Captures
    <2>4. e \in Runs
      BY <2>2, <2>3 DEF Runs
    <2>5. {d[1] : d \in Moves(<<c.pc, s.pos>>)} = {c.pc + 1}
      <3>1. Moves(<<c.pc, s.pos>>) = {<<c.pc + 1, s.pos>>}
        BY <1>16 DEF Moves
      <3> QED BY <3>1, FirstOf
    <2>6. 0 \in Slots /\ 1 \in Slots
      BY DEF Slots
    <2>7. caps[0] = s.start
      <3>1. CASE c.pc = 1
        <4>1. 1 \in Live(s, s.pos)
          BY <1>2, <3>1 DEF Attempting, Visited, Known, Pcs
        <4>2. <<1, s.pos>> \in Reached(s.start)
          BY <1>1, <4>1, LiveIs
        <4>3. s.pos = s.start
          <5> DEFINE b == <<1, s.pos>>
          <5>1. b \in Reached(s.start) /\ b[1] = 1 /\ b[2] = s.pos
            BY <4>2
          <5> HIDE DEF b
          <5> QED BY <1>9, <5>1, ReachedBehind
        <4>4. x.n = 0
          BY <1>5, <3>1
        <4> QED BY <1>3, <2>6, <4>3, <4>4 DEF Captures
      <3>2. CASE c.pc # 1
        <4>1. x.n # 0
          BY <1>5, <1>16, <3>2
        <4> QED BY <1>3, <1>8, <2>6, <3>2, <4>1 DEF Captures
      <3> QED BY <3>1, <3>2
    <2>8. c.pc + 1 = L => caps[1] = s.pos
      <3> SUFFICES ASSUME c.pc + 1 = L PROVE caps[1] = s.pos
        OBVIOUS
      <3>1. c.pc = L - 1
        BY <1>4, <2>2
      <3>2. x.n = 1
        BY <1>5, <3>1
      <3> QED BY <1>3, <2>6, <3>2 DEF Captures
    <2>9. e.pc = c.pc + 1 /\ e.caps = caps
      OBVIOUS
    <2>10. x.k \notin Consuming /\ x.k # "match"
      BY <1>16 DEF Consuming
    <2> HIDE DEF e, caps
    <2>11. cs \in Seq(Runs) /\ ToSet(cs) = {e} /\ Pcs(cs) = {c.pc + 1}
      BY <2>4, <2>9 DEF Pcs, ToSet
    <2> HIDE DEF cs, on
    <2> QED BY <1>7, <1>14, <1>16, <2>1, <2>5, <2>7, <2>8, <2>9, <2>10, <2>11
  <1>17. CASE c.pc \notin s.seen /\ x.k \in Asserting /\ Holds(x, s.pos)
    <2> DEFINE e == to(c.pc + 1, c.caps)
               cs == <<e>>
    <2>1. search' = on(cs)
      BY <1>3, <1>4, <1>17 DEF Add, Search, Call, Consuming, Asserting
    <2>2. c.pc + 1 \in Addresses /\ c.pc # 1 /\ c.pc + 1 # L
      BY <1>3, <1>4, <1>5, <1>17 DEF Addresses, Asserting
    <2>3. e \in Runs /\ e.pc = c.pc + 1 /\ e.caps = c.caps
      BY <1>3, <2>2 DEF Runs
    <2>4. {d[1] : d \in Moves(<<c.pc, s.pos>>)} = {c.pc + 1}
      <3>1. Moves(<<c.pc, s.pos>>) = {<<c.pc + 1, s.pos>>}
        BY <1>17 DEF Moves, Asserting
      <3> QED BY <3>1, FirstOf
    <2>5. x.k \notin Consuming /\ x.k # "match"
      BY <1>17 DEF Consuming, Asserting
    <2> HIDE DEF e
    <2>6. cs \in Seq(Runs) /\ ToSet(cs) = {e} /\ Pcs(cs) = {c.pc + 1}
      BY <2>3 DEF Pcs, ToSet
    <2> HIDE DEF cs, on
    <2> QED BY <1>7, <1>8, <1>14, <1>17, <2>1, <2>2, <2>3, <2>4, <2>5, <2>6
  <1>18. CASE c.pc \notin s.seen /\ x.k \in Asserting /\ ~ Holds(x, s.pos)
    <2> DEFINE cs == <<>>
    <2>1. search' = [search EXCEPT !.todo = rest, !.seen = seen]
      BY <1>3, <1>4, <1>18 DEF Add, Search, Call, Consuming, Asserting
    <2>2. search' = on(cs)
      <3> DEFINE t == [search EXCEPT !.todo = rest, !.seen = seen]
      <3>1. t.todo = rest /\ DOMAIN t = Fields /\ cs \o rest = rest
        BY <1>1, <1>2 DEF Fields
      <3> HIDE DEF cs
      <3>2. on(cs) = [t EXCEPT !.todo = cs \o @]
        OBVIOUS
      <3>3. t = [x1 \in DOMAIN t |-> t[x1]]
        BY <1>1
      <3> HIDE DEF t, on, rest, seen
      <3>4. [t EXCEPT !.todo = rest] = t
        BY <3>1, <3>3
      <3> QED BY <2>1, <3>1, <3>2, <3>4 DEF t
    <2>3. Moves(<<c.pc, s.pos>>) = {}
      BY <1>18 DEF Moves, Asserting, Consuming
    <2>4. x.k \notin Consuming /\ x.k # "match"
      BY <1>18 DEF Consuming, Asserting
    <2>5. cs \in Seq(Runs) /\ ToSet(cs) = {} /\ Pcs(cs) = {}
      BY DEF Pcs, ToSet
    <2> HIDE DEF cs, on
    <2> QED BY <1>7, <1>14, <1>18, <2>2, <2>3, <2>4, <2>5
  <1> QED BY <1>11, <1>12, <1>13, <1>15, <1>16, <1>17, <1>18, <1>6

\* A step of the loop over the threads keeps the attempt.
LEMMA StepThreadKeeps ==
    ASSUME Sane, Attempting(search), StepThread
    PROVE  /\ Attempting(search') /\ search'.found = search.found /\ search'.start = search.start
           /\ stage' = stage /\ Fixed
  <1> DEFINE s == search
             c == s.threads[s.i]
  <1>1. s.todo = <<>> /\ s.i <= Len(s.threads) /\ Typed(s) /\ DOMAIN s = Fields
    BY DEF StepThread, Pending, Attempting, Typed
  <1>2. Fixed /\ stage' = stage
    BY DEF StepThread, Search, Fixed
  <1>3. CASE Takes(program[c.pc], s.pos - 1)
    <2> DEFINE d == [c EXCEPT !.pc = @ + 1]
    <2>1. search' = [[search EXCEPT !.i = @ + 1] EXCEPT !.todo = <<d>>]
      BY <1>3 DEF StepThread, Search
    <2>2. /\ Same(s, search', {"todo", "i"}) /\ search'.i = s.i + 1 /\ search'.todo = <<d>>
          /\ search'.found = s.found /\ search'.start = s.start
      BY <1>1, <2>1 DEF Same, Fields
    <2>3. c \in Runs /\ c \in ToSet(s.threads)
      <3>1. s.threads \in Seq(Runs) /\ s.i \in 1..Len(s.threads)
        BY <1>1 DEF Typed
      <3> QED BY <3>1 DEF ToSet
    <2>4. c.pc + 1 \in Addresses
      <3>1. program[c.pc].k \in Consuming
        <4>1. c.pc \in Consumers(IF s.pos = s.start THEN {} ELSE Live(s, s.pos - 1))
          BY <2>3 DEF Attempting, Queued, Pcs
        <4> QED BY <4>1 DEF Consumers
      <3>2. c.pc \in Addresses
        BY <2>3 DEF Runs
      <3>3. c.pc # Len(program)
        BY <3>1, <3>2, Inside DEF Consuming
      <3>4. Len(program) \in Nat
        BY Inside
      <3> QED BY <3>2, <3>3, <3>4 DEF Addresses
    <2>5. d \in Runs /\ d.pc = c.pc + 1 /\ d.caps = c.caps
      BY <2>3, <2>4 DEF Runs
    <2> HIDE DEF d
    <2>6. Attempting(search')
      BY <1>1, <1>3, <2>2, <2>5, ThreadMoves
    <2> QED BY <1>2, <2>2, <2>6
  <1>4. CASE ~ Takes(program[c.pc], s.pos - 1)
    <2>1. search' = [search EXCEPT !.i = @ + 1]
      BY <1>4 DEF StepThread, Search
    <2>2. Same(s, search', {"i"}) /\ search'.i = s.i + 1 /\ search'.found = s.found /\ search'.start = s.start
      BY <1>1, <2>1 DEF Same, Fields
    <2>3. Attempting(search')
      BY <1>1, <1>4, <2>2, ThreadEnds
    <2> QED BY <1>2, <2>2, <2>3
  <1> QED BY <1>3, <1>4

-----------------------------------------------------------------------------
\* What the search came to.
Outcome(s) == IF s.found = <<>> THEN \A p \in 1..(N + 1) : Ends(p) = {} ELSE IsFirst(s.found[1])

Machine ==
    /\ stage \notin BeforeUse
    /\ input \in Seq(ToSet(Characters)) /\ parse.groups \in Nat
    /\ DOMAIN search = Fields
    /\ Once(search.next) /\ Once(search.threads)
    /\ stage = "search" => Attempting(search) /\ Earlier(search)
    /\ stage = "searched" => Outcome(search)

\* The inductive invariant.
Inv == (stage \in BeforeUse => Fresh) /\ (program # <<>> => Machine)

\* A step that leaves the program and the string as they are is judged by what
\* it makes of the search.
LEMMA MachineKept ==
    ASSUME Fixed, Machine, stage' \notin BeforeUse,
           DOMAIN search' = Fields, Once(search'.next), Once(search'.threads),
           stage' = "search" => Attempting(search') /\ Earlier(search'),
           stage' = "searched" => Outcome(search')
    PROVE  Machine'
  <1>1. N' = N /\ input' = input /\ parse' = parse
    BY DEF Fixed, N
  <1>2. stage' = "search" => Attempting(search)' /\ Earlier(search)'
    BY AttemptingKept, EarlierKept
  <1>3. stage' = "searched" => Outcome(search)'
    BY <1>1, EndsKept DEF Outcome
  <1> QED BY <1>1, <1>2, <1>3 DEF Machine, Once, BeforeUse

\* A step of an attempt.
LEMMA AttemptKeeps ==
    ASSUME Machine, stage = "search", Attempting(search'), Fixed, stage' = stage,
           search'.found = search.found, search'.start = search.start
    PROVE  Machine' /\ AttemptDecided
  <1>1. DOMAIN search' = Fields /\ Once(search'.next) /\ Once(search'.threads)
    BY DEF Attempting, Typed, Queued
  <1>2. Earlier(search')
    BY DEF Machine, Earlier
  <1>3. Machine'
    BY <1>1, <1>2, MachineKept DEF BeforeUse
  <1> QED BY <1>3 DEF AttemptDecided

\* Where no match begins the next attempt is a character further on, until
\* there is none.
LEMMA TryNextKeeps ==
    ASSUME Sane, Machine, stage = "search", Ends(search.start) = {}, TryNext
    PROVE  Machine' /\ AttemptDecided
  <1> DEFINE s == search
             further == s.start + 1
  <1>1. Attempting(s) /\ Earlier(s) /\ DOMAIN s = Fields /\ parse.groups \in Nat
    BY DEF Machine
  <1>2. N \in Nat /\ s.start \in 1..(N + 1)
    BY <1>1, LiveIs, Inside DEF Attempting
  <1>3. CASE s.start <= N
    <2>1. search' = Attempt(further, s, program) /\ Fixed /\ stage' = stage
      BY <1>3 DEF TryNext, Search, Fixed
    <2>2. further \in 1..(N + 1)
      BY <1>2, <1>3
    <2>3. /\ Attempting(search') /\ search'.start = further /\ search'.found = s.found
          /\ Once(search'.next) /\ Once(search'.threads)
      BY <1>1, <2>1, <2>2, AttemptBegins
    <2>4. Earlier(search')
      <3>1. \A p \in 1..(further - 1) : p \in 1..(s.start - 1) \/ p = s.start
        BY <1>2
      <3> QED BY <1>1, <2>3, <3>1 DEF Earlier
    <2>5. DOMAIN search' = Fields
      BY <2>3 DEF Attempting, Typed
    <2> HIDE DEF further
    <2>6. Machine'
      BY <2>1, <2>3, <2>4, <2>5, MachineKept DEF BeforeUse
    <2> QED BY <2>3, <2>6 DEF AttemptDecided
  <1>4. CASE ~ (s.start <= N)
    <2>1. stage' = "searched" /\ search' = s /\ Fixed
      BY <1>4 DEF TryNext, Fixed
    <2>2. \A p \in 1..(N + 1) : p \in 1..(s.start - 1) \/ p = s.start
      BY <1>2, <1>4
    <2>3. Outcome(search')
      BY <1>1, <2>1, <2>2 DEF Earlier, Outcome
    <2>4. Machine'
      BY <2>1, <2>3, MachineKept DEF BeforeUse, Machine
    <2> QED BY <2>1, <2>4 DEF AttemptDecided
  <1> QED BY <1>3, <1>4

\* A match is the first if none was found before.
LEMMA FoundKeeps ==
    ASSUME Sane, Machine, stage = "search", NEW caps \in Captures,
           caps[0] = search.start, caps[1] \in 1..(N + 1),
           Ends(search.start) # {}, Largest(Ends(search.start)) = caps[1], Found(caps)
    PROVE  Machine' /\ AttemptDecided
  <1> DEFINE s == search
             m == BuildMatch(caps)
             step == IF caps[1] > caps[0] \/ caps[0] > N THEN m[0][2] ELSE Byte(caps[0] + 1)
             t == [s EXCEPT !.found = Append(@, m), !.prev = s.cur, !.cur = step]
             further == CharIndex(t.cur)
  <1>1. Attempting(s) /\ Earlier(s) /\ DOMAIN s = Fields /\ parse.groups \in Nat
    BY DEF Machine
  <1>2. N \in Nat /\ s.start \in 1..(N + 1)
    BY <1>1, LiveIs, Inside DEF Attempting
  <1>3. m \in Results /\ Spans(m, s.start)
    BY <1>1, <1>2, BuildSpans
  <1>4. Fixed
    BY DEF Found, Search, Fixed
  <1>5. \/ search' = t /\ stage' = "searched"
        \/ search' = Attempt(further, t, program) /\ stage' = stage
    BY DEF Found, Search
  <1> HIDE DEF m, step
  <1>6. /\ DOMAIN t = Fields /\ t.found = Append(s.found, m)
        /\ t.next = s.next /\ t.threads = s.threads
    BY <1>1 DEF Fields
  <1> HIDE DEF t
  <1>7. s.found \in Seq(Results)
    BY <1>1 DEF Earlier
  <1>8. /\ Append(s.found, m) \in Seq(Results) /\ Append(s.found, m) # <<>>
        /\ Len(Append(s.found, m)) = Len(s.found) + 1
        /\ Append(s.found, m)[Len(s.found) + 1] = m
        /\ s.found # <<>> => Append(s.found, m)[1] = s.found[1]
        /\ s.found = <<>> => Append(s.found, m)[1] = m
    BY <1>3, <1>7
  <1>9. IsFirst(Append(s.found, m)[1])
    <2>1. s.found # <<>> => IsFirst(s.found[1])
      BY <1>1 DEF Earlier
    <2>2. s.found = <<>> => \A p \in 1..(s.start - 1) : Ends(p) = {}
      BY <1>1 DEF Earlier
    <2>3. s.found = <<>> => IsFirst(m)
      BY <1>2, <1>3, <2>2 DEF IsFirst
    <2> QED BY <1>8, <2>1, <2>3
  <1>10. Last(Append(s.found, m)) = m
    BY <1>8 DEF Last
  <1>11. search'.found = Append(s.found, m) => AttemptDecided
    BY <1>3, <1>8, <1>10 DEF AttemptDecided
  <1>12. CASE search' = t /\ stage' = "searched"
    <2>1. Outcome(search')
      BY <1>6, <1>8, <1>9, <1>12 DEF Outcome
    <2>2. Once(t.next) /\ Once(t.threads)
      BY <1>6 DEF Machine
    <2>3. Machine'
      BY <1>4, <1>6, <1>12, <2>1, <2>2, MachineKept DEF BeforeUse
    <2> QED BY <1>6, <1>11, <1>12, <2>3
  <1>13. CASE search' = Attempt(further, t, program) /\ stage' = stage
    <2>1. further \in 1..(N + 1)
      BY <1>2, CharIndexInside
    <2> HIDE DEF further
    <2>2. /\ Attempting(search') /\ search'.found = t.found
          /\ Once(search'.next) /\ Once(search'.threads)
      BY <1>1, <1>6, <1>13, <2>1, AttemptBegins
    <2>3. Earlier(search')
      BY <1>6, <1>8, <1>9, <2>2 DEF Earlier
    <2>4. DOMAIN search' = Fields
      BY <2>2 DEF Attempting, Typed
    <2>5. Machine'
      BY <1>4, <1>13, <2>2, <2>3, <2>4, MachineKept DEF BeforeUse
    <2> QED BY <1>6, <1>11, <2>2, <2>5
  <1> QED BY <1>5, <1>12, <1>13

\* At the end of a character: the next one, or what the attempt came to.
LEMMA StepCharacterKeeps ==
    ASSUME Sane, Machine, StepCharacter
    PROVE  Machine' /\ AttemptDecided
  <1> DEFINE s == search
  <1>1. stage = "search" /\ s.todo = <<>> /\ s.i > Len(s.threads)
    BY DEF StepCharacter, Pike, Searching, Pending
  <1>2. Attempting(s) /\ DOMAIN s = Fields
    BY <1>1 DEF Machine
  <1>3. CASE s.next # <<>> /\ s.pos <= N
    <2>1. /\ search' = [search EXCEPT !.threads = search.next, !.next = <<>>, !.seen = {}, !.i = 1, !.pos = @ + 1]
          /\ Fixed /\ stage' = stage
      BY <1>3 DEF StepCharacter, Search, Fixed
    <2>2. /\ Same(s, search', {"threads", "next", "seen", "i", "pos"})
          /\ search'.threads = s.next /\ search'.next = <<>> /\ search'.seen = {} /\ search'.i = 1
          /\ search'.pos = s.pos + 1 /\ search'.found = s.found /\ search'.start = s.start
      BY <1>2, <2>1 DEF Same, Fields
    <2>3. Attempting(search')
      BY <1>1, <1>2, <1>3, <2>2, CharacterMoves
    <2> QED BY <1>1, <2>1, <2>2, <2>3, AttemptKeeps
  <1>4. CASE ~ (s.next # <<>> /\ s.pos <= N)
    <2>1. IF s.matched = <<>> THEN TryNext ELSE Found(s.matched[1])
      BY <1>4 DEF StepCharacter
    <2>2. N \in Nat /\ s.pos \in 1..(N + 1)
      BY <1>2, LiveIs, Inside DEF Attempting
    <2>3. s.next = <<>> \/ s.pos > N
      BY <1>4, <2>2
    <2>4. CASE s.matched = <<>> /\ Ends(s.start) = {}
      BY <1>1, <2>1, <2>4, TryNextKeeps
    <2>5. ASSUME NEW caps \in Captures,
                 s.matched = <<caps>>, caps[0] = s.start, caps[1] \in 1..(N + 1),
                 Ends(s.start) # {}, Largest(Ends(s.start)) = caps[1]
          PROVE  Machine' /\ AttemptDecided
      <3>1. Found(caps)
        BY <2>1, <2>5
      <3> QED BY <1>1, <2>5, <3>1, FoundKeeps
    <2> QED BY <1>1, <1>2, <2>3, <2>4, <2>5, AttemptEnds
  <1> QED BY <1>3, <1>4

-----------------------------------------------------------------------------
Backtracking ==
    \/ MatchLeaf \/ MatchConcat \/ MatchAlt \/ MatchGroup \/ CloseGroup \/ MatchLoop \/ EndTurn
    \/ MatchBackref \/ MatchLook \/ Accept \/ Backtrack \/ MatchDone

\* The backtracker has no program, and the Pike machine never fails.
LEMMA NoneBacktracks ==
    ASSUME program # <<>>, Machine
    PROVE  ~ Backtracking
  <1>1. stage = "search" => ~ search.failing
    BY DEF Machine, Attempting, Typed
  <1> QED BY <1>1 DEF Backtracking, MatchLeaf, MatchConcat, MatchAlt, MatchGroup, CloseGroup, MatchLoop, EndTurn,
                      MatchBackref, MatchLook, Accept, Backtrack, MatchDone, Matches, Matching, Searching

\* Nothing but compile changes the program.
LEMMA SearchStays ==
    ASSUME NEW s, Search(s), Searching
    PROVE  stage' \notin BeforeUse /\ program' = program
  BY DEF Search, Searching, BeforeUse

LEMMA BacktrackingStays ==
    ASSUME Backtracking
    PROVE  stage' \notin BeforeUse /\ program' = program
  <1>1. Searching
    BY DEF Backtracking, MatchLeaf, MatchConcat, MatchAlt, MatchGroup, CloseGroup, MatchLoop, EndTurn,
           MatchBackref, MatchLook, Accept, Backtrack, MatchDone, Matches, Matching
  <1>2. CASE MatchLeaf
    <2>1. \E s : Search(s)
      BY <1>2 DEF MatchLeaf, OnlyIf, Matches
    <2> QED BY <1>1, <2>1, SearchStays
  <1>3. CASE MatchConcat \/ MatchGroup \/ CloseGroup \/ MatchLook \/ Accept
    <2>1. \E s : Search(s)
      BY <1>3, Zenon DEF MatchConcat, MatchGroup, CloseGroup, MatchLook, Accept
    <2> QED BY <1>1, <2>1, SearchStays
  <1>4. CASE MatchAlt
    <2>1. \E s : Search(s)
      BY <1>4, Zenon DEF MatchAlt, Either
    <2> QED BY <1>1, <2>1, SearchStays
  <1>5. CASE MatchLoop
    <2>1. \E s : Search(s)
      BY <1>5 DEF MatchLoop, Either
    <2> QED BY <1>1, <2>1, SearchStays
  <1>6. CASE EndTurn
    <2>1. \E s : Search(s)
      BY <1>6 DEF EndTurn
    <2> QED BY <1>1, <2>1, SearchStays
  <1>7. CASE MatchBackref
    <2>1. (\E s : Search(s)) \/ (stage' = "panic" /\ program' = program)
      BY <1>7 DEF MatchBackref, OnlyIf
    <2> QED BY <1>1, <2>1, SearchStays DEF BeforeUse
  <1>8. CASE Backtrack
    <2>1. TryNext \/ \E s : Search(s)
      BY <1>8, Zenon DEF Backtrack
    <2>2. (\E s : Search(s)) \/ (stage' = "searched" /\ program' = program)
      BY <2>1 DEF TryNext
    <2> QED BY <1>1, <2>2, SearchStays DEF BeforeUse
  <1>9. CASE MatchDone
    <2>1. \E caps : Found(caps)
      BY <1>9, Zenon DEF MatchDone
    <2>2. (\E s : Search(s)) \/ (stage' = "searched" /\ program' = program)
      BY <2>1 DEF Found
    <2> QED BY <1>1, <2>2, SearchStays DEF BeforeUse
  <1> QED BY <1>2, <1>3, <1>4, <1>5, <1>6, <1>7, <1>8, <1>9 DEF Backtracking

-----------------------------------------------------------------------------
\* The first attempt of a search, in the state after the pattern is compiled.
FirstAttempt ==
    Sane /\ parse.groups \in Nat =>
      \A s, t : DOMAIN s = Fields /\ s.found = <<>> /\ t = Attempt(1, s, program) =>
                   Attempting(t) /\ Earlier(t) /\ Once(t.next) /\ Once(t.threads) /\ DOMAIN t = Fields

LEMMA FirstAttempts == FirstAttempt
  <1> SUFFICES ASSUME Sane, parse.groups \in Nat, NEW s, DOMAIN s = Fields, s.found = <<>>,
                      NEW t, t = Attempt(1, s, program)
               PROVE  Attempting(t) /\ Earlier(t) /\ Once(t.next) /\ Once(t.threads) /\ DOMAIN t = Fields
    BY DEF FirstAttempt
  <1>1. 1 \in 1..(N + 1)
    BY Inside
  <1>2. Attempting(t) /\ t.start = 1 /\ t.found = <<>> /\ Once(t.next) /\ Once(t.threads)
    BY <1>1, AttemptBegins
  <1>3. Earlier(t)
    <2>1. \A p \in 1..(t.start - 1) : FALSE
      BY <1>2
    <2>2. t.found \in Seq(Results)
      <3>1. \A sq : sq = <<>> => sq \in Seq(Results)
        OBVIOUS
      <3> QED BY <1>2, <3>1, Zenon
    <2> QED BY <1>2, <2>1, <2>2 DEF Earlier
  <1> QED BY <1>2, <1>3 DEF Attempting, Typed

LEMMA FirstAttemptsNext == FirstAttempt'
  BY FirstAttempts, PTL

\* A compiled pattern starts its search.
LEMMA CompileKeeps ==
    ASSUME Fresh, Compile, WellCompiled'
    PROVE  Inv'
  <1>1. stage' = "search" /\ parse' = parse
    BY DEF Compile
  <1> SUFFICES ASSUME program' # <<>> PROVE Machine'
    BY <1>1 DEF Inv, BeforeUse
  <1>2. Sane' /\ parse'.groups \in Nat
    BY <1>1, InputsAssumption DEF Compile, Sane, Fresh
  <1>3. DOMAIN search = Fields /\ search.found = <<>>
    BY DEF Fresh
  <1>4. PICK s, t : s = search /\ t = search'
    OBVIOUS
  <1>5. t = Attempt(1, s, program)'
    BY <1>1, <1>4 DEF Compile, Attempt, NoCaptures
  <1>6. Attempting(t)' /\ Earlier(t)' /\ Once(t.next) /\ Once(t.threads) /\ DOMAIN t = Fields
    BY <1>2, <1>3, <1>4, <1>5, FirstAttemptsNext DEF FirstAttempt, Once
  <1>7. Attempting(search)' /\ Earlier(search)'
    BY <1>4, <1>6 DEF Attempting, Typed, Visited, Queued, Followed, Captured, Longest, Known, Live, Earlier
  <1> QED BY <1>1, <1>2, <1>4, <1>6, <1>7 DEF Machine, Sane, Once, BeforeUse

\* Patterns are read before there is a program.
LEMMA ReadBefore == ASSUME Read PROVE stage \in BeforeUse /\ program' = program
  <1>1. ParsePattern => stage \in BeforeUse
    BY DEF ParsePattern, ParseAtom, ParseBar, ParseGroup, ParseGroupEnd, ParseEnd, Parsing, BeforeUse
  <1> QED BY <1>1, LexKeeps, ValidateKeeps DEF Read, SyntaxNext

\* What is made of the matches leaves them as they are.
LEMMA AnswerKeeps ==
    ASSUME Machine, Answer \/ Replace \/ EndReplace
    PROVE  Machine'
  <1> DEFINE s == search
  <1>1. stage = "searched" /\ Fixed /\ stage' \in {"searched", "answered", "thrown"}
    BY DEF Answer, Replace, EndReplace, Fixed
  <1>2. DOMAIN s = Fields /\ Once(s.next) /\ Once(s.threads) /\ Outcome(s)
    BY <1>1 DEF Machine
  <1>3. \/ \E v : search' = [search EXCEPT !.answer = v]
        \/ \E v, w, z : search' = [search EXCEPT !.replaced = w, !.last = z, !.answer = v]
        \/ search' = search
    BY Zenon DEF Answer, Replace, EndReplace
  <1>4. DOMAIN search' = Fields /\ search'.next = s.next /\ search'.threads = s.threads /\ search'.found = s.found
    BY <1>2, <1>3 DEF Fields
  <1> QED BY <1>1, <1>2, <1>4, MachineKept DEF BeforeUse, Outcome

LEMMA NothingKeeps ==
    ASSUME Inv, UNCHANGED vars
    PROVE  Inv'
  <1>1. stage' = stage /\ program' = program /\ search' = search /\ parse' = parse /\ Fixed
    BY DEF vars, Fixed
  <1>2. Fresh => Fresh'
    BY <1>1 DEF Fresh
  <1>3. Machine => Machine'
    BY <1>1, MachineKept DEF Machine
  <1> QED BY <1>1, <1>2, <1>3 DEF Inv

LEMMA InitKeeps == Init => Inv
  BY DEF Init, SyntaxInit, Inv, Fresh, ParserFields, Fields, BeforeUse

\* Every step keeps the invariant, and decides an attempt it ends.
LEMMA StepKeeps ==
    ASSUME Inv, WellCompiled, WellCompiled', [Next]_vars
    PROVE  Inv' /\ (AttemptDecided \/ UNCHANGED vars)
  <1>1. CASE UNCHANGED vars
    BY <1>1, NothingKeeps
  <1>2. CASE Read
    <2>1. stage \in BeforeUse /\ Fresh
      BY <1>2, ReadBefore DEF Inv
    <2>2. Fresh' /\ program' = <<>>
      BY <1>2, <2>1, ReadKeeps DEF Fresh
    <2> QED BY <2>1, <2>2 DEF Inv, AttemptDecided, Pike, Searching, BeforeUse
  <1>3. CASE Compile
    <2>1. stage = "parsed" /\ Fresh
      BY <1>3 DEF Compile, Inv, BeforeUse
    <2>2. Inv'
      BY <1>3, <2>1, CompileKeeps
    <2> QED BY <2>1, <2>2 DEF AttemptDecided, Pike, Searching
  <1>4. CASE Add \/ StepThread \/ StepCharacter
    <2>1. stage = "search" /\ Machine /\ Sane
      <3>1. stage = "search" /\ program # <<>>
        BY <1>4 DEF Add, StepThread, StepCharacter, Pike, Searching
      <3>2. Machine /\ Sane
        BY <3>1 DEF Inv, Machine, Sane
      <3> QED BY <3>1, <3>2
    <2>2. Attempting(search) /\ parse.groups \in Nat
      BY <2>1 DEF Machine
    <2>3. ASSUME Add PROVE Machine' /\ AttemptDecided
      BY <2>1, <2>2, <2>3, AddKeeps, AttemptKeeps
    <2>4. ASSUME StepThread PROVE Machine' /\ AttemptDecided
      BY <2>1, <2>2, <2>4, StepThreadKeeps, AttemptKeeps
    <2>5. ASSUME StepCharacter PROVE Machine' /\ AttemptDecided
      BY <2>1, <2>5, StepCharacterKeeps
    <2>6. Machine' /\ AttemptDecided
      BY <1>4, <2>3, <2>4, <2>5
    <2> QED BY <2>6 DEF Inv, Machine
  <1>5. CASE Backtracking
    <2>1. stage' \notin BeforeUse /\ program' = program
      BY <1>5, BacktrackingStays
    <2>2. program = <<>>
      BY <1>5, NoneBacktracks DEF Inv
    <2> QED BY <2>1, <2>2 DEF Inv, AttemptDecided, Pike
  <1>6. CASE Answer \/ Replace \/ EndReplace
    <2>1. stage = "searched" /\ stage' \notin BeforeUse /\ program' = program
      BY <1>6 DEF Answer, Replace, EndReplace, BeforeUse
    <2>2. Inv'
      BY <1>6, <2>1, AnswerKeeps DEF Inv
    <2> QED BY <2>1, <2>2 DEF AttemptDecided, Pike, Searching
  <1> QED BY <1>1, <1>2, <1>3, <1>4, <1>5, <1>6 DEF Next, Ended, Backtracking

-----------------------------------------------------------------------------
\* What a search with a program knows of the threads of its pattern holds always:
\* the inductive invariant.
THEOREM PikeInvariant == Spec /\ []WellCompiled => []Inv
  <1>1. Inv /\ WellCompiled /\ WellCompiled' /\ [Next]_vars => Inv'
    BY StepKeeps
  <1> QED BY InitKeeps, <1>1, PTL DEF Spec

\* A search of the Pike machine that found no match has none to find, and its
\* first match is the longest of the leftmost ones (pike_chars, run_pike).
THEOREM LongestFound == Spec /\ []WellCompiled => []LeftmostLongest
  <1>1. Inv => LeftmostLongest
    BY DEF Inv, Machine, Outcome, LeftmostLongest
  <1> QED BY PikeInvariant, <1>1, PTL

\* Neither list of the Pike machine holds an instruction twice (VmCtx::add), so a
\* character takes a time bounded by the program.
THEOREM ThreadsOnce == Spec /\ []WellCompiled => []OneThreadPerInstruction
  <1>1. Inv => OneThreadPerInstruction
    BY DEF Inv, Machine, Once, OneThreadPerInstruction
  <1> QED BY PikeInvariant, <1>1, PTL

\* Each attempt of the Pike machine ends with the longest match from its start if
\* there is one and is given up if not (pike_chars), in a search for all matches
\* (find_all) too.
THEOREM AttemptsRight == Spec /\ []WellCompiled => AttemptsDecided
  <1>1. Inv /\ WellCompiled /\ WellCompiled' /\ [Next]_vars => [AttemptDecided]_vars
    BY StepKeeps
  <1> QED BY PikeInvariant, <1>1, PTL DEF Spec, AttemptsDecided

=============================================================================
