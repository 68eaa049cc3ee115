------------------------ MODULE NameResolutionProofs ------------------------
(*****************************************************************************)
(* Proofs about ModuleLinking that depend on what resolve_export returns,    *)
(* for every set of modules and every program: an import is the one binding  *)
(* its name denotes, linking fails exactly when a name does not denote one,  *)
(* and a namespace has exactly the names that do.                            *)
(*                                                                           *)
(* First the resolver: the recursion over the resolve set has a solution,    *)
(* and its results are cells or failures.  Then what a search finds: the     *)
(* calls of one resolution visit the points below the first, each once, and  *)
(* the result tells whether they found nothing, one cell or two.  Then what  *)
(* a name denotes: the same, when the slots on the way hold what their       *)
(* imports denote.  Then the modules whose slots do so while a module is     *)
(* linked: the linked ones, and those behind a cycle, which forward nothing. *)
(* Last, the steps of run_module keep the invariant that says this, and the  *)
(* theorems.                                                                 *)
(*****************************************************************************)
EXTENDS ModuleLinkingProofs

\* What resolve_export is asked for: a name of a module.
Points == Modules \X Names

\* What a call of resolve_export returns.
Results == [cell : Cells \cup Failures, seen : SUBSET Points]

\* The cells of the slots of all modules.
Environments == [Modules -> [Slots -> Cells]]

\* A failure is not a cell.
LEMMA FailuresAreNoCells == Failures \cap Cells = {}
  <1>1. \A c \in Cells : c # NotFound /\ c # Ambiguous /\ c # Panic
    <2> TAKE c \in Cells
    <2>1. CASE c \in {"slot", "deferred"} \X Modules \X Slots
      <3>1. Len(c) = 3
        BY <2>1
      <3> QED BY <3>1 DEF NotFound, Ambiguous, Panic
    <2>2. CASE c \in {"namespace", "source"} \X Modules
      <3>1. Len(c) = 2
        BY <2>2
      <3> QED BY <3>1 DEF NotFound, Ambiguous, Panic
    <2> QED BY <2>1, <2>2 DEF Cells
  <1> QED BY <1>1 DEF Failures

\* The three failures differ.
LEMMA FailuresDiffer == NotFound # Ambiguous /\ NotFound # Panic /\ Ambiguous # Panic
  BY DEF NotFound, Ambiguous, Panic

\* Min chooses the least member of a nonempty set of indices.
LEMMA MinOf ==
    ASSUME NEW T \in SUBSET Nat, T # {}
    PROVE  Min(T) \in T /\ \A i \in T : Min(T) <= i
  BY LeastNat DEF Min

\* The imports and exports of a module.
LEMMA EntryTypes ==
    ASSUME Graph, NEW m \in Modules
    PROVE  /\ code[m].imports \in Seq(Imports) /\ code[m].exports \in Seq(Exports)
           /\ Len(code[m].exports) \in Nat /\ DOMAIN code[m].exports = 1..Len(code[m].exports)
           /\ Len(code[m].imports) \in Nat /\ DOMAIN code[m].imports = 1..Len(code[m].imports)
           /\ WellFormed(code[m])
  <1>1. code \in Programs /\ code \in [Modules -> Metadata]
    BY LinkingAssumption DEF Graph
  <1>2. code[m] \in Metadata /\ WellFormed(code[m])
    BY <1>1, LinkingAssumption
  <1> QED BY <1>2 DEF Metadata

\* The entries by their kinds.
LEMMA ExportKinds ==
    ASSUME NEW x \in Exports
    PROVE  \/ x.kind = "local" /\ x.exported \in Names /\ x.slot \in Slots
           \/ x.kind = "indirect" /\ x.exported \in Names /\ x.from \in Modules /\ x.imported \in Names
           \/ x.kind = "namespace" /\ x.exported \in Names /\ x.from \in Modules
           \/ x.kind = "star" /\ x.from \in Modules
  BY DEF Exports

\* Likewise the imports.
LEMMA ImportKinds ==
    ASSUME NEW x \in Imports
    PROVE  /\ x.kind \in {"name", "namespace", "deferred", "source"}
           /\ x.from \in Modules /\ x.slot \in Slots
           /\ x.kind = "name" => x.imported \in Names
  BY DEF Imports

\* The entry that decides what a name of a module is.
LEMMA DecidingIs ==
    ASSUME Graph, NEW m \in Modules, NEW n, Matching(m, n) # {}
    PROVE  /\ Deciding(m, n) \in ToSet(code[m].exports) /\ Deciding(m, n) \in Exports
           /\ Deciding(m, n).kind # "star" /\ Deciding(m, n).exported = n
  <1>1. Matching(m, n) \in SUBSET Nat /\ Matching(m, n) \subseteq DOMAIN code[m].exports
    BY EntryTypes DEF Matching
  <1>2. Min(Matching(m, n)) \in Matching(m, n)
    BY <1>1, MinOf
  <1>3. PICK i \in DOMAIN code[m].exports :
            /\ i \in Matching(m, n) /\ Deciding(m, n) = code[m].exports[i]
    BY <1>1, <1>2 DEF Deciding
  <1>4. code[m].exports[i].kind # "star" /\ code[m].exports[i].exported = n
    BY <1>3 DEF Matching
  <1>5. code[m].exports[i] \in Exports
    BY <1>3, EntryTypes
  <1> QED BY <1>3, <1>4, <1>5 DEF ToSet

\* A re-export is of a module that is requested.
LEMMA FromRequested ==
    ASSUME Graph, NEW m \in Modules
    PROVE  /\ \A x \in ToSet(code[m].exports) : x \in Exports /\ (x.kind # "local" => x.from \in Requested(code[m]))
           /\ \A x \in ToSet(code[m].imports) : x \in Imports /\ x.from \in Requested(code[m])
           /\ StarTargets(m) \subseteq Requested(code[m])
  <1>1. /\ \A i \in DOMAIN code[m].exports : code[m].exports[i] \in Exports
        /\ \A i \in DOMAIN code[m].imports : code[m].imports[i] \in Imports
    BY EntryTypes
  <1>2. /\ \A i \in DOMAIN code[m].imports : code[m].imports[i].from \in Requested(code[m])
        /\ \A i \in DOMAIN code[m].exports :
              code[m].exports[i].kind # "local" => code[m].exports[i].from \in Requested(code[m])
    BY EntryTypes DEF WellFormed
  <1>3. \A x \in ToSet(code[m].exports) : x \in Exports /\ (x.kind # "local" => x.from \in Requested(code[m]))
    BY <1>1, <1>2 DEF ToSet
  <1>4. \A x \in ToSet(code[m].imports) : x \in Imports /\ x.from \in Requested(code[m])
    BY <1>1, <1>2 DEF ToSet
  <1>5. StarTargets(m) \subseteq Requested(code[m])
    BY <1>3 DEF StarTargets
  <1> QED BY <1>3, <1>4, <1>5

-----------------------------------------------------------------------------
(* resolve_export is a recursion that ends: each call adds what it was asked *)
(* to the resolve set. That there is a function Resolver, that its results   *)
(* are cells or failures, and that it satisfies its own definition are       *)
(* inductions over what is not in the resolve set.                           *)

\* The answers for one resolve set, and for all that have s in them.
AnswersAt(f, s) == \A p \in Points : f[s][p] \in Results /\ s \subseteq f[s][p].seen
AnswersFrom(f, s) == \A t \in SUBSET Points : s \subseteq t => AnswersAt(f, t)
SameFrom(f, h, s) == \A t \in SUBSET Points : s \subseteq t => f[t] = h[t]

\* The star exports of m tried one after the other.
Tries(m, n, answer, first, k, t) ==
    t = [i \in 0..k |-> IF i = 0 THEN first
                        ELSE TryStar(m, n, answer, t[i - 1], code[m].exports[i])]

\* There is such a sequence for any number of them, by induction on the number.
LEMMA TriesExist ==
    ASSUME NEW m, NEW n, NEW answer, NEW first, NEW k \in Nat
    PROVE  \E t : Tries(m, n, answer, first, k, t)
  <1> DEFINE T == {j \in Nat : \E t : Tries(m, n, answer, first, j, t)}
             More(q, i) == IF i = 0 THEN first
                           ELSE TryStar(m, n, answer, q[i - 1], code[m].exports[i])
  <1>1. 0 \in T
    <2>1. Tries(m, n, answer, first, 0, [i \in 0..0 |-> first])
      BY DEF Tries
    <2> QED BY <2>1
  <1>2. ASSUME NEW j \in Nat, j \in T
        PROVE  j + 1 \in T
    <2>1. PICK t : Tries(m, n, answer, first, j, t)
      BY <1>2
    <2> DEFINE s == [i \in 0..(j + 1) |-> More(t, i)]
    <2>2. \A i \in 0..j : s[i] = t[i]
      <3> TAKE i \in 0..j
      <3>1. t[i] = More(t, i)
        BY <2>1 DEF Tries
      <3>2. i \in 0..(j + 1)
        OBVIOUS
      <3> QED BY <3>1, <3>2
    <2>3. \A i \in 0..(j + 1) : More(t, i) = More(s, i)
      <3> TAKE i \in 0..(j + 1)
      <3>1. CASE i = 0
        BY <3>1
      <3>2. CASE i # 0
        <4>1. i - 1 \in 0..j
          BY <3>2
        <4>2. s[i - 1] = t[i - 1]
          BY <2>2, <4>1
        <4> HIDE DEF s
        <4> QED BY <3>2, <4>2
      <3> QED BY <3>1, <3>2
    <2>4. s = [i \in 0..(j + 1) |-> More(s, i)]
      BY <2>3
    <2>5. Tries(m, n, answer, first, j + 1, s)
      <3> HIDE DEF s
      <3> QED BY <2>4 DEF Tries
    <2> QED BY <2>5
  <1> HIDE DEF T
  <1>3. k \in T
    BY <1>1, <1>2, NatSteps
  <1> QED BY <1>3 DEF T

\* TryStars is the last of these; each comes from the one before.
Tried(m, n, answer, first, t) ==
    /\ TryStars(m, n, answer, first) = t[Len(code[m].exports)]
    /\ t[0] = first
    /\ \A i \in Nat : i + 1 \in DOMAIN code[m].exports =>
          t[i + 1] = TryStar(m, n, answer, t[i], code[m].exports[i + 1])

\* TryStars is the last member of it.
LEMMA TryStarsIs ==
    ASSUME Graph, NEW m \in Modules, NEW n, NEW answer, NEW first
    PROVE  \E t : Tried(m, n, answer, first, t)
  <1> DEFINE k == Len(code[m].exports)
             c == CHOOSE t : Tries(m, n, answer, first, k, t)
  <1>1. k \in Nat /\ DOMAIN code[m].exports = 1..k
    BY EntryTypes
  <1>2. \E t : Tries(m, n, answer, first, k, t)
    BY <1>1, TriesExist
  <1>3. Tries(m, n, answer, first, k, c)
    BY <1>2
  <1>4. TryStars(m, n, answer, first) = c[k]
    BY DEF TryStars, Tries
  <1> HIDE DEF c, k
  <1>5. c[0] = first
    <2>1. 0 \in 0..k
      BY <1>1
    <2> QED BY <1>3, <2>1 DEF Tries
  <1>6. ASSUME NEW i \in Nat, i + 1 \in DOMAIN code[m].exports
        PROVE  c[i + 1] = TryStar(m, n, answer, c[i], code[m].exports[i + 1])
    <2>1. i + 1 \in 0..k /\ i + 1 # 0 /\ (i + 1) - 1 = i
      BY <1>1, <1>6
    <2>2. c[i + 1] = TryStar(m, n, answer, c[(i + 1) - 1], code[m].exports[i + 1])
      BY <1>3, <2>1 DEF Tries
    <2> QED BY <2>1, <2>2
  <1> QED BY <1>4, <1>5, <1>6 DEF k, Tried

\* The answer of one star export, when the calls below it answer with results.
LEMMA TryStarType ==
    ASSUME NEW m \in Modules, NEW n \in Names, NEW now \in SUBSET Points, NEW f, AnswersFrom(f, now),
           NEW r \in Results, now \subseteq r.seen, NEW x \in Exports
    PROVE  /\ TryStar(m, n, f, r, x) \in Results
           /\ now \subseteq TryStar(m, n, f, r, x).seen
  <1>1. CASE x.kind # "star" \/ r.cell \in {Ambiguous, Panic}
    BY <1>1 DEF TryStar
  <1>2. CASE x.kind = "star" /\ r.cell \notin {Ambiguous, Panic} /\ x.from \notin deps[m]
    <2>1. TryStar(m, n, f, r, x) = [r EXCEPT !.cell = Panic]
      BY <1>2 DEF TryStar
    <2>2. Panic \in Cells \cup Failures
      BY DEF Failures
    <2> QED BY <2>1, <2>2 DEF Results
  <1>3. CASE x.kind = "star" /\ r.cell \notin {Ambiguous, Panic} /\ x.from \in deps[m]
    <2>1. x.from \in Modules
      BY <1>3, ExportKinds
    <2>2. PICK p \in Points : p = <<x.from, n>>
      BY <2>1 DEF Points
    <2>3. PICK a : a = f[r.seen][p]
      OBVIOUS
    <2>4. TryStar(m, n, f, r, x) = Agree(r, a)
      BY <1>3, <2>2, <2>3 DEF TryStar
    <2>5. r.seen \in SUBSET Points
      BY DEF Results
    <2>6. a \in Results /\ r.seen \subseteq a.seen
      BY <2>3, <2>5 DEF AnswersFrom, AnswersAt
    <2>7. [a EXCEPT !.cell = Ambiguous] \in Results /\ [a EXCEPT !.cell = Ambiguous].seen = a.seen
      <3>1. Ambiguous \in Cells \cup Failures
        BY DEF Failures
      <3> QED BY <2>6, <3>1 DEF Results
    <2>8. [r EXCEPT !.seen = a.seen] \in Results /\ [r EXCEPT !.seen = a.seen].seen = a.seen
      BY <2>6 DEF Results
    <2>9. Agree(r, a) \in {a, [a EXCEPT !.cell = Ambiguous], [r EXCEPT !.seen = a.seen]}
      BY DEF Agree
    <2> QED BY <2>4, <2>6, <2>7, <2>8, <2>9
  <1> QED BY <1>1, <1>2, <1>3

\* It depends only on the answers for larger resolve sets.
LEMMA TryStarSame ==
    ASSUME NEW m \in Modules, NEW n \in Names, NEW now \in SUBSET Points, NEW f, NEW h, SameFrom(f, h, now),
           NEW r \in Results, now \subseteq r.seen, NEW x
    PROVE  TryStar(m, n, f, r, x) = TryStar(m, n, h, r, x)
  <1>1. f[r.seen] = h[r.seen]
    BY DEF Results, SameFrom
  <1> QED BY <1>1 DEF TryStar

\* And of all of them.
LEMMA TryStarsType ==
    ASSUME Graph, NEW m \in Modules, NEW n \in Names, NEW now \in SUBSET Points, NEW f, AnswersFrom(f, now),
           NEW first \in Results, now \subseteq first.seen
    PROVE  /\ TryStars(m, n, f, first) \in Results
           /\ now \subseteq TryStars(m, n, f, first).seen
           /\ \A h : SameFrom(f, h, now) => TryStars(m, n, f, first) = TryStars(m, n, h, first)
  <1> DEFINE k == Len(code[m].exports)
  <1>1. k \in Nat /\ DOMAIN code[m].exports = 1..k /\ \A i \in 1..k : code[m].exports[i] \in Exports
    BY EntryTypes
  <1>0. \A g : \E t : Tried(m, n, g, first, t)
    BY TryStarsIs
  <1>2. PICK t : Tried(m, n, f, first, t)
    BY <1>0
  <1> HIDE DEF k
  <1> DEFINE T == {i \in Nat : i <= k => t[i] \in Results /\ now \subseteq t[i].seen}
  <1>3. 0 \in T
    BY <1>2 DEF Tried
  <1>4. ASSUME NEW i \in Nat, i \in T
        PROVE  i + 1 \in T
    <2> SUFFICES ASSUME i + 1 <= k PROVE t[i + 1] \in Results /\ now \subseteq t[i + 1].seen
      OBVIOUS
    <2>1. t[i] \in Results /\ now \subseteq t[i].seen
      BY <1>1, <1>4
    <2>2. i + 1 \in 1..k
      BY <1>1
    <2> QED BY <1>1, <1>2, <2>1, <2>2, TryStarType DEF Tried
  <1> HIDE DEF T
  <1>5. \A i \in Nat : i \in T
    BY <1>3, <1>4, NatSteps
  <1>6. \A i \in 0..k : t[i] \in Results /\ now \subseteq t[i].seen
    BY <1>1, <1>5 DEF T
  <1>7. ASSUME NEW h, SameFrom(f, h, now)
        PROVE  TryStars(m, n, f, first) = TryStars(m, n, h, first)
    <2>1. PICK u : Tried(m, n, h, first, u)
      BY <1>0
    <2> DEFINE S == {i \in Nat : i <= k => t[i] = u[i]}
    <2>2. 0 \in S
      BY <1>2, <2>1 DEF Tried
    <2>3. ASSUME NEW i \in Nat, i \in S
          PROVE  i + 1 \in S
      <3> SUFFICES ASSUME i + 1 <= k PROVE t[i + 1] = u[i + 1]
        OBVIOUS
      <3>1. i + 1 \in 1..k /\ i \in 0..k /\ t[i] = u[i]
        BY <1>1, <2>3
      <3>2. t[i] \in Results /\ now \subseteq t[i].seen
        BY <1>6, <3>1
      <3>3. TryStar(m, n, f, t[i], code[m].exports[i + 1]) = TryStar(m, n, h, t[i], code[m].exports[i + 1])
        BY <1>7, <3>2, TryStarSame
      <3>4. t[i + 1] = TryStar(m, n, f, t[i], code[m].exports[i + 1])
        BY <1>1, <1>2, <3>1 DEF Tried
      <3>5. u[i + 1] = TryStar(m, n, h, u[i], code[m].exports[i + 1])
        BY <1>1, <2>1, <3>1 DEF Tried
      <3> QED BY <3>1, <3>3, <3>4, <3>5
    <2> HIDE DEF S
    <2>4. k \in S
      BY <1>1, <2>2, <2>3, NatSteps
    <2> QED BY <1>1, <1>2, <2>1, <2>4 DEF S, Tried, k
  <1>8. t[k] \in Results /\ now \subseteq t[k].seen
    BY <1>1, <1>6
  <1> QED BY <1>2, <1>7, <1>8 DEF Tried, k

\* One call of resolve_export, when the calls below it answer with results.
LEMMA ResolvingType ==
    ASSUME Graph, NEW e \in Environments, NEW m \in Modules, NEW n \in Names, NEW s \in SUBSET Points,
           NEW f, <<m, n>> \notin s => AnswersFrom(f, s \cup {<<m, n>>})
    PROVE  /\ Resolving(e, m, n, s, f) \in Results
           /\ s \subseteq Resolving(e, m, n, s, f).seen
           /\ \A h : SameFrom(f, h, s \cup {<<m, n>>}) =>
                        Resolving(e, m, n, s, f) = Resolving(e, m, n, s, h)
  <1>1. PICK p \in Points : p = <<m, n>>
    BY DEF Points
  <1>2. PICK now \in SUBSET Points : now = s \cup {p}
    OBVIOUS
  <1>3. PICK x : x = Deciding(m, n)
    OBVIOUS
  <1> DEFINE Result(c) == [cell |-> c, seen |-> now]
             Value(g) == Resolving(e, m, n, s, g)
  <1>4. \A c \in Cells \cup Failures : Result(c) \in Results /\ Result(c).cell = c /\ Result(c).seen = now
    BY DEF Results
  <1>5. NotFound \in Cells \cup Failures /\ Panic \in Cells \cup Failures
    BY DEF Failures
  <1>6. CASE p \in s
    <2>1. \A g : Value(g) = [cell |-> NotFound, seen |-> s]
      BY <1>1, <1>6 DEF Resolving
    <2> QED BY <1>5, <2>1 DEF Results
  <1>7. CASE p \notin s /\ Matching(m, n) = {} /\ n = "default"
    <2>1. \A g : Value(g) = Result(NotFound)
      BY <1>1, <1>2, <1>7 DEF Resolving
    <2> QED BY <1>2, <1>4, <1>5, <2>1
  <1>8. CASE p \notin s /\ Matching(m, n) = {} /\ n # "default"
    <2>1. \A g : Value(g) = TryStars(m, n, g, Result(NotFound))
      BY <1>1, <1>2, <1>8 DEF Resolving
    <2>2. Result(NotFound) \in Results /\ now \subseteq Result(NotFound).seen
      BY <1>4, <1>5
    <2>3. AnswersFrom(f, now)
      BY <1>1, <1>2, <1>8
    <2> HIDE DEF Result
    <2>4. /\ TryStars(m, n, f, Result(NotFound)) \in Results
          /\ now \subseteq TryStars(m, n, f, Result(NotFound)).seen
          /\ \A h : SameFrom(f, h, now) =>
                TryStars(m, n, f, Result(NotFound)) = TryStars(m, n, h, Result(NotFound))
      BY <2>2, <2>3, TryStarsType
    <2> QED BY <1>1, <1>2, <2>1, <2>4
  <1>9. CASE p \notin s /\ Matching(m, n) # {} /\ x.kind = "local"
    <2>1. \A g : Value(g) = Result(e[m][x.slot])
      BY <1>1, <1>2, <1>3, <1>9 DEF Resolving
    <2>2. x \in Exports
      BY <1>3, <1>9, DecidingIs
    <2>3. x.slot \in Slots
      BY <1>9, <2>2, ExportKinds
    <2>4. e[m][x.slot] \in Cells \cup Failures
      BY <2>3 DEF Environments
    <2> QED BY <1>2, <1>4, <2>1, <2>4
  <1>10. CASE p \notin s /\ Matching(m, n) # {} /\ x.kind # "local"
    <2>1. x \in Exports /\ x.kind # "star"
      BY <1>3, <1>10, DecidingIs
    <2>2. x.from \in Modules /\ ((x.kind = "indirect" /\ x.imported \in Names) \/ x.kind = "namespace")
      BY <1>10, <2>1, ExportKinds
    <2>3. CASE x.from \notin deps[m]
      <3>1. \A g : Value(g) = Result(Panic)
        BY <1>1, <1>2, <1>3, <1>10, <2>3 DEF Resolving
      <3> QED BY <1>2, <1>4, <1>5, <3>1
    <2>4. CASE x.from \in deps[m] /\ x.kind = "indirect"
      <3>1. PICK q \in Points : q = <<x.from, x.imported>>
        BY <2>2, <2>4 DEF Points
      <3>2. \A g : Value(g) = g[now][q]
        BY <1>1, <1>2, <1>3, <1>10, <2>4, <3>1 DEF Resolving
      <3>3. f[now][q] \in Results /\ now \subseteq f[now][q].seen
        BY <1>1, <1>2, <1>10 DEF AnswersFrom, AnswersAt
      <3> QED BY <1>1, <1>2, <3>2, <3>3 DEF SameFrom
    <2>5. CASE x.from \in deps[m] /\ x.kind # "indirect"
      <3>1. \A g : Value(g) = Result(<<"namespace", x.from>>)
        BY <1>1, <1>2, <1>3, <1>10, <2>5 DEF Resolving
      <3>2. <<"namespace", x.from>> \in Cells \cup Failures
        BY <2>2 DEF Cells
      <3> QED BY <1>2, <1>4, <3>1, <3>2
    <2> QED BY <2>3, <2>4, <2>5
  <1> QED BY <1>6, <1>7, <1>8, <1>9, <1>10

\* The resolve sets that fewer than k points are missing from.
Level(k) == {s \in SUBSET Points : Cardinality(Points \ s) < k}

\* With each point more in the resolve set one is missing less.
LEMMA Levels ==
    /\ IsFiniteSet(Points)
    /\ \A s \in SUBSET Points : Cardinality(Points \ s) \in Nat
    /\ \A s, t \in SUBSET Points : s \subseteq t => Cardinality(Points \ t) <= Cardinality(Points \ s)
    /\ \A s \in SUBSET Points : \A p \in Points \ s :
          Cardinality(Points \ (s \cup {p})) = Cardinality(Points \ s) - 1
    /\ \A k \in Nat : \A s \in Level(k + 1) : \A p \in Points \ s : \A t \in SUBSET Points :
          s \cup {p} \subseteq t => t \in Level(k)
    /\ Level(0) = {}
    /\ \A k \in Nat : Level(k) \subseteq SUBSET Points
    /\ \A j, k \in Nat : j <= k => Level(j) \subseteq Level(k)
  <1>1. IsFiniteSet(Points)
    BY LinkingAssumption, FS_Product DEF Points
  <1>2. \A s \in SUBSET Points : IsFiniteSet(Points \ s) /\ Cardinality(Points \ s) \in Nat
    BY <1>1, FS_Difference, FS_CardinalityType
  <1>3. ASSUME NEW s \in SUBSET Points, NEW t \in SUBSET Points, s \subseteq t
        PROVE  Cardinality(Points \ t) <= Cardinality(Points \ s)
    <2>1. Points \ t \in SUBSET (Points \ s)
      BY <1>3
    <2> QED BY <1>2, <2>1, FS_Subset
  <1>4. ASSUME NEW s \in SUBSET Points, NEW p \in Points \ s
        PROVE  Cardinality(Points \ (s \cup {p})) = Cardinality(Points \ s) - 1
    <2>1. Points \ (s \cup {p}) = (Points \ s) \ {p} /\ p \in Points \ s
      BY <1>4
    <2>2. IsFiniteSet(Points \ s)
      BY <1>2
    <2> QED BY <2>1, <2>2, FS_RemoveElement
  <1>5. ASSUME NEW k \in Nat, NEW s \in Level(k + 1), NEW p \in Points \ s, NEW t \in SUBSET Points,
               s \cup {p} \subseteq t
        PROVE  t \in Level(k)
    <2>1. s \in SUBSET Points /\ s \cup {p} \in SUBSET Points /\ Cardinality(Points \ s) < k + 1
      BY <1>5 DEF Level
    <2>2. Cardinality(Points \ t) <= Cardinality(Points \ (s \cup {p}))
      BY <1>3, <1>5, <2>1
    <2>3. Cardinality(Points \ (s \cup {p})) = Cardinality(Points \ s) - 1
      BY <1>4, <2>1
    <2>4. Cardinality(Points \ t) \in Nat /\ Cardinality(Points \ s) \in Nat
      BY <1>2, <2>1
    <2>5. Cardinality(Points \ t) < k
      BY <2>1, <2>2, <2>3, <2>4
    <2> QED BY <2>5 DEF Level
  <1>6. \A j, k \in Nat : j <= k => Level(j) \subseteq Level(k)
    BY <1>2 DEF Level
  <1>7. Level(0) = {} /\ \A k \in Nat : Level(k) \subseteq SUBSET Points
    BY <1>2 DEF Level
  <1> QED BY <1>1, <1>2, <1>3, <1>4, <1>5, <1>6, <1>7

\* A function that answers as the calls of resolve_export do, for the resolve sets in L.
Solves(e, L, f) == \A s \in L : \A p \in Points : f[s][p] = Resolving(e, p[1], p[2], s, f)

\* What such a function answers are results, by induction on the missing points.
LEMMA AnswersAreResults ==
    ASSUME Graph, NEW e \in Environments, NEW f, NEW k \in Nat, Solves(e, Level(k), f)
    PROVE  \A s \in Level(k) : AnswersAt(f, s)
  <1> DEFINE T == {j \in Nat : j <= k => \A s \in Level(j) : AnswersAt(f, s)}
  <1>1. 0 \in T
    BY Levels
  <1>2. ASSUME NEW j \in Nat, j \in T
        PROVE  j + 1 \in T
    <2> SUFFICES ASSUME j + 1 <= k, NEW s \in Level(j + 1), NEW p \in Points
                 PROVE  f[s][p] \in Results /\ s \subseteq f[s][p].seen
      BY DEF AnswersAt
    <2>1. \A t \in Level(j) : AnswersAt(f, t)
      BY <1>2
    <2>2. s \in SUBSET Points /\ s \in Level(k)
      BY Levels
    <2>3. f[s][p] = Resolving(e, p[1], p[2], s, f)
      BY <2>2 DEF Solves
    <2>4. PICK m \in Modules, n \in Names : p = <<m, n>> /\ p[1] = m /\ p[2] = n
      BY DEF Points
    <2>5. ASSUME p \notin s
          PROVE  AnswersFrom(f, s \cup {p})
      <3>1. \A t \in SUBSET Points : s \cup {p} \subseteq t => t \in Level(j)
        BY <2>5, Levels
      <3> QED BY <2>1, <3>1 DEF AnswersFrom
    <2>6. Resolving(e, m, n, s, f) \in Results /\ s \subseteq Resolving(e, m, n, s, f).seen
      BY <2>2, <2>4, <2>5, ResolvingType
    <2>7. f[s][p] = Resolving(e, m, n, s, f)
      BY <2>3, <2>4
    <2> QED BY <2>6, <2>7
  <1> HIDE DEF T
  <1>3. k \in T
    BY <1>1, <1>2, NatSteps
  <1> QED BY <1>3 DEF T

\* There is one for every number of missing points, by the same induction.
LEMMA SolutionsExist ==
    ASSUME Graph, NEW e \in Environments, NEW k \in Nat
    PROVE  \E f : f = [s \in Level(k) |-> [p \in Points |-> Resolving(e, p[1], p[2], s, f)]]
  <1> DEFINE Next_(j, f) == [s \in Level(j) |-> [p \in Points |-> Resolving(e, p[1], p[2], s, f)]]
             T == {j \in Nat : \E f : f = Next_(j, f)}
  <1>1. 0 \in T
    <2>1. Level(0) = {}
      BY Levels
    <2>2. \A f : Next_(0, f) = [s \in {} |-> {}]
      BY <2>1
    <2>3. [s \in {} |-> {}] = Next_(0, [s \in {} |-> {}])
      BY <2>2
    <2> HIDE DEF Next_
    <2>4. \E f : f = Next_(0, f)
      BY <2>3
    <2> QED BY <2>4
  <1>2. ASSUME NEW j \in Nat, j \in T
        PROVE  j + 1 \in T
    <2>1. PICK f : f = Next_(j, f)
      BY <1>2
    <2>2. PICK h : h = Next_(j + 1, f)
      OBVIOUS
    <2>3. Level(j) \subseteq Level(j + 1)
      BY Levels
    <2>4. \A s \in Level(j) : h[s] = f[s]
      BY <2>1, <2>2, <2>3
    <2>5. Solves(e, Level(j), f)
      BY <2>1 DEF Solves
    <2>6. \A s \in Level(j) : AnswersAt(f, s)
      BY <2>5, AnswersAreResults
    <2>7. ASSUME NEW s \in Level(j + 1), NEW p \in Points
          PROVE  Resolving(e, p[1], p[2], s, f) = Resolving(e, p[1], p[2], s, h)
      <3>1. s \in SUBSET Points
        BY DEF Level
      <3>2. PICK m \in Modules, n \in Names : p = <<m, n>> /\ p[1] = m /\ p[2] = n
        BY DEF Points
      <3>3. CASE p \in s
        <4>1. \A g : Resolving(e, p[1], p[2], s, g) = [cell |-> NotFound, seen |-> s]
          BY <3>2, <3>3 DEF Resolving
        <4> QED BY <4>1
      <3>4. CASE p \notin s
        <4>0. \A t \in SUBSET Points : s \cup {p} \subseteq t => t \in Level(j)
          BY <3>4, Levels
        <4>1. AnswersFrom(f, s \cup {p}) /\ SameFrom(f, h, s \cup {p})
          BY <2>4, <2>6, <4>0 DEF AnswersFrom, SameFrom
        <4> QED BY <3>1, <3>2, <4>1, ResolvingType
      <3> QED BY <3>3, <3>4
    <2>8. Next_(j + 1, f) = Next_(j + 1, h)
      BY <2>7
    <2> HIDE DEF Next_
    <2>9. \E g : g = Next_(j + 1, g)
      BY <2>2, <2>8
    <2> QED BY <2>9
  <1> HIDE DEF T
  <1>3. k \in T
    BY <1>1, <1>2, NatSteps
  <1> QED BY <1>3 DEF T

\* The resolver answers as the calls of resolve_export do, and with results.
LEMMA ResolverIs ==
    ASSUME Graph, NEW e \in Environments
    PROVE  /\ Solves(e, SUBSET Points, Resolver(e))
           /\ \A s \in SUBSET Points : AnswersAt(Resolver(e), s)
  <1> DEFINE k == Cardinality(Points) + 1
             Is(f) == f = [s \in SUBSET Points |-> [p \in Points |-> Resolving(e, p[1], p[2], s, f)]]
             c == CHOOSE f : Is(f)
  <1>1. k \in Nat /\ Level(k) = SUBSET Points
    <2>1. Cardinality(Points \ {}) \in Nat /\ Points \ {} = Points
      BY Levels
    <2>2. \A s \in SUBSET Points : {} \subseteq s /\ {} \in SUBSET Points
      OBVIOUS
    <2>3. \A s \in SUBSET Points : Cardinality(Points \ s) \in Nat /\ Cardinality(Points \ s) <= Cardinality(Points)
      BY <2>1, <2>2, Levels
    <2> QED BY <2>1, <2>3 DEF Level
  <1>2. \E f : Is(f)
    <2>1. PICK j \in Nat : Level(j) = SUBSET Points
      BY <1>1
    <2>2. \E f : f = [s \in Level(j) |-> [p \in Points |-> Resolving(e, p[1], p[2], s, f)]]
      BY SolutionsExist
    <2> QED BY <2>1, <2>2
  <1> HIDE DEF k
  <1>3. Is(c)
    BY <1>2
  <1>4. Resolver(e) = c
    BY DEF Resolver, Points
  <1> HIDE DEF c
  <1>5. Solves(e, SUBSET Points, c)
    BY <1>3 DEF Solves
  <1>6. \A s \in SUBSET Points : AnswersAt(c, s)
    BY <1>1, <1>5, AnswersAreResults
  <1> QED BY <1>4, <1>5, <1>6

-----------------------------------------------------------------------------
(* What resolve_export finds. A point either is a cell, or refers to points  *)
(* of other modules; the calls visit what can be reached, each point once.   *)

\* A point whose name is exported from a slot.
IsLocal(p) == Matching(p[1], p[2]) # {} /\ Deciding(p[1], p[2]).kind = "local"

\* The points that a call for p asks for, the modules it needs for that, and what it
\* finds by itself.
Onward(p) ==
    IF Matching(p[1], p[2]) # {}
      THEN LET x == Deciding(p[1], p[2])
           IN  IF x.kind = "indirect" THEN {<<x.from, x.imported>>} ELSE {}
      ELSE IF p[2] = "default" THEN {} ELSE {<<d, p[2]>> : d \in StarTargets(p[1])}

Needs(p) ==
    IF Matching(p[1], p[2]) # {}
      THEN IF IsLocal(p) THEN {} ELSE {Deciding(p[1], p[2]).from}
      ELSE IF p[2] = "default" THEN {} ELSE StarTargets(p[1])

Found(e, p) ==
    IF Matching(p[1], p[2]) = {} THEN {}
    ELSE LET x == Deciding(p[1], p[2])
         IN  IF x.kind = "local" THEN {e[p[1]][x.slot]}
             ELSE IF x.kind = "namespace" THEN {<<"namespace", x.from>>} ELSE {}

\* What all points of S find.
AllFound(e, S) == UNION {Found(e, q) : q \in S}

\* The calls stay in C, as long as they do not lack a dependency.
Kept(C) == \A q \in C : \A t \in Onward(q) : t[1] \in deps[q[1]] => t \in C

\* A dependency of the point was not loaded; two of the points find different cells.
Lacks(q) == ~ (Needs(q) \subseteq deps[q[1]])

Rivals(e, C) == \E p, q \in C : \E c \in Found(e, p) : \E d \in Found(e, q) : c # d

\* What the result r says, with the points of C visited since the resolve set was s:
\* a cell, if it is all that was found; two, if the name is ambiguous.
Tally(e, C, s, r) ==
    /\ s \subseteq r.seen /\ r.seen \subseteq s \cup C
    /\ r.cell = Ambiguous => Rivals(e, C)
    /\ r.cell = Panic => \E q \in C : Lacks(q)
    /\ r.cell \notin {Ambiguous, Panic} =>
          /\ \A q \in r.seen \ s : Onward(q) \subseteq r.seen /\ ~ Lacks(q)
          /\ AllFound(e, r.seen \ s) = {r.cell} \ {NotFound}

\* What several points find.
LEMMA AllFoundIs ==
    ASSUME NEW e
    PROVE  /\ \A S, c : c \in AllFound(e, S) <=> \E q \in S : c \in Found(e, q)
           /\ \A S, T : AllFound(e, S \cup T) = AllFound(e, S) \cup AllFound(e, T)
           /\ \A p : AllFound(e, {p}) = Found(e, p)
           /\ AllFound(e, {}) = {}
  <1>1. \A S, c : c \in AllFound(e, S) <=> \E q \in S : c \in Found(e, q)
    BY DEF AllFound
  <1>2. ASSUME NEW S, NEW T
        PROVE  AllFound(e, S \cup T) = AllFound(e, S) \cup AllFound(e, T)
    <2>1. \A c : c \in AllFound(e, S \cup T) <=> c \in AllFound(e, S) \/ c \in AllFound(e, T)
      BY <1>1
    <2> QED BY <2>1
  <1>3. ASSUME NEW p
        PROVE  AllFound(e, {p}) = Found(e, p)
    <2>1. \A c : c \in AllFound(e, {p}) <=> c \in Found(e, p)
      BY <1>1
    <2> QED BY <2>1
  <1>4. AllFound(e, {}) = {}
    BY DEF AllFound
  <1> QED BY <1>1, <1>2, <1>3, <1>4

\* Two tallies of one search after the other.
LEMMA TallyThen ==
    ASSUME NEW e, NEW C, NEW s, NEW r, NEW a, r.cell \notin {Ambiguous, Panic},
           r \in Results, a \in Results,
           Tally(e, C, s, r), Tally(e, C, r.seen, a)
    PROVE  Agree(r, a).seen = a.seen /\ Tally(e, C, s, Agree(r, a))
  <1>1. /\ s \subseteq r.seen /\ r.seen \subseteq s \cup C
        /\ r.seen \subseteq a.seen /\ a.seen \subseteq r.seen \cup C
    BY DEF Tally
  <1>2. CASE a.cell \in {Ambiguous, Panic}
    <2>1. Agree(r, a) = a
      BY <1>2 DEF Agree
    <2>2. s \subseteq a.seen /\ a.seen \subseteq s \cup C
      BY <1>1
    <2> QED BY <1>2, <2>1, <2>2 DEF Tally
  <1>3. CASE a.cell \notin {Ambiguous, Panic}
    <2>1. /\ \A q \in r.seen \ s : Onward(q) \subseteq r.seen /\ ~ Lacks(q)
          /\ AllFound(e, r.seen \ s) = {r.cell} \ {NotFound}
      BY DEF Tally
    <2>2. /\ \A q \in a.seen \ r.seen : Onward(q) \subseteq a.seen /\ ~ Lacks(q)
          /\ AllFound(e, a.seen \ r.seen) = {a.cell} \ {NotFound}
      BY <1>3 DEF Tally
    <2>3. \A q \in a.seen \ s : Onward(q) \subseteq a.seen /\ ~ Lacks(q)
      BY <1>1, <2>1, <2>2
    <2>4. AllFound(e, a.seen \ s)
             = ({r.cell} \ {NotFound}) \cup ({a.cell} \ {NotFound})
      <3>1. a.seen \ s = (r.seen \ s) \cup (a.seen \ r.seen)
        BY <1>1
      <3>2. PICK S, T, U : S = r.seen \ s /\ T = a.seen \ r.seen /\ U = a.seen \ s
        OBVIOUS
      <3>3. AllFound(e, S \cup T) = AllFound(e, S) \cup AllFound(e, T)
        BY AllFoundIs
      <3>4. U = S \cup T
        BY <3>1, <3>2
      <3> QED BY <2>1, <2>2, <3>2, <3>3, <3>4
    <2>5. CASE r.cell = NotFound
      <3>1. Agree(r, a) = a
        BY <1>3, <2>5 DEF Agree
      <3>2. AllFound(e, a.seen \ s) = {a.cell} \ {NotFound}
        BY <2>4, <2>5
      <3> QED BY <1>1, <1>3, <2>3, <3>1, <3>2 DEF Tally
    <2>6. CASE r.cell # NotFound /\ a.cell \in {NotFound, r.cell}
      <3>1. Agree(r, a) = [r EXCEPT !.seen = a.seen]
        BY <1>3, <2>6 DEF Agree
      <3>2. Agree(r, a).cell = r.cell /\ Agree(r, a).seen = a.seen
        BY <3>1 DEF Results
      <3>3. AllFound(e, a.seen \ s) = {r.cell} \ {NotFound}
        BY <2>4, <2>6
      <3>4. s \subseteq a.seen /\ a.seen \subseteq s \cup C
        BY <1>1
      <3> QED BY <2>3, <3>2, <3>3, <3>4 DEF Tally
    <2>7. CASE r.cell # NotFound /\ a.cell \notin {NotFound, r.cell}
      <3>1. Agree(r, a) = [a EXCEPT !.cell = Ambiguous]
        BY <1>3, <2>7 DEF Agree
      <3>2. Agree(r, a).cell = Ambiguous /\ Agree(r, a).seen = a.seen
        BY <3>1 DEF Results
      <3>3. PICK p \in r.seen \ s : r.cell \in Found(e, p)
        <4>1. r.cell \in AllFound(e, r.seen \ s)
          BY <2>1, <2>7
        <4> QED BY <4>1, AllFoundIs
      <3>4. PICK q \in a.seen \ r.seen : a.cell \in Found(e, q)
        <4>1. a.cell \in AllFound(e, a.seen \ r.seen)
          BY <2>2, <2>7
        <4> QED BY <4>1, AllFoundIs
      <3>5. p \in C /\ q \in C /\ r.cell # a.cell
        BY <1>1, <2>7, <3>3, <3>4
      <3>6. Rivals(e, C)
        BY <3>3, <3>4, <3>5 DEF Rivals
      <3>7. s \subseteq a.seen /\ a.seen \subseteq s \cup C
        BY <1>1
      <3> QED BY <3>2, <3>6, <3>7, FailuresDiffer DEF Tally
    <2> QED BY <2>5, <2>6, <2>7
  <1> QED BY <1>2, <1>3

\* What a call of resolve_export for p returns, when it finds the resolve set s.
Answer(e, C, s, p, r) ==
    Tally(e, C, s, r) /\ (r.cell \notin {Ambiguous, Panic} => p \in r.seen)

\* One star export more.
LEMMA TallyStar ==
    ASSUME Graph, NEW e \in Environments, NEW C \in SUBSET Points, Kept(C),
           NEW now \in SUBSET Points, NEW f, AnswersFrom(f, now),
           \A t \in SUBSET Points : now \subseteq t => \A q \in C : Answer(e, C, t, q, f[t][q]),
           NEW m \in Modules, NEW n \in Names, <<m, n>> \in C,
           Matching(m, n) = {}, n # "default",
           NEW x \in ToSet(code[m].exports),
           NEW r \in Results, Tally(e, C, now, r)
    PROVE  /\ Tally(e, C, now, TryStar(m, n, f, r, x))
           /\ r.seen \subseteq TryStar(m, n, f, r, x).seen
           /\ TryStar(m, n, f, r, x).cell \notin {Ambiguous, Panic} =>
                 /\ r.cell \notin {Ambiguous, Panic}
                 /\ x.kind = "star" => x.from \in deps[m] /\ <<x.from, n>> \in TryStar(m, n, f, r, x).seen
  <1>1. PICK p \in C : p = <<m, n>> /\ p[1] = m /\ p[2] = n
    OBVIOUS
  <1>2. x.kind = "star" => x.from \in StarTargets(m)
    BY DEF StarTargets
  <1>3. Needs(p) = StarTargets(m)
    BY <1>1 DEF Needs
  <1>4. CASE r.cell \in {Ambiguous, Panic}
    BY <1>4 DEF TryStar
  <1>5. CASE x.kind # "star"
    BY <1>5 DEF TryStar
  <1>6. CASE r.cell \notin {Ambiguous, Panic} /\ x.kind = "star" /\ x.from \notin deps[m]
    <2>1. TryStar(m, n, f, r, x) = [r EXCEPT !.cell = Panic]
      BY <1>6 DEF TryStar
    <2>2. TryStar(m, n, f, r, x).cell = Panic /\ TryStar(m, n, f, r, x).seen = r.seen
      BY <2>1 DEF Results
    <2>3. Lacks(p)
      BY <1>1, <1>2, <1>3, <1>6 DEF Lacks
    <2> QED BY <2>2, <2>3, FailuresDiffer DEF Tally
  <1>7. CASE r.cell \notin {Ambiguous, Panic} /\ x.kind = "star" /\ x.from \in deps[m]
    <2>1. PICK q : q = <<x.from, n>>
      OBVIOUS
    <2>2. q[1] = x.from /\ q \in Onward(p)
      BY <1>1, <1>2, <1>7, <2>1 DEF Onward
    <2>3. q \in C
      BY <1>1, <1>7, <2>2 DEF Kept
    <2>4. now \subseteq r.seen /\ r.seen \in SUBSET Points
      BY DEF Tally, Results
    <2>5. PICK a : a = f[r.seen][q]
      OBVIOUS
    <2>6. a \in Results
      BY <2>3, <2>4, <2>5 DEF AnswersFrom, AnswersAt
    <2>7. Answer(e, C, r.seen, q, a)
      BY <2>3, <2>4, <2>5
    <2>8. Agree(r, a).seen = a.seen /\ Tally(e, C, now, Agree(r, a))
      BY <1>7, <2>6, <2>7, TallyThen DEF Answer
    <2>9. TryStar(m, n, f, r, x) = Agree(r, a)
      BY <1>7, <2>1, <2>5 DEF TryStar
    <2>10. Agree(r, a).cell \notin {Ambiguous, Panic} => a.cell \notin {Ambiguous, Panic}
      BY DEF Agree
    <2>11. r.seen \subseteq a.seen
      BY <2>7 DEF Answer, Tally
    <2> QED BY <1>7, <2>1, <2>7, <2>8, <2>9, <2>10, <2>11 DEF Answer
  <1> QED BY <1>4, <1>5, <1>6, <1>7

\* All star exports.
LEMMA TallyStars ==
    ASSUME Graph, NEW e \in Environments, NEW C \in SUBSET Points, Kept(C),
           NEW now \in SUBSET Points, NEW f, AnswersFrom(f, now),
           \A t \in SUBSET Points : now \subseteq t => \A q \in C : Answer(e, C, t, q, f[t][q]),
           NEW m \in Modules, NEW n \in Names, <<m, n>> \in C,
           Matching(m, n) = {}, n # "default",
           NEW first \in Results, Tally(e, C, now, first)
    PROVE  /\ Tally(e, C, now, TryStars(m, n, f, first))
           /\ TryStars(m, n, f, first).cell \notin {Ambiguous, Panic} =>
                 \A d \in StarTargets(m) : d \in deps[m] /\ <<d, n>> \in TryStars(m, n, f, first).seen
  <1> DEFINE exports == code[m].exports
             k == Len(exports)
  <1>1. k \in Nat /\ DOMAIN exports = 1..k /\ \A i \in 1..k : exports[i] \in Exports /\ exports[i] \in ToSet(exports)
    BY EntryTypes DEF ToSet
  <1>0. PICK t : Tried(m, n, f, first, t)
    BY TryStarsIs
  <1>2. /\ TryStars(m, n, f, first) = t[k]
        /\ t[0] = first
        /\ \A i \in Nat : i + 1 \in DOMAIN exports =>
              t[i + 1] = TryStar(m, n, f, t[i], exports[i + 1])
    BY <1>0 DEF Tried
  <1> HIDE DEF k, exports
  <1> DEFINE Done(r, i) ==
                /\ r \in Results /\ now \subseteq r.seen /\ Tally(e, C, now, r)
                /\ r.cell \notin {Ambiguous, Panic} =>
                      \A j \in 1..i : exports[j].kind = "star" =>
                          exports[j].from \in deps[m] /\ <<exports[j].from, n>> \in r.seen
             T == {i \in Nat : i <= k => Done(t[i], i)}
  <1>3. 0 \in T
    <2>1. 1..0 = {}
      OBVIOUS
    <2>2. now \subseteq first.seen
      BY DEF Tally
    <2>3. first.cell \notin {Ambiguous, Panic} =>
                      \A j \in 1..0 : exports[j].kind = "star" =>
                          exports[j].from \in deps[m] /\ <<exports[j].from, n>> \in first.seen
      BY <2>1
    <2>4. Done(first, 0)
      BY <2>2, <2>3
    <2> HIDE DEF Done
    <2> QED BY <1>2, <2>4
  <1>4. ASSUME NEW i \in Nat, i \in T
        PROVE  i + 1 \in T
    <2> SUFFICES ASSUME i + 1 <= k PROVE Done(t[i + 1], i + 1)
      OBVIOUS
    <2>1. Done(t[i], i)
      BY <1>1, <1>4
    <2>2. i + 1 \in 1..k
      BY <1>1
    <2>3. PICK x : x = exports[i + 1] /\ x \in Exports /\ x \in ToSet(exports)
      BY <1>1, <2>2
    <2>4. PICK r, v : r = t[i] /\ v = t[i + 1]
      OBVIOUS
    <2>5. v = TryStar(m, n, f, r, x)
      BY <1>1, <1>2, <2>2, <2>3, <2>4
    <2>6. Done(r, i)
      BY <2>1, <2>4
    <2>7. v \in Results /\ now \subseteq v.seen
      BY <2>3, <2>5, <2>6, TryStarType
    <2>8. /\ Tally(e, C, now, v) /\ r.seen \subseteq v.seen
          /\ v.cell \notin {Ambiguous, Panic} =>
                /\ r.cell \notin {Ambiguous, Panic}
                /\ x.kind = "star" => x.from \in deps[m] /\ <<x.from, n>> \in v.seen
      <3>1. x \in ToSet(code[m].exports)
        BY <2>3 DEF exports
      <3> QED BY <2>5, <2>6, <3>1, TallyStar
    <2>9. \A j \in 1..(i + 1) : j \in 1..i \/ j = i + 1
      OBVIOUS
    <2> HIDE DEF T
    <2> QED BY <2>3, <2>4, <2>6, <2>7, <2>8, <2>9
  <1> HIDE DEF T
  <1>5. k \in T
    BY <1>1, <1>3, <1>4, NatSteps
  <1>6. Done(t[k], k)
    BY <1>1, <1>5 DEF T
  <1>7. \A d \in StarTargets(m) : \E j \in 1..k : exports[j].kind = "star" /\ exports[j].from = d
    BY <1>1 DEF StarTargets, ToSet, exports
  <1> QED BY <1>2, <1>6, <1>7

\* A call that finds nothing but what the calls it makes find.
LEMMA TallyVisited ==
    ASSUME NEW e, NEW C \in SUBSET Points, NEW s \in SUBSET Points, NEW p \in C, p \notin s,
           NEW r, Tally(e, C, s \cup {p}, r), Found(e, p) = {},
           r.cell \notin {Ambiguous, Panic} => Onward(p) \subseteq r.seen /\ ~ Lacks(p)
    PROVE  Answer(e, C, s, p, r)
  <1>1. /\ s \subseteq r.seen /\ p \in r.seen /\ r.seen \subseteq s \cup C
        /\ r.cell = Ambiguous => Rivals(e, C)
        /\ r.cell = Panic => \E q \in C : Lacks(q)
    BY DEF Tally
  <1>2. ASSUME r.cell \notin {Ambiguous, Panic}
        PROVE  /\ \A q \in r.seen \ s : Onward(q) \subseteq r.seen /\ ~ Lacks(q)
               /\ AllFound(e, r.seen \ s) = {r.cell} \ {NotFound}
    <2>1. PICK now : now = s \cup {p}
      OBVIOUS
    <2>2. PICK T, U : T = r.seen \ now /\ U = r.seen \ s
      OBVIOUS
    <2>3. U = {p} \cup T
      BY <1>1, <2>1, <2>2
    <2>4. /\ \A q \in T : Onward(q) \subseteq r.seen /\ ~ Lacks(q)
          /\ AllFound(e, T) = {r.cell} \ {NotFound}
      BY <1>2, <2>1, <2>2 DEF Tally
    <2>5. \A q \in U : Onward(q) \subseteq r.seen /\ ~ Lacks(q)
      BY <1>2, <2>3, <2>4
    <2>6. AllFound(e, {p} \cup T) = AllFound(e, {p}) \cup AllFound(e, T) /\ AllFound(e, {p}) = {}
      BY AllFoundIs
    <2> QED BY <2>2, <2>3, <2>4, <2>5, <2>6
  <1> QED BY <1>1, <1>2 DEF Tally, Answer

\* A call that makes no other.
LEMMA TallyAlone ==
    ASSUME NEW e, NEW C \in SUBSET Points, NEW s \in SUBSET Points, NEW p \in C,
           NEW c, c \in Cells \cup {NotFound, Panic},
           c = Panic => Lacks(p),
           c # Panic => Onward(p) = {} /\ ~ Lacks(p) /\ Found(e, p) = {c} \ {NotFound}
    PROVE  p \notin s => Answer(e, C, s, p, [cell |-> c, seen |-> s \cup {p}])
  <1> SUFFICES ASSUME p \notin s
               PROVE  Answer(e, C, s, p, [cell |-> c, seen |-> s \cup {p}])
    OBVIOUS
  <1>0. PICK r : r = [cell |-> c, seen |-> s \cup {p}]
    OBVIOUS
  <1>1. r.cell = c /\ r.seen = s \cup {p}
    BY <1>0
  <1>2. c # Ambiguous
    BY FailuresAreNoCells, FailuresDiffer DEF Failures
  <1>3. r.seen \ s = {p}
    BY <1>1
  <1>4. AllFound(e, {p}) = Found(e, p)
    BY AllFoundIs
  <1>5. CASE c = Panic
    BY <1>1, <1>2, <1>5, FailuresDiffer DEF Answer, Tally
  <1>6. CASE c # Panic
    BY <1>1, <1>2, <1>3, <1>4, <1>6 DEF Answer, Tally
  <1> QED BY <1>0, <1>5, <1>6

\* One call of resolve_export, when the calls it makes answer as they should.
LEMMA OneCall ==
    ASSUME Graph, NEW e \in Environments, NEW C \in SUBSET Points, Kept(C),
           NEW s \in SUBSET Points, NEW m \in Modules, NEW n \in Names, <<m, n>> \in C, NEW f,
           <<m, n>> \notin s => AnswersFrom(f, s \cup {<<m, n>>}),
           <<m, n>> \notin s =>
              \A t \in SUBSET Points : s \cup {<<m, n>>} \subseteq t =>
                  \A q \in C : Answer(e, C, t, q, f[t][q])
    PROVE  Answer(e, C, s, <<m, n>>, Resolving(e, m, n, s, f))
  <1>1. PICK p \in C : p = <<m, n>> /\ p[1] = m /\ p[2] = n
    OBVIOUS
  <1>2. PICK now \in SUBSET Points : now = s \cup {p}
    OBVIOUS
  <1>3. PICK x : x = Deciding(m, n)
    OBVIOUS
  <1> DEFINE Result(c) == [cell |-> c, seen |-> now]
  <1>4. PICK v : v = Resolving(e, m, n, s, f)
    OBVIOUS
  <1> SUFFICES Answer(e, C, s, p, v)
    BY <1>1, <1>4
  <1>5. CASE p \in s
    <2>1. v = [cell |-> NotFound, seen |-> s]
      BY <1>1, <1>4, <1>5 DEF Resolving
    <2>2. v.cell = NotFound /\ v.seen = s /\ v.seen \ s = {}
      BY <2>1
    <2>3. AllFound(e, {}) = {}
      BY AllFoundIs
    <2> QED BY <1>5, <2>2, <2>3, FailuresDiffer DEF Answer, Tally
  <1>6. CASE p \notin s /\ Matching(m, n) = {} /\ n = "default"
    <2>1. v = Result(NotFound)
      BY <1>1, <1>2, <1>4, <1>6 DEF Resolving
    <2>2. Onward(p) = {} /\ ~ Lacks(p) /\ Found(e, p) = {}
      BY <1>1, <1>6 DEF Onward, Lacks, Needs, Found
    <2> QED BY <1>2, <1>6, <2>1, <2>2, TallyAlone, FailuresDiffer
  <1>7. CASE p \notin s /\ Matching(m, n) = {} /\ n # "default"
    <2>1. v = TryStars(m, n, f, Result(NotFound))
      BY <1>1, <1>2, <1>4, <1>7 DEF Resolving
    <2>2. PICK first : first = Result(NotFound)
      OBVIOUS
    <2>3. first \in Results /\ first.cell = NotFound /\ first.seen = now /\ first.seen \ now = {}
      BY <2>2 DEF Results, Failures
    <2>4. Tally(e, C, now, first)
      <3>1. AllFound(e, {}) = {}
        BY AllFoundIs
      <3> QED BY <2>3, <3>1, FailuresDiffer DEF Tally
    <2>5. AnswersFrom(f, now) /\ \A t \in SUBSET Points : now \subseteq t => \A q \in C : Answer(e, C, t, q, f[t][q])
      BY <1>1, <1>2, <1>7
    <2>6. /\ Tally(e, C, now, v)
          /\ v.cell \notin {Ambiguous, Panic} =>
                 \A d \in StarTargets(m) : d \in deps[m] /\ <<d, n>> \in v.seen
      BY <1>7, <2>1, <2>2, <2>3, <2>4, <2>5, TallyStars
    <2>7. Found(e, p) = {} /\ Onward(p) = {<<d, n>> : d \in StarTargets(m)} /\ Needs(p) = StarTargets(m)
      BY <1>1, <1>7 DEF Found, Onward, Needs
    <2>8. v.cell \notin {Ambiguous, Panic} => Onward(p) \subseteq v.seen /\ ~ Lacks(p)
      BY <1>1, <2>6, <2>7 DEF Lacks
    <2> QED BY <1>2, <1>7, <2>6, <2>7, <2>8, TallyVisited
  <1>8. CASE p \notin s /\ Matching(m, n) # {} /\ x.kind = "local"
    <2>1. v = Result(e[m][x.slot])
      BY <1>1, <1>2, <1>3, <1>4, <1>8 DEF Resolving
    <2>2. x \in Exports
      BY <1>3, <1>8, DecidingIs
    <2>3. x.slot \in Slots
      BY <1>8, <2>2, ExportKinds
    <2>4. e[m][x.slot] \in Cells /\ e[m][x.slot] \notin Failures
      BY <2>3, FailuresAreNoCells DEF Environments
    <2>5. Onward(p) = {} /\ ~ Lacks(p) /\ Found(e, p) = {e[m][x.slot]}
      BY <1>1, <1>3, <1>8 DEF Onward, Lacks, Needs, Found, IsLocal
    <2> QED BY <1>2, <1>8, <2>1, <2>4, <2>5, TallyAlone DEF Failures
  <1>9. CASE p \notin s /\ Matching(m, n) # {} /\ x.kind # "local"
    <2>1. x \in Exports /\ x.kind # "star"
      BY <1>3, <1>9, DecidingIs
    <2>2. x.from \in Modules /\ ((x.kind = "indirect" /\ x.imported \in Names) \/ x.kind = "namespace")
      BY <1>9, <2>1, ExportKinds
    <2>3. Needs(p) = {x.from}
      BY <1>1, <1>3, <1>9 DEF Needs, IsLocal
    <2>4. CASE x.from \notin deps[m]
      <3>1. v = Result(Panic)
        BY <1>1, <1>2, <1>3, <1>4, <1>9, <2>4 DEF Resolving
      <3>2. Lacks(p)
        BY <1>1, <2>3, <2>4 DEF Lacks
      <3> QED BY <1>2, <1>9, <3>1, <3>2, TallyAlone
    <2>5. CASE x.from \in deps[m] /\ x.kind = "indirect"
      <3>0. PICK q \in Points : q = <<x.from, x.imported>>
        BY <2>2, <2>5 DEF Points
      <3>1. q = <<x.from, x.imported>> /\ q[1] = x.from
        BY <3>0
      <3>2. v = f[now][q]
        BY <1>1, <1>2, <1>3, <1>4, <1>9, <2>5, <3>1 DEF Resolving
      <3>3. Onward(p) = {q} /\ ~ Lacks(p) /\ Found(e, p) = {}
        BY <1>1, <1>3, <1>9, <2>3, <2>5, <3>1 DEF Onward, Lacks, Found
      <3>4. q \in C
        BY <1>1, <2>5, <3>1, <3>3 DEF Kept
      <3>5. Answer(e, C, now, q, v)
        BY <1>1, <1>2, <1>9, <3>2, <3>4
      <3> QED BY <1>2, <1>9, <3>3, <3>5, TallyVisited DEF Answer
    <2>6. CASE x.from \in deps[m] /\ x.kind = "namespace"
      <3>1. PICK c : c = <<"namespace", x.from>>
        OBVIOUS
      <3>2. v = Result(c)
        BY <1>1, <1>2, <1>3, <1>4, <1>9, <2>6, <3>1 DEF Resolving
      <3>3. c \in Cells /\ c \notin Failures
        <4>1. c \in Cells
          BY <2>2, <3>1 DEF Cells
        <4> QED BY <4>1, FailuresAreNoCells
      <3>4. Onward(p) = {} /\ ~ Lacks(p) /\ Found(e, p) = {c}
        BY <1>1, <1>3, <1>9, <2>3, <2>6, <3>1 DEF Onward, Lacks, Found
      <3> QED BY <1>2, <1>9, <3>2, <3>3, <3>4, TallyAlone DEF Failures
    <2> QED BY <2>2, <2>4, <2>5, <2>6
  <1> QED BY <1>3, <1>5, <1>6, <1>7, <1>8, <1>9

\* Every call answers as it should.
LEMMA Search ==
    ASSUME Graph, NEW e \in Environments, NEW C \in SUBSET Points, Kept(C)
    PROVE  \A s \in SUBSET Points : \A p \in C : Answer(e, C, s, p, Resolver(e)[s][p])
  <1>1. PICK f : f = Resolver(e)
    OBVIOUS
  <1>2. Solves(e, SUBSET Points, f) /\ \A s \in SUBSET Points : AnswersAt(f, s)
    BY <1>1, ResolverIs
  <1> DEFINE T == {k \in Nat : \A s \in Level(k) : \A p \in C : Answer(e, C, s, p, f[s][p])}
  <1>3. 0 \in T
    BY Levels
  <1>4. ASSUME NEW k \in Nat, k \in T
        PROVE  k + 1 \in T
    <2> SUFFICES ASSUME NEW s \in Level(k + 1), NEW p \in C
                 PROVE  Answer(e, C, s, p, f[s][p])
      OBVIOUS
    <2>1. \A t \in Level(k) : \A q \in C : Answer(e, C, t, q, f[t][q])
      BY <1>4
    <2>2. s \in SUBSET Points
      BY DEF Level
    <2>3. PICK m \in Modules, n \in Names : p = <<m, n>> /\ p[1] = m /\ p[2] = n
      BY DEF Points
    <2>4. f[s][p] = Resolving(e, m, n, s, f)
      <3>1. f[s][p] = Resolving(e, p[1], p[2], s, f)
        BY <1>2, <2>2 DEF Solves
      <3> QED BY <2>3, <3>1
    <2>5. AnswersFrom(f, s \cup {p})
      BY <1>2 DEF AnswersFrom
    <2>6. ASSUME p \notin s, NEW t \in SUBSET Points, s \cup {p} \subseteq t
          PROVE  \A q \in C : Answer(e, C, t, q, f[t][q])
      <3>1. t \in Level(k)
        BY <2>6, Levels
      <3> QED BY <2>1, <3>1
    <2>7. Answer(e, C, s, <<m, n>>, Resolving(e, m, n, s, f))
      <3> HIDE DEF T
      <3> QED BY <2>2, <2>3, <2>5, <2>6, OneCall
    <2> QED BY <2>3, <2>4, <2>7
  <1> HIDE DEF T
  <1>5. \A k \in Nat : k \in T
    BY <1>3, <1>4, NatSteps
  <1>6. ASSUME NEW s \in SUBSET Points
        PROVE  \E k \in Nat : s \in Level(k)
    <2>1. Cardinality(Points \ s) \in Nat
      BY Levels
    <2>2. Cardinality(Points \ s) < Cardinality(Points \ s) + 1
      BY <2>1
    <2> QED BY <2>1, <2>2 DEF Level
  <1> QED BY <1>1, <1>5, <1>6 DEF T

-----------------------------------------------------------------------------
(* What a name denotes, and what resolve_export finds. Denotes follows an    *)
(* import that is exported again, through any number of modules; for         *)
(* resolve_export it is what the slot of the environment holds. They agree   *)
(* where the slots hold what their imports denote.                           *)

\* Refers, Provides and Denotes by point.
Refer(p)    == Refers(p[1], p[2])
Provided(p) == Provides(p[1], p[2])
Denoted(p)  == Denotes(p[1], p[2])
Through(p)  == Closure({p}, [q \in Points |-> Refers(q[1], q[2])])

\* A slot is bound by one import at most.
LEMMA OneImport ==
    ASSUME Graph, NEW m \in Modules
    PROVE  /\ \A i \in DOMAIN code[m].imports :
                 ImportsOf(m, code[m].imports[i].slot) = {code[m].imports[i]}
           /\ \A x \in ToSet(code[m].imports) : ImportsOf(m, x.slot) = {x}
           /\ \A s : ImportsOf(m, s) = {} \/ \E x \in ToSet(code[m].imports) : x.slot = s
  <1>1. \A i, j \in DOMAIN code[m].imports :
            code[m].imports[i].slot = code[m].imports[j].slot => i = j
    BY EntryTypes DEF WellFormed
  <1>2. ASSUME NEW i \in DOMAIN code[m].imports
        PROVE  ImportsOf(m, code[m].imports[i].slot) = {code[m].imports[i]}
    <2>1. code[m].imports[i] \in ImportsOf(m, code[m].imports[i].slot)
      BY DEF ImportsOf, ToSet
    <2>2. ASSUME NEW x \in ImportsOf(m, code[m].imports[i].slot)
          PROVE  x = code[m].imports[i]
      <3>1. PICK j \in DOMAIN code[m].imports : x = code[m].imports[j]
        BY DEF ImportsOf, ToSet
      <3>2. x.slot = code[m].imports[i].slot
        BY DEF ImportsOf
      <3> QED BY <1>1, <3>1, <3>2
    <2> QED BY <2>1, <2>2
  <1>3. \A x \in ToSet(code[m].imports) : \E i \in DOMAIN code[m].imports : x = code[m].imports[i]
    BY DEF ToSet
  <1>4. \A s : ImportsOf(m, s) = {} \/ \E x \in ToSet(code[m].imports) : x.slot = s
    BY DEF ImportsOf
  <1> QED BY <1>2, <1>3, <1>4

\* A point that is not local refers to what its call asks for, and provides what it finds.
LEMMA NotLocal ==
    ASSUME Graph, NEW p \in Points
    PROVE  /\ ~ IsLocal(p) => Refer(p) = Onward(p) /\ \A e : Found(e, p) = Provided(p)
           /\ IsLocal(p) => Onward(p) = {} /\ \A e : Found(e, p) = {e[p[1]][Deciding(p[1], p[2]).slot]}
           /\ Onward(p) \subseteq Refer(p)
           /\ Needs(p) \subseteq Requested(code[p[1]])
           /\ \A t \in Onward(p) : t[1] \in Needs(p)
           /\ Onward(p) \subseteq Points
  <1>1. PICK m \in Modules, n \in Names : p = <<m, n>> /\ p[1] = m /\ p[2] = n
    BY DEF Points
  <1>2. PICK x : x = Deciding(m, n)
    OBVIOUS
  <1>3. StarTargets(m) \subseteq Requested(code[m]) /\ StarTargets(m) \subseteq Modules
    <2>1. ToSet(code[m].requests) \subseteq Modules
      BY CodeTypes DEF ToSet
    <2> QED BY <2>1, FromRequested DEF Requested
  <1>4. CASE Matching(m, n) = {}
    <2>1. ~ IsLocal(p)
      BY <1>1, <1>4 DEF IsLocal
    <2>2. Refer(p) = Onward(p)
      BY <1>1, <1>4 DEF Refer, Refers, Onward
    <2>3. Provided(p) = {} /\ \A e : Found(e, p) = {}
      BY <1>1, <1>4 DEF Provided, Provides, Found
    <2>4. Needs(p) = IF n = "default" THEN {} ELSE StarTargets(m)
      BY <1>1, <1>4 DEF Needs
    <2>5. Onward(p) = IF n = "default" THEN {} ELSE {<<d, n>> : d \in StarTargets(m)}
      BY <1>1, <1>4 DEF Onward
    <2>6. \A d \in StarTargets(m) : <<d, n>> \in Points /\ <<d, n>>[1] = d
      BY <1>3 DEF Points
    <2> QED BY <1>1, <1>3, <2>1, <2>2, <2>3, <2>4, <2>5, <2>6
  <1>5. CASE Matching(m, n) # {}
    <2>1. x \in ToSet(code[m].exports) /\ x \in Exports /\ x.kind # "star"
      BY <1>2, <1>5, DecidingIs
    <2>2. CASE x.kind = "local"
      <3>1. IsLocal(p)
        BY <1>1, <1>2, <1>5, <2>2 DEF IsLocal
      <3>2. Onward(p) = {} /\ Needs(p) = {}
        BY <1>1, <1>2, <1>5, <2>2, <3>1 DEF Onward, Needs
      <3>3. \A e : Found(e, p) = {e[m][x.slot]}
        BY <1>1, <1>2, <1>5, <2>2 DEF Found
      <3> QED BY <1>1, <1>2, <3>1, <3>2, <3>3
    <2>3. CASE x.kind # "local"
      <3>1. ~ IsLocal(p)
        BY <1>1, <1>2, <1>5, <2>3 DEF IsLocal
      <3>2. /\ x.from \in Modules /\ x.from \in Requested(code[m])
            /\ (x.kind = "indirect" /\ x.imported \in Names) \/ x.kind = "namespace"
        BY <2>1, <2>3, ExportKinds, FromRequested
      <3>3. Needs(p) = {x.from}
        BY <1>1, <1>2, <1>5, <3>1 DEF Needs
      <3>4. CASE x.kind = "indirect"
        <4>1. Onward(p) = {<<x.from, x.imported>>} /\ \A e : Found(e, p) = {}
          BY <1>1, <1>2, <1>5, <3>4 DEF Onward, Found
        <4>2. Refer(p) = {<<x.from, x.imported>>} /\ Provided(p) = {}
          BY <1>1, <1>2, <1>5, <3>4 DEF Refer, Refers, Provided, Provides
        <4>3. <<x.from, x.imported>> \in Points /\ <<x.from, x.imported>>[1] = x.from
          BY <3>2, <3>4 DEF Points
        <4> QED BY <1>1, <3>1, <3>2, <3>3, <4>1, <4>2, <4>3
      <3>5. CASE x.kind = "namespace"
        <4>1. Onward(p) = {} /\ \A e : Found(e, p) = {<<"namespace", x.from>>}
          BY <1>1, <1>2, <1>5, <3>5 DEF Onward, Found
        <4>2. Refer(p) = {} /\ Provided(p) = {<<"namespace", x.from>>}
          BY <1>1, <1>2, <1>5, <3>5 DEF Refer, Refers, Provided, Provides
        <4> QED BY <1>1, <3>1, <3>2, <3>3, <4>1, <4>2
      <3> QED BY <3>2, <3>4, <3>5
    <2> QED BY <2>2, <2>3
  <1> QED BY <1>4, <1>5

\* A local point: its slot is the module's own, or the import that binds it says.
LEMMA LocalIs ==
    ASSUME Graph, NEW p \in Points, IsLocal(p),
           NEW s, s = Deciding(p[1], p[2]).slot
    PROVE  /\ s \in Slots
           /\ ImportsOf(p[1], s) = {} => Refer(p) = {} /\ Provided(p) = {<<"slot", p[1], s>>}
           /\ \A x \in ToSet(code[p[1]].imports) : x.slot = s =>
                 /\ x.kind = "name" => Refer(p) = {<<x.from, x.imported>>} /\ Provided(p) = {}
                 /\ x.kind # "name" =>
                       /\ Refer(p) = {}
                       /\ Provided(p) = {IF x.kind = "deferred" THEN <<"deferred", p[1], s>>
                                                                ELSE <<x.kind, x.from>>}
  <1>1. PICK m \in Modules, n \in Names : p = <<m, n>> /\ p[1] = m /\ p[2] = n
    BY DEF Points
  <1>2. PICK y : y = Deciding(m, n) /\ y.kind = "local" /\ y.slot = s /\ Matching(m, n) # {}
    BY <1>1 DEF IsLocal
  <1>3. y \in Exports
    BY <1>2, DecidingIs
  <1>4. s \in Slots
    BY <1>2, <1>3, ExportKinds
  <1>5. Refer(p) = {<<i.from, i.imported>> : i \in {j \in ImportsOf(m, s) : j.kind = "name"}}
    BY <1>1, <1>2 DEF Refer, Refers
  <1>6. Provided(p) = IF ImportsOf(m, s) = {} THEN {<<"slot", m, s>>}
                      ELSE {IF i.kind = "deferred" THEN <<"deferred", m, i.slot>>
                                                   ELSE <<i.kind, i.from>> :
                               i \in {j \in ImportsOf(m, s) : j.kind # "name"}}
    BY <1>1, <1>2 DEF Provided, Provides
  <1>7. ASSUME NEW x \in ToSet(code[m].imports), x.slot = s
        PROVE  /\ x.kind = "name" => Refer(p) = {<<x.from, x.imported>>} /\ Provided(p) = {}
               /\ x.kind # "name" =>
                     /\ Refer(p) = {}
                     /\ Provided(p) = {IF x.kind = "deferred" THEN <<"deferred", m, s>>
                                                              ELSE <<x.kind, x.from>>}
    <2>1. ImportsOf(m, s) = {x}
      BY <1>7, OneImport
    <2>2. CASE x.kind = "name"
      <3>1. {j \in ImportsOf(m, s) : j.kind = "name"} = {x} /\ {j \in ImportsOf(m, s) : j.kind # "name"} = {}
        BY <2>1, <2>2
      <3> QED BY <1>5, <1>6, <2>1, <2>2, <3>1
    <2>3. CASE x.kind # "name"
      <3>1. {j \in ImportsOf(m, s) : j.kind = "name"} = {} /\ {j \in ImportsOf(m, s) : j.kind # "name"} = {x}
        BY <2>1, <2>3
      <3> QED BY <1>5, <1>6, <1>7, <2>1, <2>3, <3>1
    <2> QED BY <2>2, <2>3
  <1>8. ImportsOf(m, s) = {} => Refer(p) = {} /\ Provided(p) = {<<"slot", m, s>>}
    BY <1>5, <1>6
  <1> QED BY <1>1, <1>4, <1>7, <1>8

\* What a point refers to are points.
LEMMA RefersToPoints ==
    ASSUME Graph
    PROVE  /\ \A p \in Points : Refer(p) \in SUBSET Points
           /\ [q \in Points |-> Refers(q[1], q[2])] \in [Points -> SUBSET Points]
  <1>1. ASSUME NEW p \in Points
        PROVE  Refer(p) \in SUBSET Points
    <2>1. CASE ~ IsLocal(p)
      BY <2>1, NotLocal
    <2>2. CASE IsLocal(p)
      <3>1. PICK s : s = Deciding(p[1], p[2]).slot
        OBVIOUS
      <3>2. p[1] \in Modules
        BY DEF Points
      <3>3. CASE ImportsOf(p[1], s) = {}
        <4>1. Refer(p) = {}
          BY <2>2, <3>1, <3>3, LocalIs
        <4> QED BY <4>1
      <3>4. CASE ImportsOf(p[1], s) # {}
        <4>1. PICK x \in ToSet(code[p[1]].imports) : x.slot = s
          BY <3>2, <3>4, OneImport
        <4>2. x \in Imports
          BY <3>2, FromRequested
        <4>3. x.kind = "name" => <<x.from, x.imported>> \in Points
          BY <4>2, ImportKinds DEF Points
        <4>4. Refer(p) = {} \/ (x.kind = "name" /\ Refer(p) = {<<x.from, x.imported>>})
          BY <2>2, <3>1, <4>1, LocalIs
        <4> QED BY <4>3, <4>4
      <3> QED BY <3>3, <3>4
    <2> QED BY <2>1, <2>2
  <1> QED BY <1>1 DEF Refer

\* Through is what can be reached by referring, and Denotes is what is provided there.
LEMMA ThroughIs ==
    ASSUME Graph, NEW p \in Points
    PROVE  /\ Through(p) \in SUBSET Points /\ p \in Through(p)
           /\ \A q \in Through(p) : Refer(q) \subseteq Through(p)
           /\ \A D : p \in D /\ (\A q \in D : q \in Points => Refer(q) \subseteq D) => Through(p) \subseteq D
           /\ \A c : c \in Denoted(p) <=> \E q \in Through(p) : c \in Provided(q)
  <1> DEFINE next == [q \in Points |-> Refers(q[1], q[2])]
  <1>1. next \in [Points -> SUBSET Points] /\ \A q \in Points : next[q] = Refer(q)
    BY RefersToPoints DEF Refer
  <1>2. IsFiniteSet(Points)
    BY Levels
  <1>3. PICK S \in SUBSET Points : S = {p}
    OBVIOUS
  <1>4. Through(p) = Closure(S, next)
    BY <1>3 DEF Through
  <1> HIDE DEF next
  <1>5. /\ Closure(S, next) \in SUBSET Points
        /\ S \subseteq Closure(S, next)
        /\ Closed(Closure(S, next), next)
        /\ \A D : S \subseteq D /\ Closed(D, next) => Closure(S, next) \subseteq D
    BY <1>1, <1>2, ClosureIsLeast
  <1>6. Through(p) \in SUBSET Points /\ p \in Through(p)
    BY <1>3, <1>4, <1>5
  <1>7. \A q \in Through(p) : Refer(q) \subseteq Through(p)
    BY <1>1, <1>4, <1>5 DEF Closed
  <1>8. ASSUME NEW D, p \in D, \A q \in D : q \in Points => Refer(q) \subseteq D
        PROVE  Through(p) \subseteq D
    <2>1. PICK T : T = Through(p) \cap D
      OBVIOUS
    <2>2. S \subseteq T
      BY <1>3, <1>6, <1>8, <2>1
    <2>3. Closed(T, next)
      BY <1>1, <1>6, <1>7, <1>8, <2>1 DEF Closed
    <2>4. Through(p) \subseteq T
      BY <1>4, <1>5, <2>2, <2>3
    <2> QED BY <2>1, <2>4
  <1>9. ASSUME NEW c
        PROVE  c \in Denoted(p) <=> \E q \in Through(p) : c \in Provided(q)
    <2>1. p = <<p[1], p[2]>>
      BY DEF Points
    <2>2. Denoted(p) = UNION {Provides(q[1], q[2]) : q \in Through(p)}
      BY <2>1 DEF Denoted, Denotes, Through, Points
    <2> QED BY <2>2 DEF Provided
  <1> QED BY <1>6, <1>7, <1>8, <1>9

\* A point denotes what it provides and what the points it refers to denote.
LEMMA DenotesBelow ==
    ASSUME Graph, NEW p \in Points
    PROVE  /\ \A q \in Through(p) : Through(q) \subseteq Through(p) /\ Denoted(q) \subseteq Denoted(p)
           /\ \A c : c \in Denoted(p) <=> c \in Provided(p) \/ \E q \in Refer(p) : c \in Denoted(q)
  <1>1. ASSUME NEW q \in Through(p)
        PROVE  Through(q) \subseteq Through(p) /\ Denoted(q) \subseteq Denoted(p)
    <2>1. q \in Points /\ \A r \in Through(p) : Refer(r) \subseteq Through(p)
      BY ThroughIs
    <2>2. Through(q) \subseteq Through(p)
      BY <2>1, ThroughIs
    <2>3. Denoted(q) \subseteq Denoted(p)
      BY <2>1, <2>2, ThroughIs
    <2> QED BY <2>2, <2>3
  <1>2. ASSUME NEW c \in Denoted(p)
        PROVE  c \in Provided(p) \/ \E q \in Refer(p) : c \in Denoted(q)
    <2> DEFINE D == {p} \cup UNION {Through(q) : q \in Refer(p)}
    <2>1. \A q \in Refer(p) : q \in Points /\ q \in Through(q) /\ Through(q) \subseteq D
      BY RefersToPoints, ThroughIs
    <2>2. ASSUME NEW r \in D
          PROVE  Refer(r) \subseteq D
      <3>1. CASE r = p
        BY <2>1, <3>1
      <3>2. CASE r # p
        <4>1. PICK q \in Refer(p) : r \in Through(q)
          BY <3>2
        <4>2. Refer(r) \subseteq Through(q)
          BY <2>1, <4>1, ThroughIs
        <4> QED BY <2>1, <4>1, <4>2
      <3> QED BY <3>1, <3>2
    <2>3. p \in D
      OBVIOUS
    <2>4. \A r \in D : r = p \/ \E q \in Refer(p) : r \in Through(q)
      OBVIOUS
    <2> HIDE DEF D
    <2>5. Through(p) \subseteq D
      BY <2>2, <2>3, ThroughIs
    <2>6. PICK r \in Through(p) : c \in Provided(r)
      BY ThroughIs
    <2>7. CASE r = p
      BY <2>6, <2>7
    <2>8. CASE r # p
      <3>1. PICK q \in Refer(p) : r \in Through(q)
        BY <2>4, <2>5, <2>8
      <3>2. c \in Denoted(q)
        BY <2>1, <2>6, <3>1, ThroughIs
      <3> QED BY <3>2
    <2> QED BY <2>7, <2>8
  <1>3. ASSUME NEW c, c \in Provided(p)
        PROVE  c \in Denoted(p)
    BY <1>3, ThroughIs
  <1>4. ASSUME NEW q \in Refer(p), NEW c \in Denoted(q)
        PROVE  c \in Denoted(p)
    <2>1. q \in Through(p)
      BY ThroughIs
    <2> QED BY <1>1, <2>1
  <1> QED BY <1>1, <1>2, <1>3, <1>4

\* A slot that holds what its import denotes, or is the module's own.
SlotSound(e, m, s) ==
    /\ ImportsOf(m, s) = {} => e[m][s] = <<"slot", m, s>>
    /\ \A x \in ToSet(code[m].imports) : x.slot = s =>
          IF x.kind = "name" THEN Denotes(x.from, x.imported) = {e[m][s]}
          ELSE e[m][s] = IF x.kind = "deferred" THEN <<"deferred", m, s>> ELSE <<x.kind, x.from>>

\* A local point of a sound slot denotes what is in the slot.
LEMMA LocalSound ==
    ASSUME Graph, NEW e, NEW p \in Points, IsLocal(p), SlotSound(e, p[1], Deciding(p[1], p[2]).slot)
    PROVE  Denoted(p) = Found(e, p)
  <1>1. PICK s : s = Deciding(p[1], p[2]).slot
    OBVIOUS
  <1>2. p[1] \in Modules
    BY DEF Points
  <1>3. Found(e, p) = {e[p[1]][s]}
    BY <1>1, NotLocal
  <1>4. \A c : c \in Denoted(p) <=> c \in Provided(p) \/ \E q \in Refer(p) : c \in Denoted(q)
    BY DenotesBelow
  <1>5. CASE ImportsOf(p[1], s) = {}
    <2>1. Refer(p) = {} /\ Provided(p) = {e[p[1]][s]}
      BY <1>1, <1>5, LocalIs DEF SlotSound
    <2>2. \A c : c \in Denoted(p) <=> c = e[p[1]][s]
      BY <1>4, <2>1
    <2> QED BY <1>3, <2>2
  <1>6. CASE ImportsOf(p[1], s) # {}
    <2>1. PICK x \in ToSet(code[p[1]].imports) : x.slot = s
      BY <1>2, <1>6, OneImport
    <2>2. CASE x.kind = "name"
      <3>1. PICK q : q = <<x.from, x.imported>>
        OBVIOUS
      <3>2. Refer(p) = {q} /\ Provided(p) = {}
        BY <1>1, <2>1, <2>2, <3>1, LocalIs
      <3>3. Denoted(q) = {e[p[1]][s]}
        BY <1>1, <2>1, <2>2, <3>1 DEF SlotSound, Denoted
      <3>4. \A c : c \in Denoted(p) <=> c = e[p[1]][s]
        BY <1>4, <3>2, <3>3
      <3> QED BY <1>3, <3>4
    <2>3. CASE x.kind # "name"
      <3>0. PICK v : v = IF x.kind = "deferred" THEN <<"deferred", p[1], s>> ELSE <<x.kind, x.from>>
        OBVIOUS
      <3>3. Refer(p) = {} /\ Provided(p) = {v}
        BY <1>1, <2>1, <2>3, <3>0, LocalIs
      <3>4. e[p[1]][s] = v
        BY <1>1, <2>1, <2>3, <3>0 DEF SlotSound
      <3>1. Refer(p) = {} /\ Provided(p) = {e[p[1]][s]}
        BY <3>3, <3>4
      <3>2. \A c : c \in Denoted(p) <=> c = e[p[1]][s]
        BY <1>4, <3>1
      <3> QED BY <1>3, <3>2
    <2> QED BY <2>2, <2>3
  <1> QED BY <1>5, <1>6

\* What the local points of V hold is what they denote.
Sound(e, V) == \A q \in V : IsLocal(q) => Denoted(q) = Found(e, q)

\* What points below p find, p denotes; and it denotes no more, if the points are all
\* that a call for p visits.
LEMMA FoundIsDenoted ==
    ASSUME Graph, NEW e, NEW p \in Points, NEW V, V \subseteq Through(p), Sound(e, V)
    PROVE  /\ AllFound(e, V) \subseteq Denoted(p)
           /\ p \in V /\ (\A q \in V : Onward(q) \subseteq V) => Denoted(p) = AllFound(e, V)
  <1>1. V \subseteq Points
    BY ThroughIs
  <1>2. ASSUME NEW c \in AllFound(e, V)
        PROVE  c \in Denoted(p)
    <2>1. PICK q \in V : c \in Found(e, q)
      BY AllFoundIs
    <2>2. Denoted(q) \subseteq Denoted(p) /\ q \in Points
      BY <1>1, DenotesBelow
    <2>3. CASE IsLocal(q)
      BY <2>1, <2>2, <2>3 DEF Sound
    <2>4. CASE ~ IsLocal(q)
      <3>1. c \in Provided(q)
        BY <2>1, <2>2, <2>4, NotLocal
      <3> QED BY <2>2, <3>1, DenotesBelow
    <2> QED BY <2>3, <2>4
  <1>3. ASSUME p \in V, \A q \in V : Onward(q) \subseteq V,
               NEW c \in Denoted(p)
        PROVE  c \in AllFound(e, V)
    <2> DEFINE D == V \cup UNION {Through(r) : r \in {q \in V : IsLocal(q)}}
    <2>1. \A r \in V : r \in Points /\ (IsLocal(r) => Through(r) \subseteq D)
      BY <1>1
    <2>2. ASSUME NEW q \in D
          PROVE  Refer(q) \subseteq D
      <3>1. CASE q \in V /\ ~ IsLocal(q)
        <4>1. Refer(q) = Onward(q)
          BY <2>1, <3>1, NotLocal
        <4> QED BY <1>3, <3>1, <4>1
      <3>2. CASE \E r \in V : IsLocal(r) /\ q \in Through(r)
        <4>1. PICK r \in V : IsLocal(r) /\ q \in Through(r)
          BY <3>2
        <4>2. Refer(q) \subseteq Through(r)
          BY <2>1, <4>1, ThroughIs
        <4> QED BY <2>1, <4>1, <4>2
      <3>3. CASE q \in V /\ IsLocal(q)
        <4>1. q \in Through(q)
          BY <2>1, <3>3, ThroughIs
        <4> QED BY <3>2, <3>3, <4>1
      <3> QED BY <3>1, <3>2, <3>3
    <2>3. \A q \in D : q \in V \/ \E r \in V : IsLocal(r) /\ q \in Through(r)
      OBVIOUS
    <2>4. p \in D
      BY <1>3
    <2> HIDE DEF D
    <2>5. Through(p) \subseteq D
      BY <2>2, <2>4, ThroughIs
    <2>6. PICK q \in Through(p) : c \in Provided(q)
      BY ThroughIs
    <2>7. CASE q \in V /\ ~ IsLocal(q)
      <3>1. c \in Found(e, q)
        BY <2>1, <2>6, <2>7, NotLocal
      <3> QED BY <2>7, <3>1, AllFoundIs
    <2>8. CASE \E r \in V : IsLocal(r) /\ q \in Through(r)
      <3>1. PICK r \in V : IsLocal(r) /\ q \in Through(r)
        BY <2>8
      <3>2. c \in Denoted(r)
        BY <2>1, <2>6, <3>1, ThroughIs
      <3>3. c \in Found(e, r)
        BY <3>1, <3>2 DEF Sound
      <3> QED BY <3>3, AllFoundIs
    <2>9. CASE q \in V /\ IsLocal(q)
      <3>1. q \in Through(q)
        BY <2>1, <2>9, ThroughIs
      <3> QED BY <2>8, <2>9, <3>1
    <2> QED BY <2>3, <2>5, <2>6, <2>7, <2>8, <2>9
  <1> QED BY <1>2, <1>3

\* resolve_export for p, when the calls stay in Z and the slots there are sound.
LEMMA Resolved ==
    ASSUME Graph, NEW e \in Environments, NEW Z \in SUBSET Points, Kept(Z), Sound(e, Z),
           NEW m \in Modules, NEW n \in Names, <<m, n>> \in Z
    PROVE  /\ ResolveExport(e, m, n) \in Cells \cup Failures
           /\ ResolveExport(e, m, n) \in Cells => Denotes(m, n) = {ResolveExport(e, m, n)}
           /\ ResolveExport(e, m, n) = NotFound => Denotes(m, n) = {}
           /\ ResolveExport(e, m, n) = Ambiguous => \E c, d \in Denotes(m, n) : c # d
           /\ ResolveExport(e, m, n) = Panic => \E q \in Z : Lacks(q)
  <1>1. PICK p \in Z : p = <<m, n>> /\ p[1] = m /\ p[2] = n
    OBVIOUS
  <1>2. PICK C : C = Through(p) \cap Z
    OBVIOUS
  <1>3. C \in SUBSET Points /\ p \in C /\ p \in Points
    BY <1>1, <1>2, ThroughIs
  <1>4. Kept(C)
    <2>1. SUFFICES ASSUME NEW q \in C, NEW t \in Onward(q), t[1] \in deps[q[1]]
                   PROVE  t \in C
      BY DEF Kept
    <2>2. t \in Z
      BY <1>2, <2>1 DEF Kept
    <2>3. t \in Refer(q)
      BY <1>3, NotLocal
    <2>4. t \in Through(p)
      BY <1>2, <1>3, <2>3, ThroughIs
    <2> QED BY <1>2, <2>2, <2>4
  <1>5. PICK r : r = Resolver(e)[{}][p]
    OBVIOUS
  <1>6. {} \in SUBSET Points
    OBVIOUS
  <1>7. r \in Results
    BY <1>3, <1>5, <1>6, ResolverIs DEF AnswersAt
  <1>8. Answer(e, C, {}, p, r)
    BY <1>3, <1>4, <1>5, <1>6, Search
  <1>9. ResolveExport(e, m, n) = r.cell /\ Denotes(m, n) = Denoted(p)
    BY <1>1, <1>5 DEF ResolveExport, Denoted
  <1>10. r.cell \in Cells \cup Failures
    BY <1>7 DEF Results
  <1>11. \A V : V \subseteq C => V \subseteq Through(p) /\ Sound(e, V)
    BY <1>2 DEF Sound
  <1>12. ASSUME r.cell \notin {Ambiguous, Panic}
         PROVE  Denoted(p) = {r.cell} \ {NotFound}
    <2>1. PICK V : V = r.seen
      OBVIOUS
    <2>2. V \subseteq C /\ p \in V /\ V \ {} = V
      BY <1>8, <1>12, <2>1 DEF Answer, Tally
    <2>3. /\ \A q \in V : Onward(q) \subseteq V
          /\ AllFound(e, V) = {r.cell} \ {NotFound}
      BY <1>8, <1>12, <2>1, <2>2 DEF Answer, Tally
    <2> QED BY <1>3, <1>11, <2>2, <2>3, FoundIsDenoted
  <1>13. ASSUME r.cell = Ambiguous
         PROVE  \E c, d \in Denoted(p) : c # d
    <2>1. Rivals(e, C)
      BY <1>8, <1>13 DEF Answer, Tally
    <2>2. PICK a \in C, b \in C : \E c \in Found(e, a) : \E d \in Found(e, b) : c # d
      BY <2>1 DEF Rivals
    <2>5. PICK c, d : c \in Found(e, a) /\ d \in Found(e, b) /\ c # d
      BY <2>2
    <2>3. c \in AllFound(e, C) /\ d \in AllFound(e, C)
      BY <2>5, AllFoundIs
    <2>4. AllFound(e, C) \subseteq Denoted(p)
      BY <1>3, <1>11, FoundIsDenoted
    <2> QED BY <2>3, <2>4, <2>5
  <1>14. ASSUME r.cell = Panic
         PROVE  \E q \in Z : Lacks(q)
    BY <1>2, <1>8, <1>14 DEF Answer, Tally
  <1>15. r.cell \in Cells => r.cell \notin Failures
    BY FailuresAreNoCells
  <1> QED BY <1>9, <1>10, <1>12, <1>13, <1>14, <1>15, FailuresDiffer DEF Failures

\* A point provides one cell at most, so that a name denotes finitely many.
LEMMA DenotedFinite ==
    ASSUME Graph, NEW p \in Points
    PROVE  IsFiniteSet(Denoted(p))
  <1>1. ASSUME NEW q \in Points, NEW c \in Provided(q), NEW d \in Provided(q)
        PROVE  c = d
    <2>1. CASE ~ IsLocal(q)
      <3>1. Provided(q) = Found(env, q)
        BY <2>1, NotLocal
      <3> QED BY <1>1, <3>1 DEF Found
    <2>2. CASE IsLocal(q)
      <3>1. PICK s : s = Deciding(q[1], q[2]).slot
        OBVIOUS
      <3>2. q[1] \in Modules
        BY DEF Points
      <3>3. CASE ImportsOf(q[1], s) = {}
        <4>1. Provided(q) = {<<"slot", q[1], s>>}
          BY <2>2, <3>1, <3>3, LocalIs
        <4> QED BY <1>1, <4>1
      <3>4. CASE ImportsOf(q[1], s) # {}
        <4>1. PICK x \in ToSet(code[q[1]].imports) : x.slot = s
          BY <3>2, <3>4, OneImport
        <4>2. PICK v : v = IF x.kind = "deferred" THEN <<"deferred", q[1], s>> ELSE <<x.kind, x.from>>
          OBVIOUS
        <4>3. Provided(q) = {} \/ Provided(q) = {v}
          BY <2>2, <3>1, <4>1, <4>2, LocalIs
        <4> QED BY <1>1, <4>3
      <3> QED BY <3>3, <3>4
    <2> QED BY <2>1, <2>2
  <1> DEFINE T == {q \in Through(p) : Provided(q) # {}}
             f == [q \in T |-> CHOOSE c : c \in Provided(q)]
  <1>2. \A q \in T : q \in Points /\ f[q] \in Provided(q) /\ f[q] \in Denoted(p)
    <2> TAKE q \in T
    <2>1. q \in Through(p) /\ q \in Points /\ \E c : c \in Provided(q)
      BY ThroughIs
    <2>2. f[q] \in Provided(q)
      BY <2>1
    <2> HIDE DEF f
    <2> QED BY <2>1, <2>2, ThroughIs
  <1>3. ASSUME NEW c \in Denoted(p)
        PROVE  \E q \in T : f[q] = c
    <2>1. PICK q \in Through(p) : c \in Provided(q)
      BY ThroughIs
    <2>2. q \in T
      BY <2>1
    <2> HIDE DEF T, f
    <2>3. f[q] = c
      BY <1>1, <1>2, <2>1, <2>2
    <2> QED BY <2>2, <2>3
  <1>4. f \in [T -> Denoted(p)]
    <2>1. f = [q \in T |-> f[q]]
      OBVIOUS
    <2> HIDE DEF T, f
    <2> QED BY <1>2, <2>1
  <1>5. f \in Surjection(T, Denoted(p))
    <2> HIDE DEF T, f
    <2> QED BY <1>3, <1>4 DEF Surjection
  <1>6. IsFiniteSet(T)
    <2>1. Through(p) \in SUBSET Points
      BY ThroughIs
    <2>2. T \in SUBSET Points
      BY <2>1
    <2> QED BY <2>2, Levels, FS_Subset
  <1> HIDE DEF T, f
  <1> QED BY <1>5, <1>6, FS_Surjection

\* Whether a name denotes one binding.
LEMMA CountDenoted ==
    ASSUME Graph, NEW m \in Modules, NEW n \in Names
    PROVE  /\ \A c : Denotes(m, n) = {c} => Cardinality(Denotes(m, n)) = 1
           /\ Denotes(m, n) = {} => Cardinality(Denotes(m, n)) # 1
           /\ (\E c, d \in Denotes(m, n) : c # d) => Cardinality(Denotes(m, n)) # 1
  <1>1. PICK p \in Points : p = <<m, n>>
    BY DEF Points
  <1>2. IsFiniteSet(Denotes(m, n))
    BY <1>1, DenotedFinite DEF Denoted
  <1>3. Cardinality(Denotes(m, n)) = 1 => \E x : Denotes(m, n) = {x}
    BY <1>2, FS_Singleton
  <1>4. \A c : Denotes(m, n) = {c} => Cardinality(Denotes(m, n)) = 1
    BY FS_Singleton
  <1> QED BY <1>3, <1>4

\* The points that can be visited are of records; if none is missing, nothing panics.
LEMMA NoPanic ==
    ASSUME Graph, Complete, NEW e \in Environments, NEW m \in Recorded, NEW n \in Names
    PROVE  ResolveExport(e, m, n) # Panic
  <1>1. Recorded \subseteq Modules
    BY DEF Graph, Recorded, ToSet
  <1>2. PICK C : C = {q \in Points : q[1] \in Recorded}
    OBVIOUS
  <1>3. Kept(C)
    <2>1. SUFFICES ASSUME NEW q \in C, NEW t \in Onward(q), t[1] \in deps[q[1]]
                   PROVE  t \in C
      BY DEF Kept
    <2>2. q \in Points /\ q[1] \in Modules
      BY <1>2 DEF Points
    <2>3. t \in Points
      BY <2>2, NotLocal
    <2>4. t[1] \in Recorded
      BY <2>1, <2>2 DEF Graph
    <2> QED BY <1>2, <2>3, <2>4
  <1>4. PICK p : p = <<m, n>> /\ p \in C
    <2>1. <<m, n>> \in Points /\ <<m, n>>[1] = m
      BY <1>1 DEF Points
    <2> QED BY <1>2, <2>1
  <1>5. {} \in SUBSET Points /\ C \in SUBSET Points
    BY <1>2
  <1>6. Answer(e, C, {}, p, Resolver(e)[{}][p])
    BY <1>3, <1>4, <1>5, Search
  <1>7. \A q \in C : ~ Lacks(q)
    <2> TAKE q \in C
    <2>1. q \in Points /\ q[1] \in Recorded
      BY <1>2
    <2>2. Needs(q) \subseteq Requested(code[q[1]])
      BY <2>1, NotLocal
    <2>3. Requested(code[q[1]]) \subseteq deps[q[1]]
      BY <2>1 DEF Complete
    <2> QED BY <2>2, <2>3 DEF Lacks
  <1>8. Resolver(e)[{}][p].cell # Panic
    BY <1>6, <1>7 DEF Answer, Tally
  <1> QED BY <1>4, <1>8 DEF ResolveExport

\* The modules that collect_export_names visits.
LEMMA StarReachIs ==
    ASSUME Graph, NEW m \in Modules
    PROVE  /\ StarReach(m) \in SUBSET Modules /\ m \in StarReach(m)
           /\ \A k \in StarReach(m) : StarTargets(k) \subseteq StarReach(m)
           /\ \A D : m \in D /\ (\A k \in D : StarTargets(k) \subseteq D) => StarReach(m) \subseteq D
  <1> DEFINE next == [k \in Modules |-> StarTargets(k)]
  <1>1. next \in [Modules -> SUBSET Modules] /\ \A k \in Modules : next[k] = StarTargets(k)
    <2>1. ASSUME NEW k \in Modules
          PROVE  StarTargets(k) \subseteq Modules
      BY CodeTypes, FromRequested DEF Requested, ToSet
    <2> QED BY <2>1
  <1>2. PICK S \in SUBSET Modules : S = {m}
    OBVIOUS
  <1>3. StarReach(m) = Closure(S, next)
    BY <1>2 DEF StarReach
  <1>4. IsFiniteSet(Modules)
    BY LinkingAssumption
  <1> HIDE DEF next
  <1>5. /\ Closure(S, next) \in SUBSET Modules
        /\ S \subseteq Closure(S, next)
        /\ Closed(Closure(S, next), next)
        /\ \A D : S \subseteq D /\ Closed(D, next) => Closure(S, next) \subseteq D
    BY <1>1, <1>4, ClosureIsLeast
  <1>6. StarReach(m) \in SUBSET Modules /\ m \in StarReach(m)
    BY <1>2, <1>3, <1>5
  <1>7. \A k \in StarReach(m) : StarTargets(k) \subseteq StarReach(m)
    BY <1>1, <1>3, <1>5 DEF Closed
  <1>8. ASSUME NEW D, m \in D, \A k \in D : StarTargets(k) \subseteq D
        PROVE  StarReach(m) \subseteq D
    <2>1. PICK T : T = StarReach(m) \cap D
      OBVIOUS
    <2>2. S \subseteq T /\ Closed(T, next)
      BY <1>1, <1>2, <1>6, <1>7, <1>8, <2>1 DEF Closed
    <2>3. StarReach(m) \subseteq T
      BY <1>3, <1>5, <2>2
    <2> QED BY <2>1, <2>3
  <1> QED BY <1>6, <1>7, <1>8

\* collect_export_names has the names a module can have: another denotes nothing.
LEMMA CollectIs ==
    ASSUME Graph, NEW m \in Modules
    PROVE  /\ CollectExportNames(m) \subseteq Names
           /\ \A n \in Names \ CollectExportNames(m) : Denotes(m, n) = {}
  <1>1. ASSUME NEW k \in Modules
        PROVE  OwnNames(k) \subseteq Names /\ \A n : Matching(k, n) # {} => n \in OwnNames(k)
    <2>1. ASSUME NEW n, Matching(k, n) # {}
          PROVE  n \in OwnNames(k)
      BY <2>1, DecidingIs DEF OwnNames
    <2>2. OwnNames(k) \subseteq Names
      <3>1. \A x \in ToSet(code[k].exports) : x.kind # "star" => x.exported \in Names
        BY FromRequested, ExportKinds
      <3> QED BY <3>1 DEF OwnNames
    <2> QED BY <2>1, <2>2
  <1>2. CollectExportNames(m) \subseteq Names
    BY <1>1, StarReachIs DEF CollectExportNames
  <1>3. ASSUME NEW n \in Names, n \notin CollectExportNames(m)
        PROVE  Denotes(m, n) = {}
    <2>1. PICK p \in Points : p = <<m, n>>
      BY DEF Points
    <2>2. p[1] = m /\ p[2] = n
      BY <2>1
    <2>3. n \notin OwnNames(m) /\ (n # "default" => \A k \in StarReach(m) : n \notin OwnNames(k))
      <3>1. n \notin OwnNames(m) /\ n \notin (UNION {OwnNames(k) : k \in StarReach(m)}) \ {"default"}
        BY <1>3 DEF CollectExportNames
      <3>2. PICK W : W = UNION {OwnNames(k) : k \in StarReach(m)}
        OBVIOUS
      <3>3. \A k \in StarReach(m) : OwnNames(k) \subseteq W
        BY <3>2
      <3>4. n \notin W \ {"default"}
        BY <3>1, <3>2
      <3> QED BY <3>1, <3>3, <3>4
    <2>4. PICK D : D = IF n = "default" THEN {p} ELSE {<<k, n>> : k \in StarReach(m)}
      OBVIOUS
    <2>5. m \in StarReach(m) /\ StarReach(m) \subseteq Modules
      BY StarReachIs
    <2>6. p \in D
      BY <2>1, <2>4, <2>5
    <2>7. ASSUME NEW q \in D
          PROVE  Refer(q) \subseteq D /\ Provided(q) = {}
      <3>1. PICK k \in Modules : q = <<k, n>> /\ k \in StarReach(m) /\ n \notin OwnNames(k)
        BY <2>1, <2>3, <2>4, <2>5
      <3>2. q[1] = k /\ q[2] = n /\ Matching(k, n) = {}
        BY <1>1, <3>1
      <3>3. Provided(q) = {}
        BY <3>2 DEF Provided, Provides
      <3>4. Refer(q) = IF n = "default" THEN {} ELSE {<<d, n>> : d \in StarTargets(k)}
        BY <3>2 DEF Refer, Refers
      <3>5. StarTargets(k) \subseteq StarReach(m)
        BY <3>1, StarReachIs
      <3> QED BY <2>4, <3>3, <3>4, <3>5
    <2>8. Through(p) \subseteq D
      BY <2>6, <2>7, ThroughIs
    <2>9. Denoted(p) = {}
      BY <2>7, <2>8, ThroughIs
    <2> QED BY <2>2, <2>9 DEF Denoted
  <1> QED BY <1>2, <1>3

\* In a graph that loaded completely no namespace panics.
LEMMA NoBuildPanic ==
    ASSUME Graph, Complete, env \in Environments, NEW m \in Recorded
    PROVE  ~ BuildPanics(m)
  <1>1. Recorded \subseteq Modules
    BY DEF Graph, Recorded, ToSet
  <1>2. \A k \in Recorded : StarTargets(k) \subseteq deps[k] /\ deps[k] \subseteq Recorded
    <2> TAKE k \in Recorded
    <2>1. StarTargets(k) \subseteq Requested(code[k])
      BY <1>1, FromRequested
    <2> QED BY <1>1, <2>1 DEF Complete, Graph
  <1>3. StarReach(m) \subseteq Recorded
    BY <1>1, <1>2, StarReachIs
  <1>4. ~ CollectPanics(m)
    BY <1>2, <1>3 DEF CollectPanics
  <1>5. \A b \in BuildNamespace(m) : b[2] # Panic
    <2> TAKE b \in BuildNamespace(m)
    <2>1. PICK n \in CollectExportNames(m) : b = <<n, ResolveExport(env, m, n)>>
      BY DEF BuildNamespace
    <2>2. n \in Names
      BY <1>1, CollectIs
    <2> QED BY <2>1, <2>2, NoPanic
  <1> QED BY <1>4, <1>5 DEF BuildPanics

-----------------------------------------------------------------------------
(* What link_module leaves in the environments. When the imports of m are    *)
(* resolved, what its dependencies lead to is linked, or is behind a cycle:  *)
(* a module that is still Linking reaches m.                                 *)

\* The modules that a cycle m needs leads to: CyclesDoNotForward(m) is about them.
Behind(m, k) == \E n \in Reach(m) : InCycle(n) /\ k \in Reach(n)

\* The points that resolution for m may visit: of modules that are linked, of modules
\* behind a cycle, and of S.
Zone(m, S) ==
    {q \in Points : /\ q[1] \in Reach(m)
                    /\ status[q[1]] = "Linked" \/ Behind(m, q[1]) \/ q[1] \in S}

\* What link_module has established of m when it marks it Linked.
Bound(m) ==
    /\ \A s \in Slots : SlotSound(env, m, s)
    /\ \A x \in ToSet(code[m].exports) :
          x.kind = "indirect" => Cardinality(Denotes(m, x.exported)) = 1

\* A module with an import or an indirect export that does not denote one binding.
Faulty(m) ==
    \/ \E x \in ToSet(code[m].imports) :
          x.kind = "name" /\ Cardinality(Denotes(x.from, x.imported)) # 1
    \/ \E x \in ToSet(code[m].exports) :
          x.kind = "indirect" /\ Cardinality(Denotes(m, x.exported)) # 1

\* How run_module ends.
Verdict ==
    /\ outcome # "running"
    /\ outcome = "panic" => ~ Complete
    /\ outcome = "linkError" /\ Complete /\ (\A m \in Recorded : CyclesDoNotForward(m)) =>
          \E m \in Recorded : Faulty(m)
    /\ outcome = "ok" => \A m \in Recorded : status[m] = "Linked"
    /\ NamespaceExact

\* The inductive invariant, on top of that of the call stacks. LiveUnlessForwarded is
\* not inductive: which cell an import gets depends on the slots of the modules
\* that its name leads through, their own imports and not only those being bound.
BindingInv ==
    /\ env \in Environments
    /\ namespaces \in [Modules -> SUBSET (Names \X Cells)]
    /\ outcome \in Outcomes
    /\ \A m \in Modules : \A s \in Slots : ImportsOf(m, s) = {} => env[m][s] = <<"slot", m, s>>
    /\ \A m \in Modules : status[m] = "Linked" /\ CyclesDoNotForward(m) => Bound(m)
    /\ phase = "link" =>
          \A m \in Modules : status[m] = "Linked" =>
              \A d \in deps[m] : status[d] \in {"Linked", "Linking"}
    /\ phase = "end" => Verdict

\* What is said of the metadata alone does not change: no step changes it.
LEMMA CodeKept ==
    ASSUME code' = code
    PROVE  /\ \A m, s : ImportsOf(m, s)' = ImportsOf(m, s)
           /\ \A m, n : Denotes(m, n)' = Denotes(m, n)
           /\ \A m : CyclesDoNotForward(m)' <=> CyclesDoNotForward(m)
           /\ \A m : Faulty(m)' <=> Faulty(m)
           /\ \A e, m, s : SlotSound(e, m, s)' <=> SlotSound(e, m, s)
  <1>1. \A m, n : Matching(m, n)' = Matching(m, n)
    BY DEF Matching
  <1>2. \A m, n : Deciding(m, n)' = Deciding(m, n)
    BY <1>1 DEF Deciding
  <1>3. \A m, s : ImportsOf(m, s)' = ImportsOf(m, s)
    BY DEF ImportsOf
  <1>4. \A m : StarTargets(m)' = StarTargets(m)
    BY DEF StarTargets
  <1>5. ASSUME NEW m, NEW n
        PROVE  Refers(m, n)' = Refers(m, n) /\ Provides(m, n)' = Provides(m, n)
    <2>1. PICK x, I : x = Deciding(m, n) /\ I = ImportsOf(m, x.slot)
      OBVIOUS
    <2>2. x = Deciding(m, n)' /\ I = ImportsOf(m, x.slot)'
      BY <1>2, <1>3, <2>1
    <2>3. PICK M, S : M = Matching(m, n) /\ S = StarTargets(m)
      OBVIOUS
    <2>4. M = Matching(m, n)' /\ S = StarTargets(m)'
      BY <1>1, <1>4, <2>3
    <2> DEFINE R == IF M # {}
                      THEN CASE x.kind = "indirect"  -> {<<x.from, x.imported>>}
                             [] x.kind = "namespace" -> {}
                             [] x.kind = "local" -> {<<i.from, i.imported>> : i \in {j \in I : j.kind = "name"}}
                      ELSE IF n = "default" THEN {} ELSE {<<d, n>> : d \in S}
               P == IF M = {} THEN {}
                    ELSE CASE x.kind = "indirect"  -> {}
                           [] x.kind = "namespace" -> {<<"namespace", x.from>>}
                           [] x.kind = "local" ->
                                IF I = {} THEN {<<"slot", m, x.slot>>}
                                ELSE {IF i.kind = "deferred" THEN <<"deferred", m, i.slot>>
                                                             ELSE <<i.kind, i.from>> :
                                         i \in {j \in I : j.kind # "name"}}
    <2>6. Refers(m, n) = R
      BY <2>1, <2>3 DEF Refers
    <2>7. Refers(m, n)' = R
      BY <2>2, <2>4 DEF Refers
    <2>9. Provides(m, n) = P
      BY <2>1, <2>3 DEF Provides
    <2>10. Provides(m, n)' = P
      BY <2>2, <2>4 DEF Provides
    <2> HIDE DEF R, P
    <2> QED BY <2>6, <2>7, <2>9, <2>10
  <1>7. \A m, n : Denotes(m, n)' = Denotes(m, n)
    <2> TAKE m, n
    <2>1. PICK f : f = [p \in Points |-> Refers(p[1], p[2])]
      OBVIOUS
    <2>2. f = [p \in Points |-> Refers(p[1], p[2])']
      BY <1>5, <2>1
    <2>3. PICK T : T = Closure({<<m, n>>}, f)
      OBVIOUS
    <2>4. Denotes(m, n) = UNION {Provides(p[1], p[2]) : p \in T}
      BY <2>1, <2>3 DEF Denotes, Points
    <2>5. Denotes(m, n)' = UNION {Provides(p[1], p[2])' : p \in T}
      BY <2>2, <2>3 DEF Denotes, Points
    <2> QED BY <1>5, <2>4, <2>5
  <1>8. \A m : Reach(m)' = Reach(m)
    BY DEF Reach
  <1>9. \A m : InCycle(m)' <=> InCycle(m)
    BY <1>8 DEF InCycle
  <1>10. \A m : Forwards(m)' <=> Forwards(m)
    BY <1>3 DEF Forwards
  <1>11. \A m : CyclesDoNotForward(m)' <=> CyclesDoNotForward(m)
    BY <1>8, <1>9, <1>10 DEF CyclesDoNotForward
  <1>12. \A m : Faulty(m)' <=> Faulty(m)
    BY <1>7 DEF Faulty
  <1>13. \A e, m, s : SlotSound(e, m, s)' <=> SlotSound(e, m, s)
    BY <1>3, <1>7 DEF SlotSound
  <1> QED BY <1>3, <1>7, <1>11, <1>12, <1>13

\* Reaching is transitive, and what m needs is free of forwarding if all is.
LEMMA ReachBelow ==
    ASSUME Graph, NEW m \in Modules, NEW k \in Reach(m)
    PROVE  /\ k \in Modules /\ Reach(k) \subseteq Reach(m)
           /\ CyclesDoNotForward(m) => CyclesDoNotForward(k)
           /\ \A d \in deps[k] : d \in Reach(m) /\ d \in Requested(code[k])
  <1>1. /\ Reach(m) \in SUBSET Modules /\ m \in Reach(m)
        /\ \A x \in Reach(m) : Requested(code[x]) \subseteq Reach(m)
    BY ReachIsLeast
  <1>2. k \in Modules
    BY <1>1
  <1>3. Reach(k) \subseteq Reach(m)
    BY <1>1, <1>2, ReachIsLeast
  <1>4. CyclesDoNotForward(m) => CyclesDoNotForward(k)
    BY <1>3 DEF CyclesDoNotForward
  <1>5. \A d \in deps[k] : d \in Reach(m) /\ d \in Requested(code[k])
    BY <1>1, <1>2 DEF Graph
  <1> QED BY <1>2, <1>3, <1>4, <1>5

\* While m is being linked: what its dependencies lead to is linked, or leads to m.
Around(m) ==
    /\ \A k \in Modules : status[k] = "Linked" =>
          \A d \in deps[k] : status[d] \in {"Linked", "Linking"}
    /\ \A d \in deps[m] : status[d] \in {"Linked", "Linking"}
    /\ \A d \in Modules : status[d] = "Linking" => m \in Reach(d)

\* A dependency that leads to m is in a cycle with the module that needs it.
LEMMA LinkingIsBehind ==
    ASSUME Graph, NEW m \in Modules, Around(m), NEW k \in Reach(m), NEW d \in deps[k],
           status[d] = "Linking"
    PROVE  Behind(m, d)
  <1>1. k \in Modules /\ d \in Reach(m) /\ d \in Requested(code[k])
    BY ReachBelow
  <1>2. d \in Modules
    BY <1>1, ReachBelow
  <1>3. m \in Reach(d)
    BY <1>2 DEF Around
  <1>4. k \in Reach(d)
    BY <1>2, <1>3, ReachBelow
  <1>5. InCycle(k)
    BY <1>1, <1>4 DEF InCycle
  <1>6. d \in Reach(k)
    BY <1>1, ReachIsLeast
  <1> QED BY <1>5, <1>6 DEF Behind

\* A resolution for m stays in the zone.
LEMMA ZoneKept ==
    ASSUME Graph, NEW m \in Modules, NEW S, S \subseteq {m}, Around(m)
    PROVE  /\ Kept(Zone(m, S)) /\ Zone(m, S) \in SUBSET Points
           /\ \A d \in deps[m] : \A n \in Names : <<d, n>> \in Zone(m, S)
           /\ \A k \in S \cup {j \in Modules : status[j] = "Linked" /\ j = m} :
                 \A n \in Names : <<k, n>> \in Zone(m, S)
  <1>1. /\ Reach(m) \in SUBSET Modules /\ m \in Reach(m)
    BY ReachIsLeast
  <1>2. ASSUME NEW q \in Zone(m, S), NEW t \in Onward(q), t[1] \in deps[q[1]]
        PROVE  t \in Zone(m, S)
    <2>1. PICK k, d : k = q[1] /\ d = t[1]
      OBVIOUS
    <2>2. q \in Points /\ k \in Reach(m) /\ (status[k] = "Linked" \/ Behind(m, k) \/ k \in S)
      BY <2>1 DEF Zone
    <2>3. t \in Points
      BY <2>2, NotLocal
    <2>4. d \in deps[k] /\ k \in Modules
      BY <1>1, <1>2, <2>1, <2>2
    <2>5. d \in Reach(m)
      BY <2>2, <2>4, ReachBelow
    <2>6. CASE Behind(m, k)
      <3>1. PICK n \in Reach(m) : InCycle(n) /\ k \in Reach(n)
        BY <2>6 DEF Behind
      <3>2. d \in Reach(n)
        BY <1>1, <2>4, <3>1, ReachBelow
      <3>3. Behind(m, d)
        BY <3>1, <3>2 DEF Behind
      <3> QED BY <2>1, <2>3, <2>5, <3>3 DEF Zone
    <2>7. CASE status[k] = "Linked" \/ k \in S
      <3>1. status[d] \in {"Linked", "Linking"}
        BY <2>4, <2>7 DEF Around
      <3>2. status[d] = "Linking" => Behind(m, d)
        BY <2>2, <2>4, LinkingIsBehind
      <3> QED BY <2>1, <2>3, <2>5, <3>1, <3>2 DEF Zone
    <2> QED BY <2>2, <2>6, <2>7
  <1>3. Kept(Zone(m, S))
    BY <1>2 DEF Kept
  <1>4. Zone(m, S) \in SUBSET Points
    BY DEF Zone
  <1>5. ASSUME NEW d \in deps[m], NEW n \in Names
        PROVE  <<d, n>> \in Zone(m, S)
    <2>1. d \in Reach(m) /\ d \in Modules
      BY <1>1, ReachBelow
    <2>2. status[d] \in {"Linked", "Linking"}
      BY DEF Around
    <2>3. status[d] = "Linking" => Behind(m, d)
      BY <1>1, LinkingIsBehind
    <2>4. <<d, n>> \in Points /\ <<d, n>>[1] = d
      BY <2>1 DEF Points
    <2> QED BY <2>1, <2>2, <2>3, <2>4 DEF Zone
  <1>6. ASSUME NEW k \in S \cup {j \in Modules : status[j] = "Linked" /\ j = m}, NEW n \in Names
        PROVE  <<k, n>> \in Zone(m, S)
    <2>1. k = m /\ (k \in S \/ status[k] = "Linked")
      OBVIOUS
    <2>2. <<k, n>> \in Points /\ <<k, n>>[1] = k
      BY <2>1 DEF Points
    <2> QED BY <1>1, <2>1, <2>2 DEF Zone
  <1> QED BY <1>3, <1>4, <1>5, <1>6

\* The slots in the zone are sound, in the environments and in those with the imports
\* of m bound: linked modules are, and modules behind a cycle have only slots of their own.
LEMMA ZoneSound ==
    ASSUME Graph, BindingInv, NEW m \in Modules, CyclesDoNotForward(m),
           NEW S, NEW e,
           \A k \in Modules : e[k] = env[k] \/ \A s \in Slots : SlotSound(e, k, s),
           \A k \in S : \A s \in Slots : SlotSound(e, k, s)
    PROVE  Sound(e, Zone(m, S))
  <1>1. SUFFICES ASSUME NEW q \in Zone(m, S), IsLocal(q)
                 PROVE  Denoted(q) = Found(e, q)
    BY DEF Sound
  <1>2. PICK k, s : k = q[1] /\ s = Deciding(q[1], q[2]).slot
    OBVIOUS
  <1>3. q \in Points /\ k \in Reach(m) /\ (status[k] = "Linked" \/ Behind(m, k) \/ k \in S)
    BY <1>2 DEF Zone
  <1>4. k \in Modules /\ s \in Slots
    BY <1>1, <1>2, <1>3, LocalIs DEF Points
  <1>5. SlotSound(e, k, s)
    <2>1. CASE k \in S \/ \A j \in Slots : SlotSound(e, k, j)
      BY <1>4, <2>1
    <2>2. CASE e[k] = env[k] /\ status[k] = "Linked"
      <3>1. CyclesDoNotForward(k)
        BY <1>3, ReachBelow
      <3>2. SlotSound(env, k, s)
        BY <1>4, <2>2, <3>1 DEF BindingInv, Bound
      <3> QED BY <2>2, <3>2 DEF SlotSound
    <2>3. CASE e[k] = env[k] /\ Behind(m, k)
      <3>1. ~ Forwards(k)
        BY <2>3 DEF Behind, CyclesDoNotForward
      <3>2. PICK x : x = Deciding(q[1], q[2])
        OBVIOUS
      <3>3. x \in ToSet(code[k].exports) /\ x.kind = "local" /\ x.slot = s
        BY <1>1, <1>2, <1>4, <3>2, DecidingIs DEF IsLocal
      <3>4. ImportsOf(k, s) = {}
        BY <3>1, <3>3 DEF Forwards
      <3>5. \A y \in ToSet(code[k].imports) : y.slot # s
        BY <3>4 DEF ImportsOf
      <3>6. env[k][s] = <<"slot", k, s>>
        BY <1>4, <3>4 DEF BindingInv
      <3> QED BY <2>3, <3>5, <3>6 DEF SlotSound
    <2> QED BY <1>3, <1>4, <2>1, <2>2, <2>3
  <1> QED BY <1>1, <1>2, <1>3, <1>5, LocalSound

\* What a resolution returns, and what it says when the slots in its zone are sound.
LEMMA ResolveType ==
    ASSUME Graph, NEW e \in Environments, NEW m \in Modules, NEW n \in Names
    PROVE  ResolveExport(e, m, n) \in Cells \cup Failures
  <1>1. PICK p \in Points : p = <<m, n>>
    BY DEF Points
  <1>2. {} \in SUBSET Points
    OBVIOUS
  <1>3. Resolver(e)[{}][p] \in Results
    BY <1>2, ResolverIs DEF AnswersAt
  <1> QED BY <1>1, <1>3 DEF ResolveExport, Results

\* Whether its result is a cell tells whether the name denotes one binding.
LEMMA Judged ==
    ASSUME Graph, NEW e \in Environments, NEW Z \in SUBSET Points, Kept(Z), Sound(e, Z),
           NEW m \in Modules, NEW n \in Names, <<m, n>> \in Z
    PROVE  /\ ResolveExport(e, m, n) \notin Failures =>
                 /\ Denotes(m, n) = {ResolveExport(e, m, n)}
                 /\ Cardinality(Denotes(m, n)) = 1
           /\ ResolveExport(e, m, n) \in {NotFound, Ambiguous} => Cardinality(Denotes(m, n)) # 1
  <1>1. PICK c : c = ResolveExport(e, m, n)
    OBVIOUS
  <1>2. /\ c \in Cells \cup Failures
        /\ c \in Cells => Denotes(m, n) = {c}
        /\ c = NotFound => Denotes(m, n) = {}
        /\ c = Ambiguous => \E a, b \in Denotes(m, n) : a # b
    BY <1>1, Resolved
  <1> QED BY <1>1, <1>2, CountDenoted

\* The cell that an import of m is bound to, or what its failure says.
LEMMA BindIs ==
    ASSUME Graph, BindingInv, NEW m \in Recorded, Around(m),
           NEW x \in ToSet(code[m].imports), NEW c, c = Bind(m, x)
    PROVE  /\ c \in Cells \cup Failures
           /\ c \notin Failures /\ x.kind # "name" =>
                 c = IF x.kind = "deferred" THEN <<"deferred", m, x.slot>> ELSE <<x.kind, x.from>>
           /\ c \notin Failures /\ x.kind = "name" /\ CyclesDoNotForward(m) =>
                 Denotes(x.from, x.imported) = {c}
           /\ Complete => c # Panic
           /\ Complete /\ CyclesDoNotForward(m) /\ c \in {NotFound, Ambiguous} => Faulty(m)
  <1>1. m \in Modules /\ env \in Environments /\ Recorded \subseteq Modules
    BY DEF Graph, Recorded, ToSet, BindingInv
  <1>2. x \in Imports /\ x.from \in Requested(code[m])
    BY <1>1, FromRequested
  <1>3. /\ x.kind \in {"name", "namespace", "deferred", "source"}
        /\ x.from \in Modules /\ x.slot \in Slots /\ (x.kind = "name" => x.imported \in Names)
    BY <1>2, ImportKinds
  <1>4. NotFound \in Failures /\ Panic \in Failures
    BY DEF Failures
  <1>5. CASE x.from \notin deps[m]
    <2>1. c = NotFound
      BY <1>5 DEF Bind
    <2>2. ~ Complete
      BY <1>2, <1>5 DEF Complete
    <2> QED BY <1>4, <2>1, <2>2
  <1>6. CASE x.from \in deps[m] /\ x.kind = "name"
    <2>1. c = ResolveExport(env, x.from, x.imported)
      BY <1>6 DEF Bind
    <2>2. c \in Cells \cup Failures
      BY <1>1, <1>3, <1>6, <2>1, ResolveType
    <2>3. x.from \in Recorded
      BY <1>1, <1>6 DEF Graph
    <2>4. Complete => c # Panic
      BY <1>1, <1>3, <1>6, <2>1, <2>3, NoPanic
    <2>5. ASSUME CyclesDoNotForward(m)
          PROVE  /\ c \notin Failures => Denotes(x.from, x.imported) = {c}
                 /\ c \in {NotFound, Ambiguous} => Cardinality(Denotes(x.from, x.imported)) # 1
      <3>1. PICK Z : Z = Zone(m, {})
        OBVIOUS
      <3>2. Kept(Z) /\ Z \in SUBSET Points /\ <<x.from, x.imported>> \in Z
        BY <1>1, <1>3, <1>6, <3>1, ZoneKept
      <3>3. Sound(env, Z)
        <4>1. /\ \A k \in Modules : env[k] = env[k] \/ \A s \in Slots : SlotSound(env, k, s)
              /\ \A k \in {} : \A s \in Slots : SlotSound(env, k, s)
          OBVIOUS
        <4> QED BY <1>1, <2>5, <3>1, <4>1, ZoneSound
      <3> QED BY <1>1, <1>3, <1>6, <2>1, <3>2, <3>3, Judged
    <2> QED BY <1>6, <2>2, <2>4, <2>5 DEF Faulty
  <1>7. CASE x.from \in deps[m] /\ x.kind # "name"
    <2>1. PICK v : v = IF x.kind = "deferred" THEN <<"deferred", m, x.slot>> ELSE <<x.kind, x.from>>
      OBVIOUS
    <2>2. v \in Cells
      <3>1. CASE x.kind = "deferred"
        BY <1>1, <1>3, <2>1, <3>1 DEF Cells
      <3>2. CASE x.kind # "deferred"
        BY <1>3, <1>7, <2>1, <3>2 DEF Cells
      <3> QED BY <3>1, <3>2
    <2>3. v \notin Failures
      BY <2>2, FailuresAreNoCells
    <2>4. c = v
      BY <1>7, <2>1 DEF Bind
    <2> QED BY <1>4, <1>7, <2>1, <2>2, <2>3, <2>4 DEF Failures
  <1> QED BY <1>5, <1>6, <1>7

\* The environments with the imports of m bound.
LEMMA BoundEnvironment ==
    ASSUME Graph, BindingInv, NEW m \in Recorded, Around(m), ~ Fails(Bindings(m)),
           NEW e, e = CreateImportBindings(m, Bindings(m))
    PROVE  /\ e \in Environments
           /\ \A k \in Modules : k # m => e[k] = env[k]
           /\ \A s \in Slots : ImportsOf(m, s) = {} => e[m][s] = <<"slot", m, s>>
           /\ CyclesDoNotForward(m) => \A s \in Slots : SlotSound(e, m, s)
  <1>1. m \in Modules /\ env \in Environments
    BY DEF Graph, Recorded, ToSet, BindingInv
  <1>2. /\ DOMAIN code[m].imports \in SUBSET Nat
        /\ \A i, j \in DOMAIN code[m].imports : code[m].imports[i].slot = code[m].imports[j].slot => i = j
    BY <1>1, EntryTypes DEF WellFormed
  <1> DEFINE cells == Bindings(m)
             At(s) == {i \in DOMAIN code[m].imports : code[m].imports[i].slot = s}
             New(s) == IF At(s) = {} THEN env[m][s] ELSE cells[Min(At(s))]
  <1>3. e = [env EXCEPT ![m] = [s \in Slots |-> New(s)]]
    BY DEF CreateImportBindings
  <1>4. \A i \in DOMAIN code[m].imports : cells[i] = Bind(m, code[m].imports[i]) /\ cells[i] \notin Failures
    BY DEF Bindings, Fails
  <1>5. ASSUME NEW s \in Slots, NEW x \in ToSet(code[m].imports), x.slot = s
        PROVE  New(s) = Bind(m, x) /\ New(s) \notin Failures
    <2>1. PICK i \in DOMAIN code[m].imports : x = code[m].imports[i]
      BY DEF ToSet
    <2>2. At(s) = {i}
      BY <1>2, <1>5, <2>1
    <2>3. At(s) \in SUBSET Nat /\ At(s) # {}
      BY <1>2, <2>2
    <2>4. Min(At(s)) = i
      <3> HIDE DEF At
      <3>1. Min(At(s)) \in At(s)
        BY <2>3, MinOf
      <3> QED BY <2>2, <3>1
    <2>5. New(s) = cells[i]
      BY <2>2, <2>4
    <2> QED BY <1>4, <2>1, <2>5
  <1>6. ASSUME NEW s \in Slots, ImportsOf(m, s) = {}
        PROVE  New(s) = <<"slot", m, s>>
    <2>1. At(s) = {}
      BY <1>6 DEF ImportsOf, ToSet
    <2>2. env[m][s] = <<"slot", m, s>>
      BY <1>1, <1>6 DEF BindingInv
    <2> QED BY <2>1, <2>2
  <1>7. ASSUME NEW s \in Slots
        PROVE  New(s) \in Cells
    <2> HIDE DEF New
    <2>1. CASE ImportsOf(m, s) = {}
      <3>1. New(s) = <<"slot", m, s>>
        BY <1>6, <2>1
      <3>2. <<"slot", m, s>> \in Cells
        BY <1>1 DEF Cells
      <3> QED BY <3>1, <3>2
    <2>2. CASE ImportsOf(m, s) # {}
      <3>1. PICK x \in ToSet(code[m].imports) : x.slot = s
        BY <1>1, <2>2, OneImport
      <3>2. New(s) = Bind(m, x) /\ New(s) \notin Failures
        BY <1>5, <3>1
      <3>3. Bind(m, x) \in Cells \cup Failures
        BY BindIs
      <3> QED BY <3>2, <3>3
    <2> QED BY <2>1, <2>2
  <1> HIDE DEF New
  <1>8. e \in Environments /\ e[m] = [s \in Slots |-> New(s)] /\ \A k \in Modules : k # m => e[k] = env[k]
    BY <1>1, <1>3, <1>7 DEF Environments
  <1>9. \A s \in Slots : e[m][s] = New(s)
    BY <1>8
  <1>10. ASSUME CyclesDoNotForward(m), NEW s \in Slots
         PROVE  SlotSound(e, m, s)
    <2>1. ASSUME NEW x \in ToSet(code[m].imports), x.slot = s
          PROVE  IF x.kind = "name" THEN Denotes(x.from, x.imported) = {e[m][s]}
                 ELSE e[m][s] = IF x.kind = "deferred" THEN <<"deferred", m, s>> ELSE <<x.kind, x.from>>
      <3>1. PICK c : c = e[m][s]
        OBVIOUS
      <3>2. c = Bind(m, x) /\ c \notin Failures
        BY <1>5, <1>9, <2>1, <3>1
      <3> QED BY <1>10, <2>1, <3>1, <3>2, BindIs
    <2> QED BY <1>6, <1>9, <2>1 DEF SlotSound
  <1> QED BY <1>6, <1>8, <1>9, <1>10

\* What the resolution of an indirect export says, with the imports bound.
LEMMA ExportIs ==
    ASSUME Graph, BindingInv, NEW m \in Recorded, Around(m), ~ Fails(Bindings(m)),
           NEW e, e = CreateImportBindings(m, Bindings(m)),
           NEW i \in DOMAIN IndirectExports(e, m), NEW c, c = IndirectExports(e, m)[i]
    PROVE  /\ i \in DOMAIN code[m].exports /\ code[m].exports[i].kind = "indirect"
           /\ Complete => c # Panic
           /\ CyclesDoNotForward(m) /\ c \notin Failures =>
                 Cardinality(Denotes(m, code[m].exports[i].exported)) = 1
           /\ CyclesDoNotForward(m) /\ c \in {NotFound, Ambiguous} => Faulty(m)
  <1>1. m \in Modules
    BY DEF Graph, Recorded, ToSet
  <1>2. PICK x : x = code[m].exports[i]
    OBVIOUS
  <1>3. i \in DOMAIN code[m].exports /\ x.kind = "indirect" /\ c = ResolveExport(e, m, x.exported)
    BY <1>2 DEF IndirectExports
  <1>4. x \in ToSet(code[m].exports)
    BY <1>2, <1>3 DEF ToSet
  <1>5. x.exported \in Names
    BY <1>1, <1>3, <1>4, FromRequested, ExportKinds
  <1>6. /\ e \in Environments
        /\ \A k \in Modules : k # m => e[k] = env[k]
        /\ CyclesDoNotForward(m) => \A s \in Slots : SlotSound(e, m, s)
    BY BoundEnvironment
  <1>7. Complete => c # Panic
    BY <1>3, <1>5, <1>6, NoPanic
  <1>8. ASSUME CyclesDoNotForward(m)
        PROVE  /\ c \notin Failures => Cardinality(Denotes(m, x.exported)) = 1
               /\ c \in {NotFound, Ambiguous} => Cardinality(Denotes(m, x.exported)) # 1
    <2>1. PICK Z : Z = Zone(m, {m})
      OBVIOUS
    <2>2. Kept(Z) /\ Z \in SUBSET Points /\ <<m, x.exported>> \in Z
      BY <1>1, <1>5, <2>1, ZoneKept
    <2>3. Sound(e, Z)
      <3>1. /\ \A k \in Modules : e[k] = env[k] \/ \A s \in Slots : SlotSound(e, k, s)
            /\ \A k \in {m} : \A s \in Slots : SlotSound(e, k, s)
        BY <1>6, <1>8
      <3> QED BY <1>1, <1>8, <2>1, <3>1, ZoneSound
    <2> QED BY <1>1, <1>3, <1>5, <1>6, <2>2, <2>3, Judged
  <1> QED BY <1>2, <1>3, <1>4, <1>7, <1>8 DEF Faulty

\* The first failure is one.
LEMMA FirstFailureIs ==
    ASSUME NEW results, DOMAIN results \in SUBSET Nat, Fails(results)
    PROVE  \E i \in DOMAIN results : FirstFailure(results) = results[i] /\ results[i] \in Failures
  <1>1. PICK T : T = {i \in DOMAIN results : results[i] \in Failures}
    OBVIOUS
  <1>2. T \in SUBSET Nat /\ T # {}
    BY <1>1 DEF Fails
  <1>3. Min(T) \in T
    BY <1>2, MinOf
  <1> QED BY <1>1, <1>3 DEF FirstFailure

-----------------------------------------------------------------------------
(* Every step keeps BindingInv.                                              *)

\* What was established of a linked module is not undone.
LEMMA BoundKept ==
    ASSUME code' = code, NEW m \in Modules, env'[m] = env[m], Bound(m)
    PROVE  Bound(m)'
  <1>1. \A s \in Slots : SlotSound(env, m, s)'
    <2> TAKE s \in Slots
    <2>1. SlotSound(env, m, s)
      BY DEF Bound
    <2>2. ImportsOf(m, s)' = ImportsOf(m, s) /\ \A k, n : Denotes(k, n)' = Denotes(k, n)
      BY CodeKept
    <2> QED BY <2>1, <2>2 DEF SlotSound
  <1>2. \A k, n : Denotes(k, n)' = Denotes(k, n)
    BY CodeKept
  <1> QED BY <1>1, <1>2 DEF Bound

\* Where BindImports happens.
LEMMA AtBind ==
    ASSUME Inv, Running("link"), Top.todo = <<>>
    PROVE  /\ phase = "link" /\ Linking /\ Graph /\ Recorded \subseteq Modules
           /\ status \in [Modules -> Statuses]
           /\ Top.mod \in Recorded /\ status[Top.mod] = "Linking"
           /\ BindingInv => Around(Top.mod)
  <1>1. phase = "link" /\ Linking /\ stack # <<>> /\ Graph /\ status \in [Modules -> Statuses]
    BY LinkPhase DEF Inv
  <1>2. Len(stack) \in DOMAIN stack /\ Top = stack[Len(stack)]
    BY <1>1, OnTop
  <1>3. PICK m : m = Top.mod
    OBVIOUS
  <1>4. m \in Recorded /\ Recorded \subseteq Modules
    BY <1>1, <1>2, <1>3 DEF Linking, Calls, Graph, Recorded, ToSet
  <1>5. status[m] = "Linking"
    BY <1>1, <1>2, <1>3, <1>4 DEF Linking, OnStack
  <1>6. \A d \in deps[m] : status[d] \in {"Linked", "Linking"}
    <2> TAKE d \in deps[m]
    <2>1. Visited(Top)
      BY <1>1, <1>2 DEF Linking
    <2>2. status[d] # "Unlinked"
      BY <1>3, <2>1, SetOfEmpty DEF Visited
    <2>3. d \in Modules
      BY <1>1, <1>4 DEF Graph
    <2> QED BY <1>1, <2>2, <2>3 DEF Linking, Statuses
  <1>7. ASSUME NEW d \in Modules, status[d] = "Linking"
        PROVE  m \in Reach(d)
    <2>1. PICK i \in DOMAIN stack : stack[i].mod = d
      BY <1>1, <1>7 DEF Linking, OnStack
    <2> QED BY <1>1, <1>2, <1>3, <2>1, BelowReaches
  <1>8. BindingInv => Around(m)
    BY <1>1, <1>6, <1>7 DEF BindingInv, Around
  <1> QED BY <1>1, <1>3, <1>4, <1>5, <1>8

\* link_module fails for m.
LEMMA LinkFailsBinding ==
    ASSUME Inv, BindingInv, phase = "link", NEW m \in Recorded, NEW failure \in Failures, NEW own,
           LinkFails(failure, own), failure = Panic => ~ Complete,
           failure # Panic /\ Complete /\ CyclesDoNotForward(m) => Faulty(m),
           UNCHANGED graphVars, namespaces' = namespaces, env' \in Environments,
           \A k \in Modules : status[k] = "Linked" => env'[k] = env[k],
           \A k \in Modules : \A s \in Slots : ImportsOf(k, s) = {} => env'[k][s] = <<"slot", k, s>>
    PROVE  BindingInv'
  <1>1. code' = code /\ records' = records /\ deps' = deps
    BY DEF graphVars
  <1>2. /\ Recorded' = Recorded /\ (Complete' <=> Complete)
        /\ \A k, s : ImportsOf(k, s)' = ImportsOf(k, s)
        /\ \A k : (CyclesDoNotForward(k)' <=> CyclesDoNotForward(k)) /\ (Faulty(k)' <=> Faulty(k))
    BY <1>1, CodeKept DEF Recorded, Complete
  <1>3. phase' = "end" /\ outcome' = IF failure = Panic THEN "panic" ELSE "linkError"
    BY DEF LinkFails, EndWith
  <1>4. ASSUME NEW k \in Modules, status'[k] = "Linked"
        PROVE  status[k] = "Linked"
    <2>1. CASE failure = Panic
      BY <1>4, <2>1 DEF LinkFails
    <2>2. CASE failure # Panic
      <3>1. PICK errored : errored = own \cup {f.mod : f \in ToSet(Front(stack))}
        OBVIOUS
      <3>2. status' = [j \in Modules |-> IF j \in errored THEN "Errored" ELSE status[j]]
        BY <2>2, <3>1 DEF LinkFails
      <3> QED BY <1>4, <3>2
    <2> QED BY <2>1, <2>2
  <1>5. ASSUME NEW k \in Modules, status'[k] = "Linked", CyclesDoNotForward(k)'
        PROVE  Bound(k)'
    <2>1. status[k] = "Linked" /\ env'[k] = env[k] /\ CyclesDoNotForward(k)
      BY <1>2, <1>4, <1>5
    <2>2. Bound(k)
      BY <2>1 DEF BindingInv
    <2> QED BY <1>1, <2>1, <2>2, BoundKept
  <1>6. Verdict'
    <2>1. outcome' # "running" /\ outcome' # "ok"
      BY <1>3
    <2>2. outcome' = "panic" => ~ Complete'
      BY <1>2, <1>3
    <2>3. outcome' = "linkError" /\ Complete' /\ (\A k \in Recorded' : CyclesDoNotForward(k)') =>
             \E k \in Recorded' : Faulty(k)'
      BY <1>2, <1>3
    <2>4. NamespaceExact'
      BY <2>1 DEF NamespaceExact
    <2> QED BY <2>1, <2>2, <2>3, <2>4 DEF Verdict
  <1>7. namespaces' \in [Modules -> SUBSET (Names \X Cells)] /\ outcome' \in Outcomes
    BY <1>3 DEF BindingInv, Outcomes
  <1>8. \A k \in Modules : \A s \in Slots : ImportsOf(k, s)' = {} => env'[k][s] = <<"slot", k, s>>
    BY <1>2
  <1>9. phase' # "link"
    BY <1>3
  <1> QED BY <1>5, <1>6, <1>7, <1>8, <1>9 DEF BindingInv, Environments

\* The imports of the top call's module are bound, or the run ends.
LEMMA BindImportsBinding ==
    ASSUME Inv, BindingInv, BindImports
    PROVE  BindingInv'
  <1>1. PICK m : m = Top.mod
    OBVIOUS
  <1>2. /\ phase = "link" /\ Linking /\ Graph /\ Recorded \subseteq Modules /\ m \in Recorded
        /\ status \in [Modules -> Statuses] /\ status[m] = "Linking" /\ Around(m)
    BY <1>1, AtBind DEF BindImports
  <1>3. UNCHANGED graphVars /\ namespaces' = namespaces /\ m \in Modules
    BY <1>2 DEF BindImports
  <1>4. PICK cells : cells = Bindings(m)
    OBVIOUS
  <1>5. PICK bound : bound = CreateImportBindings(m, cells)
    OBVIOUS
  <1>6. PICK checked : checked = IndirectExports(bound, m)
    OBVIOUS
  <1>7. \/ /\ Fails(cells) /\ LinkFails(FirstFailure(cells), {}) /\ UNCHANGED env
        \/ /\ ~Fails(cells) /\ Fails(checked) /\ env' = bound
           /\ LinkFails(FirstFailure(checked), IF FirstFailure(checked) = NotFound THEN {m} ELSE {})
        \/ /\ ~Fails(cells) /\ ~Fails(checked) /\ env' = bound
           /\ status' = [status EXCEPT ![m] = "Linked"]
           /\ stack' = Front(stack)
           /\ UNCHANGED ending
    BY <1>1, <1>4, <1>5, <1>6 DEF BindImports
  <1>8. ~ Fails(cells) =>
           /\ bound \in Environments
           /\ \A k \in Modules : k # m => bound[k] = env[k]
           /\ \A s \in Slots : ImportsOf(m, s) = {} => bound[m][s] = <<"slot", m, s>>
           /\ CyclesDoNotForward(m) => \A s \in Slots : SlotSound(bound, m, s)
    BY <1>2, <1>4, <1>5, BoundEnvironment
  <1>9. env \in Environments
        /\ \A k \in Modules : \A s \in Slots : ImportsOf(k, s) = {} => env[k][s] = <<"slot", k, s>>
    BY DEF BindingInv
  <1>10. CASE Fails(cells) /\ LinkFails(FirstFailure(cells), {}) /\ UNCHANGED env
    <2>1. DOMAIN cells = DOMAIN code[m].imports /\ DOMAIN code[m].imports \in SUBSET Nat
      BY <1>2, <1>4, EntryTypes DEF Bindings
    <2>2. PICK i \in DOMAIN cells : FirstFailure(cells) = cells[i] /\ cells[i] \in Failures
      BY <1>10, <2>1, FirstFailureIs
    <2>3. PICK x \in ToSet(code[m].imports) : cells[i] = Bind(m, x)
      BY <1>4, <2>1 DEF Bindings, ToSet
    <2>4. PICK c \in Failures : c = FirstFailure(cells) /\ c = Bind(m, x)
      BY <2>2, <2>3
    <2>5. /\ Complete => c # Panic
          /\ Complete /\ CyclesDoNotForward(m) /\ c \in {NotFound, Ambiguous} => Faulty(m)
      BY <1>2, <2>4, BindIs
    <2>6. c # Panic => c \in {NotFound, Ambiguous}
      BY DEF Failures
    <2>7. LinkFails(c, {})
      BY <1>10, <2>4
    <2> QED BY <1>2, <1>3, <1>9, <1>10, <2>5, <2>6, <2>7, LinkFailsBinding
  <1>11. CASE /\ ~Fails(cells) /\ Fails(checked) /\ env' = bound
              /\ LinkFails(FirstFailure(checked), IF FirstFailure(checked) = NotFound THEN {m} ELSE {})
    <2>1. DOMAIN checked \in SUBSET Nat
      <3>1. DOMAIN code[m].exports \in SUBSET Nat
        BY <1>2, EntryTypes
      <3> QED BY <1>6, <3>1 DEF IndirectExports
    <2>2. PICK i \in DOMAIN checked : FirstFailure(checked) = checked[i] /\ checked[i] \in Failures
      BY <1>11, <2>1, FirstFailureIs
    <2>3. PICK c \in Failures : c = FirstFailure(checked) /\ c = checked[i]
      BY <2>2
    <2>4. /\ Complete => c # Panic
          /\ CyclesDoNotForward(m) /\ c \in {NotFound, Ambiguous} => Faulty(m)
      BY <1>2, <1>4, <1>5, <1>6, <1>11, <2>3, ExportIs
    <2>5. c # Panic => c \in {NotFound, Ambiguous}
      BY DEF Failures
    <2>6. PICK own : LinkFails(c, own)
      BY <1>11, <2>3
    <2>7. env' \in Environments /\ \A k \in Modules : k # m => env'[k] = env[k]
      BY <1>8, <1>11
    <2>8. \A k \in Modules : \A s \in Slots : ImportsOf(k, s) = {} => env'[k][s] = <<"slot", k, s>>
      BY <1>8, <1>9, <1>11
    <2>9. \A k \in Modules : status[k] = "Linked" => env'[k] = env[k]
      BY <1>2, <2>7
    <2> QED BY <1>2, <1>3, <2>4, <2>5, <2>6, <2>7, <2>8, <2>9, LinkFailsBinding
  <1>12. CASE /\ ~Fails(cells) /\ ~Fails(checked) /\ env' = bound
              /\ status' = [status EXCEPT ![m] = "Linked"]
              /\ stack' = Front(stack)
              /\ UNCHANGED ending
    <2>1. code' = code /\ deps' = deps /\ phase' = "link" /\ outcome' = outcome
      BY <1>2, <1>3, <1>12 DEF graphVars, ending
    <2>2. env' \in Environments /\ \A k \in Modules : k # m => env'[k] = env[k]
      BY <1>8, <1>12
    <2>3. \A k, s : ImportsOf(k, s)' = ImportsOf(k, s)
      BY <2>1, CodeKept
    <2>4. \A k \in Modules : \A s \in Slots : ImportsOf(k, s)' = {} => env'[k][s] = <<"slot", k, s>>
      BY <1>8, <1>9, <1>12, <2>3
    <2>5. status'[m] = "Linked" /\ \A k \in Modules : k # m => status'[k] = status[k]
      BY <1>2, <1>3, <1>12
    <2>6. ASSUME NEW k \in Modules, status'[k] = "Linked", CyclesDoNotForward(k)'
          PROVE  Bound(k)'
      <3>1. CyclesDoNotForward(k)
        BY <2>1, <2>6, CodeKept
      <3>2. CASE k # m
        <4>1. Bound(k)
          BY <2>5, <2>6, <3>1, <3>2 DEF BindingInv
        <4> QED BY <2>1, <2>2, <3>2, <4>1, BoundKept
      <3>3. CASE k = m
        <4>1. \A s \in Slots : SlotSound(bound, m, s)
          BY <1>8, <1>12, <3>1, <3>3
        <4>2. \A s \in Slots : SlotSound(env, m, s)'
          <5> TAKE s \in Slots
          <5>1. SlotSound(bound, m, s)
            BY <4>1
          <5>2. ImportsOf(m, s)' = ImportsOf(m, s) /\ \A j, n : Denotes(j, n)' = Denotes(j, n)
            BY <2>1, CodeKept
          <5> QED BY <1>12, <2>1, <5>1, <5>2 DEF SlotSound
        <4>3. ASSUME NEW x \in ToSet(code[m].exports), x.kind = "indirect"
              PROVE  Cardinality(Denotes(m, x.exported)) = 1
          <5>1. PICK i \in DOMAIN code[m].exports : x = code[m].exports[i]
            BY DEF ToSet
          <5>2. i \in DOMAIN checked
            BY <1>6, <4>3, <5>1 DEF IndirectExports
          <5>3. checked[i] \notin Failures
            BY <1>12, <5>2 DEF Fails
          <5> QED BY <1>2, <1>4, <1>5, <1>6, <1>12, <3>1, <3>3, <5>1, <5>2, <5>3, ExportIs
        <4>4. \A j, n : Denotes(j, n)' = Denotes(j, n)
          BY <2>1, CodeKept
        <4>5. \A x \in ToSet(code'[m].exports) : x.kind = "indirect" => Cardinality(Denotes(m, x.exported)') = 1
          BY <2>1, <4>3, <4>4
        <4> QED BY <3>3, <4>2, <4>5 DEF Bound
      <3> QED BY <3>2, <3>3
    <2>7. ASSUME NEW k \in Modules, status'[k] = "Linked", NEW d \in deps'[k]
          PROVE  status'[d] \in {"Linked", "Linking"}
      <3>1. d \in Modules
        BY <1>2, <2>1 DEF Graph
      <3>2. status[d] \in {"Linked", "Linking"}
        BY <1>2, <2>1, <2>5, <2>7 DEF Around
      <3> QED BY <2>5, <3>1, <3>2
    <2>8. namespaces' \in [Modules -> SUBSET (Names \X Cells)] /\ outcome' \in Outcomes
      BY <1>3, <2>1 DEF BindingInv
    <2> QED BY <2>1, <2>2, <2>4, <2>6, <2>7, <2>8 DEF BindingInv, Environments
  <1> QED BY <1>7, <1>10, <1>11, <1>12

\* Steps of load_module_graph leave the environments as they are.
LEMMA LoadBinding ==
    ASSUME Inv, BindingInv, Load
    PROVE  BindingInv'
  <1>1. /\ Running("load") /\ code' = code /\ UNCHANGED <<status, env, namespaces>>
        /\ \/ UNCHANGED <<phase, outcome>>
           \/ phase' = "link" /\ outcome' = outcome
           \/ phase' = "end" /\ outcome' = "loadError"
    <2>1. CASE FindRecord
      BY <2>1 DEF FindRecord, HasRequest, linkVars, ending
    <2>2. CASE LoadRecord
      BY <2>2 DEF LoadRecord, HasRequest, linkVars, ending
    <2>3. CASE LoadReturns
      BY <2>3 DEF LoadReturns, linkVars, ending
    <2>4. CASE LoadFails
      BY <2>4 DEF LoadFails, HasRequest, linkVars, ending, EndWith
    <2> QED BY <2>1, <2>2, <2>3, <2>4 DEF Load
  <1>2. phase = "load" /\ \A m \in Modules : status[m] = "Unlinked"
    BY <1>1, LoadPhase DEF Loading
  <1>3. \A m, s : ImportsOf(m, s)' = ImportsOf(m, s)
    BY <1>1, CodeKept
  <1>4. phase' = "end" => Verdict'
    BY <1>1, <1>2 DEF Verdict, NamespaceExact
  <1>5. outcome' \in Outcomes
    BY <1>1 DEF BindingInv, Outcomes
  <1> QED BY <1>1, <1>2, <1>3, <1>4, <1>5 DEF BindingInv, Environments

\* link_module is called, or passes over a dependency.
LEMMA EnterBinding ==
    ASSUME Inv, BindingInv, LinkRecord \/ LinkDependency
    PROVE  BindingInv'
  <1>1. /\ phase = "link" /\ Graph /\ status \in [Modules -> Statuses]
        /\ UNCHANGED <<graphVars, env, namespaces, ending>>
    BY LinkPhase DEF LinkRecord, LinkDependency, Inv
  <1>2. code' = code /\ deps' = deps /\ phase' = phase /\ outcome' = outcome
    BY <1>1 DEF graphVars, ending
  <1>3. status' = status \/ \E d : status[d] = "Unlinked" /\ status' = [status EXCEPT ![d] = "Linking"]
    <2>1. CASE LinkRecord
      BY <2>1 DEF LinkRecord, EnterLink
    <2>2. CASE LinkDependency
      BY <2>2 DEF LinkDependency, EnterLink
    <2> QED BY <2>1, <2>2
  <1>4. \A k \in Modules : \/ status'[k] = status[k]
                           \/ status[k] = "Unlinked" /\ status'[k] = "Linking"
    BY <1>1, <1>3
  <1>5. ASSUME NEW k \in Modules, status'[k] = "Linked", CyclesDoNotForward(k)'
        PROVE  Bound(k)'
    <2>1. status[k] = "Linked" /\ CyclesDoNotForward(k)
      BY <1>2, <1>4, <1>5, CodeKept
    <2>2. Bound(k) /\ env'[k] = env[k]
      BY <1>1, <2>1 DEF BindingInv
    <2> QED BY <1>2, <2>2, BoundKept
  <1>6. ASSUME NEW k \in Modules, status'[k] = "Linked", NEW d \in deps'[k]
        PROVE  status'[d] \in {"Linked", "Linking"}
    <2>1. status[k] = "Linked" /\ d \in deps[k] /\ d \in Modules
      BY <1>1, <1>2, <1>4, <1>6 DEF Graph
    <2>2. status[d] \in {"Linked", "Linking"}
      BY <1>1, <2>1 DEF BindingInv
    <2> QED BY <1>4, <2>1, <2>2
  <1>7. \A m, s : ImportsOf(m, s)' = ImportsOf(m, s)
    BY <1>2, CodeKept
  <1> QED BY <1>1, <1>2, <1>5, <1>6, <1>7 DEF BindingInv, Environments

\* The namespace of m, when all records are linked.
LEMMA NamespaceIs ==
    ASSUME Graph, BindingInv, phase = "link", NEW m \in Recorded,
           \A k \in Recorded : status[k] = "Linked",
           \A k \in Modules : status[k] # "Linking",
           ~ BuildPanics(m)
    PROVE  /\ {b \in BuildNamespace(m) : b[2] \notin Failures} \in SUBSET (Names \X Cells)
           /\ CyclesDoNotForward(m) =>
                 {b \in BuildNamespace(m) : b[2] \notin Failures}
                    = {b \in Names \X Cells : Denotes(m, b[1]) = {b[2]}}
  <1>1. m \in Modules /\ env \in Environments
    BY DEF Graph, Recorded, ToSet, BindingInv
  <1>2. Around(m)
    BY <1>1 DEF BindingInv, Around
  <1>3. PICK B : B = {b \in BuildNamespace(m) : b[2] \notin Failures}
    OBVIOUS
  <1>4. ASSUME NEW b \in B
        PROVE  b \in Names \X Cells /\ b[2] = ResolveExport(env, m, b[1]) /\ b[2] \notin Failures
    <2>1. PICK n \in CollectExportNames(m) : b = <<n, ResolveExport(env, m, n)>>
      BY <1>3 DEF BuildNamespace
    <2>2. n \in Names
      BY <1>1, CollectIs
    <2>3. b[1] = n /\ b[2] = ResolveExport(env, m, n) /\ b[2] \notin Failures
      BY <1>3, <2>1
    <2>4. ResolveExport(env, m, n) \in Cells \cup Failures
      BY <1>1, <2>2, ResolveType
    <2> QED BY <2>1, <2>2, <2>3, <2>4
  <1>5. ASSUME CyclesDoNotForward(m)
        PROVE  B = {b \in Names \X Cells : Denotes(m, b[1]) = {b[2]}}
    <2>1. PICK Z : Z = Zone(m, {})
      OBVIOUS
    <2>2. Kept(Z) /\ Z \in SUBSET Points /\ \A n \in Names : <<m, n>> \in Z
      BY <1>1, <1>2, <2>1, ZoneKept
    <2>3. Sound(env, Z)
      <3>1. /\ \A k \in Modules : env[k] = env[k] \/ \A s \in Slots : SlotSound(env, k, s)
            /\ \A k \in {} : \A s \in Slots : SlotSound(env, k, s)
        OBVIOUS
      <3> QED BY <1>1, <1>5, <2>1, <3>1, ZoneSound
    <2>4. ASSUME NEW b \in B
          PROVE  b \in Names \X Cells /\ Denotes(m, b[1]) = {b[2]}
      <3>1. b \in Names \X Cells /\ b[2] = ResolveExport(env, m, b[1]) /\ b[2] \notin Failures
        BY <1>4
      <3>2. PICK n \in Names : n = b[1]
        BY <3>1
      <3>3. <<m, n>> \in Z /\ ResolveExport(env, m, n) \notin Failures
        BY <2>2, <3>1, <3>2
      <3>4. Z \in SUBSET Points /\ Kept(Z)
        BY <2>2
      <3>5. Denotes(m, n) = {ResolveExport(env, m, n)}
        BY <1>1, <2>3, <3>3, <3>4, Judged
      <3> QED BY <3>1, <3>2, <3>5
    <2>5. ASSUME NEW n \in Names, NEW c \in Cells, Denotes(m, n) = {c}
          PROVE  <<n, c>> \in B
      <3>1. n \in CollectExportNames(m)
        BY <1>1, <2>5, CollectIs
      <3>2. PICK r : r = ResolveExport(env, m, n)
        OBVIOUS
      <3>8. <<m, n>> \in Z /\ Z \in SUBSET Points /\ Kept(Z)
        BY <2>2
      <3>9. /\ ResolveExport(env, m, n) \in Cells \cup Failures
            /\ ResolveExport(env, m, n) \in Cells => Denotes(m, n) = {ResolveExport(env, m, n)}
            /\ ResolveExport(env, m, n) = NotFound => Denotes(m, n) = {}
            /\ ResolveExport(env, m, n) = Ambiguous => \E a, d \in Denotes(m, n) : a # d
        BY <1>1, <2>3, <3>8, Resolved
      <3>3. /\ r \in Cells \cup Failures
            /\ r \in Cells => Denotes(m, n) = {r}
            /\ r = NotFound => Denotes(m, n) = {}
            /\ r = Ambiguous => \E a, d \in Denotes(m, n) : a # d
        BY <3>2, <3>9
      <3>4. <<n, r>> \in BuildNamespace(m)
        BY <3>1, <3>2 DEF BuildNamespace
      <3>5. r # Panic
        <4>1. <<n, r>>[2] # Panic
          BY <3>4 DEF BuildPanics
        <4> QED BY <4>1
      <3>6. r = c
        BY <2>5, <3>3, <3>5 DEF Failures
      <3>7. c \notin Failures
        BY FailuresAreNoCells
      <3> QED BY <1>3, <3>4, <3>6, <3>7
    <2>6. \A b \in Names \X Cells : b = <<b[1], b[2]>> /\ b[1] \in Names /\ b[2] \in Cells
      OBVIOUS
    <2> QED BY <2>4, <2>5, <2>6
  <1> QED BY <1>3, <1>4, <1>5

\* The namespaces are filled in, and the run ends.
LEMMA MaterializeBinding ==
    ASSUME Inv, BindingInv, MaterializeNamespaces
    PROVE  BindingInv'
  <1>1. /\ phase = "link" /\ stack = <<>> /\ UNCHANGED <<graphVars, status, env>>
        /\ Graph /\ Linking /\ status \in [Modules -> Statuses] /\ phase' = "end"
    BY DEF MaterializeNamespaces, Idle, Inv, EndWith
  <1>2. code' = code /\ records' = records /\ deps' = deps
    BY <1>1 DEF graphVars
  <1>3. /\ Recorded' = Recorded /\ (Complete' <=> Complete)
        /\ \A k, s : ImportsOf(k, s)' = ImportsOf(k, s)
        /\ \A k, n : Denotes(k, n)' = Denotes(k, n)
        /\ \A k : CyclesDoNotForward(k)' <=> CyclesDoNotForward(k)
    BY <1>2, CodeKept DEF Recorded, Complete
  <1>4. Recorded \subseteq Modules
    BY <1>1 DEF Graph, Recorded, ToSet
  <1>5. \A k \in Modules : status[k] # "Linking"
    BY <1>1 DEF Linking, OnStack
  <1>6. \A k \in Recorded : status[k] = "Linked"
    <2>1. \A k \in Recorded : status[k] # "Unlinked"
      BY DEF MaterializeNamespaces
    <2>2. \A k \in Modules : status[k] # "Errored"
      BY <1>1 DEF Linking
    <2> QED BY <1>1, <1>4, <1>5, <2>1, <2>2 DEF Statuses
  <1>7. ASSUME NEW k \in Modules, status'[k] = "Linked", CyclesDoNotForward(k)'
        PROVE  Bound(k)'
    <2>1. Bound(k) /\ env'[k] = env[k]
      BY <1>1, <1>3, <1>7 DEF BindingInv
    <2> QED BY <1>2, <2>1, BoundKept
  <1>8. CASE (\E m \in Recorded : BuildPanics(m)) /\ EndWith("panic") /\ UNCHANGED namespaces
    <2>1. outcome' = "panic" /\ namespaces' = namespaces
      BY <1>8 DEF EndWith
    <2>2. ~ Complete
      BY <1>1, <1>8, NoBuildPanic DEF BindingInv
    <2>3. Verdict'
      BY <1>3, <2>1, <2>2 DEF Verdict, NamespaceExact
    <2> QED BY <1>1, <1>3, <1>7, <2>1, <2>3 DEF BindingInv, Environments, Outcomes
  <1>9. CASE /\ ~ \E m \in Recorded : BuildPanics(m)
             /\ namespaces' = [m \in Modules |->
                    IF m \in Recorded
                      THEN {b \in BuildNamespace(m) : b[2] \notin Failures}
                      ELSE {}]
             /\ EndWith("ok")
    <2>1. outcome' = "ok"
      BY <1>9 DEF EndWith
    <2>2. \A m \in Recorded : namespaces'[m] = {b \in BuildNamespace(m) : b[2] \notin Failures}
      BY <1>4, <1>9
    <2>3. ASSUME NEW m \in Recorded
          PROVE  /\ namespaces'[m] \in SUBSET (Names \X Cells)
                 /\ CyclesDoNotForward(m) => namespaces'[m] = {b \in Names \X Cells : Denotes(m, b[1]) = {b[2]}}
      BY <1>1, <1>5, <1>6, <1>9, <2>2, NamespaceIs
    <2>4. namespaces' \in [Modules -> SUBSET (Names \X Cells)]
      <3>1. \A m \in Modules : namespaces'[m] \in SUBSET (Names \X Cells)
        <4> TAKE m \in Modules
        <4>1. m \notin Recorded => namespaces'[m] = {}
          BY <1>9
        <4> QED BY <2>3, <4>1
      <3>2. namespaces' = [m \in Modules |-> namespaces'[m]]
        BY <1>9
      <3> QED BY <3>1, <3>2
    <2>5. NamespaceExact'
      BY <1>3, <2>3 DEF NamespaceExact
    <2>6. Verdict'
      BY <1>1, <1>3, <1>6, <2>1, <2>5 DEF Verdict
    <2> QED BY <1>1, <1>3, <1>7, <2>1, <2>4, <2>6 DEF BindingInv, Environments, Outcomes
  <1> QED BY <1>8, <1>9 DEF MaterializeNamespaces

\* Nothing changes.
LEMMA StutterBinding ==
    ASSUME Inv, BindingInv, UNCHANGED vars
    PROVE  BindingInv'
  <1>1. UNCHANGED <<code, records, deps, status, env, namespaces, phase, outcome>>
    BY DEF vars, graphVars, linkVars, ending
  <1>2. /\ Recorded' = Recorded /\ (Complete' <=> Complete)
        /\ \A k, s : ImportsOf(k, s)' = ImportsOf(k, s)
        /\ \A k, n : Denotes(k, n)' = Denotes(k, n)
        /\ \A k : (CyclesDoNotForward(k)' <=> CyclesDoNotForward(k)) /\ (Faulty(k)' <=> Faulty(k))
    BY <1>1, CodeKept DEF Recorded, Complete
  <1>3. \A k \in Modules : status'[k] = "Linked" /\ CyclesDoNotForward(k)' => Bound(k)'
    BY <1>1, <1>2, BoundKept DEF BindingInv
  <1>4. NamespaceExact => NamespaceExact'
    BY <1>1, <1>2 DEF NamespaceExact
  <1>5. phase' = "end" => Verdict'
    BY <1>1, <1>2, <1>4 DEF BindingInv, Verdict
  <1> QED BY <1>1, <1>2, <1>3, <1>5 DEF BindingInv, Environments

\* At the start the slots are the modules' own.
LEMMA InitBinding ==
    ASSUME Init
    PROVE  BindingInv
  <1>1. env \in Environments
    BY DEF Init, Environments, Cells
  <1>2. namespaces \in [Modules -> SUBSET (Names \X Cells)]
    BY DEF Init
  <1> QED BY <1>1, <1>2 DEF Init, BindingInv, Outcomes

\* Every step of run_module.
LEMMA NextBinding ==
    ASSUME Inv, BindingInv, [Next]_vars
    PROVE  BindingInv'
  <1>1. CASE Load
    BY <1>1, LoadBinding
  <1>2. CASE LinkRecord \/ LinkDependency
    BY <1>2, EnterBinding
  <1>3. CASE BindImports
    BY <1>3, BindImportsBinding
  <1>4. CASE MaterializeNamespaces
    BY <1>4, MaterializeBinding
  <1>5. CASE Terminating \/ UNCHANGED vars
    BY <1>5, StutterBinding DEF Terminating
  <1> QED BY <1>1, <1>2, <1>3, <1>4, <1>5 DEF Next, Step, Link

\* The invariant of the call stacks and that of the bindings hold together: a step
\* from a state of both leads to a state of both.
THEOREM BindingsInductive == Spec => [](Inv /\ BindingInv)
  <1>1. Init => Inv /\ BindingInv
    BY InitInv, InitBinding
  <1>2. Inv /\ BindingInv /\ [Next]_vars => (Inv /\ BindingInv)'
    BY NextInv, NextBinding
  <1> QED BY <1>1, <1>2, PTL DEF Spec

\* A run that has not ended has no outcome.
LEMMA NoOutcomeYet ==
    ASSUME Inv, phase # "end"
    PROVE  outcome = "running"
  BY DEF Inv, Loading, Linking

\* load_module_graph, link_module and module_namespace keep every table well typed:
\* what fills an import slot is a cell, never an error or "not found".
THEOREM WellTyped == Spec => []TypeOK
  <1>1. Inv /\ BindingInv => TypeOK
    <2> SUFFICES ASSUME Inv, BindingInv
                 PROVE  TypeOK
      OBVIOUS
    <2>1. code \in [Modules -> Metadata] /\ records \in Seq(Modules)
          /\ deps \in [Modules -> SUBSET Modules]
          /\ dynamic \in [Modules -> Seq(Modules \cup {Unresolved})]
      BY LinkingAssumption DEF Inv, Graph
    <2>2. /\ stack \in Seq(Frames) /\ status \in [Modules -> Statuses]
          /\ phase \in {"load", "link", "end"}
      BY DEF Inv
    <2>3. /\ env \in [Modules -> [Slots -> Cells]] /\ outcome \in Outcomes
          /\ namespaces \in [Modules -> SUBSET (Names \X Cells)]
      BY DEF BindingInv, Environments
    <2> QED BY <2>1, <2>2, <2>3 DEF TypeOK
  <1> QED BY <1>1, BindingsInductive, PTL

\* link_module fills an import slot with the one binding that its name denotes: the
\* recursive resolution, cut by its resolve set and run against modules of which
\* some are linked and some are not, agrees with the definition.
THEOREM ImportsLive == Spec => []LiveUnlessForwarded
  <1>1. Inv /\ BindingInv => LiveUnlessForwarded
    <2> SUFFICES ASSUME Inv, BindingInv,
                        NEW m \in Modules, status[m] = "Linked", CyclesDoNotForward(m),
                        NEW x \in ToSet(code[m].imports)
                 PROVE  IsLive(m, x)
      BY DEF LiveUnlessForwarded
    <2>1. x.slot \in Slots
      BY FromRequested, ImportKinds DEF Inv
    <2>2. SlotSound(env, m, x.slot)
      BY <2>1 DEF BindingInv, Bound
    <2> QED BY <2>2 DEF SlotSound, IsLive
  <1> QED BY <1>1, BindingsInductive, PTL

\* run_module reports a linking error exactly for the graphs that have a name which
\* denotes no binding or more than one: no resolvable graph is refused, and no
\* unresolvable one is run.
THEOREM VerdictExact == Spec => []LinkVerdict
  <1>1. Inv /\ BindingInv => LinkVerdict
    <2> SUFFICES ASSUME Inv, BindingInv, phase = "end", outcome # "loadError", Complete,
                        \A m \in Recorded : CyclesDoNotForward(m)
                 PROVE  outcome = IF \E m \in Recorded : Faulty(m) THEN "linkError" ELSE "ok"
      BY DEF LinkVerdict, Faulty
    <2>1. Graph /\ Verdict /\ Recorded \subseteq Modules
      BY DEF Inv, BindingInv, Graph, Recorded, ToSet
    <2>2. outcome \in {"ok", "linkError"}
      BY <2>1 DEF BindingInv, Verdict, Outcomes
    <2>3. outcome = "linkError" => \E m \in Recorded : Faulty(m)
      BY <2>1 DEF Verdict
    <2>4. ASSUME outcome = "ok", NEW m \in Recorded
          PROVE  ~ Faulty(m)
      <3>1. m \in Modules /\ Bound(m)
        BY <2>1, <2>4 DEF Verdict, BindingInv
      <3>2. ASSUME NEW x \in ToSet(code[m].imports), x.kind = "name"
            PROVE  Cardinality(Denotes(x.from, x.imported)) = 1
        <4>1. x.slot \in Slots /\ x.from \in Modules /\ x.imported \in Names
          BY <2>1, <3>1, <3>2, FromRequested, ImportKinds
        <4>2. Denotes(x.from, x.imported) = {env[m][x.slot]}
          BY <3>1, <3>2, <4>1 DEF Bound, SlotSound
        <4> QED BY <2>1, <4>1, <4>2, CountDenoted
      <3> QED BY <3>1, <3>2 DEF Bound, Faulty
    <2> QED BY <2>2, <2>3, <2>4
  <1> QED BY <1>1, BindingsInductive, PTL

\* build_module_namespace has the names that denote one binding, with its cell, and
\* no other: an ambiguous or a circular name is left out, a name that only some
\* star exports have is in.
THEOREM NamespacesExact == Spec => []NamespaceExact
  <1>1. Inv /\ BindingInv => NamespaceExact
    <2>1. ASSUME Inv, BindingInv, phase = "end"
          PROVE  NamespaceExact
      BY <2>1 DEF BindingInv, Verdict
    <2>2. ASSUME Inv, phase # "end"
          PROVE  NamespaceExact
      BY <2>2, NoOutcomeYet DEF NamespaceExact
    <2> QED BY <2>1, <2>2
  <1> QED BY <1>1, BindingsInductive, PTL
=============================================================================
