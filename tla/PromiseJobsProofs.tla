------------------------- MODULE PromiseJobsProofs --------------------------
(*****************************************************************************)
(* The inductive invariant of PromiseJobs, the lemmas about its parts (what  *)
(* the operators of the heap: settle_promise, resolve_promise, the           *)
(* registration of a reaction, the taking of a job, do to the reactions and  *)
(* jobs it holds, and what becomes of the owners of a promise when a frame,  *)
(* a continuation or a job comes or goes), one lemma per action, and the     *)
(* properties that follow: TypeOK, PendingIsOwned, ContinuationHeld,         *)
(* ReactionOrder, NothingLeft, DrainDepth and SettledForever.                *)
(* HandlerErrorRejects is not among them: the code violates it. Termination  *)
(* is a liveness property, which TLC checks.                                 *)
(*                                                                           *)
(* The argument is one of counting. The frames, continuations, reactions and *)
(* jobs that are to settle a promise are its owners; a pending promise that  *)
(* the program has no resolving functions of has exactly one. Each operation *)
(* hands a promise from one owner to one other (Handed), or settles it. The  *)
(* same count, of reactions and jobs, is kept for each suspended function.   *)
(*****************************************************************************)
EXTENDS PromiseJobs, SequenceTheorems, FiniteSetTheorems, TLAPS

\* Where the members of A are in a sequence, and how many there are.
Where(s, A) == {i \in DOMAIN s : s[i] \in A}
Count(s, A) == Cardinality(Where(s, A))
In(x, A)    == IF x \in A THEN 1 ELSE 0

\* A value appended to a sequence is its last, and the others stay.
LEMMA Pushed ==
    ASSUME NEW S, NEW s \in Seq(S), NEW f \in S
    PROVE  /\ Append(s, f) \in Seq(S) /\ Append(s, f) # <<>> /\ Len(Append(s, f)) = Len(s) + 1
           /\ Len(s) \in Nat /\ DOMAIN s = 1..Len(s) /\ DOMAIN Append(s, f) = 1..(Len(s) + 1)
           /\ Append(s, f)[Len(s) + 1] = f
           /\ \A i \in DOMAIN s : Append(s, f)[i] = s[i]
  OBVIOUS

\* The last value of a sequence is taken: the others stay in place.
LEMMA LastFront ==
    ASSUME NEW S, NEW s \in Seq(S), s # <<>>
    PROVE  /\ Front(s) \in Seq(S) /\ Len(Front(s)) = Len(s) - 1
           /\ Len(s) \in Nat \ {0} /\ DOMAIN s = 1..Len(s) /\ DOMAIN Front(s) = 1..(Len(s) - 1)
           /\ Last(s) = s[Len(s)] /\ Last(s) \in S
           /\ \A i \in DOMAIN Front(s) : Front(s)[i] = s[i]
  <1>1. Len(s) \in Nat \ {0} /\ DOMAIN s = 1..Len(s)
    BY EmptySeq
  <1>2. \A i \in 1..(Len(s) - 1) : s[i] \in S
    BY <1>1
  <1>3. /\ SubSeq(s, 1, Len(s) - 1) \in Seq(S)
        /\ Len(SubSeq(s, 1, Len(s) - 1)) = Len(s) - 1
        /\ \A i \in 1..(Len(s) - 1) : SubSeq(s, 1, Len(s) - 1)[i] = s[i]
    BY <1>1, <1>2, SubSeqProperties
  <1> QED BY <1>1, <1>3 DEF Front, Last

\* The first value of a sequence is taken: the others move down by one.
LEMMA Behead ==
    ASSUME NEW S, NEW s \in Seq(S), s # <<>>
    PROVE  /\ Tail(s) \in Seq(S) /\ Len(Tail(s)) = Len(s) - 1
           /\ Len(s) \in Nat \ {0} /\ DOMAIN s = 1..Len(s) /\ DOMAIN Tail(s) = 1..(Len(s) - 1)
           /\ Head(s) = s[1] /\ Head(s) \in S
           /\ \A i \in DOMAIN Tail(s) : Tail(s)[i] = s[i + 1]
  BY HeadTailProperties, EmptySeq

\* A count is a number.
LEMMA WhereFinite ==
    ASSUME NEW S, NEW s \in Seq(S), NEW A
    PROVE  IsFiniteSet(Where(s, A)) /\ Count(s, A) \in Nat
  <1>1. IsFiniteSet(DOMAIN s)
    BY FS_Interval, LenProperties
  <1>2. Where(s, A) \in SUBSET DOMAIN s
    BY DEF Where
  <1> QED BY <1>1, <1>2, FS_Subset, FS_CardinalityType DEF Count

\* A value appended counts for itself.
LEMMA CountAppend ==
    ASSUME NEW S, NEW s \in Seq(S), NEW x \in S, NEW A
    PROVE  Count(Append(s, x), A) = Count(s, A) + In(x, A)
  <1> DEFINE t == Append(s, x)
             n == Len(s) + 1
  <1>1. /\ n \in Nat /\ n \notin DOMAIN s /\ DOMAIN t = DOMAIN s \cup {n}
        /\ t[n] = x /\ \A i \in DOMAIN s : t[i] = s[i]
    BY Pushed
  <1>2. IsFiniteSet(Where(s, A)) /\ Count(s, A) \in Nat
    BY WhereFinite
  <1> HIDE DEF t, n
  <1>3. CASE x \in A
    <2>1. Where(t, A) = Where(s, A) \cup {n} /\ n \notin Where(s, A)
      BY <1>1, <1>3 DEF Where
    <2> QED BY <1>2, <1>3, <2>1, FS_AddElement DEF Count, In, t
  <1>4. CASE x \notin A
    <2>1. Where(t, A) = Where(s, A)
      BY <1>1, <1>4 DEF Where
    <2> QED BY <1>2, <1>4, <2>1 DEF Count, In, t
  <1> QED BY <1>3, <1>4

\* So does the last value, when it is taken.
LEMMA CountFront ==
    ASSUME NEW S, NEW s \in Seq(S), s # <<>>, NEW A
    PROVE  Count(s, A) = Count(Front(s), A) + In(Last(s), A)
  <1> DEFINE t == Front(s)
             n == Len(s)
             x == Last(s)
  <1>1. /\ n \in Nat /\ n \notin DOMAIN t /\ DOMAIN s = DOMAIN t \cup {n}
        /\ s[n] = x /\ \A i \in DOMAIN t : t[i] = s[i]
    <2>1. /\ n \in Nat \ {0} /\ DOMAIN s = 1..n /\ DOMAIN t = 1..(n - 1)
          /\ s[n] = x /\ \A i \in DOMAIN t : t[i] = s[i]
      BY LastFront
    <2> HIDE DEF t, n, x
    <2> QED BY <2>1
  <1>2. IsFiniteSet(Where(t, A)) /\ Count(t, A) \in Nat
    BY LastFront, WhereFinite
  <1> HIDE DEF t, n, x
  <1>3. CASE x \in A
    <2>1. Where(s, A) = Where(t, A) \cup {n} /\ n \notin Where(t, A)
      BY <1>1, <1>3 DEF Where
    <2> QED BY <1>2, <1>3, <2>1, FS_AddElement DEF Count, In, t, x
  <1>4. CASE x \notin A
    <2>1. Where(t, A) = Where(s, A)
      BY <1>1, <1>4 DEF Where
    <2> QED BY <1>2, <1>4, <2>1 DEF Count, In, t, x
  <1> QED BY <1>3, <1>4

\* Members that move by k places keep their number.
LEMMA Shifted ==
    ASSUME NEW A \in SUBSET Nat, IsFiniteSet(A), NEW k \in Int, NEW B \in SUBSET Nat,
           \A i \in A : i + k \in B, \A j \in B : j - k \in A
    PROVE  IsFiniteSet(B) /\ Cardinality(B) = Cardinality(A)
  <1> DEFINE f == [i \in A |-> i + k]
  <1>1. f \in [A -> B]
    OBVIOUS
  <1>2. f \in Injection(A, B)
    BY <1>1 DEF Injection, IsInjective
  <1>3. f \in Surjection(A, B)
    <2>1. \A j \in B : \E i \in A : f[i] = j
      <3> TAKE j \in B
      <3>1. j - k \in A /\ (j - k) + k = j
        OBVIOUS
      <3> QED BY <3>1
    <2> QED BY <1>1, <2>1 DEF Surjection
  <1>4. ExistsBijection(A, B)
    BY <1>2, <1>3 DEF Bijection, ExistsBijection
  <1> QED BY <1>4, FS_Bijection

\* So does the first value, when it is taken.
LEMMA CountTail ==
    ASSUME NEW S, NEW s \in Seq(S), s # <<>>, NEW A
    PROVE  Count(s, A) = Count(Tail(s), A) + In(Head(s), A)
  <1> DEFINE t == Tail(s)
             n == Len(s)
             x == Head(s)
             M == Where(s, A) \ {1}
  <1>1. /\ n \in Nat \ {0} /\ DOMAIN s = 1..n /\ DOMAIN t = 1..(n - 1) /\ t \in Seq(S)
        /\ s[1] = x /\ \A i \in DOMAIN t : t[i] = s[i + 1]
    BY Behead
  <1>2. IsFiniteSet(Where(t, A)) /\ Count(t, A) \in Nat /\ IsFiniteSet(Where(s, A)) /\ Count(s, A) \in Nat
    BY <1>1, WhereFinite
  <1> HIDE DEF t, n, x
  <1>3. \A i \in Where(t, A) : i + 1 \in M
    BY <1>1 DEF Where
  <1>4. \A j \in M : j - 1 \in Where(t, A)
    BY <1>1 DEF Where
  <1>5. Where(t, A) \in SUBSET Nat /\ M \in SUBSET Nat
    BY <1>1 DEF Where
  <1>6. IsFiniteSet(M) /\ Cardinality(M) = Count(t, A)
    <2> DEFINE W == Where(t, A)
    <2>1. W \in SUBSET Nat /\ IsFiniteSet(W) /\ M \in SUBSET Nat /\ 1 \in Int
      BY <1>2, <1>5
    <2>2. (\A i \in W : i + 1 \in M) /\ (\A j \in M : j - 1 \in W)
      BY <1>3, <1>4
    <2> HIDE DEF M, W
    <2>3. IsFiniteSet(M) /\ Cardinality(M) = Cardinality(W)
      BY <2>1, <2>2, Shifted
    <2> QED BY <2>3 DEF Count, W
  <1>7. 1 \in Where(s, A) <=> x \in A
    BY <1>1 DEF Where
  <1>8. Cardinality(M) = IF 1 \in Where(s, A) THEN Count(s, A) - 1 ELSE Count(s, A)
    BY <1>2, FS_RemoveElement DEF Count
  <1> HIDE DEF M
  <1> QED BY <1>2, <1>6, <1>7, <1>8 DEF In, t, x

\* Two sequences that are alike where it counts.
LEMMA CountLike ==
    ASSUME NEW s, NEW t, NEW A, NEW B, DOMAIN s = DOMAIN t, \A i \in DOMAIN s : s[i] \in A <=> t[i] \in B
    PROVE  Count(s, A) = Count(t, B)
  <1>1. Where(s, A) = Where(t, B)
    BY DEF Where
  <1> QED BY <1>1 DEF Count

\* Nothing counts in an empty sequence.
LEMMA CountEmpty == ASSUME NEW A PROVE Count(<<>>, A) = 0
  <1>1. Where(<<>>, A) = {}
    BY DEF Where
  <1> QED BY <1>1, FS_EmptySet DEF Count

\* What a count of none, and one of one, say of the values.
LEMMA CountNone ==
    ASSUME NEW S, NEW s \in Seq(S), NEW A
    PROVE  /\ Count(s, A) = 0 <=> \A i \in DOMAIN s : s[i] \notin A
           /\ Count(s, A) = 1 => \E i \in DOMAIN s : s[i] \in A
  <1>1. IsFiniteSet(Where(s, A)) /\ Count(s, A) \in Nat
    BY WhereFinite
  <1>2. Count(s, A) = 0 <=> Where(s, A) = {}
    BY <1>1, FS_EmptySet DEF Count
  <1>3. Where(s, A) = {} <=> \A i \in DOMAIN s : s[i] \notin A
    BY DEF Where
  <1>4. Where(s, A) # {} => \E i \in DOMAIN s : s[i] \in A
    BY DEF Where
  <1> QED BY <1>2, <1>3, <1>4

\* The counts of two sequences put together.
LEMMA CountConcat ==
    ASSUME NEW S, NEW s \in Seq(S), NEW t \in Seq(S), NEW A
    PROVE  Count(s \o t, A) = Count(s, A) + Count(t, A)
  <1> DEFINE u == s \o t
             n == Len(s)
             m == Len(t)
             M == Where(u, A) \ Where(s, A)
  <1>1. /\ n \in Nat /\ m \in Nat /\ DOMAIN s = 1..n /\ DOMAIN t = 1..m /\ DOMAIN u = 1..(n + m) /\ u \in Seq(S)
        /\ \A i \in 1..n : u[i] = s[i]
        /\ \A i \in 1..m : u[i + n] = t[i]
    BY ConcatProperties, LenProperties
  <1>2. /\ IsFiniteSet(Where(s, A)) /\ Count(s, A) \in Nat /\ IsFiniteSet(Where(t, A)) /\ Count(t, A) \in Nat
        /\ IsFiniteSet(Where(u, A)) /\ Count(u, A) \in Nat
    BY <1>1, WhereFinite
  <1> HIDE DEF u, n, m
  <1>3. \A i \in Where(t, A) : i + n \in M
    <2> TAKE i \in Where(t, A)
    <2>1. i \in 1..m /\ t[i] \in A
      BY <1>1 DEF Where
    <2>2. i + n \in 1..(n + m) /\ i + n \notin 1..n /\ u[i + n] \in A
      BY <1>1, <2>1
    <2> QED BY <1>1, <2>2 DEF Where
  <1>4. \A j \in M : j - n \in Where(t, A)
    <2> TAKE j \in M
    <2>1. j \in 1..(n + m) /\ u[j] \in A
      BY <1>1 DEF Where
    <2>2. j \notin 1..n
      BY <1>1, <2>1 DEF Where
    <2>3. j - n \in 1..m /\ (j - n) + n = j
      BY <1>1, <2>1, <2>2
    <2>4. u[(j - n) + n] = t[j - n]
      BY <1>1, <2>3
    <2> QED BY <1>1, <2>1, <2>3, <2>4 DEF Where
  <1>5. Where(t, A) \in SUBSET Nat /\ M \in SUBSET Nat
    BY <1>1 DEF Where
  <1>6. IsFiniteSet(M) /\ Cardinality(M) = Count(t, A)
    <2> DEFINE W == Where(t, A)
    <2>1. W \in SUBSET Nat /\ IsFiniteSet(W) /\ M \in SUBSET Nat /\ n \in Int
      BY <1>1, <1>2, <1>5
    <2>2. (\A i \in W : i + n \in M) /\ (\A j \in M : j - n \in W)
      BY <1>3, <1>4
    <2> HIDE DEF M, W
    <2>3. IsFiniteSet(M) /\ Cardinality(M) = Cardinality(W)
      BY <2>1, <2>2, Shifted
    <2> QED BY <2>3 DEF Count, W
  <1>7. Where(u, A) \cap Where(s, A) = Where(s, A)
    BY <1>1 DEF Where
  <1>8. Cardinality(M) = Count(u, A) - Count(s, A)
    BY <1>2, <1>7, FS_Difference DEF Count
  <1> HIDE DEF M
  <1> QED BY <1>2, <1>6, <1>8 DEF u

-----------------------------------------------------------------------------
\* What the promises of rs keep (VmPromise::reactions): the places <<promise,
\* index>> of the reactions in A, and their number.
Slot(p, D)         == {<<p, i>> : i \in D}
Places(rs)         == UNION {{<<p, i>> : i \in DOMAIN rs[p]} : p \in Ids}
KeptWhere(rs, A)   == {x \in Places(rs) : rs[x[1]][x[2]] \in A}
KeptCount(rs, A)   == Cardinality(KeptWhere(rs, A))
Reacting           == [Ids -> Seq(Reactions)]

\* The places of one promise are as many as its indices.
LEMMA SlotSize ==
    ASSUME NEW p, NEW D, IsFiniteSet(D)
    PROVE  IsFiniteSet(Slot(p, D)) /\ Cardinality(Slot(p, D)) = Cardinality(D)
  <1> DEFINE f == [i \in D |-> <<p, i>>]
  <1>1. f \in Injection(D, Slot(p, D))
    BY DEF Injection, IsInjective, Slot
  <1>2. f \in Surjection(D, Slot(p, D))
    BY DEF Surjection, Slot
  <1>3. ExistsBijection(D, Slot(p, D))
    BY <1>1, <1>2 DEF Bijection, ExistsBijection
  <1> QED BY <1>3, FS_Bijection

\* What it means for a place to be counted.
LEMMA KeptIs ==
    ASSUME NEW rs \in Reacting, NEW A
    PROVE  /\ \A p \in Ids : \A i : <<p, i>> \in KeptWhere(rs, A) <=> i \in Where(rs[p], A)
           /\ \A x \in KeptWhere(rs, A) : \E p \in Ids : \E i \in DOMAIN rs[p] : x = <<p, i>> /\ rs[p][i] \in A
  BY DEF KeptWhere, Places, Where

\* The number of reactions kept is a number.
LEMMA KeptFinite ==
    ASSUME NEW rs \in Reacting, NEW A
    PROVE  IsFiniteSet(KeptWhere(rs, A)) /\ KeptCount(rs, A) \in Nat
  <1> DEFINE f == [p \in Ids |-> Slot(p, DOMAIN rs[p])]
             T == {f[p] : p \in Ids}
  <1>1. IsFiniteSet(Ids)
    BY PromisesAssumption, FS_Interval DEF Ids
  <1>2. f \in Surjection(Ids, T)
    BY DEF Surjection
  <1>3. IsFiniteSet(T)
    BY <1>1, <1>2, FS_Surjection
  <1>4. \A U \in T : IsFiniteSet(U)
    <2> TAKE U \in T
    <2>1. PICK p \in Ids : U = Slot(p, DOMAIN rs[p])
      OBVIOUS
    <2>2. rs[p] \in Seq(Reactions)
      BY DEF Reacting
    <2>3. IsFiniteSet(DOMAIN rs[p])
      BY <2>2, LenProperties, FS_Interval
    <2> QED BY <2>1, <2>3, SlotSize
  <1>5. IsFiniteSet(UNION T)
    BY <1>3, <1>4, FS_UNION
  <1>6. KeptWhere(rs, A) \in SUBSET (UNION T)
    BY DEF KeptWhere, Places, Slot
  <1> QED BY <1>5, <1>6, FS_Subset, FS_CardinalityType DEF KeptCount

\* A reaction registered on p counts for itself.
LEMMA KeptAppend ==
    ASSUME NEW rs \in Reacting, NEW p \in Ids, NEW r \in Reactions, NEW A
    PROVE  /\ [rs EXCEPT ![p] = Append(@, r)] \in Reacting
           /\ KeptCount([rs EXCEPT ![p] = Append(@, r)], A) = KeptCount(rs, A) + In(r, A)
  <1> DEFINE ts == [rs EXCEPT ![p] = Append(@, r)]
             n == Len(rs[p]) + 1
             X == KeptWhere(rs, A)
             Y == KeptWhere(ts, A)
  <1>1. rs[p] \in Seq(Reactions) /\ ts \in Reacting
    BY DEF Reacting
  <1>2. /\ n \in Nat /\ n \notin DOMAIN rs[p] /\ DOMAIN ts[p] = DOMAIN rs[p] \cup {n}
        /\ ts[p][n] = r /\ \A i \in DOMAIN rs[p] : ts[p][i] = rs[p][i]
    BY <1>1, Pushed DEF Reacting
  <1>3. \A q \in Ids \ {p} : ts[q] = rs[q]
    BY DEF Reacting
  <1>4. IsFiniteSet(X) /\ KeptCount(rs, A) \in Nat
    BY KeptFinite
  <1>5. /\ \A q \in Ids : \A i : <<q, i>> \in X <=> i \in Where(rs[q], A)
        /\ \A x \in X : \E q \in Ids : \E i \in DOMAIN rs[q] : x = <<q, i>> /\ rs[q][i] \in A
    BY KeptIs
  <1> HIDE DEF ts
  <1>6. /\ \A q \in Ids : \A i : <<q, i>> \in Y <=> i \in Where(ts[q], A)
        /\ \A x \in Y : \E q \in Ids : \E i \in DOMAIN ts[q] : x = <<q, i>> /\ ts[q][i] \in A
    BY <1>1, KeptIs
  <1> HIDE DEF n, X, Y
  <1>7. CASE r \in A
    <2>1. Where(ts[p], A) = Where(rs[p], A) \cup {n} /\ n \notin Where(rs[p], A)
      BY <1>2, <1>7 DEF Where
    <2>2. <<p, n>> \notin X /\ <<p, n>> \in Y
      BY <1>5, <1>6, <2>1
    <2>3. \A x \in X : x \in Y
      BY <1>3, <1>5, <1>6, <2>1 DEF Where
    <2>4. \A x \in Y : x \in X \cup {<<p, n>>}
      <3> TAKE x \in Y
      <3>0. PICK q \in Ids : \E i \in DOMAIN ts[q] : x = <<q, i>> /\ ts[q][i] \in A
        BY <1>6
      <3>1. PICK i \in DOMAIN ts[q] : x = <<q, i>> /\ ts[q][i] \in A
        BY <3>0
      <3>2. CASE q = p
        BY <1>5, <2>1, <3>1, <3>2 DEF Where
      <3>3. CASE q # p
        BY <1>3, <1>5, <3>1, <3>3 DEF Where
      <3> QED BY <3>2, <3>3
    <2>5. Y = X \cup {<<p, n>>}
      BY <2>2, <2>3, <2>4
    <2>6. Cardinality(Y) = Cardinality(X) + 1
      BY <1>4, <2>2, <2>5, FS_AddElement
    <2> QED BY <1>1, <1>7, <2>6 DEF KeptCount, In, ts, X, Y
  <1>8. CASE r \notin A
    <2>1. Where(ts[p], A) = Where(rs[p], A)
      BY <1>2, <1>8 DEF Where
    <2>2. \A q \in Ids : Where(ts[q], A) = Where(rs[q], A)
      BY <1>3, <2>1
    <2>3. X = Y
      BY <1>5, <1>6, <2>2 DEF Where
    <2> QED BY <1>1, <1>4, <1>8, <2>3 DEF KeptCount, In, ts, X, Y
  <1> QED BY <1>7, <1>8

\* The reactions of p are dropped: what they counted for is gone.
LEMMA KeptEmptied ==
    ASSUME NEW rs \in Reacting, NEW p \in Ids, NEW A
    PROVE  /\ [rs EXCEPT ![p] = <<>>] \in Reacting
           /\ KeptCount(rs, A) = KeptCount([rs EXCEPT ![p] = <<>>], A) + Count(rs[p], A)
  <1> DEFINE ts == [rs EXCEPT ![p] = <<>>]
             X == KeptWhere(rs, A)
             Y == KeptWhere(ts, A)
             Z == Slot(p, Where(rs[p], A))
  <1>1. rs[p] \in Seq(Reactions) /\ ts \in Reacting
    BY DEF Reacting
  <1>2. ts[p] = <<>> /\ \A q \in Ids \ {p} : ts[q] = rs[q]
    BY DEF Reacting
  <1>3. IsFiniteSet(Where(rs[p], A)) /\ Count(rs[p], A) \in Nat
    BY <1>1, WhereFinite
  <1>4. IsFiniteSet(Z) /\ Cardinality(Z) = Count(rs[p], A)
    BY <1>3, SlotSize DEF Count
  <1>5. /\ \A q \in Ids : \A i : <<q, i>> \in X <=> i \in Where(rs[q], A)
        /\ \A x \in X : \E q \in Ids : \E i \in DOMAIN rs[q] : x = <<q, i>> /\ rs[q][i] \in A
    BY KeptIs
  <1> HIDE DEF ts
  <1>6. /\ \A q \in Ids : \A i : <<q, i>> \in Y <=> i \in Where(ts[q], A)
        /\ \A x \in Y : \E q \in Ids : \E i \in DOMAIN ts[q] : x = <<q, i>> /\ ts[q][i] \in A
    BY <1>1, KeptIs
  <1>7. IsFiniteSet(Y) /\ KeptCount(ts, A) \in Nat
    BY <1>1, KeptFinite
  <1>8. Where(ts[p], A) = {} /\ DOMAIN ts[p] = {}
    BY <1>2 DEF Where
  <1>9. \A z \in Z : \E i \in Where(rs[p], A) : z = <<p, i>>
    BY DEF Slot
  <1>10. \A i \in Where(rs[p], A) : <<p, i>> \in Z
    BY DEF Slot
  <1> HIDE DEF X, Y, Z
  <1>11. \A x \in X : x \in Y \cup Z
    <2> TAKE x \in X
    <2>0. PICK q \in Ids : \E i \in DOMAIN rs[q] : x = <<q, i>> /\ rs[q][i] \in A
      BY <1>5
    <2>1. PICK i \in DOMAIN rs[q] : x = <<q, i>> /\ rs[q][i] \in A
      BY <2>0
    <2>2. i \in Where(rs[q], A)
      BY <2>1 DEF Where
    <2> QED BY <1>2, <1>6, <1>10, <2>1, <2>2
  <1>12. \A y \in Y : y \in X
    BY <1>2, <1>5, <1>6, <1>8 DEF Where
  <1>13. \A z \in Z : z \in X /\ z \notin Y
    BY <1>5, <1>6, <1>8, <1>9
  <1>14. X = Y \cup Z /\ Y \cap Z = {}
    BY <1>11, <1>12, <1>13
  <1>15. Cardinality(X) = Cardinality(Y) + Cardinality(Z)
    <2>1. Cardinality(Y \cup Z) = Cardinality(Y) + Cardinality(Z) - Cardinality(Y \cap Z)
      BY <1>4, <1>7, FS_Union
    <2>2. Cardinality(Y) \in Nat /\ Cardinality(Z) \in Nat /\ Cardinality({}) = 0
      BY <1>3, <1>4, <1>7, FS_EmptySet, FS_CardinalityType
    <2>3. Cardinality(X) = Cardinality(Y \cup Z) /\ Cardinality(Y \cap Z) = 0
      BY <1>14, <2>2
    <2> QED BY <2>1, <2>2, <2>3
  <1> QED BY <1>1, <1>4, <1>15 DEF KeptCount, ts, X, Y

\* What a count of none says of the reactions kept.
LEMMA KeptNone ==
    ASSUME NEW rs \in Reacting, NEW A
    PROVE  /\ KeptCount(rs, A) = 0 <=> \A p \in Ids : \A i \in DOMAIN rs[p] : rs[p][i] \notin A
           /\ (\A p \in Ids : rs[p] = <<>>) => KeptCount(rs, A) = 0
  <1>1. IsFiniteSet(KeptWhere(rs, A)) /\ KeptCount(rs, A) \in Nat
    BY KeptFinite
  <1>2. KeptCount(rs, A) = 0 <=> KeptWhere(rs, A) = {}
    BY <1>1, FS_EmptySet DEF KeptCount
  <1>3. KeptWhere(rs, A) = {} <=> \A p \in Ids : \A i \in DOMAIN rs[p] : rs[p][i] \notin A
    BY KeptIs DEF Where
  <1> QED BY <1>2, <1>3

-----------------------------------------------------------------------------
\* The state of a promise, and the reactions and jobs that are to settle promise p
\* or to resume the continuation of await c. R is a set of reactions, T of
\* thenable jobs: Tokens counts what the heap holds of them, kept or queued.
Pending(h, p)    == h.state[p] = "pending"
Decided(h, p)    == h.state[p] \in {"fulfilled", "rejected"}
IsReaction(j)    == j.kind = "reaction"
Of(p)            == {r \in Reactions : r.kind = "then" /\ r.result = p}
AwaitsOf(c)      == {r \in Reactions : r.kind = "await" /\ r.id = c}
Thenables(p)     == {j \in Jobs : j.kind = "thenable" /\ j.promise = p}
JobsFor(R, T)    == {j \in Jobs : j \in T \/ (IsReaction(j) /\ j.reaction \in R)}
Tokens(h, R, T)  == KeptCount(h.reactions, R) + Count(h.jobs, JobsFor(R, T))
JobsOf(rs, rejected, p) == [i \in DOMAIN rs |-> ReactionJob(rs[i], rejected, p)]
AThenable(p)     == [kind |-> "thenable", promise |-> p]

\* The fields of a heap have their types.
LEMMA HeapFields ==
    ASSUME NEW h \in Heaps
    PROVE  /\ h.made \in 0..MaxPromises /\ h.state \in [Ids -> States] /\ h.reactions \in Reacting
           /\ h.jobs \in Seq(Jobs) /\ h.known \in SUBSET Ids /\ h.held \in SUBSET Ids /\ h.orphans \in SUBSET Ids
           /\ h.made \in Nat /\ \A p \in Ids : h.reactions[p] \in Seq(Reactions)
           /\ h.registered \in Nat
  BY PromisesAssumption DEF Heaps, Reacting

\* The jobs that settle_promise and resolve_promise queue.
LEMMA JobTypes ==
    ASSUME NEW r \in Reactions, NEW rejected \in BOOLEAN, NEW p \in Ids
    PROVE  /\ ReactionJob(r, rejected, p) \in Jobs /\ IsReaction(ReactionJob(r, rejected, p))
           /\ ReactionJob(r, rejected, p).reaction = r /\ ReactionJob(r, rejected, p).from = p
           /\ AThenable(p) \in Jobs /\ ~ IsReaction(AThenable(p))
  BY DEF ReactionJob, Jobs, IsReaction, AThenable

\* The reaction that adopts a promise settles p and resumes nothing.
LEMMA ReactionTypes ==
    ASSUME NEW p \in Ids
    PROVE  /\ Follow(p) \in Reactions /\ Follow(p) \in Of(p) /\ \A q \in Ids \ {p} : Follow(p) \notin Of(q)
           /\ \A c : Follow(p) \notin AwaitsOf(c)
  BY DEF Follow, Reactions, ThenReactions, HandlerKinds, Of, AwaitsOf

\* The jobs made of the reactions of p.
LEMMA JobsOfParts ==
    ASSUME NEW rs \in Seq(Reactions), NEW rejected \in BOOLEAN, NEW p \in Ids
    PROVE  /\ JobsOf(rs, rejected, p) \in Seq(Jobs) /\ DOMAIN JobsOf(rs, rejected, p) = DOMAIN rs
           /\ \A i \in DOMAIN rs : /\ IsReaction(JobsOf(rs, rejected, p)[i])
                                   /\ JobsOf(rs, rejected, p)[i].reaction = rs[i]
                                   /\ JobsOf(rs, rejected, p)[i].from = p
  <1> DEFINE n == Len(rs)
             js == JobsOf(rs, rejected, p)
  <1>1. n \in Nat /\ DOMAIN rs = 1..n /\ \A i \in 1..n : rs[i] \in Reactions
    BY LenProperties
  <1>2. \A i \in 1..n : js[i] = ReactionJob(rs[i], rejected, p)
    BY <1>1 DEF JobsOf
  <1>3. js \in [1..n -> Jobs]
    BY <1>1, JobTypes DEF JobsOf
  <1>4. js \in Seq(Jobs)
    <2> HIDE DEF js
    <2> QED BY <1>1, <1>3
  <1>5. DOMAIN js = DOMAIN rs
    BY DEF JobsOf
  <1> QED BY <1>1, <1>2, <1>4, <1>5, JobTypes

\* The counts of a heap are numbers.
LEMMA TokensType ==
    ASSUME NEW h \in Heaps, NEW R, NEW T
    PROVE  Tokens(h, R, T) \in Nat /\ KeptCount(h.reactions, R) \in Nat /\ Count(h.jobs, JobsFor(R, T)) \in Nat
  BY HeapFields, KeptFinite, WhereFinite DEF Tokens

\* What settle_promise changes: the state of p, and its reactions, which are queued.
SettleParts(h, k, p, s, rejected) ==
    /\ k \in Heaps
    /\ k.made = h.made /\ k.known = h.known /\ k.held = h.held /\ k.orphans = h.orphans
    /\ k.registered = h.registered
    /\ k.state = [h.state EXCEPT ![p] = s]
    /\ k.reactions = [h.reactions EXCEPT ![p] = <<>>]
    /\ k.jobs = h.jobs \o JobsOf(h.reactions[p], rejected, p)

\* settle_promise of a pending promise.
LEMMA SettledParts ==
    ASSUME NEW h \in Heaps, NEW p \in Ids, NEW rejected \in BOOLEAN, Pending(h, p)
    PROVE  \E s \in {"fulfilled", "rejected"} : SettleParts(h, Settle(h, p, rejected), p, s, rejected)
  <1> DEFINE js == JobsOf(h.reactions[p], rejected, p)
             k == Settle(h, p, rejected)
             s == IF rejected THEN "rejected" ELSE "fulfilled"
             state == [h.state EXCEPT ![p] = s]
             reactions == [h.reactions EXCEPT ![p] = <<>>]
             jobs == h.jobs \o js
  <1>1. /\ h.state \in [Ids -> States] /\ h.reactions \in Reacting /\ h.jobs \in Seq(Jobs)
        /\ h.reactions[p] \in Seq(Reactions)
    BY HeapFields
  <1>2. js \in Seq(Jobs)
    BY <1>1, JobsOfParts
  <1>3. s \in {"fulfilled", "rejected"}
    OBVIOUS
  <1>4. k = [h EXCEPT !.state = state, !.reactions = reactions, !.jobs = jobs]
    BY DEF Settle, Pending, JobsOf, Heaps
  <1>5. state \in [Ids -> States] /\ reactions \in Reacting
    BY <1>1, <1>3 DEF States, Reacting
  <1> HIDE DEF js, s
  <1>6. jobs \in Seq(Jobs)
    BY <1>1, <1>2, ConcatProperties
  <1> HIDE DEF state, reactions, jobs, k
  <1>7. /\ k \in Heaps /\ k.made = h.made /\ k.known = h.known /\ k.held = h.held /\ k.orphans = h.orphans
        /\ k.state = state /\ k.reactions = reactions /\ k.jobs = jobs /\ k.registered = h.registered
    BY <1>4, <1>5, <1>6 DEF Heaps, Reacting
  <1> QED BY <1>3, <1>7 DEF SettleParts, state, reactions, jobs, js, k

\* settle_promise of any other promise does nothing.
LEMMA SettleOther ==
    ASSUME NEW h, NEW p, NEW rejected, ~ Pending(h, p)
    PROVE  Settle(h, p, rejected) = h
  BY DEF Settle, Pending

\* Nothing but reactions and jobs has changed.
SameScalars(h, k) ==
    k.made = h.made /\ k.state = h.state /\ k.known = h.known /\ k.held = h.held /\ k.orphans = h.orphans

\* A job queued changes nothing but the queue.
LEMMA EnqueueParts ==
    ASSUME NEW h \in Heaps, NEW j \in Jobs
    PROVE  /\ Enqueue(h, j) \in Heaps /\ SameScalars(h, Enqueue(h, j))
           /\ Enqueue(h, j).reactions = h.reactions /\ Enqueue(h, j).jobs = Append(h.jobs, j)
           /\ Enqueue(h, j).registered = h.registered
  <1> DEFINE jobs == Append(h.jobs, j)
  <1>1. jobs \in Seq(Jobs)
    BY HeapFields
  <1>2. Enqueue(h, j) = [h EXCEPT !.jobs = jobs]
    BY DEF Enqueue
  <1> HIDE DEF jobs
  <1> QED BY <1>1, <1>2 DEF Heaps, SameScalars, jobs

\* Registering a reaction gives it a number and puts the numbered reaction in its place.
Place(h, p, r) ==
    IF h.state[p] = "pending" THEN [h EXCEPT !.reactions[p] = Append(@, r)]
    ELSE Enqueue(h, ReactionJob(r, h.state[p] = "rejected", p))

\* A registration counted, and its reaction numbered, which settles or resumes what it did.
LEMMA CountedParts ==
    ASSUME NEW h \in Heaps, NEW r \in Reactions
    PROVE  /\ Counted(h) \in Heaps /\ SameScalars(h, Counted(h))
           /\ Counted(h).reactions = h.reactions /\ Counted(h).jobs = h.jobs
           /\ Counted(h).registered = h.registered + 1
           /\ Numbered(h, r) \in Reactions /\ Numbered(h, r).nth = h.registered + 1
           /\ \A p : Numbered(h, r) \in Of(p) <=> r \in Of(p)
           /\ \A c : Numbered(h, r) \in AwaitsOf(c) <=> r \in AwaitsOf(c)
  <1>1. h.registered \in Nat /\ h.registered + 1 \in Nat
    BY HeapFields
  <1>2. /\ Counted(h) \in Heaps /\ SameScalars(h, Counted(h))
        /\ Counted(h).reactions = h.reactions /\ Counted(h).jobs = h.jobs
        /\ Counted(h).registered = h.registered + 1
    BY <1>1 DEF Counted, Heaps, SameScalars
  <1>3. /\ Numbered(h, r) \in Reactions /\ Numbered(h, r).nth = h.registered + 1
        /\ Numbered(h, r).kind = r.kind
        /\ r.kind = "then" => Numbered(h, r).result = r.result
        /\ r.kind = "await" => Numbered(h, r).id = r.id
    <2>1. CASE r \in ThenReactions
      BY <1>1, <2>1 DEF Numbered, Reactions, ThenReactions
    <2>2. CASE r \in AwaitReactions
      BY <1>1, <2>2 DEF Numbered, Reactions, AwaitReactions
    <2> QED BY <2>1, <2>2 DEF Reactions
  <1>4. \A p : Numbered(h, r) \in Of(p) <=> r \in Of(p)
    BY <1>3 DEF Of
  <1>5. \A c : Numbered(h, r) \in AwaitsOf(c) <=> r \in AwaitsOf(c)
    BY <1>3 DEF AwaitsOf
  <1> QED BY <1>2, <1>3, <1>4, <1>5

\* What registering does, in those two steps.
LEMMA RegisterPlaces ==
    ASSUME NEW h \in Heaps, NEW p, NEW r
    PROVE  Register(h, p, r) = Place(Counted(h), p, Numbered(h, r))
  <1>1. Counted(h).state = h.state
    BY DEF Counted, Heaps
  <1> QED BY <1>1 DEF Register, Place

\* A reaction is kept by a pending promise, and queued for a settled one.
LEMMA PlaceParts ==
    ASSUME NEW h \in Heaps, NEW p \in Ids, NEW r \in Reactions
    PROVE  /\ Place(h, p, r) \in Heaps /\ SameScalars(h, Place(h, p, r))
           /\ Place(h, p, r).registered = h.registered
           /\ Pending(h, p) => /\ Place(h, p, r).reactions = [h.reactions EXCEPT ![p] = Append(@, r)]
                               /\ Place(h, p, r).jobs = h.jobs
           /\ ~ Pending(h, p) => \E rejected \in BOOLEAN :
                /\ Place(h, p, r).reactions = h.reactions
                /\ Place(h, p, r).jobs = Append(h.jobs, ReactionJob(r, rejected, p))
  <1> DEFINE k == Place(h, p, r)
  <1>1. CASE Pending(h, p)
    <2> DEFINE rs == [h.reactions EXCEPT ![p] = Append(@, r)]
    <2>1. rs \in Reacting
      BY HeapFields, KeptAppend
    <2>2. k = [h EXCEPT !.reactions = rs]
      BY <1>1 DEF Place, Pending, Heaps
    <2> HIDE DEF rs, k
    <2>3. /\ k \in Heaps /\ SameScalars(h, k) /\ k.reactions = rs /\ k.jobs = h.jobs
          /\ k.registered = h.registered
      BY <2>1, <2>2 DEF Heaps, Reacting, SameScalars
    <2> QED BY <1>1, <2>3 DEF rs, k
  <1>2. CASE ~ Pending(h, p)
    <2> DEFINE rejected == h.state[p] = "rejected"
               j == ReactionJob(r, rejected, p)
    <2>1. rejected \in BOOLEAN /\ j \in Jobs
      BY JobTypes
    <2>2. k = Enqueue(h, j)
      BY <1>2 DEF Place, Pending
    <2> HIDE DEF k, rejected
    <2> QED BY <1>2, <2>1, <2>2, EnqueueParts DEF k
  <1> QED BY <1>1, <1>2

\* A set of jobs without a reaction among them.
NoReactions(T) == \A j \in T : ~ IsReaction(j)

\* Which jobs count for reactions, and which for thenables.
LEMMA JobsForParts ==
    ASSUME NEW R, NEW T, NoReactions(T), NEW j \in Jobs
    PROVE  /\ IsReaction(j) => (j \in JobsFor(R, T) <=> j.reaction \in R)
           /\ ~ IsReaction(j) => (j \in JobsFor(R, T) <=> j \in T)
  BY DEF JobsFor, NoReactions

\* settle_promise queues what it kept: what is to be done stays the same.
LEMMA TokensSettle ==
    ASSUME NEW h \in Heaps, NEW p \in Ids, NEW rejected \in BOOLEAN, NEW R, NEW T, NoReactions(T)
    PROVE  Tokens(Settle(h, p, rejected), R, T) = Tokens(h, R, T)
  <1> DEFINE k == Settle(h, p, rejected)
             rs == h.reactions[p]
             js == JobsOf(rs, rejected, p)
             J  == JobsFor(R, T)
  <1>1. CASE ~ Pending(h, p)
    BY <1>1, SettleOther
  <1>2. CASE Pending(h, p)
    <2>1. /\ k.reactions = [h.reactions EXCEPT ![p] = <<>>] /\ k.jobs = h.jobs \o js
      <3>1. PICK s \in {"fulfilled", "rejected"} : SettleParts(h, k, p, s, rejected)
        BY <1>2, SettledParts
      <3> HIDE DEF k
      <3> QED BY <3>1 DEF SettleParts
    <2>2. /\ rs \in Seq(Reactions) /\ h.jobs \in Seq(Jobs) /\ h.reactions \in Reacting
          /\ js \in Seq(Jobs) /\ DOMAIN js = DOMAIN rs
          /\ \A i \in DOMAIN rs : IsReaction(js[i]) /\ js[i].reaction = rs[i] /\ js[i] \in Jobs
      <3>1. rs \in Seq(Reactions) /\ h.jobs \in Seq(Jobs) /\ h.reactions \in Reacting
        BY HeapFields
      <3>2. /\ js \in Seq(Jobs) /\ DOMAIN js = DOMAIN rs
            /\ \A i \in DOMAIN rs : IsReaction(js[i]) /\ js[i].reaction = rs[i]
        BY <3>1, JobsOfParts
      <3> HIDE DEF js
      <3> QED BY <3>1, <3>2
    <2> HIDE DEF js, k
    <2>3. KeptCount(h.reactions, R) = KeptCount(k.reactions, R) + Count(rs, R)
      <3>1. KeptCount(h.reactions, R) = KeptCount([h.reactions EXCEPT ![p] = <<>>], R) + Count(h.reactions[p], R)
        BY <2>2, KeptEmptied
      <3> QED BY <2>1, <3>1
    <2> HIDE DEF rs
    <2>4. \A i \in DOMAIN rs : rs[i] \in R <=> js[i] \in J
      BY <2>2, JobsForParts
    <2>5. Count(js, J) = Count(rs, R)
      BY <2>2, <2>4, CountLike
    <2>6. Count(k.jobs, J) = Count(h.jobs, J) + Count(js, J)
      <3> HIDE DEF J
      <3> QED BY <2>1, <2>2, CountConcat
    <2>7. KeptCount(k.reactions, R) \in Nat /\ Count(h.jobs, J) \in Nat /\ Count(rs, R) \in Nat
      <3>1. k.reactions \in Reacting
        BY <2>1, <2>2, KeptEmptied
      <3> HIDE DEF J
      <3> QED BY <2>2, <3>1, KeptFinite, WhereFinite
    <2> HIDE DEF J
    <2> QED BY <2>3, <2>5, <2>6, <2>7 DEF Tokens, k, J
  <1> QED BY <1>1, <1>2

\* A job queued counts for itself.
LEMMA TokensEnqueue ==
    ASSUME NEW h \in Heaps, NEW j \in Jobs, NEW R, NEW T
    PROVE  Tokens(Enqueue(h, j), R, T) = Tokens(h, R, T) + In(j, JobsFor(R, T))
  <1>1. /\ Enqueue(h, j).reactions = h.reactions /\ Enqueue(h, j).jobs = Append(h.jobs, j)
        /\ h.jobs \in Seq(Jobs)
    BY EnqueueParts, HeapFields
  <1>2. Count(Append(h.jobs, j), JobsFor(R, T)) = Count(h.jobs, JobsFor(R, T)) + In(j, JobsFor(R, T))
    BY <1>1, CountAppend
  <1>3. /\ KeptCount(h.reactions, R) \in Nat /\ Count(h.jobs, JobsFor(R, T)) \in Nat
        /\ In(j, JobsFor(R, T)) \in Nat
    BY TokensType DEF In
  <1> QED BY <1>1, <1>2, <1>3 DEF Tokens

\* A reaction in its place counts for itself, kept or queued.
LEMMA TokensPlace ==
    ASSUME NEW h \in Heaps, NEW p \in Ids, NEW r \in Reactions, NEW R, NEW T, NoReactions(T)
    PROVE  Tokens(Place(h, p, r), R, T) = Tokens(h, R, T) + In(r, R)
  <1> DEFINE k == Place(h, p, r)
             J == JobsFor(R, T)
  <1>1. /\ KeptCount(h.reactions, R) \in Nat /\ Count(h.jobs, J) \in Nat /\ In(r, R) \in Nat
        /\ h.reactions \in Reacting /\ h.jobs \in Seq(Jobs)
    BY TokensType, HeapFields DEF In
  <1>2. CASE Pending(h, p)
    <2>1. k.reactions = [h.reactions EXCEPT ![p] = Append(@, r)] /\ k.jobs = h.jobs
      BY <1>2, PlaceParts
    <2> HIDE DEF k, J
    <2>2. KeptCount(k.reactions, R) = KeptCount(h.reactions, R) + In(r, R)
      <3>1. KeptCount([h.reactions EXCEPT ![p] = Append(@, r)], R) = KeptCount(h.reactions, R) + In(r, R)
        BY <1>1, KeptAppend
      <3> QED BY <2>1, <3>1
    <2> QED BY <1>1, <2>1, <2>2 DEF Tokens, k, J
  <1>3. CASE ~ Pending(h, p)
    <2>1. PICK rejected \in BOOLEAN : /\ k.reactions = h.reactions
                                      /\ k.jobs = Append(h.jobs, ReactionJob(r, rejected, p))
      BY <1>3, PlaceParts
    <2> DEFINE j == ReactionJob(r, rejected, p)
    <2>2. j \in Jobs /\ IsReaction(j) /\ j.reaction = r
      BY JobTypes
    <2> HIDE DEF j
    <2>3. In(j, J) = In(r, R)
      BY <2>2, JobsForParts DEF In
    <2>4. Count(k.jobs, J) = Count(h.jobs, J) + In(j, J)
      <3> HIDE DEF J
      <3> QED BY <1>1, <2>1, <2>2, CountAppend DEF j
    <2> HIDE DEF k, J
    <2> QED BY <1>1, <2>1, <2>3, <2>4 DEF Tokens, k, J
  <1> QED BY <1>2, <1>3

\* The heap once the first job has been taken (drain_jobs).
TakeJob(h) == [h EXCEPT !.jobs = Tail(@)]

\* The first job is taken, and nothing else changes.
LEMMA TakeParts ==
    ASSUME NEW h \in Heaps, h.jobs # <<>>
    PROVE  /\ TakeJob(h) \in Heaps /\ SameScalars(h, TakeJob(h)) /\ TakeJob(h).reactions = h.reactions
           /\ TakeJob(h).jobs = Tail(h.jobs) /\ Head(h.jobs) \in Jobs
           /\ TakeJob(h).registered = h.registered
  <1>1. Tail(h.jobs) \in Seq(Jobs) /\ Head(h.jobs) \in Jobs
    BY HeapFields, Behead
  <1> DEFINE js == Tail(h.jobs)
  <1>2. TakeJob(h) = [h EXCEPT !.jobs = js]
    BY DEF TakeJob
  <1> HIDE DEF js
  <1> QED BY <1>1, <1>2 DEF Heaps, SameScalars, js

\* The job taken counted for itself.
LEMMA TokensTake ==
    ASSUME NEW h \in Heaps, h.jobs # <<>>, NEW R, NEW T
    PROVE  Tokens(h, R, T) = Tokens(TakeJob(h), R, T) + In(Head(h.jobs), JobsFor(R, T))
  <1>1. /\ TakeJob(h).reactions = h.reactions /\ TakeJob(h).jobs = Tail(h.jobs) /\ TakeJob(h) \in Heaps
        /\ h.jobs \in Seq(Jobs)
    BY TakeParts, HeapFields
  <1>2. Count(h.jobs, JobsFor(R, T)) = Count(Tail(h.jobs), JobsFor(R, T)) + In(Head(h.jobs), JobsFor(R, T))
    BY <1>1, CountTail
  <1>3. /\ KeptCount(h.reactions, R) \in Nat /\ Count(TakeJob(h).jobs, JobsFor(R, T)) \in Nat
        /\ In(Head(h.jobs), JobsFor(R, T)) \in Nat
    BY <1>1, TokensType DEF In
  <1> QED BY <1>1, <1>2, <1>3 DEF Tokens

\* The counts are of the reactions and the jobs only.
LEMMA TokensSame ==
    ASSUME NEW h, NEW k, k.reactions = h.reactions, k.jobs = h.jobs, NEW R, NEW T
    PROVE  Tokens(k, R, T) = Tokens(h, R, T)
  BY DEF Tokens

-----------------------------------------------------------------------------
\* The invariant of the heap by itself. Promises are numbered as they are made;
\* what the program can name has been made; only a pending promise keeps
\* reactions; the jobs come from promises that have been settled; both the
\* reactions of a promise and its jobs are in the order of registration; and no
\* reaction has a number that was not yet given out.
Unmade(h, p)   == h.state[p] = "none"
Made(h)        == \A p \in Ids : Unmade(h, p) <=> p > h.made
Named(h)       == h.known \cup h.held \cup h.orphans \subseteq 1..h.made
KeptPending(h) == \A p \in Ids : ~ Pending(h, p) => h.reactions[p] = <<>>
FromDecided(h) == \A i \in DOMAIN h.jobs : IsReaction(h.jobs[i]) => h.jobs[i].from \in Ids /\ Decided(h, h.jobs[i].from)
OrderedKept(h) == \A p \in Ids : \A i, j \in DOMAIN h.reactions[p] : i < j => Before(h.reactions[p][i], h.reactions[p][j])
BeforeJob(a, b) == IsReaction(a) /\ IsReaction(b) /\ a.from = b.from => Before(a.reaction, b.reaction)
OrderedJobs(h) == \A i, j \in DOMAIN h.jobs : i < j => BeforeJob(h.jobs[i], h.jobs[j])
KeptGiven(h)   == \A p \in Ids : \A i \in DOMAIN h.reactions[p] : h.reactions[p][i].nth <= h.registered
JobsGiven(h)   == \A i \in DOMAIN h.jobs : IsReaction(h.jobs[i]) => h.jobs[i].reaction.nth <= h.registered
HeapInv(h) ==
    /\ h \in Heaps /\ Made(h) /\ Named(h) /\ KeptPending(h)
    /\ FromDecided(h) /\ OrderedKept(h) /\ OrderedJobs(h)
    /\ KeptGiven(h) /\ JobsGiven(h)

\* What any later heap does to an earlier one: promises are only ever made, a
\* settled one stays as it is, a promise never becomes pending again, and
\* the program does not lose resolving functions.
Later(h, k) ==
    /\ h.made <= k.made
    /\ \A p \in Ids : Decided(h, p) => k.state[p] = h.state[p]
    /\ \A p \in Ids : Pending(k, p) /\ p <= h.made => Pending(h, p)
    /\ h.held \cup h.orphans \subseteq k.held \cup k.orphans

\* A reaction that comes after every one the heap holds.
Newest(h, r) ==
    /\ \A p \in Ids : \A i \in DOMAIN h.reactions[p] : Before(h.reactions[p][i], r)
    /\ \A i \in DOMAIN h.jobs : IsReaction(h.jobs[i]) => Before(h.jobs[i].reaction, r)
    /\ r.nth <= h.registered

\* A heap is later than itself.
LEMMA LaterSame == ASSUME NEW h \in Heaps PROVE Later(h, h)
  BY HeapFields DEF Later

\* What is later than a later heap is later.
LEMMA LaterTwice ==
    ASSUME NEW h \in Heaps, NEW k \in Heaps, NEW l \in Heaps, Later(h, k), Later(k, l)
    PROVE  Later(h, l)
  <1>1. h.made \in Nat /\ k.made \in Nat /\ l.made \in Nat /\ \A p \in Ids : p \in Nat
    BY HeapFields DEF Ids
  <1>2. h.made <= l.made
    BY <1>1 DEF Later
  <1>3. \A p \in Ids : Decided(h, p) => l.state[p] = h.state[p]
    BY DEF Later, Decided
  <1>4. \A p \in Ids : Pending(l, p) /\ p <= h.made => Pending(h, p)
    BY <1>1 DEF Later
  <1> QED BY <1>2, <1>3, <1>4 DEF Later

\* The states of a promise exclude each other.
LEMMA States3 ==
    ASSUME NEW h \in Heaps, NEW p \in Ids
    PROVE  /\ Decided(h, p) => ~ Pending(h, p) /\ ~ Unmade(h, p)
           /\ Pending(h, p) => ~ Unmade(h, p)
           /\ Pending(h, p) \/ Decided(h, p) \/ Unmade(h, p)
  <1>1. h.state[p] \in States
    BY HeapFields
  <1> QED BY <1>1 DEF States, Pending, Decided, Unmade

\* settle_promise keeps the invariant of the heap.
LEMMA SettleKeeps ==
    ASSUME NEW h, HeapInv(h), NEW p \in 1..h.made, NEW rejected \in BOOLEAN
    PROVE  LET k == Settle(h, p, rejected)
           IN  /\ HeapInv(k) /\ Later(h, k) /\ ~ Pending(k, p)
               /\ k.made = h.made /\ k.known = h.known /\ k.held = h.held /\ k.orphans = h.orphans
  <1> DEFINE k == Settle(h, p, rejected)
             js == JobsOf(h.reactions[p], rejected, p)
  <1>1. h \in Heaps /\ h.made \in 0..MaxPromises /\ h.made \in Nat /\ p \in Ids /\ MaxPromises \in Nat
    BY HeapFields, PromisesAssumption DEF HeapInv, Ids
  <1>2. CASE ~ Pending(h, p)
    BY <1>1, <1>2, SettleOther, LaterSame
  <1>3. CASE Pending(h, p)
    <2>1. PICK s \in {"fulfilled", "rejected"} : SettleParts(h, k, p, s, rejected)
      BY <1>1, <1>3, SettledParts
    <2>2. /\ h.state \in [Ids -> States] /\ h.reactions \in Reacting /\ h.jobs \in Seq(Jobs)
          /\ h.reactions[p] \in Seq(Reactions)
      BY <1>1, HeapFields
    <2>3. /\ js \in Seq(Jobs) /\ DOMAIN js = DOMAIN h.reactions[p]
          /\ \A i \in DOMAIN js : IsReaction(js[i]) /\ js[i].reaction = h.reactions[p][i] /\ js[i].from = p
      BY <1>1, <2>2, JobsOfParts
    <2> HIDE DEF k, js
    <2>4. k.state[p] = s /\ \A q \in Ids \ {p} : k.state[q] = h.state[q]
      BY <1>1, <2>1, <2>2 DEF SettleParts
    <2>5. /\ Decided(k, p) /\ ~ Pending(k, p) /\ ~ Unmade(k, p)
          /\ \A q \in Ids \ {p} : /\ Decided(k, q) <=> Decided(h, q)
                                  /\ Pending(k, q) <=> Pending(h, q)
                                  /\ Unmade(k, q) <=> Unmade(h, q)
      BY <2>4 DEF Decided, Pending, Unmade
    <2>6. ~ Decided(h, p) /\ ~ Unmade(h, p)
      BY <1>1, <1>3, States3
    <2>7. /\ k \in Heaps /\ k.made = h.made /\ k.known = h.known /\ k.held = h.held /\ k.orphans = h.orphans
          /\ k.jobs = h.jobs \o js /\ k.registered = h.registered
          /\ k.reactions[p] = <<>> /\ \A q \in Ids \ {p} : k.reactions[q] = h.reactions[q]
      <3>1. k.reactions = [h.reactions EXCEPT ![p] = <<>>]
        BY <2>1 DEF SettleParts
      <3>2. k.reactions[p] = <<>> /\ \A q \in Ids \ {p} : k.reactions[q] = h.reactions[q]
        BY <1>1, <2>2, <3>1 DEF Reacting
      <3> QED BY <2>1, <3>2 DEF SettleParts, js
    <2>8. Made(k) /\ Named(k)
      BY <1>1, <2>5, <2>6, <2>7 DEF Made, Named, HeapInv
    <2>9. KeptPending(k)
      BY <2>5, <2>7 DEF KeptPending, HeapInv
    <2>10. Later(h, k)
      <3>1. \A q \in Ids : Decided(h, q) => k.state[q] = h.state[q]
        BY <2>4, <2>6
      <3>2. \A q \in Ids : Pending(k, q) => Pending(h, q)
        BY <2>5
      <3> QED BY <1>1, <2>7, <3>1, <3>2 DEF Later
    <2>11. /\ Len(h.jobs) \in Nat /\ DOMAIN h.jobs = 1..Len(h.jobs) /\ Len(js) \in Nat /\ DOMAIN js = 1..Len(js)
           /\ DOMAIN k.jobs = 1..(Len(h.jobs) + Len(js))
           /\ \A i \in 1..Len(h.jobs) : k.jobs[i] = h.jobs[i]
           /\ \A i \in 1..(Len(h.jobs) + Len(js)) : i > Len(h.jobs) => k.jobs[i] = js[i - Len(h.jobs)]
      BY <2>2, <2>3, <2>7, ConcatProperties, LenProperties
    <2>12. \A i \in DOMAIN k.jobs :
              \/ i \in DOMAIN h.jobs /\ k.jobs[i] = h.jobs[i] /\ (IsReaction(h.jobs[i]) => k.jobs[i].from # p)
              \/ i > Len(h.jobs) /\ i - Len(h.jobs) \in DOMAIN js /\ k.jobs[i] = js[i - Len(h.jobs)] /\ k.jobs[i].from = p
      <3>1. \A i \in DOMAIN h.jobs : IsReaction(h.jobs[i]) => h.jobs[i].from # p
        BY <2>6 DEF HeapInv, FromDecided
      <3>2. ASSUME NEW i \in 1..(Len(h.jobs) + Len(js)), i > Len(h.jobs)
            PROVE  i - Len(h.jobs) \in DOMAIN js /\ k.jobs[i] = js[i - Len(h.jobs)] /\ k.jobs[i].from = p
        <4>1. i - Len(h.jobs) \in DOMAIN js /\ k.jobs[i] = js[i - Len(h.jobs)]
          BY <2>11, <3>2
        <4> QED BY <2>3, <4>1
      <3>3. ASSUME NEW i \in 1..(Len(h.jobs) + Len(js)), ~ (i > Len(h.jobs))
            PROVE  i \in DOMAIN h.jobs /\ k.jobs[i] = h.jobs[i]
        BY <2>11, <3>3
      <3> QED BY <2>11, <3>1, <3>2, <3>3
    <2>13. FromDecided(k)
      <3> SUFFICES ASSUME NEW i \in DOMAIN k.jobs, IsReaction(k.jobs[i])
                   PROVE  k.jobs[i].from \in Ids /\ Decided(k, k.jobs[i].from)
        BY DEF FromDecided
      <3>1. CASE k.jobs[i].from = p
        BY <1>1, <2>5, <3>1
      <3>2. CASE k.jobs[i].from # p
        <4>1. i \in DOMAIN h.jobs /\ k.jobs[i] = h.jobs[i]
          BY <2>12, <3>2
        <4>2. h.jobs[i].from \in Ids /\ Decided(h, h.jobs[i].from)
          BY <4>1 DEF HeapInv, FromDecided
        <4> QED BY <2>5, <3>2, <4>1, <4>2
      <3> QED BY <3>1, <3>2
    <2>14. OrderedKept(k)
      <3>1. DOMAIN <<>> = {}
        OBVIOUS
      <3> SUFFICES ASSUME NEW q \in Ids, NEW i \in DOMAIN k.reactions[q], NEW j \in DOMAIN k.reactions[q], i < j
                   PROVE  Before(k.reactions[q][i], k.reactions[q][j])
        BY DEF OrderedKept
      <3>2. k.reactions[q] = h.reactions[q]
        BY <2>7, <3>1
      <3> QED BY <3>2 DEF HeapInv, OrderedKept
    <2>15. OrderedJobs(k)
      <3> SUFFICES ASSUME NEW i \in DOMAIN k.jobs, NEW j \in DOMAIN k.jobs, i < j,
                          IsReaction(k.jobs[i]), IsReaction(k.jobs[j]), k.jobs[i].from = k.jobs[j].from
                   PROVE  Before(k.jobs[i].reaction, k.jobs[j].reaction)
        BY DEF OrderedJobs, BeforeJob
      <3>1. CASE k.jobs[i].from # p
        <4>1. i \in DOMAIN h.jobs /\ k.jobs[i] = h.jobs[i] /\ j \in DOMAIN h.jobs /\ k.jobs[j] = h.jobs[j]
          BY <2>12, <3>1
        <4> QED BY <4>1 DEF HeapInv, OrderedJobs, BeforeJob
      <3>2. CASE k.jobs[i].from = p
        <4> DEFINE n == Len(h.jobs)
        <4>1. /\ i - n \in DOMAIN js /\ k.jobs[i] = js[i - n]
              /\ j - n \in DOMAIN js /\ k.jobs[j] = js[j - n]
          BY <2>12, <3>2
        <4>2. i - n < j - n
          BY <2>11
        <4>3. /\ k.jobs[i].reaction = h.reactions[p][i - n] /\ i - n \in DOMAIN h.reactions[p]
              /\ k.jobs[j].reaction = h.reactions[p][j - n] /\ j - n \in DOMAIN h.reactions[p]
          BY <2>3, <4>1
        <4> HIDE DEF n
        <4> QED BY <1>1, <4>2, <4>3 DEF HeapInv, OrderedKept
      <3> QED BY <3>1, <3>2
    <2>16. KeptGiven(k)
      <3>1. DOMAIN <<>> = {}
        OBVIOUS
      <3> SUFFICES ASSUME NEW q \in Ids, NEW i \in DOMAIN k.reactions[q]
                   PROVE  k.reactions[q][i].nth <= k.registered
        BY DEF KeptGiven
      <3>2. k.reactions[q] = h.reactions[q]
        BY <2>7, <3>1
      <3> QED BY <2>7, <3>2 DEF HeapInv, KeptGiven
    <2>17. JobsGiven(k)
      <3> SUFFICES ASSUME NEW i \in DOMAIN k.jobs, IsReaction(k.jobs[i])
                   PROVE  k.jobs[i].reaction.nth <= k.registered
        BY DEF JobsGiven
      <3>1. CASE i \in DOMAIN h.jobs /\ k.jobs[i] = h.jobs[i]
        BY <2>7, <3>1 DEF HeapInv, JobsGiven
      <3>2. CASE i - Len(h.jobs) \in DOMAIN js /\ k.jobs[i] = js[i - Len(h.jobs)]
        <4>1. PICK o : o = i - Len(h.jobs)
          OBVIOUS
        <4>2. o \in DOMAIN h.reactions[p] /\ k.jobs[i].reaction = h.reactions[p][o]
          BY <2>3, <3>2, <4>1
        <4> QED BY <1>1, <2>7, <4>2 DEF HeapInv, KeptGiven
      <3> QED BY <2>12, <3>1, <3>2
    <2>18. HeapInv(k)
      BY <2>7, <2>8, <2>9, <2>13, <2>14, <2>15, <2>16, <2>17 DEF HeapInv
    <2> QED BY <2>5, <2>7, <2>10, <2>18 DEF k
  <1> QED BY <1>2, <1>3

\* A job that joins the queue, when it comes after those of its promise.
LEMMA EnqueueKeeps ==
    ASSUME NEW h, HeapInv(h), NEW j \in Jobs,
           IsReaction(j) => j.from \in Ids /\ Decided(h, j.from) /\ Newest(h, j.reaction)
    PROVE  LET k == Enqueue(h, j)
           IN  HeapInv(k) /\ Later(h, k) /\ SameScalars(h, k)
  <1> DEFINE k == Enqueue(h, j)
             n == Len(h.jobs)
  <1>1. h \in Heaps /\ h.jobs \in Seq(Jobs)
    BY HeapFields DEF HeapInv
  <1>2. /\ k \in Heaps /\ SameScalars(h, k) /\ k.reactions = h.reactions /\ k.jobs = Append(h.jobs, j)
        /\ k.registered = h.registered
    BY <1>1, EnqueueParts
  <1> HIDE DEF k
  <1>3. /\ \A p : (Pending(k, p) <=> Pending(h, p)) /\ (Decided(k, p) <=> Decided(h, p)) /\ (Unmade(k, p) <=> Unmade(h, p))
        /\ k.made = h.made /\ k.state = h.state /\ k.known = h.known /\ k.held = h.held /\ k.orphans = h.orphans
    BY <1>2 DEF SameScalars, Pending, Decided, Unmade
  <1>4. Made(k) /\ Named(k) /\ KeptPending(k) /\ OrderedKept(k)
    BY <1>2, <1>3 DEF HeapInv, Made, Named, KeptPending, OrderedKept
  <1>5. Later(h, k)
    BY <1>1, <1>3, HeapFields DEF Later
  <1>6. /\ n \in Nat /\ DOMAIN h.jobs = 1..n /\ DOMAIN k.jobs = 1..(n + 1)
        /\ k.jobs[n + 1] = j /\ \A i \in DOMAIN h.jobs : k.jobs[i] = h.jobs[i]
    BY <1>1, <1>2
  <1> HIDE DEF n
  <1>7. FromDecided(k)
    BY <1>3, <1>6 DEF HeapInv, FromDecided
  <1>8. OrderedJobs(k)
    <2> SUFFICES ASSUME NEW a \in DOMAIN k.jobs, NEW b \in DOMAIN k.jobs, a < b
                 PROVE  BeforeJob(k.jobs[a], k.jobs[b])
      BY DEF OrderedJobs
    <2>1. a \in DOMAIN h.jobs /\ k.jobs[a] = h.jobs[a]
      BY <1>6
    <2>2. CASE b \in DOMAIN h.jobs
      BY <1>6, <2>1, <2>2 DEF HeapInv, OrderedJobs
    <2>3. CASE b \notin DOMAIN h.jobs
      <3>1. k.jobs[b] = j
        BY <1>6, <2>3
      <3> QED BY <2>1, <3>1 DEF BeforeJob, Newest
    <2> QED BY <2>2, <2>3
  <1>9. KeptGiven(k)
    BY <1>2 DEF HeapInv, KeptGiven
  <1>10. JobsGiven(k)
    <2> SUFFICES ASSUME NEW i \in DOMAIN k.jobs, IsReaction(k.jobs[i])
                 PROVE  k.jobs[i].reaction.nth <= h.registered
      BY <1>2 DEF JobsGiven
    <2>1. CASE i \in DOMAIN h.jobs
      BY <1>6, <2>1 DEF HeapInv, JobsGiven
    <2>2. CASE i \notin DOMAIN h.jobs
      <3>1. k.jobs[i] = j
        BY <1>6, <2>2
      <3> QED BY <3>1 DEF Newest
    <2> QED BY <2>1, <2>2
  <1> QED BY <1>2, <1>4, <1>5, <1>7, <1>8, <1>9, <1>10 DEF HeapInv, k

\* What the invariant of the heap says of the promises made.
LEMMA MadeIds ==
    ASSUME NEW h, HeapInv(h)
    PROVE  /\ h \in Heaps /\ h.made \in Nat /\ h.made <= MaxPromises /\ MaxPromises \in Nat
           /\ 1..h.made \subseteq Ids
           /\ \A p \in 1..h.made : ~ Unmade(h, p) /\ (Pending(h, p) \/ Decided(h, p))
  <1>1. /\ h \in Heaps /\ h.made \in Nat /\ h.made <= MaxPromises /\ MaxPromises \in Nat
    BY HeapFields, PromisesAssumption DEF HeapInv
  <1>2. 1..h.made \subseteq Ids
    BY <1>1 DEF Ids
  <1>3. \A p \in 1..h.made : ~ Unmade(h, p)
    BY <1>1, <1>2 DEF HeapInv, Made
  <1> QED BY <1>1, <1>2, <1>3, States3

\* A reaction that is the newest keeps the invariant of the heap.
LEMMA PlaceKeeps ==
    ASSUME NEW h, HeapInv(h), NEW p \in 1..h.made, NEW r \in Reactions, Newest(h, r)
    PROVE  LET k == Place(h, p, r)
           IN  HeapInv(k) /\ Later(h, k) /\ SameScalars(h, k)
  <1> DEFINE k == Place(h, p, r)
  <1>1. h \in Heaps /\ p \in Ids
    BY MadeIds
  <1>2. CASE Pending(h, p)
    <2>1. /\ k \in Heaps /\ SameScalars(h, k) /\ k.jobs = h.jobs
          /\ k.reactions = [h.reactions EXCEPT ![p] = Append(@, r)] /\ k.registered = h.registered
      BY <1>1, <1>2, PlaceParts
    <2> HIDE DEF k
    <2>2. h.reactions \in Reacting /\ h.reactions[p] \in Seq(Reactions)
      BY <1>1, HeapFields
    <2>3. k.reactions[p] = Append(h.reactions[p], r) /\ \A q \in Ids \ {p} : k.reactions[q] = h.reactions[q]
      BY <1>1, <2>1, <2>2 DEF Reacting
    <2>4. /\ \A q : (Pending(k, q) <=> Pending(h, q)) /\ (Decided(k, q) <=> Decided(h, q)) /\ (Unmade(k, q) <=> Unmade(h, q))
          /\ k.made = h.made /\ k.state = h.state /\ k.known = h.known /\ k.held = h.held /\ k.orphans = h.orphans
      BY <2>1 DEF SameScalars, Pending, Decided, Unmade
    <2>5. Made(k) /\ Named(k) /\ FromDecided(k) /\ OrderedJobs(k) /\ JobsGiven(k)
      BY <2>1, <2>4 DEF HeapInv, Made, Named, FromDecided, OrderedJobs, JobsGiven
    <2>6. KeptPending(k)
      BY <1>2, <2>3, <2>4 DEF HeapInv, KeptPending
    <2>7. Later(h, k)
      BY <1>1, <2>4, HeapFields DEF Later
    <2>8. OrderedKept(k)
      <3> DEFINE n == Len(h.reactions[p])
      <3>1. /\ n \in Nat /\ DOMAIN h.reactions[p] = 1..n /\ DOMAIN k.reactions[p] = 1..(n + 1)
            /\ k.reactions[p][n + 1] = r /\ \A i \in DOMAIN h.reactions[p] : k.reactions[p][i] = h.reactions[p][i]
        BY <2>2, <2>3, Pushed
      <3> HIDE DEF n
      <3> SUFFICES ASSUME NEW q \in Ids, NEW i \in DOMAIN k.reactions[q], NEW j \in DOMAIN k.reactions[q], i < j
                   PROVE  Before(k.reactions[q][i], k.reactions[q][j])
        BY DEF OrderedKept
      <3>2. CASE q # p
        BY <2>3, <3>2 DEF HeapInv, OrderedKept
      <3>3. CASE q = p
        <4>1. i \in 1..(n + 1) /\ j \in 1..(n + 1) /\ i \in 1..n
          BY <3>1, <3>3
        <4>2. i \in DOMAIN h.reactions[p] /\ k.reactions[p][i] = h.reactions[p][i]
          BY <3>1, <4>1
        <4>3. CASE j = n + 1
          BY <1>1, <3>1, <3>3, <4>2, <4>3 DEF Newest
        <4>4. CASE j # n + 1
          <5>1. j \in DOMAIN h.reactions[p] /\ k.reactions[p][j] = h.reactions[p][j]
            BY <3>1, <4>1, <4>4
          <5> QED BY <1>1, <3>3, <4>2, <5>1 DEF HeapInv, OrderedKept
        <4> QED BY <4>3, <4>4
      <3> QED BY <3>2, <3>3
    <2>9. KeptGiven(k)
      <3> DEFINE n == Len(h.reactions[p])
      <3>1. /\ n \in Nat /\ DOMAIN h.reactions[p] = 1..n /\ DOMAIN k.reactions[p] = 1..(n + 1)
            /\ k.reactions[p][n + 1] = r /\ \A i \in DOMAIN h.reactions[p] : k.reactions[p][i] = h.reactions[p][i]
        BY <2>2, <2>3, Pushed
      <3> HIDE DEF n
      <3> SUFFICES ASSUME NEW q \in Ids, NEW i \in DOMAIN k.reactions[q]
                   PROVE  k.reactions[q][i].nth <= h.registered
        BY <2>1 DEF KeptGiven
      <3>2. CASE q # p
        BY <2>3, <3>2 DEF HeapInv, KeptGiven
      <3>3. CASE q = p /\ i \in DOMAIN h.reactions[p]
        BY <1>1, <3>1, <3>3 DEF HeapInv, KeptGiven
      <3>4. CASE q = p /\ i = n + 1
        BY <3>1, <3>4 DEF Newest
      <3> QED BY <3>1, <3>2, <3>3, <3>4
    <2> QED BY <2>1, <2>5, <2>6, <2>7, <2>8, <2>9 DEF HeapInv, k
  <1>3. CASE ~ Pending(h, p)
    <2> DEFINE rejected == h.state[p] = "rejected"
               j == ReactionJob(r, rejected, p)
    <2>1. rejected \in BOOLEAN
      OBVIOUS
    <2>2. k = Enqueue(h, j)
      BY <1>3 DEF Place, Pending
    <2> HIDE DEF rejected
    <2>3. j \in Jobs /\ IsReaction(j) /\ j.reaction = r /\ j.from = p
      BY <1>1, <2>1, JobTypes
    <2>4. Decided(h, p)
      BY <1>3, MadeIds
    <2> HIDE DEF j, k
    <2>5. HeapInv(Enqueue(h, j)) /\ Later(h, Enqueue(h, j)) /\ SameScalars(h, Enqueue(h, j))
      BY <1>1, <2>3, <2>4, EnqueueKeeps
    <2> QED BY <2>2, <2>5 DEF k
  <1> QED BY <1>2, <1>3

\* The reactions kept and queued have their type.
LEMMA ReactionsKept ==
    ASSUME NEW h \in Heaps
    PROVE  /\ \A p \in Ids : \A i \in DOMAIN h.reactions[p] : h.reactions[p][i] \in Reactions
           /\ \A i \in DOMAIN h.jobs : IsReaction(h.jobs[i]) => h.jobs[i].reaction \in Reactions
  <1>1. \A p \in Ids : h.reactions[p] \in Seq(Reactions)
    BY HeapFields
  <1>2. h.jobs \in Seq(Jobs)
    BY HeapFields
  <1>3. \A i \in DOMAIN h.jobs : h.jobs[i] \in Jobs
    BY <1>2
  <1>4. \A j \in Jobs : IsReaction(j) => j.reaction \in Reactions
    BY DEF Jobs, IsReaction
  <1> QED BY <1>1, <1>3, <1>4

\* Thenables are no reactions.
LEMMA TokenKinds ==
    /\ \A p : NoReactions(Thenables(p))
    /\ NoReactions({})
  BY DEF NoReactions, Thenables, IsReaction

\* A reaction registered gets a number of its own, after every other, and keeps the
\* invariant of the heap; it counts for what it is to settle or to resume.
LEMMA RegisterKeeps ==
    ASSUME NEW h, HeapInv(h), NEW p \in 1..h.made, NEW r \in Reactions
    PROVE  LET k == Register(h, p, r)
           IN  HeapInv(k) /\ Later(h, k) /\ SameScalars(h, k)
  <1> DEFINE g == Counted(h)
             n == Numbered(h, r)
             k == Place(g, p, n)
  <1>1. h \in Heaps /\ h.registered \in Nat
    BY MadeIds, HeapFields
  <1>2. /\ g \in Heaps /\ SameScalars(h, g) /\ g.reactions = h.reactions /\ g.jobs = h.jobs
        /\ g.registered = h.registered + 1 /\ n \in Reactions /\ n.nth = h.registered + 1
    BY <1>1, CountedParts
  <1>3. Register(h, p, r) = k
    BY <1>1, RegisterPlaces
  <1> HIDE DEF g, n
  <1>4. /\ \A q : (Pending(g, q) <=> Pending(h, q)) /\ (Decided(g, q) <=> Decided(h, q)) /\ (Unmade(g, q) <=> Unmade(h, q))
        /\ g.made = h.made /\ g.state = h.state /\ g.known = h.known /\ g.held = h.held /\ g.orphans = h.orphans
    BY <1>2 DEF SameScalars, Pending, Decided, Unmade
  <1>5. Made(g) /\ Named(g) /\ KeptPending(g) /\ FromDecided(g) /\ OrderedKept(g) /\ OrderedJobs(g)
    BY <1>2, <1>4 DEF HeapInv, Made, Named, KeptPending, FromDecided, OrderedKept, OrderedJobs
  <1>6. /\ \A q \in Ids : \A i \in DOMAIN h.reactions[q] : h.reactions[q][i].nth \in Nat
        /\ \A i \in DOMAIN h.jobs : IsReaction(h.jobs[i]) => h.jobs[i].reaction.nth \in Nat
    <2>1. \A a \in Reactions : a.nth \in Nat
      BY DEF Reactions, ThenReactions, AwaitReactions
    <2> QED BY <1>1, <2>1, ReactionsKept
  <1>7. KeptGiven(g)
    BY <1>1, <1>2, <1>6 DEF HeapInv, KeptGiven
  <1>8. JobsGiven(g)
    BY <1>1, <1>2, <1>6 DEF HeapInv, JobsGiven
  <1>9. HeapInv(g) /\ Later(h, g) /\ p \in 1..g.made
    BY <1>1, <1>2, <1>4, <1>5, <1>7, <1>8, HeapFields DEF HeapInv, Later
  <1>10. Newest(g, n)
    BY <1>1, <1>2, <1>6 DEF HeapInv, KeptGiven, JobsGiven, Newest, Before
  <1>11. HeapInv(k) /\ Later(g, k) /\ SameScalars(g, k)
    BY <1>2, <1>9, <1>10, PlaceKeeps
  <1> HIDE DEF k
  <1>12. Later(h, k) /\ SameScalars(h, k)
    <2>1. k \in Heaps
      BY <1>11 DEF HeapInv
    <2> QED BY <1>1, <1>2, <1>9, <1>11, <2>1, LaterTwice DEF SameScalars
  <1> QED BY <1>3, <1>11, <1>12

\* What registering a reaction adds to what the heap is to do.
LEMMA TokensRegister ==
    ASSUME NEW h \in Heaps, NEW p \in Ids, NEW r \in Reactions
    PROVE  /\ \A q : Tokens(Register(h, p, r), Of(q), Thenables(q)) = Tokens(h, Of(q), Thenables(q)) + In(r, Of(q))
           /\ \A c : Tokens(Register(h, p, r), AwaitsOf(c), {}) = Tokens(h, AwaitsOf(c), {}) + In(r, AwaitsOf(c))
  <1> DEFINE g == Counted(h)
             n == Numbered(h, r)
  <1>1. /\ g \in Heaps /\ g.reactions = h.reactions /\ g.jobs = h.jobs /\ n \in Reactions
        /\ (\A q : n \in Of(q) <=> r \in Of(q)) /\ (\A c : n \in AwaitsOf(c) <=> r \in AwaitsOf(c))
    BY CountedParts
  <1>2. Register(h, p, r) = Place(g, p, n)
    BY RegisterPlaces
  <1>3. \A R, T : NoReactions(T) => Tokens(Place(g, p, n), R, T) = Tokens(h, R, T) + In(n, R)
    <2> SUFFICES ASSUME NEW R, NEW T, NoReactions(T)
                 PROVE  Tokens(Place(g, p, n), R, T) = Tokens(h, R, T) + In(n, R)
      OBVIOUS
    <2> HIDE DEF g, n
    <2>1. Tokens(Place(g, p, n), R, T) = Tokens(g, R, T) + In(n, R)
      BY <1>1, TokensPlace
    <2> QED BY <1>1, <2>1, TokensSame
  <1>4. (\A q : In(n, Of(q)) = In(r, Of(q))) /\ (\A c : In(n, AwaitsOf(c)) = In(r, AwaitsOf(c)))
    BY <1>1 DEF In
  <1> HIDE DEF g, n
  <1> QED BY <1>2, <1>3, <1>4, TokenKinds

\* Taking a job keeps the invariant of the heap.
LEMMA TakeKeeps ==
    ASSUME NEW h, HeapInv(h), h.jobs # <<>>
    PROVE  LET k == TakeJob(h)
           IN  HeapInv(k) /\ Later(h, k) /\ SameScalars(h, k)
  <1> DEFINE k == TakeJob(h)
  <1>1. h \in Heaps /\ h.jobs \in Seq(Jobs)
    BY HeapFields DEF HeapInv
  <1>2. /\ k \in Heaps /\ SameScalars(h, k) /\ k.reactions = h.reactions /\ k.jobs = Tail(h.jobs)
        /\ k.registered = h.registered
    BY <1>1, TakeParts
  <1> HIDE DEF k
  <1>3. /\ \A p : (Pending(k, p) <=> Pending(h, p)) /\ (Decided(k, p) <=> Decided(h, p)) /\ (Unmade(k, p) <=> Unmade(h, p))
        /\ k.made = h.made /\ k.state = h.state /\ k.known = h.known /\ k.held = h.held /\ k.orphans = h.orphans
    BY <1>2 DEF SameScalars, Pending, Decided, Unmade
  <1>4. Made(k) /\ Named(k) /\ KeptPending(k) /\ OrderedKept(k)
    BY <1>2, <1>3 DEF HeapInv, Made, Named, KeptPending, OrderedKept
  <1>5. Later(h, k)
    BY <1>1, <1>3, HeapFields DEF Later
  <1>6. \A i \in DOMAIN k.jobs : i \in Nat /\ i + 1 \in DOMAIN h.jobs /\ k.jobs[i] = h.jobs[i + 1]
    <2>1. /\ DOMAIN h.jobs = 1..Len(h.jobs) /\ DOMAIN k.jobs = 1..(Len(h.jobs) - 1) /\ Len(h.jobs) \in Nat
          /\ \A i \in DOMAIN k.jobs : k.jobs[i] = h.jobs[i + 1]
      BY <1>1, <1>2, Behead
    <2> QED BY <2>1
  <1>7. FromDecided(k)
    BY <1>3, <1>6 DEF HeapInv, FromDecided
  <1>8. OrderedJobs(k)
    <2> SUFFICES ASSUME NEW i \in DOMAIN k.jobs, NEW j \in DOMAIN k.jobs, i < j
                 PROVE  BeforeJob(k.jobs[i], k.jobs[j])
      BY DEF OrderedJobs
    <2>1. i + 1 \in DOMAIN h.jobs /\ j + 1 \in DOMAIN h.jobs /\ i + 1 < j + 1
      BY <1>6
    <2> QED BY <1>6, <2>1 DEF HeapInv, OrderedJobs
  <1>9. KeptGiven(k) /\ JobsGiven(k)
    BY <1>2, <1>6 DEF HeapInv, KeptGiven, JobsGiven
  <1> QED BY <1>2, <1>4, <1>5, <1>7, <1>8, <1>9 DEF HeapInv, k

\* A promise made keeps the invariant of the heap.
LEMMA NewKeeps ==
    ASSUME NEW h, HeapInv(h), h.made < MaxPromises, NEW s \in {"pending", "fulfilled", "rejected"}
    PROVE  LET k == New(h, s)
           IN  /\ HeapInv(k) /\ Later(h, k) /\ k.made = h.made + 1 /\ h.made + 1 \in 1..k.made /\ h.made + 1 \in Ids
               /\ k.reactions = h.reactions /\ k.jobs = h.jobs /\ k.state[h.made + 1] = s
               /\ k.known = h.known /\ k.held = h.held /\ k.orphans = h.orphans
  <1> DEFINE k == New(h, s)
             n == h.made + 1
             state == [h.state EXCEPT ![n] = s]
  <1>1. h \in Heaps /\ h.made \in Nat /\ n \in Nat /\ n \in 0..MaxPromises /\ n \in Ids /\ MaxPromises \in Nat
    BY MadeIds DEF Ids
  <1>2. h.state \in [Ids -> States] /\ s \in States /\ s # "none"
    BY <1>1, HeapFields DEF States
  <1>3. k = [h EXCEPT !.made = n, !.state = state]
    BY <1>1 DEF New, Heaps
  <1>4. state \in [Ids -> States] /\ state[n] = s /\ \A p \in Ids \ {n} : state[p] = h.state[p]
    BY <1>1, <1>2
  <1> HIDE DEF n, state, k
  <1>5. /\ k \in Heaps /\ k.made = n /\ k.state = state /\ k.reactions = h.reactions /\ k.jobs = h.jobs
        /\ k.known = h.known /\ k.held = h.held /\ k.orphans = h.orphans /\ k.registered = h.registered
    BY <1>1, <1>3, <1>4 DEF Heaps
  <1>6. /\ ~ Unmade(k, n)
        /\ \A p \in Ids \ {n} : (/\ (Unmade(k, p) <=> Unmade(h, p))
                               /\ (Pending(k, p) <=> Pending(h, p))
                               /\ (Decided(k, p) <=> Decided(h, p)))
    <2>1. k.state[n] = s /\ \A p \in Ids \ {n} : k.state[p] = h.state[p]
      BY <1>4, <1>5
    <2> QED BY <1>2, <2>1 DEF Unmade, Pending, Decided
  <1>7. n = h.made + 1 /\ \A p \in Ids : p \in Nat
    BY DEF n, Ids
  <1>8. Unmade(h, n) /\ ~ Pending(h, n) /\ ~ Decided(h, n)
    <2>1. Unmade(h, n)
      BY <1>1, <1>7 DEF HeapInv, Made
    <2> QED BY <1>1, <2>1, States3
  <1>9. Made(k)
    BY <1>1, <1>5, <1>6, <1>7 DEF HeapInv, Made
  <1>10. Named(k)
    <2>1. h.known \cup h.held \cup h.orphans \subseteq 1..h.made
      BY DEF HeapInv, Named
    <2>2. 1..h.made \subseteq 1..n
      BY <1>1, <1>7
    <2> QED BY <1>5, <2>1, <2>2 DEF Named
  <1>11. KeptPending(k)
    <2>1. h.reactions[n] = <<>>
      BY <1>1, <1>8 DEF HeapInv, KeptPending
    <2>2. ASSUME NEW p \in Ids, ~ Pending(k, p) PROVE h.reactions[p] = <<>>
      <3>1. CASE p = n
        BY <2>1, <3>1
      <3>2. CASE p # n
        BY <1>6, <2>2, <3>2 DEF HeapInv, KeptPending
      <3> QED BY <3>1, <3>2
    <2> QED BY <1>5, <2>2 DEF KeptPending
  <1>12. FromDecided(k)
    <2>1. \A p \in Ids : Decided(h, p) => Decided(k, p)
      BY <1>6, <1>8
    <2> QED BY <1>5, <2>1 DEF HeapInv, FromDecided
  <1>13. OrderedKept(k) /\ OrderedJobs(k) /\ KeptGiven(k) /\ JobsGiven(k)
    BY <1>5 DEF HeapInv, OrderedKept, OrderedJobs, KeptGiven, JobsGiven
  <1>14. Later(h, k)
    <2>1. \A p \in Ids : Decided(h, p) => k.state[p] = h.state[p]
      BY <1>4, <1>5, <1>8
    <2>2. \A p \in Ids : Pending(k, p) /\ p <= h.made => Pending(h, p)
      BY <1>1, <1>6, <1>7
    <2> QED BY <1>1, <1>5, <1>7, <2>1, <2>2 DEF Later
  <1>15. h.made + 1 \in 1..k.made /\ h.made + 1 \in Ids
    BY <1>1, <1>5, <1>7
  <1> QED BY <1>4, <1>5, <1>7, <1>9, <1>10, <1>11, <1>12, <1>13, <1>14, <1>15 DEF HeapInv, k

\* A promise that Promise.all leaves to nobody; and the changes that only let the
\* program reach more promises.
Orphan(h, p) == [h EXCEPT !.orphans = @ \cup {p}]

Reachable(h, k) ==
    /\ k.made = h.made /\ k.state = h.state /\ k.reactions = h.reactions /\ k.jobs = h.jobs
    /\ k.registered = h.registered
    /\ h.held \cup h.orphans \subseteq k.held \cup k.orphans

\* Showing a promise to the program, giving it resolving functions, or leaving the
\* promise to nobody keeps the invariant of the heap.
LEMMA ReachKeeps ==
    ASSUME NEW h, HeapInv(h), NEW p \in 1..h.made,
           NEW k, k \in {Show(h, p), Hold(h, p), Orphan(h, p)}
    PROVE  /\ HeapInv(k) /\ Later(h, k) /\ Reachable(h, k)
           /\ k = Show(h, p) => k.held = h.held /\ k.orphans = h.orphans
           /\ k = Show(h, p) \/ p \in k.held \cup k.orphans
  <1>1. h \in Heaps /\ p \in Ids
    BY MadeIds
  <1>2. /\ k \in Heaps /\ Reachable(h, k)
        /\ k.known \cup k.held \cup k.orphans \subseteq h.known \cup h.held \cup h.orphans \cup {p}
        /\ k = Show(h, p) \/ p \in k.held \cup k.orphans
    <2>1. CASE k = Show(h, p)
      BY <1>1, <2>1 DEF Show, Heaps, Reachable
    <2>2. CASE k = Hold(h, p)
      BY <1>1, <2>2 DEF Hold, Heaps, Reachable
    <2>3. CASE k = Orphan(h, p)
      BY <1>1, <2>3 DEF Orphan, Heaps, Reachable
    <2> QED BY <2>1, <2>2, <2>3
  <1>3. \A q : (Pending(k, q) <=> Pending(h, q)) /\ (Decided(k, q) <=> Decided(h, q)) /\ (Unmade(k, q) <=> Unmade(h, q))
    BY <1>2 DEF Reachable, Pending, Decided, Unmade
  <1>4. /\ Made(k) /\ KeptPending(k) /\ FromDecided(k) /\ OrderedKept(k) /\ OrderedJobs(k)
        /\ KeptGiven(k) /\ JobsGiven(k)
    BY <1>2, <1>3 DEF HeapInv, Reachable, Made, KeptPending, FromDecided, OrderedKept, OrderedJobs,
                      KeptGiven, JobsGiven
  <1>5. Named(k)
    BY <1>2 DEF HeapInv, Named, Reachable
  <1>6. Later(h, k)
    BY <1>1, <1>2, <1>3, HeapFields DEF Later, Reachable
  <1>7. k = Show(h, p) => k.held = h.held /\ k.orphans = h.orphans
    BY <1>1 DEF Show, Heaps
  <1> QED BY <1>2, <1>4, <1>5, <1>6, <1>7 DEF HeapInv

-----------------------------------------------------------------------------
\* How often the heap is to settle p, and to resume the continuation of await c.
Holds(h, p) == Tokens(h, Of(p), Thenables(p))
Waits(h, c) == Tokens(h, AwaitsOf(c), {})

\* The heap is to do what it was.
Quiet(h, k) ==
    /\ \A p : Holds(k, p) = Holds(h, p)
    /\ \A c : Waits(k, c) = Waits(h, c)

\* No promise was made, and the program reaches the same ones.
SameNames(h, k) == k.made = h.made /\ k.known = h.known /\ k.held = h.held /\ k.orphans = h.orphans

\* What was to settle p has passed it on to the heap (one thing more is to settle
\* it) or has settled it, and nothing else has changed hands.
Handed(h, k, p) ==
    /\ HeapInv(k) /\ Later(h, k) /\ SameNames(h, k)
    /\ \A q \in Ids \ {p} : Holds(k, q) = Holds(h, q)
    /\ \A c : Waits(k, c) = Waits(h, c)
    /\ Holds(k, p) = Holds(h, p) + 1 \/ (Holds(k, p) = Holds(h, p) /\ ~ Pending(k, p))

\* The counts are numbers.
LEMMA HoldsType ==
    ASSUME NEW h \in Heaps
    PROVE  (\A p : Holds(h, p) \in Nat) /\ (\A c : Waits(h, c) \in Nat)
  BY TokensType DEF Holds, Waits

\* Nothing is to be done otherwise when reactions and jobs stay.
LEMMA QuietSame ==
    ASSUME NEW h, NEW k, k.reactions = h.reactions, k.jobs = h.jobs
    PROVE  Quiet(h, k)
  BY TokensSame DEF Quiet, Holds, Waits

\* What a job counts for.
LEMMA JobCounts ==
    ASSUME NEW p \in Ids
    PROVE  /\ In(AThenable(p), JobsFor(Of(p), Thenables(p))) = 1
           /\ \A q \in Ids \ {p} : In(AThenable(p), JobsFor(Of(q), Thenables(q))) = 0
           /\ \A c : In(AThenable(p), JobsFor(AwaitsOf(c), {})) = 0
           /\ In(Follow(p), Of(p)) = 1 /\ \A q \in Ids \ {p} : In(Follow(p), Of(q)) = 0
           /\ \A c : In(Follow(p), AwaitsOf(c)) = 0
  <1>1. AThenable(p) \in Jobs /\ ~ IsReaction(AThenable(p))
    <2>1. AThenable(p).kind = "thenable"
      BY DEF AThenable
    <2> QED BY <2>1 DEF AThenable, Jobs, IsReaction
  <1>2. AThenable(p) \in Thenables(p) /\ \A q \in Ids \ {p} : AThenable(p) \notin Thenables(q)
    BY <1>1 DEF Thenables, AThenable
  <1>3. \A R, T : AThenable(p) \in JobsFor(R, T) <=> AThenable(p) \in T
    BY <1>1 DEF JobsFor
  <1>4. /\ In(AThenable(p), JobsFor(Of(p), Thenables(p))) = 1
        /\ \A q \in Ids \ {p} : In(AThenable(p), JobsFor(Of(q), Thenables(q))) = 0
        /\ \A c : In(AThenable(p), JobsFor(AwaitsOf(c), {})) = 0
    <2>1. AThenable(p) \in JobsFor(Of(p), Thenables(p))
      BY <1>2, <1>3
    <2>2. \A q \in Ids \ {p} : AThenable(p) \notin JobsFor(Of(q), Thenables(q))
      BY <1>2, <1>3
    <2>3. \A c : AThenable(p) \notin JobsFor(AwaitsOf(c), {})
      BY <1>3
    <2> QED BY <2>1, <2>2, <2>3 DEF In
  <1>5. In(Follow(p), Of(p)) = 1 /\ (\A q \in Ids \ {p} : In(Follow(p), Of(q)) = 0)
        /\ \A c : In(Follow(p), AwaitsOf(c)) = 0
    BY ReactionTypes DEF In
  <1> QED BY <1>4, <1>5

\* settle_promise settles p, and hands nothing on.
LEMMA SettleHands ==
    ASSUME NEW h, HeapInv(h), NEW p \in 1..h.made, NEW rejected \in BOOLEAN
    PROVE  Handed(h, Settle(h, p, rejected), p) /\ ~ Pending(Settle(h, p, rejected), p)
           /\ \A q : Holds(Settle(h, p, rejected), q) = Holds(h, q)
  <1> DEFINE k == Settle(h, p, rejected)
  <1>1. h \in Heaps /\ p \in Ids
    BY MadeIds
  <1>2. HeapInv(k) /\ Later(h, k) /\ ~ Pending(k, p) /\ SameNames(h, k)
    BY SettleKeeps DEF SameNames
  <1>3. (\A q : Holds(k, q) = Holds(h, q)) /\ (\A c : Waits(k, c) = Waits(h, c))
    BY <1>1, TokenKinds, TokensSettle DEF Holds, Waits
  <1> HIDE DEF k
  <1>4. Handed(h, k, p) /\ ~ Pending(k, p)
    BY <1>2, <1>3 DEF Handed
  <1> QED BY <1>3, <1>4 DEF k

\* Adopting the promise v hands p to a reaction.
LEMMA FollowHands ==
    ASSUME NEW h, HeapInv(h), NEW p \in 1..h.made, NEW v \in 1..h.made
    PROVE  Handed(h, Register(h, v, Follow(p)), p)
  <1> DEFINE r == Follow(p)
             k == Register(h, v, r)
  <1>1. h \in Heaps /\ p \in Ids /\ v \in Ids
    BY MadeIds
  <1>2. r \in Reactions
    BY <1>1, ReactionTypes
  <1>3. HeapInv(k) /\ Later(h, k) /\ SameScalars(h, k)
    <2> HIDE DEF r
    <2> QED BY <1>1, <1>2, RegisterKeeps
  <1>4. (\A q : Holds(k, q) = Holds(h, q) + In(r, Of(q))) /\ (\A c : Waits(k, c) = Waits(h, c) + In(r, AwaitsOf(c)))
    <2> HIDE DEF r
    <2> QED BY <1>1, <1>2, TokensRegister DEF Holds, Waits
  <1>5. In(r, Of(p)) = 1 /\ (\A q \in Ids \ {p} : In(r, Of(q)) = 0) /\ \A c : In(r, AwaitsOf(c)) = 0
    BY <1>1, JobCounts
  <1>6. (\A q : Holds(h, q) \in Nat) /\ (\A c : Waits(h, c) \in Nat)
    BY <1>1, HoldsType
  <1> HIDE DEF k, r
  <1>7. (\A q \in Ids \ {p} : Holds(k, q) = Holds(h, q)) /\ (\A c : Waits(k, c) = Waits(h, c))
        /\ Holds(k, p) = Holds(h, p) + 1
    BY <1>4, <1>5, <1>6
  <1> QED BY <1>3, <1>7 DEF Handed, SameScalars, SameNames, k, r

\* A thenable hands p to a job.
LEMMA ThenableHands ==
    ASSUME NEW h, HeapInv(h), NEW p \in 1..h.made
    PROVE  Handed(h, Enqueue(h, AThenable(p)), p)
  <1> DEFINE j == AThenable(p)
             k == Enqueue(h, j)
  <1>1. h \in Heaps /\ p \in Ids
    BY MadeIds
  <1>2. j \in Jobs /\ ~ IsReaction(j)
    BY <1>1, JobTypes, ReactionTypes
  <1>3. HeapInv(k) /\ Later(h, k) /\ SameScalars(h, k)
    <2> HIDE DEF j
    <2> QED BY <1>2, EnqueueKeeps
  <1>4. (\A q : Holds(k, q) = Holds(h, q) + In(j, JobsFor(Of(q), Thenables(q))))
        /\ (\A c : Waits(k, c) = Waits(h, c) + In(j, JobsFor(AwaitsOf(c), {})))
    <2> HIDE DEF j
    <2> QED BY <1>1, <1>2, TokensEnqueue DEF Holds, Waits
  <1>5. /\ In(j, JobsFor(Of(p), Thenables(p))) = 1
        /\ \A q \in Ids \ {p} : In(j, JobsFor(Of(q), Thenables(q))) = 0
        /\ \A c : In(j, JobsFor(AwaitsOf(c), {})) = 0
    BY <1>1, JobCounts
  <1>6. (\A q : Holds(h, q) \in Nat) /\ (\A c : Waits(h, c) \in Nat)
    BY <1>1, HoldsType
  <1> HIDE DEF k, j
  <1>7. (\A q \in Ids \ {p} : Holds(k, q) = Holds(h, q)) /\ (\A c : Waits(k, c) = Waits(h, c))
        /\ Holds(k, p) = Holds(h, p) + 1
    BY <1>4, <1>5, <1>6
  <1> QED BY <1>3, <1>7 DEF Handed, SameScalars, SameNames, k, j

\* The values that can be passed on: plain, thenable or a promise that was made.
Denoted(h) == {Plain, Thenable} \cup 1..h.made

\* resolve_promise hands p on or settles it, whatever the value.
LEMMA ResolveHands ==
    ASSUME NEW h, HeapInv(h), NEW p \in 1..h.made, NEW v \in Denoted(h)
    PROVE  Handed(h, Resolve(h, p, v), p) /\ (v = Plain => ~ Pending(Resolve(h, p, v), p))
  <1>1. p \in Ids /\ 1..h.made \subseteq Ids /\ Plain \notin Ids /\ Thenable \notin Ids /\ Plain # Thenable
    BY MadeIds DEF Ids, Plain, Thenable
  <1>2. CASE v = p
    <2>1. Resolve(h, p, v) = Settle(h, p, TRUE)
      BY <1>2 DEF Resolve
    <2> QED BY <2>1, SettleHands
  <1>3. CASE v # p /\ v \in Ids
    <2>1. Resolve(h, p, v) = Register(h, v, Follow(p)) /\ v \in 1..h.made /\ v # Plain
      BY <1>1, <1>3 DEF Resolve, Denoted
    <2> QED BY <2>1, FollowHands
  <1>4. CASE v = Thenable
    <2>1. Resolve(h, p, v) = Enqueue(h, AThenable(p)) /\ v # Plain
      BY <1>1, <1>4 DEF Resolve, AThenable
    <2> QED BY <2>1, ThenableHands
  <1>5. CASE v = Plain
    <2>1. Resolve(h, p, v) = Settle(h, p, FALSE)
      BY <1>1, <1>5 DEF Resolve
    <2> QED BY <2>1, SettleHands
  <1> QED BY <1>1, <1>2, <1>3, <1>4, <1>5 DEF Denoted

\* What a heap that holds nothing for a promise or an await cannot contain.
LEMMA NothingHeld ==
    ASSUME NEW h \in Heaps, NEW R, NEW T, NoReactions(T), Tokens(h, R, T) = 0
    PROVE  /\ \A p \in Ids : \A i \in DOMAIN h.reactions[p] : h.reactions[p][i] \notin R
           /\ \A i \in DOMAIN h.jobs : /\ IsReaction(h.jobs[i]) => h.jobs[i].reaction \notin R
                                       /\ h.jobs[i] \notin T
  <1> DEFINE J == JobsFor(R, T)
  <1>1. KeptCount(h.reactions, R) = 0 /\ Count(h.jobs, J) = 0
    <2>1. KeptCount(h.reactions, R) \in Nat /\ Count(h.jobs, J) \in Nat
      BY TokensType
    <2>2. KeptCount(h.reactions, R) + Count(h.jobs, J) = 0
      BY DEF Tokens
    <2> HIDE DEF J
    <2> QED BY <2>1, <2>2
  <1>2. h.reactions \in Reacting /\ h.jobs \in Seq(Jobs) /\ \A i \in DOMAIN h.jobs : h.jobs[i] \in Jobs
    BY HeapFields
  <1>3. \A p \in Ids : \A i \in DOMAIN h.reactions[p] : h.reactions[p][i] \notin R
    BY <1>1, <1>2, KeptNone
  <1>4. \A i \in DOMAIN h.jobs : h.jobs[i] \notin J
    <2> HIDE DEF J
    <2> QED BY <1>1, <1>2, CountNone
  <1> QED BY <1>2, <1>3, <1>4 DEF JobsFor

\* Registering a reaction whose result is the new promise n (promise_then).
LEMMA ThenRegisters ==
    ASSUME NEW h, HeapInv(h), NEW p \in 1..h.made, NEW n \in Ids, NEW r \in Of(n),
           \A q \in Ids : q >= n => Holds(h, q) = 0
    PROVE  LET k == Register(h, p, r)
           IN  /\ HeapInv(k) /\ Later(h, k) /\ SameScalars(h, k)
               /\ \A q \in Ids \ {n} : Holds(k, q) = Holds(h, q)
               /\ \A c : Waits(k, c) = Waits(h, c)
               /\ Holds(k, n) = 1
  <1> DEFINE k == Register(h, p, r)
  <1>1. h \in Heaps /\ p \in Ids /\ r \in Reactions
    BY MadeIds DEF Of
  <1>3. HeapInv(k) /\ Later(h, k) /\ SameScalars(h, k)
    BY <1>1, RegisterKeeps
  <1>4. (\A q : Holds(k, q) = Holds(h, q) + In(r, Of(q))) /\ (\A c : Waits(k, c) = Waits(h, c) + In(r, AwaitsOf(c)))
    BY <1>1, TokensRegister DEF Holds, Waits
  <1>5. In(r, Of(n)) = 1 /\ (\A q \in Ids \ {n} : In(r, Of(q)) = 0) /\ \A c : In(r, AwaitsOf(c)) = 0
    BY DEF In, Of, AwaitsOf
  <1>6. (\A q : Holds(h, q) \in Nat) /\ (\A c : Waits(h, c) \in Nat) /\ Holds(h, n) = 0
    <2>1. n >= n
      BY DEF Ids
    <2> QED BY <1>1, <2>1, HoldsType
  <1> HIDE DEF k
  <1>7. (\A q \in Ids \ {n} : Holds(k, q) = Holds(h, q)) /\ (\A c : Waits(k, c) = Waits(h, c)) /\ Holds(k, n) = 1
    BY <1>4, <1>5, <1>6
  <1> QED BY <1>3, <1>7 DEF k

\* Registering the continuation of the await n (the Await opcode).
LEMMA AwaitRegisters ==
    ASSUME NEW h, HeapInv(h), NEW p \in 1..h.made, NEW n \in 1..MaxOps, NEW r \in AwaitsOf(n),
           \A c \in 1..MaxOps : c >= n => Waits(h, c) = 0
    PROVE  LET k == Register(h, p, r)
           IN  /\ HeapInv(k) /\ Later(h, k) /\ SameScalars(h, k)
               /\ \A q : Holds(k, q) = Holds(h, q)
               /\ \A c \in (1..MaxOps) \ {n} : Waits(k, c) = Waits(h, c)
               /\ Waits(k, n) = 1
  <1> DEFINE k == Register(h, p, r)
  <1>1. h \in Heaps /\ p \in Ids /\ r \in Reactions
    BY MadeIds DEF AwaitsOf
  <1>3. HeapInv(k) /\ Later(h, k) /\ SameScalars(h, k)
    BY <1>1, RegisterKeeps
  <1>4. (\A q : Holds(k, q) = Holds(h, q) + In(r, Of(q))) /\ (\A c : Waits(k, c) = Waits(h, c) + In(r, AwaitsOf(c)))
    BY <1>1, TokensRegister DEF Holds, Waits
  <1>5. In(r, AwaitsOf(n)) = 1 /\ (\A c \in (1..MaxOps) \ {n} : In(r, AwaitsOf(c)) = 0) /\ \A q : In(r, Of(q)) = 0
    BY DEF In, Of, AwaitsOf
  <1>6. (\A q : Holds(h, q) \in Nat) /\ (\A c : Waits(h, c) \in Nat) /\ Waits(h, n) = 0
    <2>1. n >= n
      OBVIOUS
    <2> QED BY <1>1, <2>1, HoldsType
  <1> HIDE DEF k
  <1>7. (\A q : Holds(k, q) = Holds(h, q)) /\ (\A c \in (1..MaxOps) \ {n} : Waits(k, c) = Waits(h, c)) /\ Waits(k, n) = 1
    BY <1>4, <1>5, <1>6
  <1> QED BY <1>3, <1>7 DEF k

\* What a job is for: an await, a then(), or a thenable that p was resolved with.
ForAwait(j)    == IsReaction(j) /\ j.reaction.kind = "await"
ForThen(j)     == IsReaction(j) /\ j.reaction.kind = "then"
ForThenable(j) == j.kind = "thenable"
Serves(j, p)   == (ForThen(j) /\ p = j.reaction.result) \/ (ForThenable(j) /\ p = j.promise)

\* The job that is taken resumed one await.
LEMMA AwaitTaken ==
    ASSUME NEW h, HeapInv(h), h.jobs # <<>>, ForAwait(Head(h.jobs))
    PROVE  LET c == Head(h.jobs).reaction.id
               k == TakeJob(h)
           IN  /\ c \in 1..MaxOps /\ Waits(h, c) = Waits(k, c) + 1
               /\ \A o \in (1..MaxOps) \ {c} : Waits(k, o) = Waits(h, o)
               /\ \A q : Holds(k, q) = Holds(h, q)
  <1> DEFINE j == Head(h.jobs)
             c == j.reaction.id
             k == TakeJob(h)
  <1>1. h \in Heaps /\ k \in Heaps /\ j \in Jobs
    BY TakeParts DEF HeapInv
  <1>2. IsReaction(j) /\ j.reaction \in AwaitReactions /\ j.reaction.kind = "await" /\ c \in 1..MaxOps
    BY <1>1 DEF ForAwait, IsReaction, Jobs, Reactions, ThenReactions, AwaitReactions
  <1> HIDE DEF j
  <1>3. /\ In(j, JobsFor(AwaitsOf(c), {})) = 1
        /\ \A o \in (1..MaxOps) \ {c} : In(j, JobsFor(AwaitsOf(o), {})) = 0
        /\ \A q : In(j, JobsFor(Of(q), Thenables(q))) = 0
    <2>1. j.reaction \in Reactions
      BY <1>2 DEF Reactions
    <2>2. j.reaction \in AwaitsOf(c) /\ (\A o \in (1..MaxOps) \ {c} : j.reaction \notin AwaitsOf(o))
          /\ \A q : j.reaction \notin Of(q)
      BY <1>2, <2>1 DEF AwaitsOf, Of
    <2>3. /\ j \in JobsFor(AwaitsOf(c), {})
          /\ \A o \in (1..MaxOps) \ {c} : j \notin JobsFor(AwaitsOf(o), {})
          /\ \A q : j \notin JobsFor(Of(q), Thenables(q))
      BY <1>1, <1>2, <2>2, TokenKinds, JobsForParts
    <2> QED BY <2>3 DEF In
  <1>4. /\ \A q : Holds(h, q) = Holds(k, q) + In(j, JobsFor(Of(q), Thenables(q)))
        /\ \A o : Waits(h, o) = Waits(k, o) + In(j, JobsFor(AwaitsOf(o), {}))
    BY <1>1, TokensTake DEF Holds, Waits, j
  <1>5. (\A q : Holds(k, q) \in Nat) /\ (\A o : Waits(k, o) \in Nat)
    BY <1>1, HoldsType
  <1> HIDE DEF c, k
  <1>6. /\ Waits(h, c) = Waits(k, c) + 1
        /\ \A o \in (1..MaxOps) \ {c} : Waits(k, o) = Waits(h, o)
        /\ \A q : Holds(k, q) = Holds(h, q)
    BY <1>3, <1>4, <1>5
  <1> QED BY <1>2, <1>6 DEF c, k, j

\* The job that is taken was to settle one promise.
LEMMA ServantTaken ==
    ASSUME NEW h, HeapInv(h), h.jobs # <<>>, NEW p, Serves(Head(h.jobs), p)
    PROVE  LET k == TakeJob(h)
           IN  /\ p \in Ids /\ Holds(h, p) = Holds(k, p) + 1
               /\ \A q \in Ids \ {p} : Holds(k, q) = Holds(h, q)
               /\ \A c : Waits(k, c) = Waits(h, c)
  <1> DEFINE j == Head(h.jobs)
             k == TakeJob(h)
  <1>1. h \in Heaps /\ k \in Heaps /\ j \in Jobs
    BY TakeParts DEF HeapInv
  <1>2. Serves(j, p)
    OBVIOUS
  <1> HIDE DEF j
  <1>3. /\ p \in Ids
        /\ In(j, JobsFor(Of(p), Thenables(p))) = 1
        /\ \A q \in Ids \ {p} : In(j, JobsFor(Of(q), Thenables(q))) = 0
        /\ \A o : In(j, JobsFor(AwaitsOf(o), {})) = 0
    <2>1. CASE ForThen(j) /\ p = j.reaction.result
      <3>1. IsReaction(j) /\ j.reaction \in Reactions /\ j.reaction.kind = "then" /\ p \in Ids
        BY <1>1, <2>1 DEF ForThen, IsReaction, Jobs, Reactions, ThenReactions, AwaitReactions
      <3>2. j.reaction \in Of(p) /\ (\A q \in Ids \ {p} : j.reaction \notin Of(q))
            /\ \A o : j.reaction \notin AwaitsOf(o)
        BY <2>1, <3>1 DEF AwaitsOf, Of
      <3>3. /\ j \in JobsFor(Of(p), Thenables(p))
            /\ \A q \in Ids \ {p} : j \notin JobsFor(Of(q), Thenables(q))
            /\ \A o : j \notin JobsFor(AwaitsOf(o), {})
        BY <1>1, <3>1, <3>2, TokenKinds, JobsForParts
      <3> QED BY <3>1, <3>3 DEF In
    <2>2. CASE ForThenable(j) /\ p = j.promise
      <3>1. ~ IsReaction(j) /\ p \in Ids
        BY <1>1, <2>2 DEF ForThenable, IsReaction, Jobs
      <3>2. j \in Thenables(p) /\ \A q \in Ids \ {p} : j \notin Thenables(q)
        BY <1>1, <2>2 DEF Thenables, ForThenable
      <3>3. /\ j \in JobsFor(Of(p), Thenables(p))
            /\ \A q \in Ids \ {p} : j \notin JobsFor(Of(q), Thenables(q))
            /\ \A o : j \notin JobsFor(AwaitsOf(o), {})
        BY <1>1, <3>1, <3>2, TokenKinds, JobsForParts
      <3> QED BY <3>1, <3>3 DEF In
    <2> QED BY <1>2, <2>1, <2>2 DEF Serves
  <1>4. /\ \A q : Holds(h, q) = Holds(k, q) + In(j, JobsFor(Of(q), Thenables(q)))
        /\ \A o : Waits(h, o) = Waits(k, o) + In(j, JobsFor(AwaitsOf(o), {}))
    BY <1>1, TokensTake DEF Holds, Waits, j
  <1>5. (\A q : Holds(k, q) \in Nat) /\ (\A o : Waits(k, o) \in Nat)
    BY <1>1, HoldsType
  <1> HIDE DEF k
  <1>6. /\ Holds(h, p) = Holds(k, p) + 1
        /\ \A q \in Ids \ {p} : Holds(k, q) = Holds(h, q)
        /\ \A o : Waits(k, o) = Waits(h, o)
    BY <1>3, <1>4, <1>5
  <1> QED BY <1>3, <1>6 DEF k

-----------------------------------------------------------------------------
\* The frames whose creator settles a promise with what they return, the
\* continuations that are asleep for p, and all that is to settle p.
Owners       == {"async", "returning", "reaction"}
FramesOf(p)  == {f \in Frames : f.promise = p /\ f.op \in Owners}
Asleep(S, p) == {s \in S : s.promise = p}
Total(h, st, S, p) == Holds(h, p) + Count(st, FramesOf(p)) + Cardinality(Asleep(S, p))

\* The kinds of frames. A base is the bottom of the program: main, or main while its
\* Return drains the queue.
IsMain(f)      == f.op = "main"
IsDrain(f)     == f.op = "drain"
IsReturning(f) == f.op = "returning"
IsAsync(f)     == f.op = "async"
Owner(f)       == f.op \in Owners
RunsCode(f)    == f.op \in CodeFrames
Resolves(f)    == f.op \in {"executor", "thenable"}
IsBase(f)      == IsMain(f) \/ (IsReturning(f) /\ f.promise = 0)

\* A frame that owns a promise owns one that was made; the executor and the "then"
\* of a thenable have resolving functions; what a frame returns was made.
FrameOK(h, f) ==
    /\ (IsMain(f) \/ IsDrain(f)) => f.promise = 0
    /\ (Owner(f) /\ f.promise # 0) => f.promise \in 1..h.made
    /\ f.promise = 0 => IsMain(f) \/ IsDrain(f) \/ IsReturning(f)
    /\ Resolves(f) => f.promise \in h.held \cup h.orphans
    /\ f.value \in Denoted(h)

FramesOK(h, st) == \A i \in DOMAIN st : FrameOK(h, st[i])

\* The frames of a stack: only the bottom is main, a frame whose Return drains the
\* queue is below its drain, and drains nest in two ways only.
Shape(st) ==
    /\ st \in Seq(Frames)
    /\ \A i \in DOMAIN st : i = 1 => IsBase(st[i]) \/ IsDrain(st[i])
    /\ \A i \in DOMAIN st : IsBase(st[i]) => i = 1
    /\ \A i \in DOMAIN st : IsReturning(st[i]) /\ i + 1 \in DOMAIN st => IsDrain(st[i + 1])
    /\ \A i \in DOMAIN st : IsDrain(st[i]) /\ i > 1 =>
          \/ i = 2 /\ IsReturning(st[1]) /\ IsBase(st[1])
          \/ i = 3 /\ IsDrain(st[1]) /\ IsReturning(st[2])

\* The drain above a frame that returns has emptied the queue when it is gone.
Drained(h, st) == st # <<>> /\ IsReturning(Last(st)) => h.jobs = <<>>

\* A pending promise that the program itself cannot settle is in the hands of exactly
\* one frame, continuation, reaction or job; one not made yet is in nobody's.
Owned(h, st, S) ==
    \A p \in Ids :
        /\ p > h.made => Total(h, st, S, p) = 0
        /\ Pending(h, p) /\ p \notin h.held \cup h.orphans => Total(h, st, S, p) = 1

\* Each continuation has an await id of its own, given out already.
Sleepers(S, n) ==
    /\ IsFiniteSet(S)
    /\ \A s \in S : s \in [id : 1..MaxOps, promise : Ids] /\ s.id <= n
    /\ \A s, t \in S : s.id = t.id => s = t

\* One reaction or job resumes each continuation, and none resumes any other.
Wakes(h, S) ==
    \A c \in 1..MaxOps :
        /\ (\E s \in S : s.id = c) => Waits(h, c) = 1
        /\ (\A s \in S : s.id # c) => Waits(h, c) = 0

\* The scalars of the interpreter, and how the run may have ended.
Numbers ==
    /\ pendingErr \in BOOLEAN
    /\ awaits \in Nat /\ ops \in Nat /\ awaits <= ops /\ ops <= MaxOps
    /\ awaited \in Ids \cup {0}

Over ==
    /\ outcome \in Outcomes \ {"fault"}
    /\ outcome # "running" => stack = <<>>
    /\ outcome \in {"completed", "stuck"} => heap.jobs = <<>>

\* The inductive invariant. PendingIsOwned counts the owners of the pending promises
\* only, and is not inductive: a promise that is made next must be in nobody's
\* hands yet (Owned), a reaction that runs must give its promise to the
\* frame it pushes and not to one that is there already (Shape, FramesOK), a
\* job that resumes a continuation must find it (Wakes, Sleepers), and the order
\* of reactions needs each new one to be the newest of its promise (HeapInv).
Inv ==
    /\ HeapInv(heap)
    /\ FramesOK(heap, stack) /\ Shape(stack) /\ Drained(heap, stack)
    /\ Owned(heap, stack, suspended)
    /\ Sleepers(suspended, awaits) /\ Wakes(heap, suspended)
    /\ Numbers /\ Over

\* The counts of the stack, as frames come and go.
LEMMA OwnerCounts ==
    ASSUME NEW f \in Frames
    PROVE  \A p : /\ Owner(f) /\ f.promise = p => In(f, FramesOf(p)) = 1
                  /\ ~ (Owner(f) /\ f.promise = p) => In(f, FramesOf(p)) = 0
  BY DEF In, FramesOf, Owner

\* The top of a stack that is not empty.
LEMMA CodeFrame ==
    ASSUME NEW st, Shape(st), st # <<>>
    PROVE  /\ st \in Seq(Frames) /\ Len(st) \in Nat \ {0} /\ DOMAIN st = 1..Len(st) /\ Len(st) \in DOMAIN st
           /\ Last(st) = st[Len(st)] /\ Last(st) \in Frames
  BY LastFront DEF Shape

\* A stack keeps its shape when a frame is popped, and is empty after its base.
LEMMA ShapePop ==
    ASSUME NEW st, Shape(st), st # <<>>
    PROVE  /\ Shape(Front(st))
           /\ Front(st) # <<>> /\ IsReturning(Last(Front(st))) => IsDrain(Last(st))
           /\ IsBase(Last(st)) => Front(st) = <<>>
  <1> DEFINE t == Front(st)
             n == Len(st)
  <1>1. /\ st \in Seq(Frames) /\ t \in Seq(Frames) /\ n \in Nat \ {0} /\ DOMAIN st = 1..n
        /\ DOMAIN t = 1..(n - 1) /\ Len(t) = n - 1 /\ Last(st) = st[n] /\ \A i \in DOMAIN t : t[i] = st[i]
    BY LastFront DEF Shape
  <1> HIDE DEF t, n
  <1>2. \A i \in DOMAIN t : i \in DOMAIN st /\ t[i] = st[i] /\ i \in Nat /\ i + 1 \in DOMAIN st
    BY <1>1
  <1>3. Shape(t)
    <2>1. \A i \in DOMAIN t : i = 1 => IsBase(t[i]) \/ IsDrain(t[i])
      BY <1>2 DEF Shape
    <2>2. \A i \in DOMAIN t : IsBase(t[i]) => i = 1
      BY <1>2 DEF Shape
    <2>3. \A i \in DOMAIN t : IsReturning(t[i]) /\ i + 1 \in DOMAIN t => IsDrain(t[i + 1])
      BY <1>2 DEF Shape
    <2>4. ASSUME NEW i \in DOMAIN t, IsDrain(t[i]), i > 1
          PROVE  \/ i = 2 /\ IsReturning(t[1]) /\ IsBase(t[1])
                 \/ i = 3 /\ IsDrain(t[1]) /\ IsReturning(t[2])
      <3>1. i \in DOMAIN st /\ IsDrain(st[i])
        BY <1>2, <2>4
      <3>2. \/ i = 2 /\ IsReturning(st[1]) /\ IsBase(st[1])
            \/ i = 3 /\ IsDrain(st[1]) /\ IsReturning(st[2])
        BY <2>4, <3>1 DEF Shape
      <3>3. 1 \in DOMAIN t /\ (i = 3 => 2 \in DOMAIN t)
        BY <1>1, <2>4
      <3> QED BY <1>2, <3>2, <3>3
    <2> QED BY <1>1, <2>1, <2>2, <2>3, <2>4 DEF Shape
  <1>4. t # <<>> /\ IsReturning(Last(t)) => IsDrain(Last(st))
    <2> SUFFICES ASSUME t # <<>>, IsReturning(Last(t)) PROVE IsDrain(Last(st))
      OBVIOUS
    <2>1. Last(t) = t[n - 1] /\ n - 1 \in DOMAIN t
      <3>1. Len(t) \in Nat \ {0} /\ Last(t) = t[Len(t)]
        BY <1>1, LastFront
      <3> QED BY <1>1, <3>1
    <2>2. IsReturning(st[n - 1]) /\ n - 1 \in DOMAIN st /\ (n - 1) + 1 \in DOMAIN st /\ (n - 1) + 1 = n
      BY <1>1, <1>2, <2>1
    <2>3. IsDrain(st[(n - 1) + 1])
      BY <2>2 DEF Shape
    <2> QED BY <1>1, <2>2, <2>3
  <1>5. IsBase(Last(st)) => t = <<>>
    <2> SUFFICES ASSUME IsBase(Last(st)) PROVE t = <<>>
      OBVIOUS
    <2>1. n = 1
      BY <1>1 DEF Shape
    <2> QED BY <1>1, <2>1
  <1> QED BY <1>3, <1>4, <1>5 DEF t

\* A stack keeps its shape when a frame of code is pushed on it.
LEMMA ShapePush ==
    ASSUME NEW st, Shape(st), st # <<>>, ~ IsReturning(Last(st)),
           NEW f \in Frames, ~ IsMain(f), ~ IsDrain(f), ~ IsReturning(f)
    PROVE  Shape(Append(st, f)) /\ Append(st, f) # <<>> /\ Last(Append(st, f)) = f
  <1> DEFINE t == Append(st, f)
             n == Len(st)
  <1>1. /\ st \in Seq(Frames) /\ t \in Seq(Frames) /\ n \in Nat \ {0} /\ DOMAIN st = 1..n /\ t # <<>>
        /\ DOMAIN t = 1..(n + 1) /\ Len(t) = n + 1 /\ t[n + 1] = f /\ \A i \in DOMAIN st : t[i] = st[i]
        /\ Last(st) = st[n]
    BY CodeFrame, Pushed
  <1>2. Last(t) = f
    <2> HIDE DEF t
    <2> QED BY <1>1, LastFront
  <1> HIDE DEF t, n
  <1>3. ~ IsBase(f)
    BY DEF IsBase
  <1>4. \A i \in DOMAIN t : \/ i \in DOMAIN st /\ t[i] = st[i]
                            \/ i = n + 1 /\ t[i] = f
    BY <1>1
  <1>5. \A i \in DOMAIN t : i = 1 => IsBase(t[i]) \/ IsDrain(t[i])
    <2>1. 1 \in DOMAIN st /\ t[1] = st[1]
      BY <1>1
    <2> QED BY <2>1 DEF Shape
  <1>6. \A i \in DOMAIN t : IsBase(t[i]) => i = 1
    BY <1>3, <1>4 DEF Shape
  <1>7. ASSUME NEW i \in DOMAIN t, IsReturning(t[i]), i + 1 \in DOMAIN t PROVE IsDrain(t[i + 1])
    <2>1. i \in DOMAIN st /\ t[i] = st[i]
      BY <1>4, <1>7
    <2>2. i # n
      BY <1>1, <1>7, <2>1
    <2>3. i + 1 \in DOMAIN st /\ t[i + 1] = st[i + 1]
      BY <1>1, <2>1, <2>2
    <2> QED BY <1>7, <2>1, <2>3 DEF Shape
  <1>8. ASSUME NEW i \in DOMAIN t, IsDrain(t[i]), i > 1
        PROVE  \/ i = 2 /\ IsReturning(t[1]) /\ IsBase(t[1])
               \/ i = 3 /\ IsDrain(t[1]) /\ IsReturning(t[2])
    <2>1. i \in DOMAIN st /\ IsDrain(st[i])
      BY <1>4, <1>8
    <2>2. \/ i = 2 /\ IsReturning(st[1]) /\ IsBase(st[1])
          \/ i = 3 /\ IsDrain(st[1]) /\ IsReturning(st[2])
      BY <1>8, <2>1 DEF Shape
    <2>3. 1 \in DOMAIN st /\ (i = 3 => 2 \in DOMAIN st)
      BY <1>1, <2>1
    <2> QED BY <1>1, <2>2, <2>3
  <1>9. Shape(t)
    BY <1>1, <1>5, <1>6, <1>7, <1>8 DEF Shape
  <1> QED BY <1>1, <1>2, <1>9 DEF t

\* Two frames pushed.
LEMMA TwoMore ==
    ASSUME NEW s \in Seq(Frames), NEW f \in Frames, NEW g \in Frames
    PROVE  /\ s \o <<f, g>> = Append(Append(s, f), g)
           /\ s \o <<f, g>> \in Seq(Frames) /\ s \o <<f, g>> # <<>> /\ Last(s \o <<f, g>>) = g
           /\ DOMAIN (s \o <<f, g>>) = 1..(Len(s) + 2)
           /\ \A i \in 1..Len(s) : (s \o <<f, g>>)[i] = s[i]
           /\ (s \o <<f, g>>)[Len(s) + 1] = f /\ (s \o <<f, g>>)[Len(s) + 2] = g
  <1> DEFINE t == s \o <<f, g>>
             u == Append(s, f)
             w == Append(u, g)
  <1>1. /\ u \in Seq(Frames) /\ Len(s) \in Nat /\ DOMAIN u = 1..(Len(s) + 1) /\ Len(u) = Len(s) + 1
        /\ u[Len(s) + 1] = f /\ \A i \in 1..Len(s) : u[i] = s[i]
    BY Pushed
  <1> HIDE DEF u
  <1>2. /\ w \in Seq(Frames) /\ DOMAIN w = 1..(Len(s) + 2) /\ Len(w) = Len(s) + 2 /\ w # <<>>
        /\ w[Len(s) + 2] = g /\ \A i \in 1..(Len(s) + 1) : w[i] = u[i]
    BY <1>1, Pushed
  <1>3. /\ t \in Seq(Frames) /\ Len(t) = Len(s) + 2 /\ DOMAIN t = 1..(Len(s) + 2)
        /\ \A i \in 1..Len(s) : t[i] = s[i]
        /\ t[Len(s) + 1] = f /\ t[Len(s) + 2] = g
    OBVIOUS
  <1> HIDE DEF t, w
  <1>4. \A i \in 1..(Len(s) + 2) : t[i] = w[i]
    <2>1. \A i \in 1..(Len(s) + 2) : i \in 1..Len(s) \/ i = Len(s) + 1 \/ i = Len(s) + 2
      BY <1>1
    <2> QED BY <1>1, <1>2, <1>3, <2>1
  <1>5. t = w
    BY <1>1, <1>2, <1>3, <1>4, SeqEqual
  <1>6. Last(t) = g
    BY <1>1, <1>2, <1>3, <1>5, LastFront
  <1> QED BY <1>1, <1>2, <1>3, <1>5, <1>6 DEF t, w, u

\* The frame whose Return drains the queue, and the drain above it.
LEMMA ShapeReturn ==
    ASSUME NEW h, NEW st, Shape(st), st # <<>>, FramesOK(h, st), IsMain(Last(st)) \/ IsAsync(Last(st)),
           \A i \in 1..(Len(st) - 1) : IsDrain(st[i]),
           NEW f \in Frames, IsReturning(f), f.promise = Last(st).promise
    PROVE  LET t == Front(st) \o <<f, Drain>>
           IN  /\ Shape(t) /\ t # <<>> /\ Last(t) = Drain
               /\ \A p \in Ids : Count(t, FramesOf(p)) = Count(st, FramesOf(p))
  <1> DEFINE u == Front(st)
             t == u \o <<f, Drain>>
             n == Len(st)
             l == Last(st)
  <1>1. /\ st \in Seq(Frames) /\ u \in Seq(Frames) /\ n \in Nat \ {0} /\ DOMAIN st = 1..n /\ Len(u) = n - 1
        /\ DOMAIN u = 1..(n - 1) /\ l = st[n] /\ l \in Frames /\ \A i \in DOMAIN u : u[i] = st[i]
    BY LastFront DEF Shape
  <1>2. Drain \in Frames /\ IsDrain(Drain) /\ ~ IsReturning(Drain) /\ ~ IsBase(Drain) /\ ~ Owner(Drain) /\ Drain.promise = 0
    BY DEF Drain, Frame, Frames, IsDrain, IsReturning, IsBase, IsMain, Values, Owner, Owners
  <1>3. FrameOK(h, l) /\ ~ IsDrain(f) /\ (IsBase(f) <=> f.promise = 0)
    <2>1. FrameOK(h, st[n])
      BY <1>1 DEF FramesOK
    <2> QED BY <1>1, <2>1 DEF IsBase, IsReturning, IsMain, IsDrain
  <1>4. (IsMain(l) => IsBase(f)) /\ (IsAsync(l) => ~ IsBase(f) /\ ~ IsBase(l) /\ ~ IsDrain(l))
    <2>1. IsMain(l) => f.promise = 0
      BY <1>3 DEF FrameOK
    <2>2. IsAsync(l) => ~ IsMain(l) /\ ~ IsDrain(l) /\ ~ IsReturning(l)
      BY DEF IsAsync, IsMain, IsDrain, IsReturning
    <2>3. IsAsync(l) => f.promise # 0
      BY <1>3, <2>2 DEF FrameOK
    <2> QED BY <1>3, <2>1, <2>2, <2>3 DEF IsBase
  <1> HIDE DEF u, n, l
  <1>5. /\ t = Append(Append(u, f), Drain) /\ t \in Seq(Frames) /\ t # <<>> /\ Last(t) = Drain
        /\ DOMAIN t = 1..(n + 1) /\ \A i \in 1..(n - 1) : t[i] = st[i]
        /\ t[n] = f /\ t[n + 1] = Drain
    <2>3. u \in Seq(Frames) /\ f \in Frames /\ Drain \in Frames
      BY <1>1, <1>2
    <2>4. /\ u \o <<f, Drain>> = Append(Append(u, f), Drain)
          /\ u \o <<f, Drain>> \in Seq(Frames) /\ u \o <<f, Drain>> # <<>> /\ Last(u \o <<f, Drain>>) = Drain
          /\ DOMAIN (u \o <<f, Drain>>) = 1..(Len(u) + 2)
          /\ \A i \in 1..Len(u) : (u \o <<f, Drain>>)[i] = u[i]
          /\ (u \o <<f, Drain>>)[Len(u) + 1] = f /\ (u \o <<f, Drain>>)[Len(u) + 2] = Drain
      BY <2>3, TwoMore
    <2> HIDE DEF t
    <2>1. /\ t = Append(Append(u, f), Drain) /\ t \in Seq(Frames) /\ t # <<>> /\ Last(t) = Drain
          /\ DOMAIN t = 1..(Len(u) + 2) /\ \A i \in 1..Len(u) : t[i] = u[i]
          /\ t[Len(u) + 1] = f /\ t[Len(u) + 2] = Drain
      BY <2>4 DEF t
    <2>2. Len(u) + 2 = n + 1 /\ Len(u) + 1 = n
      BY <1>1
    <2> HIDE DEF t
    <2> QED BY <1>1, <2>1, <2>2
  <1> HIDE DEF t
  <1>6. IsMain(l) \/ IsAsync(l)
    BY DEF l
  <1>7. \A i \in 1..(n - 1) : IsDrain(st[i])
    BY DEF n
  <1>8. n = 1 \/ n = 2
    <2> SUFFICES ASSUME n > 2 PROVE FALSE
      BY <1>1
    <2>1. 1 \in DOMAIN st /\ 2 \in DOMAIN st /\ IsDrain(st[1]) /\ IsDrain(st[2])
      BY <1>1, <1>7
    <2>2. IsReturning(st[1])
      BY <2>1 DEF Shape
    <2> QED BY <2>1, <2>2 DEF IsReturning, IsDrain
  <1>9. Shape(t)
    <2>1. CASE n = 1
      <3>1. IsBase(l) \/ IsDrain(l)
        BY <1>1, <2>1 DEF Shape
      <3>2. IsBase(f)
        BY <1>4, <1>6, <3>1
      <3>3. DOMAIN t = {1, 2} /\ t[1] = f /\ t[2] = Drain
        BY <1>5, <2>1
      <3>4. /\ \A i \in DOMAIN t : i = 1 => IsBase(t[i]) \/ IsDrain(t[i])
            /\ \A i \in DOMAIN t : IsBase(t[i]) => i = 1
        BY <1>2, <3>2, <3>3
      <3>5. \A i \in DOMAIN t : IsReturning(t[i]) /\ i + 1 \in DOMAIN t => IsDrain(t[i + 1])
        BY <1>2, <3>3
      <3>6. \A i \in DOMAIN t : IsDrain(t[i]) /\ i > 1 =>
               i = 2 /\ IsReturning(t[1]) /\ IsBase(t[1])
        BY <1>3, <3>2, <3>3
      <3> QED BY <1>5, <3>4, <3>5, <3>6 DEF Shape
    <2>2. CASE n = 2
      <3>1. ~ IsBase(l) /\ IsDrain(st[1])
        BY <1>1, <1>7, <2>2 DEF Shape
      <3>2. ~ IsBase(f)
        BY <1>4, <1>6, <3>1 DEF IsBase
      <3>5. 1 \in 1..(n - 1) /\ n + 1 = 3
        BY <2>2
      <3>3. DOMAIN t = {1, 2, 3} /\ t[1] = st[1] /\ t[2] = f /\ t[3] = Drain
        <4>1. t[1] = st[1]
          BY <1>5, <3>5
        <4>2. t[2] = f /\ t[3] = Drain
          BY <1>5, <2>2, <3>5
        <4>3. DOMAIN t = 1..3
          BY <1>5, <3>5
        <4> QED BY <4>1, <4>2, <4>3
      <3>4. ~ IsBase(st[1]) /\ ~ IsReturning(st[1])
        BY <3>1 DEF IsBase, IsMain, IsReturning, IsDrain
      <3>6. /\ \A i \in DOMAIN t : i = 1 => IsBase(t[i]) \/ IsDrain(t[i])
            /\ \A i \in DOMAIN t : IsBase(t[i]) => i = 1
        BY <1>2, <3>1, <3>2, <3>3, <3>4
      <3>7. \A i \in DOMAIN t : IsReturning(t[i]) /\ i + 1 \in DOMAIN t => IsDrain(t[i + 1])
        BY <1>2, <3>3, <3>4
      <3>8. \A i \in DOMAIN t : IsDrain(t[i]) /\ i > 1 =>
               i = 3 /\ IsDrain(t[1]) /\ IsReturning(t[2])
        BY <1>3, <3>1, <3>3
      <3> QED BY <1>5, <3>6, <3>7, <3>8 DEF Shape
    <2> QED BY <1>8, <2>1, <2>2
  <1>10. ASSUME NEW p \in Ids PROVE Count(t, FramesOf(p)) = Count(st, FramesOf(p))
    <2> DEFINE A == FramesOf(p)
    <2>1. In(f, A) = In(l, A) /\ In(Drain, A) = 0
      <3>1. p # 0
        BY DEF Ids
      <3>2. Owner(f) /\ f.promise = l.promise
        BY DEF Owner, Owners, IsReturning, l
      <3>3. Owner(l) \/ l.promise = 0
        BY <1>3, <1>6 DEF FrameOK, Owner, Owners, IsAsync
      <3> QED BY <1>1, <1>2, <3>1, <3>2, <3>3, OwnerCounts
    <2> HIDE DEF A
    <2>2. Count(st, A) = Count(u, A) + In(l, A)
      BY <1>1, CountFront DEF u, l, n
    <2>3. Count(Append(u, f), A) = Count(u, A) + In(f, A) /\ Append(u, f) \in Seq(Frames)
      BY <1>1, CountAppend
    <2>4. Count(Append(Append(u, f), Drain), A) = Count(Append(u, f), A) + In(Drain, A)
      BY <1>2, <2>3, CountAppend
    <2>5. Count(u, A) \in Nat /\ In(l, A) \in Nat
      BY <1>1, WhereFinite DEF In
    <2> QED BY <1>5, <2>1, <2>2, <2>3, <2>4, <2>5 DEF A
  <1> QED BY <1>5, <1>9, <1>10 DEF t, u

\* The frames are as good in a later heap.
LEMMA FramesLater ==
    ASSUME NEW h, HeapInv(h), NEW k, HeapInv(k), Later(h, k), NEW st, FramesOK(h, st)
    PROVE  FramesOK(k, st)
  <1>1. h.made \in Nat /\ k.made \in Nat /\ h.made <= k.made /\ h.held \cup h.orphans \subseteq k.held \cup k.orphans
    BY MadeIds DEF Later
  <1>2. 1..h.made \subseteq 1..k.made
    BY <1>1
  <1>3. Denoted(h) \subseteq Denoted(k)
    BY <1>2 DEF Denoted
  <1> QED BY <1>1, <1>2, <1>3 DEF FramesOK, FrameOK

\* The frames below are good when the top is popped.
LEMMA FramesPop ==
    ASSUME NEW h, NEW st, Shape(st), st # <<>>, FramesOK(h, st)
    PROVE  FramesOK(h, Front(st)) /\ FrameOK(h, Last(st))
  <1>1. /\ Len(st) \in DOMAIN st /\ Last(st) = st[Len(st)]
        /\ DOMAIN Front(st) \subseteq DOMAIN st /\ \A i \in DOMAIN Front(st) : Front(st)[i] = st[i]
    <2>1. /\ Len(st) \in Nat \ {0} /\ DOMAIN st = 1..Len(st) /\ Last(st) = st[Len(st)]
          /\ DOMAIN Front(st) = 1..(Len(st) - 1) /\ \A i \in DOMAIN Front(st) : Front(st)[i] = st[i]
      BY LastFront DEF Shape
    <2> QED BY <2>1
  <1> QED BY <1>1 DEF FramesOK

\* The frames are good when a good one is pushed.
LEMMA FramesPush ==
    ASSUME NEW h, NEW st \in Seq(Frames), FramesOK(h, st), NEW f \in Frames, FrameOK(h, f)
    PROVE  FramesOK(h, Append(st, f))
  <1>1. /\ DOMAIN st = 1..Len(st) /\ DOMAIN Append(st, f) = 1..(Len(st) + 1) /\ Len(st) \in Nat
        /\ Append(st, f)[Len(st) + 1] = f /\ \A i \in DOMAIN st : Append(st, f)[i] = st[i]
    BY Pushed
  <1>2. \A i \in DOMAIN Append(st, f) : i \in DOMAIN st \/ i = Len(st) + 1
    BY <1>1
  <1> QED BY <1>1, <1>2 DEF FramesOK

-----------------------------------------------------------------------------
\* The continuations asleep for p are finitely many.
LEMMA AsleepFinite ==
    ASSUME NEW S, IsFiniteSet(S), NEW p
    PROVE  IsFiniteSet(Asleep(S, p)) /\ Cardinality(Asleep(S, p)) \in Nat
  <1>1. Asleep(S, p) \in SUBSET S
    BY DEF Asleep
  <1> QED BY <1>1, FS_Subset, FS_CardinalityType

\* The owners of a promise are finitely many.
LEMMA TotalType ==
    ASSUME NEW h \in Heaps, NEW st \in Seq(Frames), NEW S, IsFiniteSet(S), NEW p
    PROVE  /\ Holds(h, p) \in Nat /\ Count(st, FramesOf(p)) \in Nat /\ Cardinality(Asleep(S, p)) \in Nat
           /\ Total(h, st, S, p) \in Nat
  <1>1. Holds(h, p) \in Nat /\ Count(st, FramesOf(p)) \in Nat /\ Cardinality(Asleep(S, p)) \in Nat
    BY HoldsType, WhereFinite, AsleepFinite
  <1> QED BY <1>1 DEF Total

\* A frame pushed owns its promise.
LEMMA TotalPush ==
    ASSUME NEW h \in Heaps, NEW st \in Seq(Frames), NEW f \in Frames, NEW S, IsFiniteSet(S), NEW p
    PROVE  Total(h, Append(st, f), S, p) = Total(h, st, S, p) + In(f, FramesOf(p))
  <1>1. Count(Append(st, f), FramesOf(p)) = Count(st, FramesOf(p)) + In(f, FramesOf(p))
    BY CountAppend
  <1>2. /\ Holds(h, p) \in Nat /\ Count(st, FramesOf(p)) \in Nat /\ Cardinality(Asleep(S, p)) \in Nat
        /\ In(f, FramesOf(p)) \in Nat
    BY TotalType DEF In
  <1> QED BY <1>1, <1>2 DEF Total

\* A frame popped owned its promise.
LEMMA TotalPop ==
    ASSUME NEW h \in Heaps, NEW st, Shape(st), st # <<>>, NEW S, IsFiniteSet(S), NEW p
    PROVE  Total(h, st, S, p) = Total(h, Front(st), S, p) + In(Last(st), FramesOf(p))
  <1>1. st \in Seq(Frames) /\ Front(st) \in Seq(Frames)
    BY LastFront DEF Shape
  <1>2. Count(st, FramesOf(p)) = Count(Front(st), FramesOf(p)) + In(Last(st), FramesOf(p))
    BY <1>1, CountFront
  <1>3. /\ Holds(h, p) \in Nat /\ Count(Front(st), FramesOf(p)) \in Nat /\ Cardinality(Asleep(S, p)) \in Nat
        /\ In(Last(st), FramesOf(p)) \in Nat
    BY <1>1, TotalType DEF In
  <1> QED BY <1>2, <1>3 DEF Total

\* A continuation that is asleep for p, and a set with one more member.
Mine(s, p) == IF s.promise = p THEN 1 ELSE 0

Joined(R, S, s) == IsFiniteSet(S) /\ s \notin S /\ R = S \cup {s}

\* A continuation more is asleep for its own promise.
LEMMA AsleepJoined ==
    ASSUME NEW R, NEW S, NEW s, Joined(R, S, s), NEW p
    PROVE  Cardinality(Asleep(R, p)) = Cardinality(Asleep(S, p)) + Mine(s, p)
  <1>1. IsFiniteSet(S) /\ s \notin S /\ R = S \cup {s}
    BY DEF Joined
  <1>2. CASE s.promise = p
    <2>1. Asleep(R, p) = Asleep(S, p) \cup {s} /\ s \notin Asleep(S, p)
      BY <1>1, <1>2 DEF Asleep
    <2>2. Cardinality(Asleep(S, p) \cup {s}) = Cardinality(Asleep(S, p)) + 1
      BY <1>1, <2>1, AsleepFinite, FS_AddElement
    <2> QED BY <1>2, <2>1, <2>2 DEF Mine
  <1>3. CASE s.promise # p
    <2>1. Asleep(R, p) = Asleep(S, p)
      BY <1>1, <1>3 DEF Asleep
    <2>2. Mine(s, p) = 0
      BY <1>3 DEF Mine
    <2> QED BY <1>1, <2>1, <2>2, AsleepFinite
  <1> QED BY <1>2, <1>3

\* A continuation that falls asleep owns its promise.
LEMMA TotalJoined ==
    ASSUME NEW h \in Heaps, NEW st \in Seq(Frames), NEW R, NEW S, NEW s, Joined(R, S, s), NEW p
    PROVE  Total(h, st, R, p) = Total(h, st, S, p) + Mine(s, p)
  <1>1. Cardinality(Asleep(R, p)) = Cardinality(Asleep(S, p)) + Mine(s, p)
    BY AsleepJoined
  <1>2. /\ Holds(h, p) \in Nat /\ Count(st, FramesOf(p)) \in Nat /\ Cardinality(Asleep(S, p)) \in Nat
        /\ Mine(s, p) \in Nat
    BY TotalType DEF Mine, Joined
  <1> QED BY <1>1, <1>2 DEF Total

\* A member taken from a set can be put back.
LEMMA JoinedAgain ==
    ASSUME NEW S, IsFiniteSet(S), NEW s \in S
    PROVE  IsFiniteSet(S \ {s}) /\ Joined(S, S \ {s}, s)
  <1>1. IsFiniteSet(S \ {s})
    BY FS_RemoveElement
  <1> QED BY <1>1 DEF Joined

\* What the heap has been handed.
LEMMA TotalHeap ==
    ASSUME NEW h \in Heaps, NEW k \in Heaps, NEW st \in Seq(Frames), NEW S, IsFiniteSet(S), NEW p,
           NEW d \in Nat, Holds(k, p) = Holds(h, p) + d
    PROVE  Total(k, st, S, p) = Total(h, st, S, p) + d
  <1>1. /\ Holds(h, p) \in Nat /\ Count(st, FramesOf(p)) \in Nat /\ Cardinality(Asleep(S, p)) \in Nat
    BY TotalType
  <1> QED BY <1>1 DEF Total

\* The heap has been handed nothing.
LEMMA TotalSame ==
    ASSUME NEW h, NEW k, NEW st, NEW S, NEW p, Holds(k, p) = Holds(h, p)
    PROVE  Total(k, st, S, p) = Total(h, st, S, p)
  BY DEF Total

\* A step either leaves the number of q's owners, or need not care about them.
OwnedNext(h, st, S, k, t, R, q) ==
    \/ Total(k, t, R, q) = Total(h, st, S, q) /\ (q <= h.made \/ q > k.made)
    \/ q <= k.made /\ (Total(k, t, R, q) = 1 \/ ~ Pending(k, q) \/ q \in k.held \cup k.orphans)

\* Owned holds after a step when each promise has its owners still, has one, or
\* needs none.
LEMMA OwnedStep ==
    ASSUME NEW h, HeapInv(h), NEW st, NEW S, Owned(h, st, S),
           NEW k, HeapInv(k), Later(h, k), NEW t, NEW R,
           \A q \in Ids : OwnedNext(h, st, S, k, t, R, q)
    PROVE  Owned(k, t, R)
  <1>1. h.made \in Nat /\ k.made \in Nat /\ h.made <= k.made /\ h.held \cup h.orphans \subseteq k.held \cup k.orphans
    BY MadeIds DEF Later
  <1> SUFFICES ASSUME NEW q \in Ids
               PROVE  /\ q > k.made => Total(k, t, R, q) = 0
                      /\ Pending(k, q) /\ q \notin k.held \cup k.orphans => Total(k, t, R, q) = 1
    BY DEF Owned
  <1>2. q \in Nat
    BY DEF Ids
  <1>3. /\ q > h.made => Total(h, st, S, q) = 0
        /\ Pending(h, q) /\ q \notin h.held \cup h.orphans => Total(h, st, S, q) = 1
    BY DEF Owned
  <1>4. Pending(k, q) => q <= k.made
    <2> SUFFICES ASSUME Pending(k, q) PROVE q <= k.made
      OBVIOUS
    <2>1. ~ Unmade(k, q)
      BY MadeIds, States3
    <2> QED BY <1>1, <1>2, <2>1 DEF HeapInv, Made
  <1>5. Pending(k, q) /\ q <= h.made => Pending(h, q)
    BY DEF Later
  <1>6. OwnedNext(h, st, S, k, t, R, q)
    OBVIOUS
  <1> QED BY <1>1, <1>2, <1>3, <1>4, <1>5, <1>6 DEF OwnedNext

\* A promise that nobody needs to own, or one whose owner is as before.
LEMMA OwnedQuiet ==
    ASSUME NEW h, HeapInv(h), NEW st, NEW S, Owned(h, st, S), NEW k, HeapInv(k), Later(h, k), k.made = h.made,
           \A q \in Ids : Holds(k, q) = Holds(h, q)
    PROVE  Owned(k, st, S)
  <1>1. ASSUME NEW q \in Ids PROVE OwnedNext(h, st, S, k, st, S, q)
    <2>1. Total(k, st, S, q) = Total(h, st, S, q)
      BY TotalSame
    <2>2. q <= h.made \/ q > k.made
      BY MadeIds DEF Ids
    <2> QED BY <2>1, <2>2 DEF OwnedNext
  <1> QED BY <1>1, OwnedStep

\* The program itself settles a promise it has the resolving functions of.
LEMMA OwnedHeld ==
    ASSUME NEW h, HeapInv(h), NEW st, NEW S, Owned(h, st, S), NEW p, p \in h.held \cup h.orphans,
           NEW k, Handed(h, k, p)
    PROVE  Owned(k, st, S)
  <1>1. HeapInv(k) /\ Later(h, k) /\ k.made = h.made /\ k.held = h.held /\ k.orphans = h.orphans
        /\ (\A q \in Ids \ {p} : Holds(k, q) = Holds(h, q)) /\ h.made \in Nat
    BY MadeIds DEF Handed, SameNames
  <1>2. ASSUME NEW q \in Ids PROVE OwnedNext(h, st, S, k, st, S, q)
    <2>0. q \in Nat
      BY DEF Ids
    <2>1. CASE q # p
      <3>1. Total(k, st, S, q) = Total(h, st, S, q)
        BY <1>1, <2>1, TotalSame
      <3> QED BY <1>1, <2>0, <3>1 DEF OwnedNext
    <2>2. CASE q = p
      <3>1. p \in 1..h.made
        BY DEF HeapInv, Named
      <3> QED BY <1>1, <2>2, <3>1 DEF OwnedNext
    <2> QED BY <2>1, <2>2
  <1> QED BY <1>1, <1>2, OwnedStep

\* The frame that owned the promise hands it on, and is gone.
LEMMA OwnedPop ==
    ASSUME NEW h, HeapInv(h), NEW st, Shape(st), st # <<>>, FramesOK(h, st), NEW S, IsFiniteSet(S), Owned(h, st, S),
           NEW k, Handed(h, k, Last(st).promise), Last(st).promise # 0
    PROVE  Owned(k, Front(st), S)
  <1> DEFINE f == Last(st)
             p == f.promise
             t == Front(st)
  <1>1. HeapInv(k) /\ Later(h, k) /\ k.made = h.made /\ k.held = h.held /\ k.orphans = h.orphans
        /\ (\A q \in Ids \ {p} : Holds(k, q) = Holds(h, q)) /\ h.made \in Nat
        /\ (Holds(k, p) = Holds(h, p) + 1 \/ (Holds(k, p) = Holds(h, p) /\ ~ Pending(k, p)))
    BY MadeIds DEF Handed, SameNames
  <1>2. f \in Frames /\ t \in Seq(Frames) /\ FrameOK(h, f)
    BY LastFront, FramesPop DEF Shape
  <1>3. (Owner(f) \/ p \in h.held \cup h.orphans) /\ p \in 1..h.made /\ p \in Ids
    <2>1. f.op \in CodeFrames \cup {"drain", "returning"}
      BY <1>2 DEF Frames
    <2>2. Owner(f) \/ Resolves(f) \/ IsMain(f) \/ IsDrain(f)
      BY <2>1 DEF CodeFrames, Owner, Owners, Resolves, IsMain, IsDrain
    <2>3. p # 0
      OBVIOUS
    <2> HIDE DEF f, p
    <2>4. Owner(f) => p \in 1..h.made
      BY <1>2, <2>3 DEF FrameOK, p
    <2>5. Resolves(f) => p \in h.held \cup h.orphans
      BY <1>2 DEF FrameOK, p
    <2>6. ~ IsMain(f) /\ ~ IsDrain(f)
      BY <1>2, <2>3 DEF FrameOK, p
    <2>7. h.held \cup h.orphans \subseteq 1..h.made
      BY DEF HeapInv, Named
    <2> QED BY <2>2, <2>4, <2>5, <2>6, <2>7, MadeIds
  <1>4. h \in Heaps /\ k \in Heaps
    BY <1>1 DEF HeapInv
  <1>5. ASSUME NEW q \in Ids PROVE OwnedNext(h, st, S, k, t, S, q)
    <2>1. /\ Total(h, st, S, q) = Total(h, t, S, q) + In(f, FramesOf(q))
          /\ Total(h, t, S, q) \in Nat /\ q \in Nat
      BY <1>2, <1>4, TotalPop, TotalType DEF Ids
    <2> HIDE DEF f, t
    <2>2. CASE q # p
      <3>1. In(f, FramesOf(q)) = 0
        BY <1>2, <2>2, OwnerCounts
      <3>2. Total(k, t, S, q) = Total(h, t, S, q)
        BY <1>1, <2>2, TotalSame
      <3> QED BY <1>1, <2>1, <3>1, <3>2 DEF OwnedNext
    <2>3. CASE q = p /\ Owner(f) /\ Pending(k, p)
      <3>1. In(f, FramesOf(q)) = 1
        BY <1>2, <2>3, OwnerCounts
      <3>2. Holds(k, q) = Holds(h, q) + 1
        BY <1>1, <2>3
      <3>3. Total(k, t, S, q) = Total(h, t, S, q) + 1
        BY <1>2, <1>4, <3>2, TotalHeap
      <3> QED BY <1>1, <2>1, <3>1, <3>3 DEF OwnedNext
    <2>4. CASE q = p /\ (~ Pending(k, p) \/ ~ Owner(f))
      <3>1. q <= k.made /\ (~ Pending(k, q) \/ q \in k.held \cup k.orphans)
        BY <1>1, <1>3, <2>4
      <3> QED BY <3>1 DEF OwnedNext
    <2> QED BY <2>2, <2>3, <2>4
  <1> QED BY <1>1, <1>5, OwnedStep DEF t

\* A frame that owns nothing is gone.
LEMMA OwnedDrop ==
    ASSUME NEW h, HeapInv(h), NEW st, Shape(st), st # <<>>, NEW S, IsFiniteSet(S), Owned(h, st, S),
           Last(st).promise = 0 \/ ~ Owner(Last(st))
    PROVE  Owned(h, Front(st), S)
  <1>1. h \in Heaps /\ Later(h, h) /\ Last(st) \in Frames /\ h.made \in Nat /\ Front(st) \in Seq(Frames)
    BY LaterSame, CodeFrame, MadeIds, LastFront DEF Shape
  <1>2. ASSUME NEW q \in Ids PROVE OwnedNext(h, st, S, h, Front(st), S, q)
    <2>1. q \in Nat /\ q # 0
      BY DEF Ids
    <2>2. In(Last(st), FramesOf(q)) = 0
      BY <1>1, <2>1, OwnerCounts
    <2>3. Total(h, st, S, q) = Total(h, Front(st), S, q) + 0 /\ Total(h, Front(st), S, q) \in Nat
      BY <1>1, <2>2, TotalPop, TotalType
    <2> QED BY <1>1, <2>1, <2>3 DEF OwnedNext
  <1> QED BY <1>1, <1>2, OwnedStep

\* The continuations are woken as before.
LEMMA WakesQuiet ==
    ASSUME NEW h, NEW k, NEW S, Wakes(h, S), \A c \in 1..MaxOps : Waits(k, c) = Waits(h, c)
    PROVE  Wakes(k, S)
  BY DEF Wakes

\* A continuation falls asleep, with a reaction that will resume it.
LEMMA WakesSleep ==
    ASSUME NEW h, NEW k, NEW R, NEW S, NEW s, Joined(R, S, s), Wakes(h, S), s.id \in 1..MaxOps,
           \A t \in S : t.id # s.id,
           \A c \in (1..MaxOps) \ {s.id} : Waits(k, c) = Waits(h, c), Waits(k, s.id) = 1
    PROVE  Wakes(k, R)
  <1>1. R = S \cup {s}
    BY DEF Joined
  <1>2. ASSUME NEW c \in 1..MaxOps
        PROVE  /\ (\E t \in R : t.id = c) => Waits(k, c) = 1
               /\ (\A t \in R : t.id # c) => Waits(k, c) = 0
    <2>1. CASE c = s.id
      BY <1>1, <2>1
    <2>2. CASE c # s.id
      BY <1>1, <2>2 DEF Wakes
    <2> QED BY <2>1, <2>2
  <1> QED BY <1>2 DEF Wakes

\* A continuation is woken by the one job it had.
LEMMA WakesWake ==
    ASSUME NEW h, NEW k \in Heaps, NEW R, NEW S, NEW s, Joined(R, S, s), Wakes(h, R), NEW n, Sleepers(R, n),
           \A c \in (1..MaxOps) \ {s.id} : Waits(k, c) = Waits(h, c), Waits(h, s.id) = Waits(k, s.id) + 1
    PROVE  Wakes(k, S)
  <1>1. R = S \cup {s} /\ s \notin S /\ s \in R
    BY DEF Joined
  <1>2. s.id \in 1..MaxOps /\ \A t \in S : t.id # s.id
    BY <1>1 DEF Sleepers
  <1>3. Waits(k, s.id) = 0
    <2>1. Waits(h, s.id) = 1
      BY <1>1, <1>2 DEF Wakes
    <2>2. Waits(k, s.id) \in Nat
      BY HoldsType
    <2> QED BY <2>1, <2>2
  <1>4. ASSUME NEW c \in 1..MaxOps
        PROVE  /\ (\E t \in S : t.id = c) => Waits(k, c) = 1
               /\ (\A t \in S : t.id # c) => Waits(k, c) = 0
    <2>1. CASE c = s.id
      BY <1>2, <1>3, <2>1
    <2>2. CASE c # s.id
      BY <1>1, <2>2 DEF Wakes
    <2> QED BY <2>1, <2>2
  <1> QED BY <1>4 DEF Wakes

\* The continuations that stay asleep.
LEMMA SleepersLess ==
    ASSUME NEW R, NEW S, NEW s, Joined(R, S, s), NEW n, Sleepers(R, n)
    PROVE  Sleepers(S, n)
  BY DEF Sleepers, Joined

\* A continuation gets the next await id, which no other has.
LEMMA SleepersMore ==
    ASSUME NEW R, NEW S, NEW s, Joined(R, S, s), NEW n \in Nat, Sleepers(S, n),
           s \in [id : 1..MaxOps, promise : Ids], s.id = n + 1
    PROVE  Sleepers(R, n + 1) /\ \A t \in S : t.id # s.id
  <1>1. R = S \cup {s} /\ IsFiniteSet(S)
    BY DEF Joined
  <1>2. IsFiniteSet(R)
    BY <1>1, FS_AddElement
  <1>3. \A t \in S : t.id \in Nat /\ t.id <= n
    BY DEF Sleepers
  <1>4. \A t \in S : t.id # s.id /\ t.id <= n + 1
    BY <1>3
  <1>5. n + 1 <= n + 1
    OBVIOUS
  <1> QED BY <1>1, <1>2, <1>4, <1>5 DEF Sleepers

\* Nothing holds a promise that is not made yet.
LEMMA Unborn ==
    ASSUME NEW h, HeapInv(h), NEW st \in Seq(Frames), NEW S, IsFiniteSet(S), Owned(h, st, S),
           NEW q \in Ids, q > h.made
    PROVE  Total(h, st, S, q) = 0 /\ Holds(h, q) = 0 /\ Count(st, FramesOf(q)) = 0 /\ Cardinality(Asleep(S, q)) = 0
  <1>1. /\ Holds(h, q) \in Nat /\ Count(st, FramesOf(q)) \in Nat /\ Cardinality(Asleep(S, q)) \in Nat
    BY TotalType DEF HeapInv
  <1>2. Total(h, st, S, q) = 0
    BY DEF Owned
  <1> QED BY <1>1, <1>2 DEF Total

\* A promise is made, and nothing but itself needs it.
LEMMA OwnedBorn ==
    ASSUME NEW h, HeapInv(h), NEW st, NEW S, Owned(h, st, S),
           NEW k, HeapInv(k), Later(h, k), NEW n, n = h.made + 1, k.made = n,
           \A q \in Ids \ {n} : Holds(k, q) = Holds(h, q),
           Total(k, st, S, n) = 1 \/ ~ Pending(k, n) \/ n \in k.held \cup k.orphans
    PROVE  Owned(k, st, S)
  <1>1. h.made \in Nat /\ n \in Nat
    BY MadeIds
  <1>2. ASSUME NEW q \in Ids PROVE OwnedNext(h, st, S, k, st, S, q)
    <2>0. q \in Nat
      BY DEF Ids
    <2>1. CASE q # n
      <3>1. Total(k, st, S, q) = Total(h, st, S, q)
        BY <2>1, TotalSame
      <3>2. q <= h.made \/ q > k.made
        BY <1>1, <2>0, <2>1
      <3> QED BY <3>1, <3>2 DEF OwnedNext
    <2>2. CASE q = n
      BY <1>1, <2>2 DEF OwnedNext
    <2> QED BY <2>1, <2>2
  <1> QED BY <1>2, OwnedStep

\* A promise is made for a reaction that is registered.
LEMMA BornHeld ==
    ASSUME NEW h, HeapInv(h), NEW st \in Seq(Frames), NEW S, IsFiniteSet(S), Owned(h, st, S),
           NEW k, HeapInv(k), Later(h, k), NEW n, n = h.made + 1, k.made = n,
           \A q \in Ids \ {n} : Holds(k, q) = Holds(h, q),
           Holds(k, n) = Holds(h, n) + 1
    PROVE  Owned(k, st, S)
  <1>1. h.made \in Nat /\ n \in Ids /\ n > h.made /\ h \in Heaps /\ k \in Heaps
    <2>1. h.made \in Nat /\ k.made \in Nat /\ k.made <= MaxPromises /\ MaxPromises \in Nat /\ h \in Heaps /\ k \in Heaps
      BY MadeIds
    <2> QED BY <2>1 DEF Ids
  <1>2. Total(h, st, S, n) = 0
    BY <1>1, Unborn
  <1>3. 1 \in Nat
    OBVIOUS
  <1>4. Total(k, st, S, n) = Total(h, st, S, n) + 1
    BY <1>1, <1>3, TotalHeap
  <1>5. Total(k, st, S, n) = 1
    BY <1>2, <1>4
  <1> QED BY <1>5, OwnedBorn

\* A promise is made for a frame that is pushed.
LEMMA BornPush ==
    ASSUME NEW h, HeapInv(h), NEW st \in Seq(Frames), NEW S, IsFiniteSet(S), Owned(h, st, S),
           NEW k, HeapInv(k), Later(h, k), NEW n, n = h.made + 1, k.made = n,
           \A q \in Ids : Holds(k, q) = Holds(h, q),
           NEW f \in Frames, f.promise = n, Owner(f) \/ n \in k.held \cup k.orphans
    PROVE  Owned(k, Append(st, f), S)
  <1>1. h.made \in Nat /\ n \in Ids /\ n > h.made /\ h \in Heaps /\ k \in Heaps
    <2>1. h.made \in Nat /\ k.made \in Nat /\ k.made <= MaxPromises /\ MaxPromises \in Nat /\ h \in Heaps /\ k \in Heaps
      BY MadeIds
    <2> QED BY <2>1 DEF Ids
  <1>2. Total(h, st, S, n) = 0
    BY <1>1, Unborn
  <1>3. ASSUME NEW q \in Ids PROVE OwnedNext(h, st, S, k, Append(st, f), S, q)
    <2>1. q \in Nat
      BY DEF Ids
    <2>2. Total(k, Append(st, f), S, q) = Total(k, st, S, q) + In(f, FramesOf(q)) /\ Total(k, st, S, q) \in Nat
      BY <1>1, TotalPush, TotalType
    <2>3. Total(k, st, S, q) = Total(h, st, S, q)
      BY TotalSame
    <2>4. CASE q # n
      <3>1. In(f, FramesOf(q)) = 0
        BY <2>4, OwnerCounts
      <3>2. q <= h.made \/ q > k.made
        BY <1>1, <2>1, <2>4
      <3>3. Total(k, Append(st, f), S, q) = Total(h, st, S, q)
        BY <2>2, <2>3, <3>1
      <3> QED BY <3>2, <3>3 DEF OwnedNext
    <2>5. CASE q = n /\ Owner(f)
      <3>1. In(f, FramesOf(q)) = 1
        BY <2>5, OwnerCounts
      <3>2. Total(k, Append(st, f), S, q) = 1 /\ q <= k.made
        BY <1>1, <1>2, <2>2, <2>3, <2>5, <3>1
      <3> QED BY <3>2 DEF OwnedNext
    <2>6. CASE q = n /\ n \in k.held \cup k.orphans
      BY <1>1, <2>6 DEF OwnedNext
    <2> QED BY <2>4, <2>5, <2>6
  <1> QED BY <1>3, OwnedStep

\* The promises that jobs are to settle have been made.
LEMMA ServedMade ==
    ASSUME NEW h, HeapInv(h), NEW st \in Seq(Frames), NEW S, IsFiniteSet(S), Owned(h, st, S),
           h.jobs # <<>>, NEW p, Serves(Head(h.jobs), p)
    PROVE  p \in 1..h.made /\ p \in Ids
  <1>1. p \in Ids /\ Holds(h, p) = Holds(TakeJob(h), p) + 1 /\ Holds(TakeJob(h), p) \in Nat
    BY ServantTaken, TakeParts, HoldsType DEF HeapInv
  <1>2. ~ (p > h.made)
    BY <1>1, Unborn
  <1> QED BY <1>1, <1>2, MadeIds DEF Ids

\* So have those of the continuations.
LEMMA SleeperMade ==
    ASSUME NEW h, HeapInv(h), NEW st \in Seq(Frames), NEW R, NEW n, Sleepers(R, n), Owned(h, st, R), NEW s \in R
    PROVE  s.promise \in 1..h.made /\ s.promise \in Ids /\ IsFiniteSet(R)
  <1>1. s.promise \in Ids /\ IsFiniteSet(R)
    BY DEF Sleepers
  <1>2. Joined(R, R \ {s}, s) /\ IsFiniteSet(R \ {s})
    BY <1>1, JoinedAgain
  <1>3. Cardinality(Asleep(R, s.promise)) = Cardinality(Asleep(R \ {s}, s.promise)) + Mine(s, s.promise)
    BY <1>2, AsleepJoined
  <1>4. Cardinality(Asleep(R \ {s}, s.promise)) \in Nat /\ Mine(s, s.promise) = 1
    BY <1>2, AsleepFinite DEF Mine
  <1>5. ~ (s.promise > h.made)
    BY <1>1, <1>3, <1>4, Unborn
  <1> QED BY <1>1, <1>5, MadeIds DEF Ids

-----------------------------------------------------------------------------
\* A job gives the promise it was to settle to a new frame.
LEMMA ServePush ==
    ASSUME NEW h, HeapInv(h), NEW st \in Seq(Frames), NEW S, IsFiniteSet(S), Owned(h, st, S),
           NEW k, HeapInv(k), Later(h, k), k.made = h.made, NEW p \in 1..h.made,
           Holds(h, p) = Holds(k, p) + 1, \A q \in Ids \ {p} : Holds(k, q) = Holds(h, q),
           NEW f \in Frames, f.promise = p, Owner(f) \/ p \in k.held \cup k.orphans
    PROVE  Owned(k, Append(st, f), S)
  <1>1. h.made \in Nat /\ h \in Heaps /\ k \in Heaps
    BY MadeIds
  <1>2. ASSUME NEW q \in Ids PROVE OwnedNext(h, st, S, k, Append(st, f), S, q)
    <2>1. q \in Nat /\ (q <= h.made \/ q > k.made)
      BY <1>1 DEF Ids
    <2>2. Total(k, Append(st, f), S, q) = Total(k, st, S, q) + In(f, FramesOf(q)) /\ Total(k, st, S, q) \in Nat
      BY <1>1, TotalPush, TotalType
    <2>3. CASE q # p
      <3>1. In(f, FramesOf(q)) = 0 /\ Total(k, st, S, q) = Total(h, st, S, q)
        BY <2>3, OwnerCounts, TotalSame
      <3>2. Total(k, Append(st, f), S, q) = Total(h, st, S, q)
        BY <2>2, <3>1
      <3> QED BY <2>1, <3>2 DEF OwnedNext
    <2>4. CASE q = p /\ Owner(f)
      <3>1. In(f, FramesOf(q)) = 1
        BY <2>4, OwnerCounts
      <3>2. Total(h, st, S, q) = Total(k, st, S, q) + 1
        <4>1. 1 \in Nat /\ Holds(h, q) = Holds(k, q) + 1
          BY <2>4
        <4> QED BY <1>1, <4>1, TotalHeap
      <3>3. Total(k, Append(st, f), S, q) = Total(h, st, S, q)
        BY <2>2, <3>1, <3>2
      <3> QED BY <2>1, <3>3 DEF OwnedNext
    <2>5. CASE q = p /\ p \in k.held \cup k.orphans
      BY <1>1, <2>5 DEF OwnedNext
    <2> QED BY <2>3, <2>4, <2>5
  <1> QED BY <1>2, OwnedStep

\* A job, or whatever held it, has settled a promise.
LEMMA ServeSettle ==
    ASSUME NEW h, HeapInv(h), NEW st, NEW S, Owned(h, st, S),
           NEW k, HeapInv(k), Later(h, k), k.made = h.made, NEW p \in 1..h.made,
           \A q \in Ids \ {p} : Holds(k, q) = Holds(h, q), ~ Pending(k, p)
    PROVE  Owned(k, st, S)
  <1>1. h.made \in Nat
    BY MadeIds
  <1>2. ASSUME NEW q \in Ids PROVE OwnedNext(h, st, S, k, st, S, q)
    <2>1. q \in Nat /\ (q <= h.made \/ q > k.made)
      BY <1>1 DEF Ids
    <2>2. CASE q # p
      <3>1. Total(k, st, S, q) = Total(h, st, S, q)
        BY <2>2, TotalSame
      <3> QED BY <2>1, <3>1 DEF OwnedNext
    <2>3. CASE q = p
      BY <1>1, <2>3 DEF OwnedNext
    <2> QED BY <2>2, <2>3
  <1> QED BY <1>2, OwnedStep

\* The promise of a saved frame goes with the frame that is restored.
LEMMA WakePush ==
    ASSUME NEW h, HeapInv(h), NEW st \in Seq(Frames), NEW R, NEW S, NEW s, Joined(R, S, s), Owned(h, st, R),
           NEW f \in Frames, f.promise = s.promise, Owner(f)
    PROVE  Owned(h, Append(st, f), S)
  <1>1. h.made \in Nat /\ h \in Heaps /\ Later(h, h) /\ IsFiniteSet(S)
    BY MadeIds, LaterSame DEF Joined
  <1>2. ASSUME NEW q \in Ids PROVE OwnedNext(h, st, R, h, Append(st, f), S, q)
    <2>1. q \in Nat /\ (q <= h.made \/ q > h.made)
      BY <1>1 DEF Ids
    <2>2. Total(h, Append(st, f), S, q) = Total(h, st, S, q) + In(f, FramesOf(q)) /\ Total(h, st, S, q) \in Nat
      BY <1>1, TotalPush, TotalType
    <2>3. Total(h, st, R, q) = Total(h, st, S, q) + Mine(s, q)
      BY <1>1, TotalJoined
    <2>4. In(f, FramesOf(q)) = Mine(s, q)
      BY OwnerCounts DEF Mine
    <2> QED BY <2>1, <2>2, <2>3, <2>4 DEF OwnedNext
  <1> QED BY <1>1, <1>2, OwnedStep

\* A saved frame is gone, its promise settled.
LEMMA WakeSettle ==
    ASSUME NEW h, HeapInv(h), NEW st \in Seq(Frames), NEW R, NEW S, NEW s, Joined(R, S, s), Owned(h, st, R),
           s.promise \in 1..h.made, ~ Pending(h, s.promise)
    PROVE  Owned(h, st, S)
  <1>1. h.made \in Nat /\ h \in Heaps /\ Later(h, h) /\ IsFiniteSet(S)
    BY MadeIds, LaterSame DEF Joined
  <1>2. ASSUME NEW q \in Ids PROVE OwnedNext(h, st, R, h, st, S, q)
    <2>1. q \in Nat /\ (q <= h.made \/ q > h.made)
      BY <1>1 DEF Ids
    <2>2. Total(h, st, R, q) = Total(h, st, S, q) + Mine(s, q) /\ Total(h, st, S, q) \in Nat
      BY <1>1, TotalJoined, TotalType
    <2>3. CASE q # s.promise
      <3>1. Mine(s, q) = 0
        BY <2>3 DEF Mine
      <3> QED BY <2>1, <2>2, <3>1 DEF OwnedNext
    <2>4. CASE q = s.promise
      BY <1>1, <2>4 DEF OwnedNext
    <2> QED BY <2>3, <2>4
  <1> QED BY <1>1, <1>2, OwnedStep

\* The promise of a frame goes with the frame that is saved.
LEMMA SleepPop ==
    ASSUME NEW h, HeapInv(h), NEW st, Shape(st), st # <<>>, NEW R, NEW S, NEW s, Joined(R, S, s), Owned(h, st, S),
           Last(st).promise = s.promise, Owner(Last(st))
    PROVE  Owned(h, Front(st), R)
  <1>1. /\ h.made \in Nat /\ h \in Heaps /\ Later(h, h) /\ IsFiniteSet(S) /\ Last(st) \in Frames
        /\ Front(st) \in Seq(Frames)
    BY MadeIds, LaterSame, CodeFrame, LastFront DEF Joined, Shape
  <1>2. ASSUME NEW q \in Ids PROVE OwnedNext(h, st, S, h, Front(st), R, q)
    <2>1. q \in Nat /\ (q <= h.made \/ q > h.made)
      BY <1>1 DEF Ids
    <2>2. Total(h, st, S, q) = Total(h, Front(st), S, q) + In(Last(st), FramesOf(q)) /\ Total(h, Front(st), S, q) \in Nat
      BY <1>1, TotalPop, TotalType
    <2>3. Total(h, Front(st), R, q) = Total(h, Front(st), S, q) + Mine(s, q)
      BY <1>1, TotalJoined
    <2>4. In(Last(st), FramesOf(q)) = Mine(s, q)
      BY <1>1, OwnerCounts DEF Mine
    <2> QED BY <2>1, <2>2, <2>3, <2>4 DEF OwnedNext
  <1> QED BY <1>1, <1>2, OwnedStep

\* The frame whose Return drains the queue keeps its promise.
LEMMA OwnedReturn ==
    ASSUME NEW h, HeapInv(h), NEW st, NEW S, Owned(h, st, S), NEW t,
           \A p \in Ids : Count(t, FramesOf(p)) = Count(st, FramesOf(p))
    PROVE  Owned(h, t, S)
  BY DEF Owned, Total

\* promise_resolved leaves a promise alone, and makes one for anything else.
LEMMA WrappedParts ==
    ASSUME NEW h, HeapInv(h), NEW v \in Denoted(h), Wraps(v) => h.made < MaxPromises,
           NEW st \in Seq(Frames), NEW S, IsFiniteSet(S), Owned(h, st, S)
    PROVE  LET k == Wrapped(h, v)
           IN  /\ HeapInv(k) /\ Later(h, k) /\ Owned(k, st, S) /\ WrappedId(h, v) \in 1..k.made
               /\ \A c : Waits(k, c) = Waits(h, c)
               /\ Wraps(v) => k.made = h.made + 1
  <1> DEFINE k == Wrapped(h, v)
             n == h.made + 1
  <1>1. h \in Heaps /\ h.made \in Nat /\ 1..h.made \subseteq Ids
    BY MadeIds
  <1>2. CASE ~ Wraps(v)
    <2>1. k = h /\ WrappedId(h, v) = v /\ v \in 1..h.made
      BY <1>2 DEF Wrapped, WrappedId, Denoted, Wraps, Plain, Thenable, Ids
    <2> QED BY <1>1, <1>2, <2>1, LaterSame
  <1>3. CASE Wraps(v)
    <2> DEFINE g == New(h, "pending")
    <2>1. h.made < MaxPromises /\ "pending" \in {"pending", "fulfilled", "rejected"}
      BY <1>3
    <2>2. /\ HeapInv(g) /\ Later(h, g) /\ g.made = n /\ n \in 1..g.made /\ n \in Ids
          /\ g.reactions = h.reactions /\ g.jobs = h.jobs
      BY <2>1, NewKeeps
    <2>3. k = Resolve(g, n, v) /\ WrappedId(h, v) = n
      BY <1>3 DEF Wrapped, WrappedId, NewId
    <2> HIDE DEF g
    <2>4. Quiet(h, g)
      BY <2>2, QuietSame
    <2>5. v \in Denoted(g)
      <3>1. v \in {Plain, Thenable}
        BY <1>1, <1>3 DEF Wraps, Denoted
      <3> QED BY <3>1 DEF Denoted
    <2>6. Handed(g, Resolve(g, n, v), n)
      BY <2>2, <2>5, ResolveHands
    <2> HIDE DEF k
    <2>7. Handed(g, k, n)
      BY <2>3, <2>6
    <2> HIDE DEF n
    <2>8. /\ HeapInv(k) /\ Later(g, k) /\ k.made = n /\ \A q \in Ids \ {n} : Holds(k, q) = Holds(h, q)
          /\ \A c : Waits(k, c) = Waits(h, c)
          /\ Holds(k, n) = Holds(h, n) + 1 \/ ~ Pending(k, n)
      BY <2>2, <2>4, <2>7 DEF Handed, SameNames, Quiet
    <2>9. Later(h, k)
      <3>1. g \in Heaps /\ k \in Heaps
        BY <2>2, <2>8 DEF HeapInv
      <3> QED BY <1>1, <2>2, <2>8, <3>1, LaterTwice
    <2>10. Owned(k, st, S)
      <3>1. n = h.made + 1
        BY DEF n
      <3>2. CASE Holds(k, n) = Holds(h, n) + 1
        BY <2>8, <2>9, <3>1, <3>2, BornHeld
      <3>3. CASE ~ Pending(k, n)
        BY <2>8, <2>9, <3>1, <3>3, OwnedBorn
      <3> QED BY <2>8, <3>2, <3>3
    <2> QED BY <2>2, <2>3, <2>8, <2>9, <2>10 DEF k, n
  <1> QED BY <1>2, <1>3

-----------------------------------------------------------------------------
\* What Inv says of the variables, apart.
LEMMA InvParts ==
    ASSUME Inv
    PROVE  /\ HeapInv(heap) /\ heap \in Heaps /\ FramesOK(heap, stack) /\ Shape(stack) /\ stack \in Seq(Frames)
           /\ Owned(heap, stack, suspended) /\ Sleepers(suspended, awaits) /\ IsFiniteSet(suspended)
           /\ Wakes(heap, suspended)
           /\ heap.made \in Nat /\ 1..heap.made \subseteq Ids
           /\ Nameable \subseteq Denoted(heap) /\ heap.known \subseteq 1..heap.made
           /\ heap.held \cup heap.orphans \subseteq 1..heap.made
  <1>1. HeapInv(heap) /\ Shape(stack) /\ Sleepers(suspended, awaits)
    BY DEF Inv
  <1>2. heap.known \cup heap.held \cup heap.orphans \subseteq 1..heap.made
    BY <1>1 DEF HeapInv, Named
  <1>3. Nameable \subseteq Denoted(heap)
    BY <1>2 DEF Nameable, Denoted
  <1> QED BY <1>1, <1>2, <1>3, MadeIds DEF Inv, Shape, Sleepers

\* While a frame runs, the program has not ended.
LEMMA Alive ==
    ASSUME Inv, stack # <<>>
    PROVE  /\ outcome = "running" /\ Last(stack) \in Frames /\ FrameOK(heap, Last(stack))
           /\ FramesOK(heap, Front(stack)) /\ Shape(Front(stack)) /\ Front(stack) \in Seq(Frames)
           /\ Front(stack) # <<>> /\ IsReturning(Last(Front(stack))) => IsDrain(Last(stack))
           /\ IsBase(Last(stack)) => Front(stack) = <<>>
  <1>1. Shape(stack) /\ FramesOK(heap, stack) /\ Over
    BY DEF Inv
  <1> QED BY <1>1, CodeFrame, ShapePop, FramesPop, LastFront DEF Over, Shape

\* A frame of code on top is neither a drain nor one whose Return is under way.
LEMMA CodeTop ==
    ASSUME Inv, ~ Idle, Top.op \in CodeFrames
    PROVE  /\ stack # <<>> /\ Top = Last(stack) /\ outcome = "running" /\ Top \in Frames /\ FrameOK(heap, Top)
           /\ ~ IsReturning(Top) /\ ~ IsDrain(Top)
           /\ Front(stack) = <<>> \/ ~ IsReturning(Last(Front(stack)))
           /\ ~ IsMain(Top) => Top.promise # 0 /\ Top.promise \in 1..heap.made
  <1>1. /\ stack # <<>> /\ Top = Last(stack) /\ outcome = "running" /\ Top \in Frames /\ FrameOK(heap, Top)
        /\ Front(stack) # <<>> /\ IsReturning(Last(Front(stack))) => IsDrain(Top)
    BY Alive DEF Idle, Top
  <1>2. ~ IsReturning(Top) /\ ~ IsDrain(Top)
    BY DEF IsReturning, IsDrain, CodeFrames
  <1>3. IsMain(Top) \/ (Owner(Top) \/ Resolves(Top))
    BY DEF IsMain, Owner, Owners, Resolves, CodeFrames
  <1>4. ~ IsMain(Top) => Top.promise # 0 /\ Top.promise \in 1..heap.made
    <2> SUFFICES ASSUME ~ IsMain(Top) PROVE Top.promise # 0 /\ Top.promise \in 1..heap.made
      OBVIOUS
    <2> HIDE DEF Top
    <2>1. Top.promise # 0
      BY <1>1, <1>2 DEF FrameOK
    <2>2. Owner(Top) => Top.promise \in 1..heap.made
      BY <1>1, <2>1 DEF FrameOK
    <2>3. Resolves(Top) => Top.promise \in heap.held \cup heap.orphans
      BY <1>1 DEF FrameOK
    <2> QED BY <1>3, <2>1, <2>2, <2>3, InvParts
  <1> QED BY <1>1, <1>2, <1>4

\* The scalars keep their types over an operation.
LEMMA NumbersSame ==
    ASSUME Numbers, pendingErr' \in BOOLEAN, awaits' = awaits, ops' = ops \/ Operation, awaited' \in Ids \cup {0}
    PROVE  Numbers'
  <1>1. ops' = ops \/ (ops' = ops + 1 /\ ops < MaxOps)
    BY DEF Operation
  <1> QED BY <1>1, PromisesAssumption DEF Numbers

\* An operation that leaves the frame that performs it where it is.
LEMMA InPlaceStep ==
    ASSUME Inv, Operation, InPlace, HeapInv(heap'), Later(heap, heap'),
           Owned(heap', stack, suspended), \A c : Waits(heap', c) = Waits(heap, c)
    PROVE  Inv' /\ Later(heap, heap')
  <1>1. /\ stack' = stack /\ suspended' = suspended /\ pendingErr' = pendingErr /\ awaits' = awaits
        /\ awaited' = awaited /\ outcome' = outcome
    BY DEF InPlace, Local
  <1>2. ~ Idle /\ Top.op \in CodeFrames
    BY DEF Operation, CodeRuns
  <1>3. FramesOK(heap', stack')
    BY <1>1, FramesLater, InvParts
  <1>4. Shape(stack') /\ Owned(heap', stack', suspended') /\ Sleepers(suspended', awaits') /\ Wakes(heap', suspended')
    BY <1>1, InvParts, WakesQuiet
  <1>5. Drained(heap', stack')
    BY <1>1, <1>2, CodeTop DEF Drained
  <1>6. Numbers'
    BY <1>1, NumbersSame DEF Inv, Numbers
  <1>7. Over'
    BY <1>1, <1>2, CodeTop DEF Over, Outcomes
  <1> QED BY <1>3, <1>4, <1>5, <1>6, <1>7 DEF Inv

\* An operation that calls a function, whose frame f is pushed.
LEMMA CallStep ==
    ASSUME Inv, Operation, Local, HeapInv(heap'), Later(heap, heap'),
           NEW f \in Frames, stack' = Append(stack, f), FrameOK(heap', f), ~ IsMain(f), ~ IsDrain(f), ~ IsReturning(f),
           Owned(heap', stack', suspended), \A c : Waits(heap', c) = Waits(heap, c)
    PROVE  Inv' /\ Later(heap, heap')
  <1>1. /\ suspended' = suspended /\ pendingErr' = pendingErr /\ awaits' = awaits
        /\ awaited' = awaited /\ outcome' = outcome
    BY DEF Local
  <1>2. ~ Idle /\ Top.op \in CodeFrames
    BY DEF Operation, CodeRuns
  <1>3. Shape(stack') /\ stack' # <<>> /\ Last(stack') = f
    BY <1>2, CodeTop, InvParts, ShapePush
  <1>4. FramesOK(heap', stack')
    <2>1. FramesOK(heap', stack) /\ stack \in Seq(Frames)
      BY InvParts, FramesLater
    <2> QED BY <2>1, FramesPush
  <1>5. Owned(heap', stack', suspended') /\ Sleepers(suspended', awaits') /\ Wakes(heap', suspended')
    BY <1>1, InvParts, WakesQuiet
  <1>6. Drained(heap', stack')
    BY <1>3 DEF Drained
  <1>7. Numbers'
    BY <1>1, NumbersSame DEF Inv, Numbers
  <1>8. Over'
    BY <1>1, <1>2, CodeTop DEF Over, Outcomes
  <1> QED BY <1>3, <1>4, <1>5, <1>6, <1>7, <1>8 DEF Inv

\* new Promise(executor): the new promise is the executor's.
LEMMA ConstructorStep == ASSUME Inv, PromiseConstructor PROVE Inv' /\ Later(heap, heap')
  <1> DEFINE g == New(heap, "pending")
             n == heap.made + 1
             f == Frame("executor", n)
  <1>1. Operation /\ Local /\ heap.made < MaxPromises /\ heap' = Hold(g, n) /\ stack' = Append(stack, f)
    BY DEF PromiseConstructor, Fresh, NewId
  <1>2. /\ HeapInv(g) /\ Later(heap, g) /\ g.made = n /\ n \in 1..g.made /\ n \in Ids
        /\ g.reactions = heap.reactions /\ g.jobs = heap.jobs
    BY <1>1, InvParts, NewKeeps
  <1>3. /\ f \in Frames /\ ~ IsMain(f) /\ ~ IsDrain(f) /\ ~ IsReturning(f) /\ Resolves(f) /\ ~ Owner(f)
        /\ f.promise = n /\ f.value = Plain
    BY <1>2 DEF Frame, Frames, CodeFrames, Values, IsMain, IsDrain, IsReturning, Resolves, Owner, Owners
  <1> HIDE DEF g, n, f
  <1>4. /\ HeapInv(heap') /\ Later(g, heap') /\ Reachable(g, heap') /\ n \in heap'.held \cup heap'.orphans
    <2>1. HeapInv(Hold(g, n)) /\ Later(g, Hold(g, n)) /\ Reachable(g, Hold(g, n))
      BY <1>2, ReachKeeps
    <2>2. n \in Hold(g, n).held
      <3>1. g \in Heaps
        BY <1>2 DEF HeapInv
      <3> QED BY <3>1 DEF Hold, Heaps
    <2> QED BY <1>1, <2>1, <2>2
  <1>5. Later(heap, heap')
    BY <1>2, <1>4, InvParts, MadeIds, LaterTwice
  <1>6. Quiet(heap, heap') /\ heap'.made = n /\ n = heap.made + 1
    BY <1>2, <1>4, QuietSame DEF Reachable, n
  <1>7. FrameOK(heap', f)
    <2>1. n # 0
      BY <1>2 DEF Ids
    <2> QED BY <1>3, <1>4, <2>1 DEF FrameOK, Denoted
  <1>8. Owned(heap', Append(stack, f), suspended)
    BY <1>3, <1>4, <1>5, <1>6, InvParts, BornPush DEF Quiet
  <1> QED BY <1>1, <1>3, <1>4, <1>5, <1>6, <1>7, <1>8, CallStep DEF Quiet

\* An async function is called: the new promise is its frame's.
LEMMA CallAsyncStep == ASSUME Inv, CallAsync PROVE Inv' /\ Later(heap, heap')
  <1> DEFINE n == heap.made + 1
             f == Frame("async", n)
  <1>1. Operation /\ Local /\ heap.made < MaxPromises /\ heap' = New(heap, "pending") /\ stack' = Append(stack, f)
    BY DEF CallAsync, Fresh, NewId
  <1>2. /\ HeapInv(heap') /\ Later(heap, heap') /\ heap'.made = n /\ n \in 1..heap'.made /\ n \in Ids
        /\ heap'.reactions = heap.reactions /\ heap'.jobs = heap.jobs
    BY <1>1, InvParts, NewKeeps
  <1>3. /\ f \in Frames /\ ~ IsMain(f) /\ ~ IsDrain(f) /\ ~ IsReturning(f) /\ ~ Resolves(f) /\ Owner(f)
        /\ f.promise = n /\ f.value = Plain
    BY <1>2 DEF Frame, Frames, CodeFrames, Values, IsMain, IsDrain, IsReturning, Resolves, Owner, Owners
  <1>4. n = heap.made + 1
    OBVIOUS
  <1> HIDE DEF n, f
  <1>5. Quiet(heap, heap')
    BY <1>2, QuietSame
  <1>6. FrameOK(heap', f)
    <2>1. n # 0
      BY <1>2 DEF Ids
    <2> QED BY <1>2, <1>3, <2>1 DEF FrameOK, Denoted
  <1>7. Owned(heap', Append(stack, f), suspended)
    BY <1>2, <1>3, <1>4, <1>5, InvParts, BornPush DEF Quiet
  <1> QED BY <1>1, <1>2, <1>3, <1>5, <1>6, <1>7, CallStep DEF Quiet

\* A resolving function settles its promise, hands it on or does nothing.
LEMMA ResolvingStep == ASSUME Inv, CallResolvingFunction PROVE Inv' /\ Later(heap, heap')
  <1>1. Operation /\ InPlace
    BY DEF CallResolvingFunction
  <1>2. PICK p \in heap.held : \/ heap' = Settle(heap, p, TRUE)
                               \/ \E v \in Nameable : heap' = Resolve(heap, p, v)
    BY DEF CallResolvingFunction
  <1>3. p \in 1..heap.made /\ HeapInv(heap) /\ p \in heap.held \cup heap.orphans
    BY InvParts
  <1>4. Handed(heap, heap', p)
    <2>1. CASE heap' = Settle(heap, p, TRUE)
      BY <1>3, <2>1, SettleHands
    <2>2. ASSUME NEW v \in Nameable, heap' = Resolve(heap, p, v) PROVE Handed(heap, heap', p)
      <3>1. v \in Denoted(heap)
        BY InvParts
      <3> QED BY <1>3, <2>2, <3>1, ResolveHands
    <2> QED BY <1>2, <2>1, <2>2
  <1>5. Owned(heap', stack, suspended)
    BY <1>3, <1>4, InvParts, OwnedHeld
  <1> QED BY <1>1, <1>4, <1>5, InPlaceStep DEF Handed

-----------------------------------------------------------------------------
\* An operation that makes a promise and then shows it to the program.
LEMMA ShownStep ==
    ASSUME Inv, Operation, InPlace, NEW k, HeapInv(k), Later(heap, k), Owned(k, stack, suspended),
           \A c : Waits(k, c) = Waits(heap, c),
           NEW p \in 1..k.made, heap' = Show(k, p) \/ heap' = Orphan(k, p)
    PROVE  Inv' /\ Later(heap, heap')
  <1>1. HeapInv(heap') /\ Later(k, heap') /\ Reachable(k, heap')
    <2>1. heap' \in {Show(k, p), Hold(k, p), Orphan(k, p)}
      OBVIOUS
    <2> QED BY <2>1, ReachKeeps
  <1>2. Later(heap, heap')
    <2>1. heap \in Heaps /\ k \in Heaps /\ heap' \in Heaps
      BY <1>1, InvParts, MadeIds
    <2> QED BY <1>1, <2>1, LaterTwice
  <1>3. Quiet(k, heap') /\ heap'.made = k.made
    BY <1>1, QuietSame DEF Reachable
  <1>4. Owned(heap', stack, suspended) /\ \A c : Waits(heap', c) = Waits(heap, c)
    BY <1>1, <1>3, OwnedQuiet DEF Quiet
  <1> QED BY <1>1, <1>2, <1>4, InPlaceStep

\* The reaction that then() registers settles the new promise.
LEMMA ThenReaction ==
    ASSUME NEW n \in Ids, NEW h \in Handlers
    PROVE  [Follow(n) EXCEPT !.onFulfilled = h[1], !.onRejected = h[2]] \in Of(n)
  <1>1. h[1] \in HandlerKinds /\ h[2] \in HandlerKinds
    BY PromisesAssumption
  <1> QED BY <1>1 DEF Of, Follow, Reactions, ThenReactions

\* promise.then: the new promise is in the hands of the reaction registered, which
\* is the newest of them all.
LEMMA ThenStep == ASSUME Inv, PromiseThen PROVE Inv' /\ Later(heap, heap')
  <1> DEFINE n == heap.made + 1
  <1>1. Operation /\ InPlace /\ heap.made < MaxPromises
    BY DEF PromiseThen, Fresh
  <1>2. PICK p \in heap.known : \E h \in Handlers :
          heap' = Show(Register(New(heap, "pending"), p,
                                [Follow(n) EXCEPT !.onFulfilled = h[1], !.onRejected = h[2]]), n)
    BY DEF PromiseThen, NewId
  <1>3. PICK h \in Handlers :
          heap' = Show(Register(New(heap, "pending"), p,
                                [Follow(n) EXCEPT !.onFulfilled = h[1], !.onRejected = h[2]]), n)
    BY <1>2
  <1> DEFINE g == New(heap, "pending")
             r == [Follow(n) EXCEPT !.onFulfilled = h[1], !.onRejected = h[2]]
  <1>4. /\ HeapInv(g) /\ Later(heap, g) /\ g.made = n /\ n \in 1..g.made /\ n \in Ids
        /\ g.reactions = heap.reactions /\ g.jobs = heap.jobs
    BY <1>1, InvParts, NewKeeps
  <1>5. r \in Of(n)
    BY <1>4, ThenReaction
  <1>6. p \in 1..g.made
    <2>1. p \in 1..heap.made /\ heap.made \in Nat
      BY InvParts
    <2> QED BY <1>4, <2>1
  <1>7. Quiet(heap, g)
    BY <1>4, QuietSame
  <1>8. heap' = Show(Register(g, p, r), n)
    BY <1>3
  <1>9. n = heap.made + 1
    OBVIOUS
  <1> HIDE DEF g, r, n
  <1>10. \A q \in Ids : q >= n => Holds(heap, q) = 0
    <2> SUFFICES ASSUME NEW q \in Ids, q >= n PROVE Holds(heap, q) = 0
      OBVIOUS
    <2>1. q > heap.made
      BY <1>9, InvParts DEF Ids
    <2> QED BY <2>1, InvParts, Unborn
  <1>11. \A q \in Ids : q >= n => Holds(g, q) = 0
    BY <1>7, <1>10 DEF Quiet
  <1> DEFINE k == Register(g, p, r)
  <1>12. /\ HeapInv(k) /\ Later(g, k) /\ SameScalars(g, k)
         /\ \A q \in Ids \ {n} : Holds(k, q) = Holds(g, q)
         /\ \A c : Waits(k, c) = Waits(g, c)
         /\ Holds(k, n) = 1
    BY <1>4, <1>5, <1>6, <1>11, ThenRegisters
  <1>13. heap' = Show(k, n)
    BY <1>8
  <1> HIDE DEF k
  <1>14. Later(heap, k)
    BY <1>4, <1>12, InvParts, MadeIds, LaterTwice
  <1>15. k.made = n /\ n \in 1..k.made
    BY <1>4, <1>12 DEF SameScalars
  <1>16. /\ \A q \in Ids \ {n} : Holds(k, q) = Holds(heap, q)
         /\ \A c : Waits(k, c) = Waits(heap, c)
         /\ Holds(heap, n) = 0
    <2>1. n >= n
      BY <1>9, InvParts
    <2> QED BY <1>4, <1>7, <1>10, <1>12, <2>1 DEF Quiet
  <1>17. Holds(k, n) = Holds(heap, n) + 1
    BY <1>12, <1>16
  <1>18. Owned(k, stack, suspended)
    BY <1>9, <1>12, <1>14, <1>15, <1>16, <1>17, InvParts, BornHeld
  <1> QED BY <1>1, <1>12, <1>13, <1>14, <1>15, <1>16, <1>18, ShownStep

\* Promise.resolve: the new promise is settled, or in the hands of a thenable's job.
LEMMA ResolveStep == ASSUME Inv, PromiseResolve PROVE Inv' /\ Later(heap, heap')
  <1>1. Operation /\ InPlace /\ heap.made < MaxPromises
    BY DEF PromiseResolve, Fresh
  <1>2. PICK v \in {Plain, Thenable} : heap' = Show(Wrapped(heap, v), NewId(heap))
    BY DEF PromiseResolve
  <1>3. v \in Denoted(heap) /\ Wraps(v)
    BY DEF Denoted, Wraps, Ids, Plain, Thenable
  <1> DEFINE k == Wrapped(heap, v)
  <1>4. /\ HeapInv(k) /\ Later(heap, k) /\ Owned(k, stack, suspended) /\ WrappedId(heap, v) \in 1..k.made
        /\ \A c : Waits(k, c) = Waits(heap, c)
    BY <1>1, <1>3, InvParts, WrappedParts
  <1>5. heap' = Show(k, WrappedId(heap, v))
    BY <1>2, <1>3 DEF WrappedId
  <1> HIDE DEF k
  <1> QED BY <1>1, <1>4, <1>5, ShownStep

\* A promise that is born settled, or that Promise.all leaves to nobody.
LEMMA BornStep ==
    ASSUME Inv, Operation, InPlace, heap.made < MaxPromises, NEW s \in {"pending", "fulfilled", "rejected"},
           \/ s # "pending" /\ heap' = Show(New(heap, s), heap.made + 1)
           \/ s = "pending" /\ heap' = Orphan(Show(New(heap, s), heap.made + 1), heap.made + 1)
    PROVE  Inv' /\ Later(heap, heap')
  <1> DEFINE n == heap.made + 1
             g == New(heap, s)
  <1>1. /\ HeapInv(g) /\ Later(heap, g) /\ g.made = n /\ n \in 1..g.made /\ n \in Ids
        /\ g.reactions = heap.reactions /\ g.jobs = heap.jobs /\ g.state[n] = s
    BY InvParts, NewKeeps
  <1>2. \/ s # "pending" /\ heap' = Show(g, n)
        \/ s = "pending" /\ heap' = Orphan(Show(g, n), n)
    OBVIOUS
  <1>3. n = heap.made + 1
    OBVIOUS
  <1> HIDE DEF n, g
  <1>4. Quiet(heap, g)
    BY <1>1, QuietSame
  <1>5. CASE s # "pending" /\ heap' = Show(g, n)
    <2>1. ~ Pending(g, n)
      BY <1>1, <1>5 DEF Pending
    <2>2. Owned(g, stack, suspended)
      BY <1>1, <1>3, <1>4, <2>1, InvParts, OwnedBorn DEF Quiet
    <2>3. heap' = Show(g, n) \/ heap' = Orphan(g, n)
      BY <1>5
    <2> QED BY <1>1, <1>4, <2>2, <2>3, ShownStep DEF Quiet
  <1>6. CASE s = "pending" /\ heap' = Orphan(Show(g, n), n)
    <2> DEFINE m == Show(g, n)
    <2>1. HeapInv(m) /\ Later(g, m) /\ Reachable(g, m)
      BY <1>1, ReachKeeps
    <2>2. heap' = Orphan(m, n)
      BY <1>6
    <2> HIDE DEF m
    <2>3. n \in 1..m.made /\ m.made = n
      BY <1>1, <2>1 DEF Reachable
    <2> DEFINE k == Orphan(m, n)
    <2>4. HeapInv(k) /\ Later(m, k) /\ Reachable(m, k)
      BY <2>1, <2>3, ReachKeeps
    <2>5. n \in k.orphans
      <3>1. m \in Heaps
        BY <2>1 DEF HeapInv
      <3> QED BY <3>1 DEF Orphan, Heaps
    <2>6. heap' = k
      BY <2>2
    <2> HIDE DEF k
    <2>7. Later(heap, m) /\ Later(heap, k)
      BY <1>1, <2>1, <2>4, InvParts, MadeIds, LaterTwice
    <2>8. Quiet(g, m) /\ Quiet(m, k) /\ k.made = n
      BY <2>1, <2>3, <2>4, QuietSame DEF Reachable
    <2>9. (\A q : Holds(k, q) = Holds(heap, q)) /\ (\A c : Waits(k, c) = Waits(heap, c))
      BY <1>4, <2>8 DEF Quiet
    <2>10. Owned(k, stack, suspended)
      <3>1. n \in k.held \cup k.orphans
        BY <2>5
      <3> QED BY <1>1, <1>3, <2>4, <2>7, <2>8, <2>9, <3>1, InvParts, OwnedBorn
    <2> QED BY <2>4, <2>6, <2>7, <2>9, <2>10, InPlaceStep
  <1> QED BY <1>2, <1>5, <1>6

\* Promise.reject: the new promise is rejected.
LEMMA RejectStep == ASSUME Inv, PromiseReject PROVE Inv' /\ Later(heap, heap')
  <1>1. Operation /\ InPlace /\ heap.made < MaxPromises /\ heap' = Show(New(heap, "rejected"), heap.made + 1)
    BY DEF PromiseReject, Fresh, NewId
  <1> QED BY <1>1, BornStep

\* Promise.all: the new promise is settled, or nobody's.
LEMMA AllStep == ASSUME Inv, PromiseAll PROVE Inv' /\ Later(heap, heap')
  <1>1. Operation /\ InPlace /\ heap.made < MaxPromises
    BY DEF PromiseAll, Fresh
  <1>2. PICK d \in heap.known :
          heap' = IF heap.state[d] = "pending"
                    THEN [Show(New(heap, heap.state[d]), NewId(heap)) EXCEPT !.orphans = @ \cup {NewId(heap)}]
                    ELSE Show(New(heap, heap.state[d]), NewId(heap))
    <2>1. PICK p \in heap.known : \E q \in heap.known :
            LET decides == IF heap.state[p] = "fulfilled" THEN q ELSE p
                made    == Show(New(heap, heap.state[decides]), NewId(heap))
            IN  heap' = IF heap.state[decides] = "pending"
                          THEN [made EXCEPT !.orphans = @ \cup {NewId(heap)}]
                          ELSE made
      BY DEF PromiseAll
    <2>2. PICK q \in heap.known :
            LET decides == IF heap.state[p] = "fulfilled" THEN q ELSE p
                made    == Show(New(heap, heap.state[decides]), NewId(heap))
            IN  heap' = IF heap.state[decides] = "pending"
                          THEN [made EXCEPT !.orphans = @ \cup {NewId(heap)}]
                          ELSE made
      BY <2>1
    <2>3. CASE heap.state[p] = "fulfilled"
      BY <2>2, <2>3
    <2>4. CASE heap.state[p] # "fulfilled"
      BY <2>2, <2>4
    <2> QED BY <2>3, <2>4
  <1> DEFINE s == heap.state[d]
  <1>3. s \in {"pending", "fulfilled", "rejected"}
    <2>1. d \in 1..heap.made /\ d \in Ids
      BY InvParts
    <2> QED BY <2>1, InvParts, MadeIds DEF Pending, Decided
  <1>4. \/ s # "pending" /\ heap' = Show(New(heap, s), heap.made + 1)
        \/ s = "pending" /\ heap' = Orphan(Show(New(heap, s), heap.made + 1), heap.made + 1)
    BY <1>2 DEF Orphan, NewId
  <1> HIDE DEF s
  <1> QED BY <1>1, <1>3, <1>4, BornStep

-----------------------------------------------------------------------------
\* A step that pops a frame other than a drain.
LEMMA PopStep ==
    ASSUME Inv, stack # <<>>, ~ IsDrain(Last(stack)), stack' = Front(stack),
           HeapInv(heap'), Later(heap, heap'), Owned(heap', Front(stack), suspended'),
           Sleepers(suspended', awaits'), Wakes(heap', suspended'), Numbers', Over'
    PROVE  Inv' /\ Later(heap, heap')
  <1>1. FramesOK(heap', Front(stack)) /\ Shape(Front(stack))
    BY Alive, InvParts, FramesLater
  <1>2. Drained(heap', Front(stack))
    BY Alive DEF Drained
  <1> QED BY <1>1, <1>2 DEF Inv

\* The promise of a frame is shown to the program by the frame's creator, or not.
LEMMA Revealed ==
    ASSUME NEW h, HeapInv(h), NEW f, f.promise # 0 => f.promise \in 1..h.made,
           NEW st, NEW S, Owned(h, st, S)
    PROVE  LET k == Reveal(h, f)
           IN  /\ HeapInv(k) /\ Later(h, k) /\ Quiet(h, k) /\ k.jobs = h.jobs /\ k.made = h.made
               /\ Owned(k, st, S)
  <1> DEFINE k == Reveal(h, f)
  <1>1. CASE k = Show(h, f.promise) /\ f.promise # 0
    <2> HIDE DEF k
    <2>1. HeapInv(k) /\ Later(h, k) /\ Reachable(h, k)
      <3>1. k \in {Show(h, f.promise), Hold(h, f.promise), Orphan(h, f.promise)}
        BY <1>1
      <3> QED BY <1>1, <3>1, ReachKeeps
    <2>2. Quiet(h, k) /\ k.made = h.made /\ k.jobs = h.jobs
      BY <2>1, QuietSame DEF Reachable
    <2>3. Owned(k, st, S)
      BY <2>1, <2>2, OwnedQuiet DEF Quiet
    <2> QED BY <2>1, <2>2, <2>3 DEF k
  <1>2. CASE k = h
    <2> HIDE DEF k
    <2>1. Later(h, h)
      BY LaterSame DEF HeapInv
    <2> QED BY <1>2, <2>1 DEF Quiet, k
  <1>3. k = h \/ (k = Show(h, f.promise) /\ f.promise # 0)
    BY DEF Reveal
  <1> QED BY <1>1, <1>2, <1>3

\* The ids of continuations that have not been given out yet.
LEMMA NoWaits ==
    ASSUME Inv, NEW o \in 1..MaxOps, o > awaits
    PROVE  Waits(heap, o) = 0
  <1>1. Sleepers(suspended, awaits) /\ Wakes(heap, suspended)
    BY InvParts
  <1>2. \A s \in suspended : s.id # o
    <2> SUFFICES ASSUME NEW s \in suspended PROVE s.id # o
      OBVIOUS
    <2>1. s.id <= awaits /\ s.id \in 1..MaxOps
      BY <1>1 DEF Sleepers
    <2>2. awaits \in Nat
      BY DEF Inv, Numbers
    <2> QED BY <2>1, <2>2
  <1> QED BY <1>1, <1>2 DEF Wakes

\* Await in an async function: the frame's promise goes to a continuation with a new
\* id, and one reaction is registered to resume it.
LEMMA AwaitStep == ASSUME Inv, Await PROVE Inv' /\ Later(heap, heap')
  <1> DEFINE c == awaits + 1
             s == [id |-> c, promise |-> Top.promise]
             r == Continue(c)
             S == suspended
             R == suspended'
  <1>1. /\ Operation /\ Top.op = "async" /\ stack' = Front(stack) /\ awaits' = c /\ R = S \cup {s}
        /\ pendingErr' = pendingErr /\ awaited' = awaited /\ outcome' = outcome
    BY DEF Await, NextContinuation
  <1>2. PICK v \in Nameable : /\ Wraps(v) => heap.made < MaxPromises
                              /\ heap' = Reveal(Register(Wrapped(heap, v), WrappedId(heap, v), r), Top)
    BY DEF Await, NextContinuation, Fresh
  <1>3. ~ Idle /\ Top.op \in CodeFrames /\ ops < MaxOps /\ ops' = ops + 1
    BY <1>1 DEF Operation, CodeRuns
  <1>4. /\ stack # <<>> /\ Top = Last(stack) /\ outcome = "running" /\ Top \in Frames
        /\ ~ IsDrain(Top) /\ Top.promise # 0 /\ Top.promise \in 1..heap.made
    <2>1. ~ IsMain(Top)
      BY <1>1 DEF IsMain
    <2> QED BY <1>3, <2>1, CodeTop
  <1>5. c \in 1..MaxOps /\ awaits \in Nat /\ c = awaits + 1 /\ c <= ops + 1
    <2>1. Numbers /\ MaxOps \in Nat
      BY PromisesAssumption DEF Inv
    <2> QED BY <1>3, <2>1 DEF Numbers
  <1>6. r \in AwaitsOf(c)
    BY <1>5 DEF AwaitsOf, Reactions, AwaitReactions, Continue
  <1> DEFINE g == Wrapped(heap, v)
             i == WrappedId(heap, v)
  <1>7. /\ HeapInv(g) /\ Later(heap, g) /\ Owned(g, stack, S) /\ i \in 1..g.made
        /\ \A o : Waits(g, o) = Waits(heap, o)
    <2>1. v \in Denoted(heap)
      BY InvParts
    <2> QED BY <1>2, <2>1, InvParts, WrappedParts
  <1> DEFINE k == Register(g, i, r)
  <1>8. heap' = Reveal(k, Top)
    BY <1>2
  <1>9. /\ s.id = c /\ s.promise = Top.promise
    OBVIOUS
  <1> HIDE DEF g, i, r, c, s
  <1>10. \A o \in 1..MaxOps : o >= c => Waits(g, o) = 0
    <2> SUFFICES ASSUME NEW o \in 1..MaxOps, o >= c PROVE Waits(heap, o) = 0
      BY <1>7
    <2>1. o > awaits
      BY <1>5
    <2> QED BY <2>1, NoWaits
  <1>11. /\ HeapInv(k) /\ Later(g, k) /\ SameScalars(g, k)
         /\ \A q : Holds(k, q) = Holds(g, q)
         /\ \A o \in (1..MaxOps) \ {c} : Waits(k, o) = Waits(g, o)
         /\ Waits(k, c) = 1
    BY <1>5, <1>6, <1>7, <1>10, AwaitRegisters
  <1> HIDE DEF k
  <1>12. Later(heap, k) /\ k.made \in Nat /\ heap.made <= k.made
    <2>1. Later(heap, k)
      BY <1>7, <1>11, InvParts, MadeIds, LaterTwice
    <2> QED BY <1>11, <2>1, MadeIds DEF Later
  <1>13. Owned(k, stack, S)
    BY <1>7, <1>11, OwnedQuiet DEF SameScalars
  <1>14. Top.promise \in 1..k.made /\ Top.promise \in Ids
    <2>1. heap.made \in Nat
      BY InvParts
    <2>2. Top.promise \in 1..k.made
      BY <1>4, <1>12, <2>1
    <2>3. 1..k.made \subseteq Ids
      BY <1>11, MadeIds
    <2> QED BY <2>2, <2>3
  <1>15. s \in [id : 1..MaxOps, promise : Ids] /\ s.id = awaits + 1
    BY <1>5, <1>9, <1>14 DEF s
  <1>16. s \notin S
    <2> SUFFICES ASSUME s \in S PROVE FALSE
      OBVIOUS
    <2>1. s.id <= awaits
      BY InvParts DEF Sleepers
    <2> QED BY <1>5, <1>15, <2>1
  <1>17. Joined(R, S, s)
    BY <1>1, <1>16, InvParts DEF Joined
  <1> HIDE DEF R, S
  <1>18. Sleepers(S, awaits) /\ Wakes(heap, S)
    BY InvParts DEF S
  <1>19. Sleepers(R, awaits + 1) /\ \A t \in S : t.id # s.id
    BY <1>5, <1>15, <1>17, <1>18, SleepersMore
  <1>20. Owned(k, Front(stack), R)
    <2>1. Owner(Last(stack)) /\ Last(stack).promise = s.promise
      BY <1>1, <1>4, <1>9 DEF Owner, Owners
    <2> QED BY <1>4, <1>11, <1>13, <1>17, <2>1, InvParts, SleepPop
  <1>21. Wakes(k, R)
    <2>1. \A o \in (1..MaxOps) \ {s.id} : Waits(k, o) = Waits(heap, o)
      BY <1>7, <1>9, <1>11
    <2>2. Waits(k, s.id) = 1 /\ s.id \in 1..MaxOps
      BY <1>5, <1>9, <1>11
    <2> QED BY <1>17, <1>18, <1>19, <2>1, <2>2, WakesSleep
  <1>22. HeapInv(heap') /\ Later(k, heap') /\ Quiet(k, heap') /\ Owned(heap', Front(stack), R)
    BY <1>8, <1>11, <1>14, <1>20, Revealed
  <1>23. Later(heap, heap')
    BY <1>11, <1>12, <1>22, InvParts, MadeIds, LaterTwice
  <1>24. Wakes(heap', R)
    BY <1>21, <1>22, WakesQuiet DEF Quiet
  <1>25. Numbers'
    <2>1. /\ pendingErr' \in BOOLEAN /\ awaited' \in Ids \cup {0}
      BY <1>1 DEF Inv, Numbers
    <2>2. ops \in Nat /\ MaxOps \in Nat
      BY PromisesAssumption DEF Inv, Numbers
    <2> QED BY <1>1, <1>3, <1>5, <2>1, <2>2 DEF Numbers
  <1>26. Over'
    BY <1>1, <1>4 DEF Over, Outcomes
  <1>27. Sleepers(R, awaits')
    BY <1>1, <1>5, <1>19
  <1> QED BY <1>1, <1>4, <1>22, <1>23, <1>24, <1>25, <1>26, <1>27, PopStep DEF R

\* Await in main: the stack is empty, and the host watches the promise.
LEMMA AwaitMainStep == ASSUME Inv, AwaitInMain PROVE Inv' /\ Later(heap, heap')
  <1>1. /\ Operation /\ Top.op = "main" /\ stack' = <<>> /\ suspended' = suspended /\ pendingErr' = pendingErr
        /\ awaits' = awaits /\ outcome' = outcome
    BY DEF AwaitInMain
  <1>2. PICK v \in Nameable : /\ Wraps(v) => heap.made < MaxPromises
                              /\ heap' = Wrapped(heap, v) /\ awaited' = WrappedId(heap, v)
    BY DEF AwaitInMain, Fresh
  <1>3. ~ Idle /\ Top.op \in CodeFrames
    BY <1>1 DEF Operation, CodeRuns
  <1>4. stack # <<>> /\ Top = Last(stack) /\ outcome = "running" /\ ~ IsDrain(Top)
    BY <1>3, CodeTop
  <1>5. IsBase(Last(stack)) /\ ~ Owner(Last(stack))
    BY <1>1, <1>4 DEF IsBase, IsMain, Owner, Owners
  <1>6. stack' = Front(stack)
    BY <1>1, <1>4, <1>5, Alive
  <1>7. /\ HeapInv(heap') /\ Later(heap, heap') /\ Owned(heap', stack, suspended) /\ awaited' \in 1..heap'.made
        /\ \A o : Waits(heap', o) = Waits(heap, o)
    <2>1. v \in Denoted(heap)
      BY InvParts
    <2> QED BY <1>2, <2>1, InvParts, WrappedParts
  <1>8. Owned(heap', Front(stack), suspended)
    BY <1>4, <1>5, <1>7, InvParts, OwnedDrop
  <1>9. Wakes(heap', suspended) /\ Sleepers(suspended, awaits)
    BY <1>7, InvParts, WakesQuiet
  <1>10. Numbers'
    <2>1. awaited' \in Ids \cup {0} /\ pendingErr' \in BOOLEAN
      BY <1>1, <1>7, MadeIds DEF Inv, Numbers
    <2>2. Numbers
      BY DEF Inv
    <2> QED BY <1>1, <2>1, <2>2, NumbersSame
  <1>11. Over'
    BY <1>1, <1>4 DEF Over, Outcomes
  <1> QED BY <1>1, <1>4, <1>6, <1>7, <1>8, <1>9, <1>10, <1>11, PopStep

-----------------------------------------------------------------------------
\* The promise of a frame has been made.
LEMMA FramePromise ==
    ASSUME NEW h, HeapInv(h), NEW f \in Frames, FrameOK(h, f), f.promise # 0
    PROVE  f.promise \in 1..h.made
  <1>1. IsMain(f) \/ IsDrain(f) \/ Owner(f) \/ Resolves(f)
    BY DEF Frames, CodeFrames, IsMain, IsDrain, Owner, Owners, Resolves
  <1>2. ~ IsMain(f) /\ ~ IsDrain(f)
    BY DEF FrameOK
  <1>3. h.held \cup h.orphans \subseteq 1..h.made
    BY DEF HeapInv, Named
  <1>4. Resolves(f) => f.promise \in 1..h.made
    BY <1>3 DEF FrameOK
  <1>5. Owner(f) => f.promise \in 1..h.made
    BY DEF FrameOK
  <1> QED BY <1>1, <1>2, <1>4, <1>5

\* What the creator of the frame on top does with the value that it returns.
LEMMA ReturnedKeeps ==
    ASSUME Inv, stack # <<>>, NEW f, f.promise = Last(stack).promise, f.op = Last(stack).op,
           f.value \in Denoted(heap)
    PROVE  LET k == Returned(heap, f)
           IN  /\ HeapInv(k) /\ Later(heap, k) /\ Owned(k, Front(stack), suspended)
               /\ \A o : Waits(k, o) = Waits(heap, o)
               /\ f.promise = 0 => k.jobs = heap.jobs
  <1>1. Last(stack) \in Frames /\ FrameOK(heap, Last(stack)) /\ HeapInv(heap)
    BY Alive, InvParts
  <1>2. f.promise # 0 => f.promise \in 1..heap.made
    BY <1>1, FramePromise
  <1>3. CASE f.promise # 0 /\ Owner(f)
    <2> DEFINE g == Resolve(heap, f.promise, f.value)
    <2>1. Handed(heap, g, f.promise)
      BY <1>1, <1>2, <1>3, ResolveHands
    <2>2. Returned(heap, f) = Reveal(g, f)
      BY <1>3 DEF Returned, Owner, Owners
    <2> HIDE DEF g
    <2>3. HeapInv(g) /\ Later(heap, g) /\ g.made = heap.made /\ \A o : Waits(g, o) = Waits(heap, o)
      BY <2>1 DEF Handed, SameNames
    <2>4. Owned(g, Front(stack), suspended)
      BY <1>3, <2>1, InvParts, OwnedPop
    <2> DEFINE k == Reveal(g, f)
    <2>5. HeapInv(k) /\ Later(g, k) /\ Quiet(g, k) /\ Owned(k, Front(stack), suspended)
      BY <1>2, <1>3, <2>3, <2>4, Revealed
    <2> HIDE DEF k
    <2>6. Later(heap, k)
      BY <1>1, <2>3, <2>5, MadeIds, LaterTwice
    <2>7. \A o : Waits(k, o) = Waits(heap, o)
      BY <2>3, <2>5 DEF Quiet
    <2>8. Returned(heap, f) = k
      BY <2>2 DEF k
    <2> QED BY <1>3, <2>5, <2>6, <2>7, <2>8
  <1>4. CASE f.promise = 0 \/ ~ Owner(f)
    <2>1. Returned(heap, f) = Reveal(heap, f)
      BY <1>4 DEF Returned, Owner, Owners
    <2>2. Owned(heap, Front(stack), suspended)
      <3>1. Last(stack).promise = 0 \/ ~ Owner(Last(stack))
        BY <1>4 DEF Owner
      <3> QED BY <3>1, InvParts, OwnedDrop
    <2> DEFINE k == Reveal(heap, f)
    <2>3. HeapInv(k) /\ Later(heap, k) /\ Quiet(heap, k) /\ k.jobs = heap.jobs /\ Owned(k, Front(stack), suspended)
      BY <1>1, <1>2, <2>2, Revealed
    <2> HIDE DEF k
    <2>4. Returned(heap, f) = k
      BY <2>1 DEF k
    <2> QED BY <2>3, <2>4 DEF Quiet
  <1> QED BY <1>3, <1>4

\* A step that neither saves a frame nor resumes one.
LEMMA Promptly ==
    ASSUME Inv, HeapInv(heap'), \A o : Waits(heap', o) = Waits(heap, o), suspended' = suspended, awaits' = awaits
    PROVE  Sleepers(suspended', awaits') /\ Wakes(heap', suspended')
  BY InvParts, WakesQuiet

\* Return: the only call frame stays below a drain of the queue, any other is popped
\* and its promise resolved.
LEMMA ReturnStep == ASSUME Inv, Return PROVE Inv' /\ Later(heap, heap')
  <1>1. /\ ~ Idle /\ Top.op \in CodeFrames /\ ops' = ops
        /\ suspended' = suspended /\ pendingErr' = pendingErr /\ awaits' = awaits /\ awaited' = awaited
        /\ outcome' = outcome
    BY DEF Return, CodeRuns, Local
  <1>2. PICK v \in Denoted(heap) : ReturnFrom([Top EXCEPT !.value = v])
    <2>1. Nameable \subseteq Denoted(heap) /\ {Plain} \subseteq Denoted(heap)
      BY InvParts DEF Denoted
    <2>2. PICK v \in IF Top.op \in {"async", "reaction"} THEN Nameable ELSE {Plain} :
            ReturnFrom([Top EXCEPT !.value = v])
      BY DEF Return
    <2>3. v \in Denoted(heap)
      BY <2>1, <2>2
    <2> QED BY <2>2, <2>3
  <1> DEFINE f == [Top EXCEPT !.value = v]
  <1>3. /\ stack # <<>> /\ Top = Last(stack) /\ outcome = "running" /\ Top \in Frames /\ FrameOK(heap, Top)
        /\ ~ IsDrain(Top) /\ ~ IsReturning(Top)
    BY <1>1, CodeTop
  <1>4. v \in Values
    BY InvParts, <1>2 DEF Denoted, Values
  <1>5. f \in Frames /\ f.promise = Top.promise /\ f.op = Top.op /\ f.value = v
    BY <1>3, <1>4 DEF Frames
  <1>6. ReturnFrom(f)
    BY <1>2
  <1> HIDE DEF f
  <1>7. Numbers' /\ Over'
    <2>1. Numbers'
      BY <1>1, NumbersSame DEF Inv, Numbers
    <2> QED BY <1>1, <1>3, <2>1 DEF Over, Outcomes
  <1>8. CASE OnlyCallFrame
    <2> DEFINE g == [f EXCEPT !.op = "returning"]
               t == Front(stack) \o <<g, Drain>>
    <2>1. stack' = t /\ heap' = heap
      BY <1>6, <1>8 DEF ReturnFrom
    <2>2. g \in Frames /\ IsReturning(g) /\ g.promise = Top.promise /\ g.value = v
      BY <1>5 DEF Frames, IsReturning
    <2> HIDE DEF g
    <2>3. IsMain(Top) \/ IsAsync(Top)
      BY <1>8 DEF OnlyCallFrame, IsMain, IsAsync
    <2>4. \A i \in 1..(Len(stack) - 1) : IsDrain(stack[i])
      BY <1>8 DEF OnlyCallFrame, IsDrain
    <2>5. Shape(t) /\ t # <<>> /\ Last(t) = Drain /\ \A p \in Ids : Count(t, FramesOf(p)) = Count(stack, FramesOf(p))
      BY <1>3, <2>2, <2>3, <2>4, InvParts, ShapeReturn
    <2>6. Drain \in Frames /\ IsDrain(Drain) /\ ~ IsReturning(Drain) /\ Drain.promise = 0 /\ Drain.value = Plain
      BY DEF Drain, Frame, Frames, Values, IsDrain, IsReturning
    <2>7. FrameOK(heap, g)
      <3>1. ~ IsMain(g) /\ ~ IsDrain(g) /\ ~ Resolves(g)
        BY <2>2 DEF IsReturning, IsMain, IsDrain, Resolves
      <3>2. g.promise # 0 => g.promise \in 1..heap.made
        BY <1>3, <2>2, InvParts, FramePromise
      <3> QED BY <1>2, <2>2, <3>1, <3>2 DEF FrameOK
    <2>8. FrameOK(heap, Drain)
      <3>1. ~ Owner(Drain) /\ ~ Resolves(Drain)
        BY <2>6 DEF IsDrain, Owner, Owners, Resolves
      <3> QED BY <2>6, <3>1 DEF FrameOK, Denoted
    <2>9. FramesOK(heap, t)
      <3>1. Front(stack) \in Seq(Frames) /\ FramesOK(heap, Front(stack))
        BY <1>3, Alive
      <3>2. FramesOK(heap, Append(Front(stack), g)) /\ Append(Front(stack), g) \in Seq(Frames)
        BY <2>2, <2>7, <3>1, FramesPush
      <3>3. FramesOK(heap, Append(Append(Front(stack), g), Drain))
        BY <2>6, <2>8, <3>2, FramesPush
      <3>4. Front(stack) \o <<g, Drain>> = Append(Append(Front(stack), g), Drain)
        BY <2>2, <2>6, <3>1, TwoMore
      <3> QED BY <3>3, <3>4
    <2>10. Owned(heap, t, suspended)
      BY <2>5, InvParts, OwnedReturn
    <2> HIDE DEF t
    <2>11. Drained(heap, t)
      BY <2>5, <2>6 DEF Drained
    <2>12. HeapInv(heap') /\ Later(heap, heap') /\ Sleepers(suspended', awaits') /\ Wakes(heap', suspended')
      BY <1>1, <2>1, InvParts, LaterSame
    <2> QED BY <1>1, <1>7, <2>1, <2>5, <2>9, <2>10, <2>11, <2>12 DEF Inv
  <1>9. CASE ~ OnlyCallFrame
    <2>1. stack' = Front(stack) /\ heap' = Returned(heap, f)
      BY <1>6, <1>9 DEF ReturnFrom
    <2>2. /\ HeapInv(heap') /\ Later(heap, heap') /\ Owned(heap', Front(stack), suspended)
          /\ \A o : Waits(heap', o) = Waits(heap, o)
      BY <1>2, <1>3, <1>5, <2>1, ReturnedKeeps
    <2>3. Sleepers(suspended', awaits') /\ Wakes(heap', suspended')
      BY <1>1, <2>2, Promptly
    <2> QED BY <1>1, <1>3, <1>7, <2>1, <2>2, <2>3, PopStep
  <1> QED BY <1>8, <1>9

\* The Return that drained the queue pops its frame; main completes with no job left.
LEMMA CompleteStep == ASSUME Inv, CompleteReturn PROVE Inv' /\ Later(heap, heap')
  <1>1. /\ stack # <<>> /\ Top = Last(stack) /\ IsReturning(Top)
        /\ stack' = Front(stack) /\ heap' = Returned(heap, Top)
        /\ outcome' = IF Top.promise = 0 THEN "completed" ELSE outcome
        /\ suspended' = suspended /\ pendingErr' = pendingErr /\ awaits' = awaits /\ awaited' = awaited /\ ops' = ops
    BY DEF CompleteReturn, Running, Idle, Top, IsReturning
  <1>2. outcome = "running" /\ FrameOK(heap, Top) /\ ~ IsDrain(Top)
    BY <1>1, Alive DEF IsReturning, IsDrain
  <1> HIDE DEF Top
  <1>3. /\ HeapInv(heap') /\ Later(heap, heap') /\ Owned(heap', Front(stack), suspended)
        /\ \A o : Waits(heap', o) = Waits(heap, o) /\ (Top.promise = 0 => heap'.jobs = heap.jobs)
    BY <1>1, <1>2, ReturnedKeeps DEF FrameOK
  <1>4. Sleepers(suspended', awaits') /\ Wakes(heap', suspended')
    BY <1>1, <1>3, Promptly
  <1>5. Numbers'
    BY <1>1, NumbersSame DEF Inv, Numbers
  <1>6. Over'
    <2>1. CASE Top.promise = 0
      <3>1. stack' = <<>>
        BY <1>1, <2>1, Alive DEF IsBase
      <3>2. heap'.jobs = <<>>
        <4>1. heap.jobs = <<>>
          BY <1>1 DEF Inv, Drained
        <4> QED BY <1>3, <2>1, <4>1
      <3> QED BY <1>1, <2>1, <3>1, <3>2 DEF Over, Outcomes
    <2>2. CASE Top.promise # 0
      BY <1>1, <1>2, <2>2 DEF Over, Outcomes
    <2> QED BY <2>1, <2>2
  <1> QED BY <1>1, <1>2, <1>3, <1>4, <1>5, <1>6, PopStep

\* An exception pops a frame and rejects its promise (handle_exception).
LEMMA UnwindStep ==
    ASSUME Inv, ~ Idle, Top.op \in CodeFrames, Unwind, suspended' = suspended, pendingErr' \in BOOLEAN,
           awaits' = awaits, awaited' = awaited, ops' = ops
    PROVE  Inv' /\ Later(heap, heap')
  <1>1. /\ stack # <<>> /\ Top = Last(stack) /\ outcome = "running" /\ Top \in Frames /\ FrameOK(heap, Top)
        /\ ~ IsDrain(Top) /\ stack' = Front(stack)
        /\ ~ IsMain(Top) => Top.promise # 0 /\ Top.promise \in 1..heap.made
    BY CodeTop DEF Unwind
  <1>2. Numbers'
    BY NumbersSame DEF Inv, Numbers
  <1>3. CASE IsMain(Top)
    <2>1. outcome' = "threw" /\ heap' = heap
      BY <1>3 DEF Unwind, IsMain
    <2>2. stack' = <<>> /\ ~ Owner(Last(stack))
      <3>1. IsBase(Last(stack)) /\ ~ Owner(Last(stack))
        BY <1>1, <1>3 DEF IsBase, IsMain, Owner, Owners
      <3> QED BY <1>1, <3>1, Alive
    <2>3. Owned(heap', Front(stack), suspended)
      BY <1>1, <2>1, <2>2, InvParts, OwnedDrop
    <2>4. HeapInv(heap') /\ Later(heap, heap') /\ Sleepers(suspended', awaits') /\ Wakes(heap', suspended')
      BY <2>1, InvParts, LaterSame
    <2>5. Over'
      BY <2>1, <2>2 DEF Over, Outcomes
    <2> QED BY <1>1, <1>2, <2>3, <2>4, <2>5, PopStep
  <1>4. CASE ~ IsMain(Top)
    <2> DEFINE p == Top.promise
               g == Settle(heap, p, TRUE)
    <2>1. heap' = Reveal(g, Top) /\ outcome' = outcome
      BY <1>4 DEF Unwind, IsMain
    <2>2. p # 0 /\ p \in 1..heap.made /\ Last(stack).promise = p
      BY <1>1, <1>4
    <2> HIDE DEF p
    <2>3. Handed(heap, g, p)
      BY <2>2, InvParts, SettleHands
    <2> HIDE DEF g
    <2>4. HeapInv(g) /\ Later(heap, g) /\ g.made = heap.made /\ \A o : Waits(g, o) = Waits(heap, o)
      BY <2>3 DEF Handed, SameNames
    <2>5. Owned(g, Front(stack), suspended)
      BY <1>1, <2>2, <2>3, InvParts, OwnedPop
    <2>6. Top.promise # 0 => Top.promise \in 1..g.made
      BY <1>1, <1>4, <2>4
    <2>7. HeapInv(heap') /\ Later(g, heap') /\ Quiet(g, heap') /\ Owned(heap', Front(stack), suspended)
      BY <2>1, <2>4, <2>5, <2>6, Revealed
    <2>8. Later(heap, heap')
      BY <2>4, <2>7, InvParts, MadeIds, LaterTwice
    <2>9. \A o : Waits(heap', o) = Waits(heap, o)
      BY <2>4, <2>7 DEF Quiet
    <2>10. Sleepers(suspended', awaits') /\ Wakes(heap', suspended')
      BY <2>7, <2>9, Promptly
    <2>11. Over'
      BY <1>1, <2>1 DEF Over, Outcomes
    <2> QED BY <1>1, <1>2, <2>7, <2>8, <2>10, <2>11, PopStep
  <1> QED BY <1>3, <1>4

\* An exception no handler catches.
LEMMA ThrowStep == ASSUME Inv, Throw PROVE Inv' /\ Later(heap, heap')
  <1>1. /\ ~ Idle /\ Top.op \in CodeFrames /\ Unwind /\ suspended' = suspended /\ pendingErr' = pendingErr
        /\ awaits' = awaits /\ awaited' = awaited /\ ops' = ops
    BY DEF Throw, CodeRuns
  <1>2. pendingErr' \in BOOLEAN
    BY <1>1 DEF Inv, Numbers
  <1> QED BY <1>1, <1>2, UnwindStep

\* The exception a native handler left in pending_err.
LEMMA RaiseStep == ASSUME Inv, RaisePendingErr PROVE Inv' /\ Later(heap, heap')
  <1>1. /\ ~ Idle /\ Top.op \in CodeFrames /\ suspended' = suspended /\ pendingErr' = FALSE
        /\ awaits' = awaits /\ awaited' = awaited /\ ops' = ops
        /\ Unwind \/ UNCHANGED <<stack, heap, outcome>>
    BY DEF RaisePendingErr
  <1>2. CASE Unwind
    BY <1>1, <1>2, UnwindStep
  <1>3. CASE UNCHANGED <<stack, heap, outcome>>
    <2>1. Numbers'
      BY <1>1, NumbersSame DEF Inv, Numbers
    <2>2. Later(heap, heap') /\ Over'
      BY <1>3, InvParts, LaterSame DEF Inv, Over
    <2>3. /\ HeapInv(heap') /\ FramesOK(heap', stack') /\ Shape(stack') /\ Drained(heap', stack')
          /\ Owned(heap', stack', suspended') /\ Sleepers(suspended', awaits') /\ Wakes(heap', suspended')
      BY <1>1, <1>3 DEF Inv
    <2> QED BY <2>1, <2>2, <2>3 DEF Inv
  <1> QED BY <1>1, <1>2, <1>3

-----------------------------------------------------------------------------
\* A step of the drain on top, which leaves the stack or pushes a frame f.
LEMMA DrainStep ==
    ASSUME Inv, stack # <<>>, IsDrain(Last(stack)),
           HeapInv(heap'), Later(heap, heap'), Owned(heap', stack', suspended'),
           Sleepers(suspended', awaits'), Wakes(heap', suspended'), Numbers', outcome' = outcome,
           NEW f \in Frames,
           \/ stack' = stack
           \/ /\ stack' = Append(stack, f) /\ FrameOK(heap', f)
              /\ ~ IsMain(f) /\ ~ IsDrain(f) /\ ~ IsReturning(f)
    PROVE  Inv' /\ Later(heap, heap')
  <1>1. outcome = "running" /\ ~ IsReturning(Last(stack))
    BY Alive DEF IsDrain, IsReturning
  <1>2. Over'
    BY <1>1 DEF Over, Outcomes
  <1>3. FramesOK(heap', stack)
    BY InvParts, FramesLater
  <1>4. CASE stack' = stack
    <2>1. Drained(heap', stack')
      BY <1>1, <1>4 DEF Drained
    <2> QED BY <1>2, <1>3, <1>4, <2>1, InvParts DEF Inv
  <1>5. CASE stack' = Append(stack, f) /\ FrameOK(heap', f) /\ ~ IsMain(f) /\ ~ IsDrain(f) /\ ~ IsReturning(f)
    <2>1. Shape(stack') /\ Last(stack') = f
      BY <1>1, <1>5, InvParts, ShapePush
    <2>2. FramesOK(heap', stack')
      BY <1>3, <1>5, InvParts, FramesPush
    <2>3. Drained(heap', stack')
      BY <1>5, <2>1 DEF Drained
    <2> QED BY <1>2, <2>1, <2>2, <2>3 DEF Inv
  <1> QED BY <1>4, <1>5

\* The frame that a job pushes.
LEMMA JobFrame ==
    ASSUME NEW h, HeapInv(h), NEW p \in 1..h.made, NEW op \in {"async", "reaction", "thenable"},
           op = "thenable" => p \in h.held \cup h.orphans
    PROVE  LET f == Frame(op, p)
           IN  /\ f \in Frames /\ f.promise = p /\ FrameOK(h, f) /\ (Owner(f) \/ op = "thenable")
               /\ ~ IsMain(f) /\ ~ IsDrain(f) /\ ~ IsReturning(f)
  <1> DEFINE f == Frame(op, p)
  <1>1. p \in Ids /\ p # 0
    BY MadeIds DEF Ids
  <1>2. f \in Frames /\ f.promise = p /\ f.op = op /\ f.value = Plain
    BY <1>1 DEF Frame, Frames, CodeFrames, Values
  <1> HIDE DEF f
  <1>3. ~ IsMain(f) /\ ~ IsDrain(f) /\ ~ IsReturning(f)
    BY <1>2 DEF IsMain, IsDrain, IsReturning
  <1>4. Owner(f) \/ op = "thenable"
    BY <1>2 DEF Owner, Owners
  <1>5. Resolves(f) => op = "thenable"
    BY <1>2 DEF Resolves
  <1>6. FrameOK(h, f)
    BY <1>1, <1>2, <1>3, <1>5 DEF FrameOK, Denoted
  <1> QED BY <1>2, <1>3, <1>4, <1>6 DEF f

\* resume_async_continuation finds the frame it resumes, which gets its promise back
\* or, when the rejection is not caught in it, is gone with its promise rejected.
LEMMA ResumeStep ==
    ASSUME Inv, RunJob, ResumeAsync
    PROVE  Inv' /\ Later(heap, heap')
  <1> DEFINE c == Head(heap.jobs).reaction.id
             k == TakeJob(heap)
  <1>1. /\ stack # <<>> /\ IsDrain(Last(stack)) /\ heap.jobs # <<>>
        /\ awaits' = awaits /\ awaited' = awaited /\ ops' = ops /\ pendingErr' = pendingErr
    BY DEF RunJob, Running, Idle, Top, IsDrain, ResumeAsync
  <1>2. ForAwait(Head(heap.jobs))
    BY DEF ResumeAsync, NextJob, ForAwait, IsReaction
  <1>3. HeapInv(k) /\ Later(heap, k) /\ k.made = heap.made
    BY <1>1, InvParts, TakeKeeps DEF SameScalars
  <1>4. /\ c \in 1..MaxOps /\ Waits(heap, c) = Waits(k, c) + 1
        /\ \A o \in (1..MaxOps) \ {c} : Waits(k, o) = Waits(heap, o)
        /\ \A q : Holds(k, q) = Holds(heap, q)
    BY <1>1, <1>2, InvParts, AwaitTaken
  <1>5. \/ \E s \in suspended :
             /\ s.id = c /\ suspended' = suspended \ {s} /\ outcome' = outcome
             /\ \/ heap' = k /\ stack' = Append(stack, Frame("async", s.promise))
                \/ heap' = Settle(k, s.promise, TRUE) /\ stack' = stack
        \/ \A s \in suspended : s.id # c
    BY DEF ResumeAsync, NextJob, Popped, TakeJob
  <1> HIDE DEF c, k
  <1>6. \E s \in suspended : s.id = c
    <2>1. Waits(k, c) \in Nat
      BY <1>3, HoldsType, MadeIds
    <2>2. Waits(heap, c) # 0
      BY <1>4, <2>1
    <2> QED BY <1>4, <2>2, InvParts DEF Wakes
  <1>7. PICK s \in suspended :
             /\ s.id = c /\ suspended' = suspended \ {s} /\ outcome' = outcome
             /\ \/ heap' = k /\ stack' = Append(stack, Frame("async", s.promise))
                \/ heap' = Settle(k, s.promise, TRUE) /\ stack' = stack
    BY <1>5, <1>6
  <1>8. Joined(suspended, suspended', s) /\ Sleepers(suspended, awaits) /\ Wakes(heap, suspended)
    BY <1>7, InvParts, JoinedAgain
  <1>9. Sleepers(suspended', awaits')
    BY <1>1, <1>8, SleepersLess
  <1>10. s.promise \in 1..k.made
    BY <1>3, <1>8, InvParts, SleeperMade
  <1>11. Owned(k, stack, suspended)
    BY <1>3, <1>4, InvParts, OwnedQuiet
  <1>12. Wakes(k, suspended')
    <2>1. k \in Heaps /\ \A o \in (1..MaxOps) \ {s.id} : Waits(k, o) = Waits(heap, o)
      BY <1>3, <1>4, <1>7, MadeIds
    <2>2. Waits(heap, s.id) = Waits(k, s.id) + 1
      BY <1>4, <1>7
    <2> QED BY <1>8, <2>1, <2>2, WakesWake
  <1>13. Numbers'
    BY <1>1, NumbersSame DEF Inv, Numbers
  <1> DEFINE f == Frame("async", s.promise)
  <1>14. /\ f \in Frames /\ f.promise = s.promise /\ FrameOK(k, f) /\ Owner(f)
         /\ ~ IsMain(f) /\ ~ IsDrain(f) /\ ~ IsReturning(f)
    BY <1>3, <1>10, JobFrame
  <1>15. \/ heap' = k /\ stack' = Append(stack, f)
         \/ heap' = Settle(k, s.promise, TRUE) /\ stack' = stack
    BY <1>7
  <1> HIDE DEF f
  <1>16. CASE heap' = k /\ stack' = Append(stack, f)
    <2>1. Owned(k, Append(stack, f), suspended')
      BY <1>3, <1>8, <1>11, <1>14, InvParts, WakePush
    <2> QED BY <1>1, <1>3, <1>7, <1>9, <1>12, <1>13, <1>14, <1>16, <2>1, DrainStep
  <1>17. CASE heap' = Settle(k, s.promise, TRUE) /\ stack' = stack
    <2> DEFINE l == Settle(k, s.promise, TRUE)
    <2>1. Handed(k, l, s.promise) /\ ~ Pending(l, s.promise) /\ \A q : Holds(l, q) = Holds(k, q)
      BY <1>3, <1>10, SettleHands
    <2>2. heap' = l
      BY <1>17
    <2> HIDE DEF l
    <2>3. HeapInv(l) /\ Later(k, l) /\ l.made = k.made /\ \A o : Waits(l, o) = Waits(k, o)
      BY <2>1 DEF Handed, SameNames
    <2>4. Later(heap, l)
      BY <1>3, <2>3, InvParts, MadeIds, LaterTwice
    <2>5. Owned(l, stack, suspended)
      BY <1>3, <1>11, <2>1, <2>3, OwnedQuiet
    <2>6. Owned(l, stack, suspended')
      BY <1>8, <1>10, <2>1, <2>3, <2>5, InvParts, WakeSettle
    <2>7. Wakes(l, suspended')
      BY <1>12, <2>3, WakesQuiet
    <2> QED BY <1>1, <1>7, <1>9, <1>13, <1>14, <1>17, <2>2, <2>3, <2>4, <2>6, <2>7, DrainStep
  <1> QED BY <1>15, <1>16, <1>17

\* A reaction gives its promise to the frame of its handler, or settles it.
LEMMA ReactionStep ==
    ASSUME Inv, RunJob, RunReaction
    PROVE  Inv' /\ Later(heap, heap')
  <1> DEFINE p == Head(heap.jobs).reaction.result
             k == TakeJob(heap)
  <1>1. /\ stack # <<>> /\ IsDrain(Last(stack)) /\ heap.jobs # <<>>
        /\ awaits' = awaits /\ awaited' = awaited /\ ops' = ops /\ suspended' = suspended /\ outcome' = outcome
    BY DEF RunJob, Running, Idle, Top, IsDrain, RunReaction
  <1>2. Serves(Head(heap.jobs), p)
    BY DEF RunReaction, NextJob, ForThen, IsReaction, Serves
  <1>3. HeapInv(k) /\ Later(heap, k) /\ k.made = heap.made
    BY <1>1, InvParts, TakeKeeps DEF SameScalars
  <1>4. /\ Holds(heap, p) = Holds(k, p) + 1
        /\ \A q \in Ids \ {p} : Holds(k, q) = Holds(heap, q)
        /\ \A o : Waits(k, o) = Waits(heap, o)
    BY <1>1, <1>2, InvParts, ServantTaken
  <1>5. p \in 1..heap.made /\ p \in Ids
    BY <1>1, <1>2, InvParts, ServedMade
  <1>6. \/ heap' = k /\ stack' = Append(stack, Frame("reaction", p)) /\ pendingErr' = pendingErr
        \/ \E rejected, failing \in BOOLEAN :
              heap' = Settle(k, p, rejected) /\ pendingErr' = (pendingErr \/ failing) /\ stack' = stack
    <2> DEFINE r       == NextJob.reaction
               handler == IF NextJob.rejected THEN r.onRejected ELSE r.onFulfilled
    <2>1. \/ heap' = Popped /\ stack' = Append(stack, Frame("reaction", r.result)) /\ pendingErr' = pendingErr
          \/ /\ heap' = Settle(Popped, r.result, handler = "none" /\ NextJob.rejected)
             /\ pendingErr' = (pendingErr \/ handler = "failing") /\ stack' = stack
      BY DEF RunReaction
    <2>2. Popped = k /\ r.result = p
      BY DEF Popped, TakeJob, NextJob
    <2> DEFINE a == handler = "none" /\ NextJob.rejected
               b == handler = "failing"
    <2>3. a \in BOOLEAN /\ b \in BOOLEAN
      OBVIOUS
    <2>4. \/ heap' = k /\ stack' = Append(stack, Frame("reaction", p)) /\ pendingErr' = pendingErr
          \/ heap' = Settle(k, p, a) /\ pendingErr' = (pendingErr \/ b) /\ stack' = stack
      BY <2>1, <2>2
    <2> HIDE DEF a, b, k, p
    <2> QED BY <2>3, <2>4
  <1> HIDE DEF p, k
  <1>7. Wakes(k, suspended) /\ Sleepers(suspended, awaits)
    BY <1>4, InvParts, WakesQuiet
  <1> DEFINE f == Frame("reaction", p)
  <1>8. /\ f \in Frames /\ f.promise = p /\ FrameOK(k, f) /\ Owner(f)
        /\ ~ IsMain(f) /\ ~ IsDrain(f) /\ ~ IsReturning(f)
    BY <1>3, <1>5, JobFrame
  <1>9. CASE heap' = k /\ stack' = Append(stack, f) /\ pendingErr' = pendingErr
    <2> HIDE DEF f
    <2>1. Owned(k, Append(stack, f), suspended)
      BY <1>3, <1>4, <1>5, <1>8, InvParts, ServePush
    <2>2. Numbers'
      BY <1>1, <1>9, NumbersSame DEF Inv, Numbers
    <2> QED BY <1>1, <1>3, <1>7, <1>8, <1>9, <2>1, <2>2, DrainStep
  <1>10. ASSUME NEW rejected \in BOOLEAN, NEW failing \in BOOLEAN,
                heap' = Settle(k, p, rejected), pendingErr' = (pendingErr \/ failing), stack' = stack
         PROVE  Inv' /\ Later(heap, heap')
    <2> DEFINE l == Settle(k, p, rejected)
    <2>1. Handed(k, l, p) /\ ~ Pending(l, p) /\ \A q : Holds(l, q) = Holds(k, q)
      BY <1>3, <1>5, SettleHands
    <2>2. heap' = l
      BY <1>10
    <2> HIDE DEF l
    <2>3. HeapInv(l) /\ Later(k, l) /\ l.made = heap.made /\ \A o : Waits(l, o) = Waits(k, o)
      BY <1>3, <2>1 DEF Handed, SameNames
    <2>4. Later(heap, l)
      BY <1>3, <2>3, InvParts, MadeIds, LaterTwice
    <2>5. Owned(l, stack, suspended)
      BY <1>4, <1>5, <2>1, <2>3, <2>4, InvParts, ServeSettle
    <2>6. Wakes(l, suspended)
      BY <1>7, <2>3, WakesQuiet
    <2>7. Numbers'
      <3>1. pendingErr' \in BOOLEAN
        BY <1>10 DEF Inv, Numbers
      <3> QED BY <1>1, <3>1, NumbersSame DEF Inv, Numbers
    <2> QED BY <1>1, <1>7, <1>8, <1>10, <2>2, <2>3, <2>4, <2>5, <2>6, <2>7, DrainStep
  <1> QED BY <1>6, <1>9, <1>10

\* A thenable gets resolving functions of the promise.
LEMMA ThenableStep ==
    ASSUME Inv, RunJob, RunThenable
    PROVE  Inv' /\ Later(heap, heap')
  <1> DEFINE p == Head(heap.jobs).promise
             k == TakeJob(heap)
             l == Hold(k, p)
             f == Frame("thenable", p)
  <1>1. /\ stack # <<>> /\ IsDrain(Last(stack)) /\ heap.jobs # <<>>
        /\ awaits' = awaits /\ awaited' = awaited /\ ops' = ops /\ suspended' = suspended /\ outcome' = outcome
        /\ pendingErr' = pendingErr
    BY DEF RunJob, Running, Idle, Top, IsDrain, RunThenable
  <1>2. Serves(Head(heap.jobs), p)
    BY DEF RunThenable, NextJob, ForThenable, Serves
  <1>3. HeapInv(k) /\ Later(heap, k) /\ k.made = heap.made
    BY <1>1, InvParts, TakeKeeps DEF SameScalars
  <1>4. /\ Holds(heap, p) = Holds(k, p) + 1
        /\ \A q \in Ids \ {p} : Holds(k, q) = Holds(heap, q)
        /\ \A o : Waits(k, o) = Waits(heap, o)
    BY <1>1, <1>2, InvParts, ServantTaken
  <1>5. p \in 1..heap.made /\ p \in Ids
    BY <1>1, <1>2, InvParts, ServedMade
  <1>6. heap' = l /\ stack' = Append(stack, f)
    BY DEF RunThenable, Popped, TakeJob, NextJob
  <1> HIDE DEF p, k
  <1>7. HeapInv(l) /\ Later(k, l) /\ Reachable(k, l)
    <2>1. l \in {Show(k, p), Hold(k, p), Orphan(k, p)}
      OBVIOUS
    <2> HIDE DEF l
    <2> QED BY <1>3, <1>5, <2>1, ReachKeeps
  <1>8. p \in l.held
    <2>1. k \in Heaps
      BY <1>3, MadeIds
    <2> QED BY <2>1 DEF Hold, Heaps
  <1> HIDE DEF l
  <1>9. Quiet(k, l) /\ l.made = heap.made
    BY <1>3, <1>7, QuietSame DEF Reachable
  <1>10. Later(heap, l)
    BY <1>3, <1>7, InvParts, MadeIds, LaterTwice
  <1>11. /\ Holds(heap, p) = Holds(l, p) + 1
         /\ \A q \in Ids \ {p} : Holds(l, q) = Holds(heap, q)
         /\ \A o : Waits(l, o) = Waits(heap, o)
    BY <1>4, <1>9 DEF Quiet
  <1>12. p \in l.held \cup l.orphans
    BY <1>8
  <1>13. /\ f \in Frames /\ f.promise = p /\ FrameOK(l, f)
         /\ ~ IsMain(f) /\ ~ IsDrain(f) /\ ~ IsReturning(f)
    <2>1. p \in 1..l.made
      BY <1>5, <1>9
    <2> QED BY <1>7, <1>12, <2>1, JobFrame
  <1> HIDE DEF f
  <1>14. Owned(l, Append(stack, f), suspended)
    BY <1>5, <1>7, <1>9, <1>10, <1>11, <1>12, <1>13, InvParts, ServePush
  <1>15. Wakes(l, suspended) /\ Sleepers(suspended, awaits)
    BY <1>11, InvParts, WakesQuiet
  <1>16. Numbers'
    BY <1>1, NumbersSame DEF Inv, Numbers
  <1> QED BY <1>1, <1>6, <1>7, <1>10, <1>13, <1>14, <1>15, <1>16, DrainStep

-----------------------------------------------------------------------------
\* drain_jobs ends when the queue is empty.
LEMMA DrainEnds == ASSUME Inv, EndDrain PROVE Inv' /\ Later(heap, heap')
  <1>1. /\ stack # <<>> /\ IsDrain(Last(stack)) /\ heap.jobs = <<>> /\ stack' = Front(stack) /\ heap' = heap
        /\ suspended' = suspended /\ pendingErr' = pendingErr /\ awaits' = awaits /\ awaited' = awaited
        /\ outcome' = outcome /\ ops' = ops
    BY DEF EndDrain, Running, Idle, Top, IsDrain, Local
  <1>2. Last(stack).promise = 0 /\ outcome = "running" /\ FramesOK(heap, Front(stack)) /\ Shape(Front(stack))
    BY <1>1, Alive DEF FrameOK
  <1>3. Owned(heap, Front(stack), suspended)
    BY <1>1, <1>2, InvParts, OwnedDrop
  <1>4. Drained(heap, Front(stack))
    BY <1>1 DEF Drained
  <1>5. Numbers'
    BY <1>1, NumbersSame DEF Inv, Numbers
  <1>6. Over'
    BY <1>1, <1>2 DEF Over, Outcomes
  <1>7. Later(heap, heap') /\ HeapInv(heap') /\ Sleepers(suspended', awaits') /\ Wakes(heap', suspended')
    BY <1>1, InvParts, LaterSame
  <1> QED BY <1>1, <1>2, <1>3, <1>4, <1>5, <1>6, <1>7 DEF Inv

\* The host starts from an empty stack: its drain, or main again.
LEMMA Boot ==
    ASSUME NEW h, NEW f, f = Drain \/ f = Main
    PROVE  /\ Shape(<<f>>) /\ FramesOK(h, <<f>>) /\ Drained(h, <<f>>)
           /\ \A p \in Ids : Count(<<f>>, FramesOf(p)) = 0
  <1>2. f \in Frames /\ f.promise = 0 /\ f.value = Plain
    BY DEF Drain, Main, Frame, Frames, CodeFrames, Values
  <1>3. <<f>> \in Seq(Frames) /\ DOMAIN <<f>> = 1..1 /\ <<f>>[1] = f /\ <<f>> # <<>> /\ Len(<<f>>) = 1
    BY <1>2
  <1>4. IsDrain(f) \/ IsMain(f)
    BY DEF Drain, Main, Frame, IsDrain, IsMain
  <1>5. ~ IsReturning(f) /\ ~ Owner(f) /\ ~ Resolves(f)
    BY <1>4 DEF IsDrain, IsMain, IsReturning, Owner, Owners, Resolves
  <1> DEFINE t == <<f>>
  <1>6. t \in Seq(Frames) /\ DOMAIN t = 1..1 /\ t[1] = f /\ t # <<>> /\ Len(t) = 1 /\ \A i \in DOMAIN t : i = 1
    BY <1>3
  <1> HIDE DEF t
  <1>7. Last(t) = f
    BY <1>6, LastFront
  <1>8. Shape(t)
    <2>1. \A i \in DOMAIN t : i = 1 => IsBase(t[i]) \/ IsDrain(t[i])
      BY <1>4, <1>6 DEF IsBase
    <2>2. \A i \in DOMAIN t : IsBase(t[i]) => i = 1
      BY <1>6
    <2>3. \A i \in DOMAIN t : IsReturning(t[i]) /\ i + 1 \in DOMAIN t => IsDrain(t[i + 1])
      BY <1>5, <1>6
    <2>4. \A i \in DOMAIN t : IsDrain(t[i]) /\ i > 1 =>
            \/ i = 2 /\ IsReturning(t[1]) /\ IsBase(t[1])
            \/ i = 3 /\ IsDrain(t[1]) /\ IsReturning(t[2])
      BY <1>6
    <2> QED BY <1>6, <2>1, <2>2, <2>3, <2>4 DEF Shape
  <1>9. FramesOK(h, t)
    <2>1. FrameOK(h, f)
      BY <1>2, <1>4, <1>5 DEF FrameOK, Denoted
    <2> QED BY <1>6, <2>1 DEF FramesOK
  <1>10. Drained(h, t)
    BY <1>5, <1>7 DEF Drained
  <1>11. ASSUME NEW p \in Ids PROVE Count(t, FramesOf(p)) = 0
    <2>1. \A i \in DOMAIN t : t[i] \notin FramesOf(p)
      BY <1>5, <1>6 DEF FramesOf, Owner
    <2> QED BY <1>6, <2>1, CountNone
  <1> QED BY <1>8, <1>9, <1>10, <1>11 DEF t

\* Neither owns a promise.
LEMMA OwnedBoot ==
    ASSUME NEW h, NEW S, Owned(h, <<>>, S), NEW f, f = Drain \/ f = Main
    PROVE  Owned(h, <<f>>, S)
  <1> DEFINE t == <<f>>
  <1>1. \A p \in Ids : Count(t, FramesOf(p)) = 0
    BY Boot
  <1> HIDE DEF t
  <1>2. \A p \in Ids : Count(t, FramesOf(p)) = Count(<<>>, FramesOf(p))
    BY <1>1, CountEmpty
  <1> SUFFICES Owned(h, t, S)
    BY DEF t
  <1>3. \A p \in Ids : Total(h, t, S, p) = Total(h, <<>>, S, p)
    BY <1>2 DEF Total
  <1> QED BY <1>3 DEF Owned

\* The host drains the queue.
LEMMA HostDrains == ASSUME Inv, RunPromiseJobs PROVE Inv' /\ Later(heap, heap')
  <1>1. /\ stack = <<>> /\ outcome = "running" /\ stack' = <<Drain>> /\ heap' = heap
        /\ suspended' = suspended /\ pendingErr' = pendingErr /\ awaits' = awaits /\ awaited' = awaited
        /\ outcome' = outcome /\ ops' = ops
    BY DEF RunPromiseJobs, Waiting, Idle, Local
  <1> DEFINE t == <<Drain>>
  <1>2. Shape(t) /\ FramesOK(heap, t) /\ Drained(heap, t)
    BY Boot
  <1>3. Owned(heap, t, suspended)
    BY <1>1, InvParts, OwnedBoot
  <1>4. stack' = t
    BY <1>1
  <1> HIDE DEF t
  <1>5. Numbers'
    BY <1>1, NumbersSame DEF Inv, Numbers
  <1>6. Over'
    BY <1>1 DEF Over, Outcomes
  <1>7. Later(heap, heap') /\ HeapInv(heap') /\ Sleepers(suspended', awaits') /\ Wakes(heap', suspended')
    BY <1>1, InvParts, LaterSame
  <1> QED BY <1>1, <1>2, <1>3, <1>4, <1>5, <1>6, <1>7 DEF Inv

\* The host resumes main, or raises the rejection it awaited.
LEMMA MainResumes == ASSUME Inv, ResumeMain PROVE Inv' /\ Later(heap, heap')
  <1>1. /\ stack = <<>> /\ outcome = "running" /\ heap' = heap
        /\ suspended' = suspended /\ pendingErr' = pendingErr /\ awaits' = awaits /\ awaited' = 0 /\ ops' = ops
        /\ (stack' = <<Main>> /\ outcome' = outcome) \/ (stack' = stack /\ outcome' = "threw")
    BY DEF ResumeMain, Waiting, Idle
  <1>2. Numbers'
    BY <1>1, NumbersSame DEF Inv, Numbers
  <1>3. Later(heap, heap') /\ HeapInv(heap') /\ Sleepers(suspended', awaits') /\ Wakes(heap', suspended')
    BY <1>1, InvParts, LaterSame
  <1>4. CASE stack' = <<Main>> /\ outcome' = outcome
    <2> DEFINE t == <<Main>>
    <2>1. Shape(t) /\ FramesOK(heap, t) /\ Drained(heap, t)
      BY Boot
    <2>2. Owned(heap, t, suspended)
      BY <1>1, InvParts, OwnedBoot
    <2>3. stack' = t
      BY <1>4
    <2> HIDE DEF t
    <2>4. Over'
      BY <1>1, <1>4 DEF Over, Outcomes
    <2> QED BY <1>1, <1>2, <1>3, <2>1, <2>2, <2>3, <2>4 DEF Inv
  <1>5. CASE stack' = stack /\ outcome' = "threw"
    <2>1. Over'
      BY <1>1, <1>5 DEF Over, Outcomes
    <2>2. FramesOK(heap', stack') /\ Shape(stack') /\ Drained(heap', stack') /\ Owned(heap', stack', suspended')
      BY <1>1, <1>5 DEF Inv
    <2> QED BY <1>2, <1>3, <2>1, <2>2 DEF Inv
  <1> QED BY <1>1, <1>4, <1>5

\* The host gives up: no job is left and main awaits a pending promise.
LEMMA NobodyMoves == ASSUME Inv, NoProgress PROVE Inv' /\ Later(heap, heap')
  <1>1. /\ stack = <<>> /\ heap.jobs = <<>> /\ heap' = heap /\ stack' = stack /\ outcome' = "stuck"
        /\ suspended' = suspended /\ pendingErr' = pendingErr /\ awaits' = awaits /\ awaited' = awaited /\ ops' = ops
    BY DEF NoProgress, Waiting, Idle
  <1>2. Numbers'
    BY <1>1, NumbersSame DEF Inv, Numbers
  <1>3. Later(heap, heap')
    BY <1>1, InvParts, LaterSame
  <1>4. Over'
    BY <1>1 DEF Over, Outcomes
  <1>5. /\ HeapInv(heap') /\ FramesOK(heap', stack') /\ Shape(stack') /\ Drained(heap', stack')
        /\ Owned(heap', stack', suspended') /\ Sleepers(suspended', awaits') /\ Wakes(heap', suspended')
    BY <1>1 DEF Inv
  <1> QED BY <1>2, <1>3, <1>4, <1>5 DEF Inv

\* Nothing changes.
LEMMA Stutters == ASSUME Inv, UNCHANGED vars PROVE Inv' /\ Later(heap, heap')
  <1>1. /\ heap' = heap /\ stack' = stack /\ outcome' = outcome
        /\ suspended' = suspended /\ pendingErr' = pendingErr /\ awaits' = awaits /\ awaited' = awaited /\ ops' = ops
    BY DEF vars
  <1>2. Later(heap, heap')
    BY <1>1, InvParts, LaterSame
  <1>3. Numbers' /\ Over'
    BY <1>1 DEF Inv, Numbers, Over
  <1>4. /\ HeapInv(heap') /\ FramesOK(heap', stack') /\ Shape(stack') /\ Drained(heap', stack')
        /\ Owned(heap', stack', suspended') /\ Sleepers(suspended', awaits') /\ Wakes(heap', suspended')
    BY <1>1 DEF Inv
  <1> QED BY <1>2, <1>3, <1>4 DEF Inv

\* The program starts with main alone, and no promise.
LEMMA InitInv == Init => Inv
  <1> SUFFICES ASSUME Init PROVE Inv
    OBVIOUS
  <1>1. /\ heap = [made |-> 0, state |-> [p \in Ids |-> "none"],
                   reactions |-> [p \in Ids |-> <<>>], jobs |-> <<>>,
                   known |-> {}, held |-> {}, orphans |-> {}, registered |-> 0]
        /\ suspended = {} /\ stack = <<Main>> /\ pendingErr = FALSE /\ awaits = 0 /\ awaited = 0
        /\ outcome = "running" /\ ops = 0
    BY DEF Init
  <1>2. /\ heap.made = 0 /\ \A p \in Ids : heap.state[p] = "none" /\ heap.reactions[p] = <<>>
        /\ heap.jobs = <<>> /\ heap.known = {} /\ heap.held = {} /\ heap.orphans = {}
    BY <1>1
  <1>3. heap \in Heaps
    <2>1. 0 \in 0..MaxPromises
      BY PromisesAssumption
    <2>2. [p \in Ids |-> "none"] \in [Ids -> States] /\ [p \in Ids |-> <<>>] \in [Ids -> Seq(Reactions)]
      BY DEF States
    <2> QED BY <1>1, <2>1, <2>2 DEF Heaps
  <1>4. HeapInv(heap)
    <2>1. Made(heap)
      BY <1>2 DEF Made, Unmade, Ids
    <2>2. Named(heap)
      BY <1>2 DEF Named
    <2>3. KeptPending(heap)
      BY <1>2 DEF KeptPending
    <2>4. FromDecided(heap) /\ OrderedJobs(heap) /\ JobsGiven(heap)
      BY <1>2 DEF FromDecided, OrderedJobs, JobsGiven
    <2>5. OrderedKept(heap) /\ KeptGiven(heap)
      BY <1>2 DEF OrderedKept, KeptGiven
    <2> QED BY <1>3, <2>1, <2>2, <2>3, <2>4, <2>5 DEF HeapInv
  <1>5. \A R, T : Tokens(heap, R, T) = 0
    <2> SUFFICES ASSUME NEW R, NEW T PROVE Tokens(heap, R, T) = 0
      OBVIOUS
    <2>1. KeptCount(heap.reactions, R) = 0
      BY <1>2, <1>3, HeapFields, KeptNone
    <2>2. Count(heap.jobs, JobsFor(R, T)) = 0
      BY <1>2, CountEmpty
    <2> QED BY <2>1, <2>2 DEF Tokens
  <1> HIDE DEF Init
  <1>6. Shape(stack) /\ FramesOK(heap, stack) /\ Drained(heap, stack) /\ \A p \in Ids : Count(stack, FramesOf(p)) = 0
    BY <1>1, Boot
  <1>7. Owned(heap, stack, suspended)
    <2>1. ASSUME NEW p \in Ids PROVE Total(heap, stack, suspended, p) = 0 /\ ~ Pending(heap, p)
      <3>1. Holds(heap, p) = 0
        BY <1>5 DEF Holds
      <3>2. Asleep(suspended, p) = {}
        BY <1>1 DEF Asleep
      <3>3. Cardinality(Asleep(suspended, p)) = 0
        BY <3>2, FS_EmptySet
      <3>4. ~ Pending(heap, p)
        BY <1>2 DEF Pending
      <3> QED BY <1>6, <3>1, <3>3, <3>4 DEF Total
    <2> QED BY <2>1 DEF Owned
  <1>8. Sleepers(suspended, awaits)
    BY <1>1, FS_EmptySet DEF Sleepers
  <1>9. Wakes(heap, suspended)
    <2>1. \A c : Waits(heap, c) = 0
      BY <1>5 DEF Waits
    <2>2. \A s \in suspended : FALSE
      BY <1>1
    <2> QED BY <2>1, <2>2 DEF Wakes
  <1>10. Numbers
    <2>1. /\ pendingErr = FALSE /\ awaits = 0 /\ awaited = 0 /\ ops = 0
      BY <1>1
    <2>2. pendingErr \in BOOLEAN
      BY <2>1
    <2>3. MaxOps \in Nat
      BY PromisesAssumption
    <2> QED BY <2>1, <2>2, <2>3 DEF Numbers
  <1>11. Over
    BY <1>1 DEF Over, Outcomes
  <1> QED BY <1>4, <1>6, <1>7, <1>8, <1>9, <1>10, <1>11 DEF Inv

\* Every step keeps the invariant, and makes the heap a later one.
LEMMA InvNext == ASSUME Inv, [Next]_vars PROVE Inv' /\ Later(heap, heap')
  <1>1. CASE Code
    <2>1. CASE PromiseConstructor BY <2>1, ConstructorStep
    <2>2. CASE CallResolvingFunction BY <2>2, ResolvingStep
    <2>3. CASE PromiseThen BY <2>3, ThenStep
    <2>4. CASE PromiseResolve BY <2>4, ResolveStep
    <2>5. CASE PromiseReject BY <2>5, RejectStep
    <2>6. CASE PromiseAll BY <2>6, AllStep
    <2>7. CASE CallAsync BY <2>7, CallAsyncStep
    <2>8. CASE Await BY <2>8, AwaitStep
    <2>9. CASE AwaitInMain BY <2>9, AwaitMainStep
    <2>10. CASE Return BY <2>10, ReturnStep
    <2>11. CASE CompleteReturn BY <2>11, CompleteStep
    <2>12. CASE Throw BY <2>12, ThrowStep
    <2>13. CASE RaisePendingErr BY <2>13, RaiseStep
    <2> QED BY <1>1, <2>1, <2>2, <2>3, <2>4, <2>5, <2>6, <2>7, <2>8, <2>9, <2>10, <2>11, <2>12, <2>13 DEF Code
  <1>2. CASE RunJob
    <2>1. ResumeAsync \/ RunReaction \/ RunThenable
      BY <1>2 DEF RunJob
    <2> QED BY <1>2, <2>1, ResumeStep, ReactionStep, ThenableStep
  <1>3. CASE EndDrain BY <1>3, DrainEnds
  <1>4. CASE RunPromiseJobs BY <1>4, HostDrains
  <1>5. CASE ResumeMain BY <1>5, MainResumes
  <1>6. CASE NoProgress BY <1>6, NobodyMoves
  <1>7. CASE UNCHANGED vars BY <1>7, Stutters
  <1> QED BY <1>1, <1>2, <1>3, <1>4, <1>5, <1>6, <1>7 DEF Next, Step, Loop, Terminating

\* Inv holds in every state: whatever the program does with its promises, each
\* pending one that it cannot settle itself has one owner, each saved frame has
\* one reaction that resumes it, and reactions stay in the order of registration.
THEOREM Inductive == Spec => []Inv
  <1>1. Inv /\ [Next]_vars => Inv'
    BY InvNext
  <1> QED BY <1>1, InitInv, PTL DEF Spec

\* settle_promise, and every step that calls it, leaves a settled promise as it is:
\* for any number of promises and operations, and any handlers.
THEOREM Settled == Spec => SettledForever
  <1>1. Inv /\ [Next]_vars => [\A p \in Ids : heap.state[p] \in {"fulfilled", "rejected"} => heap'.state[p] = heap.state[p]]_vars
    <2> SUFFICES ASSUME Inv, [Next]_vars
                 PROVE  \A p \in Ids : heap.state[p] \in {"fulfilled", "rejected"} => heap'.state[p] = heap.state[p]
      OBVIOUS
    <2>1. Later(heap, heap')
      BY InvNext
    <2> QED BY <2>1 DEF Later, Decided
  <1> QED BY <1>1, Inductive, PTL DEF Spec, SettledForever

-----------------------------------------------------------------------------
\* Every variable of the interpreter's promises and jobs keeps its type.
THEOREM Types == Spec => []TypeOK
  <1>1. Inv => TypeOK
    <2> SUFFICES ASSUME Inv PROVE TypeOK
      OBVIOUS
    <2>1. suspended \subseteq [id : 1 .. MaxOps, promise : Ids]
      BY InvParts DEF Sleepers
    <2>2. Numbers /\ MaxOps \in Nat
      BY PromisesAssumption DEF Inv
    <2>3. awaits \in 0..MaxOps /\ ops \in 0..MaxOps /\ awaited \in Ids \cup {0}
      BY <2>2 DEF Numbers
    <2>4. pendingErr \in BOOLEAN
      BY <2>2 DEF Numbers
    <2>5. outcome \in Outcomes
      BY DEF Inv, Over
    <2> QED BY <2>1, <2>3, <2>4, <2>5, InvParts DEF TypeOK
  <1> QED BY <1>1, Inductive, PTL

\* The places that the properties and the invariant count are the same.
LEMMA PositionsAre ==
    ASSUME NEW A
    PROVE  {x \in Positions : Kept(x) \in A} = KeptWhere(heap.reactions, A)
  BY DEF Positions, Kept, KeptWhere, Places

\* A place holds a reaction.
LEMMA KeptIn ==
    ASSUME Inv, NEW x \in Positions
    PROVE  /\ x[1] \in Ids /\ x[2] \in DOMAIN heap.reactions[x[1]] /\ x = <<x[1], x[2]>>
           /\ Kept(x) \in Reactions /\ Kept(x) = heap.reactions[x[1]][x[2]]
  <1>1. PICK p \in Ids : x \in {<<p, i>> : i \in DOMAIN heap.reactions[p]}
    BY DEF Positions
  <1>2. PICK i \in DOMAIN heap.reactions[p] : x = <<p, i>>
    BY <1>1
  <1>3. x[1] = p /\ x[2] = i
    BY <1>2
  <1> QED BY <1>2, <1>3, InvParts, ReactionsKept DEF Kept

\* The queue holds reactions and thenables.
LEMMA JobIn ==
    ASSUME Inv, NEW i \in DOMAIN heap.jobs
    PROVE  /\ heap.jobs[i] \in Jobs
           /\ i \in Queued <=> IsReaction(heap.jobs[i])
           /\ i \in Queued => heap.jobs[i].reaction \in Reactions
           /\ i \notin Queued => heap.jobs[i].kind = "thenable"
  <1>1. heap.jobs[i] \in Jobs
    BY InvParts, HeapFields
  <1>2. i \in Queued <=> IsReaction(heap.jobs[i])
    BY DEF Queued, IsReaction
  <1>3. i \in Queued => heap.jobs[i].reaction \in Reactions
    BY <1>2, InvParts, ReactionsKept
  <1>4. i \notin Queued => heap.jobs[i].kind = "thenable"
    BY <1>1, <1>2 DEF IsReaction, Jobs
  <1> QED BY <1>1, <1>2, <1>3, <1>4

\* The sets that PendingIsOwned and ContinuationHeld count.
KeptFor(p)     == {x \in Positions : Kept(x).kind = "then" /\ Kept(x).result = p}
QueuedFor(p)   == {i \in Queued : heap.jobs[i].reaction.kind = "then" /\ heap.jobs[i].reaction.result = p}
ThenablesOf(p) == {i \in DOMAIN heap.jobs \ Queued : heap.jobs[i].promise = p}
KeptWake(c)    == {x \in Positions : Kept(x).kind = "await" /\ Kept(x).id = c}
QueuedWake(c)  == {i \in Queued : heap.jobs[i].reaction.kind = "await" /\ heap.jobs[i].reaction.id = c}

\* The reactions kept, counted by the properties and by the invariant.
LEMMA KeptSizes ==
    ASSUME Inv
    PROVE  /\ \A p : KeptCount(heap.reactions, Of(p)) = Cardinality(KeptFor(p))
           /\ \A c : KeptCount(heap.reactions, AwaitsOf(c)) = Cardinality(KeptWake(c))
  <1>1. ASSUME NEW p PROVE KeptFor(p) = KeptWhere(heap.reactions, Of(p))
    <2>1. \A x \in Positions : Kept(x) \in Of(p) <=> (Kept(x).kind = "then" /\ Kept(x).result = p)
      BY KeptIn DEF Of
    <2> QED BY <2>1, PositionsAre DEF KeptFor
  <1>2. ASSUME NEW c PROVE KeptWake(c) = KeptWhere(heap.reactions, AwaitsOf(c))
    <2>1. \A x \in Positions : Kept(x) \in AwaitsOf(c) <=> (Kept(x).kind = "await" /\ Kept(x).id = c)
      BY KeptIn DEF AwaitsOf
    <2> QED BY <2>1, PositionsAre DEF KeptWake
  <1> QED BY <1>1, <1>2 DEF KeptCount

\* The jobs, counted by the properties and by the invariant: those of reactions and
\* those of thenables are two sets.
LEMMA JobSizes ==
    ASSUME Inv
    PROVE  /\ \A p : /\ Count(heap.jobs, JobsFor(Of(p), Thenables(p))) = Cardinality(QueuedFor(p)) + Cardinality(ThenablesOf(p))
                     /\ Cardinality(QueuedFor(p)) \in Nat /\ Cardinality(ThenablesOf(p)) \in Nat
           /\ \A c : Count(heap.jobs, JobsFor(AwaitsOf(c), {})) = Cardinality(QueuedWake(c))
  <1>1. Queued \subseteq DOMAIN heap.jobs /\ IsFiniteSet(DOMAIN heap.jobs)
    <2>1. heap.jobs \in Seq(Jobs)
      BY InvParts, HeapFields
    <2>2. DOMAIN heap.jobs = 1..Len(heap.jobs) /\ Len(heap.jobs) \in Nat
      BY <2>1
    <2> QED BY <2>2, FS_Interval DEF Queued
  <1>2. ASSUME NEW p
        PROVE  /\ Count(heap.jobs, JobsFor(Of(p), Thenables(p))) = Cardinality(QueuedFor(p)) + Cardinality(ThenablesOf(p))
               /\ Cardinality(QueuedFor(p)) \in Nat /\ Cardinality(ThenablesOf(p)) \in Nat
    <2> DEFINE W == Where(heap.jobs, JobsFor(Of(p), Thenables(p)))
               A == QueuedFor(p)
               B == ThenablesOf(p)
    <2>1. A \subseteq DOMAIN heap.jobs /\ B \subseteq DOMAIN heap.jobs /\ A \cap B = {}
      BY <1>1 DEF QueuedFor, ThenablesOf
    <2>2. IsFiniteSet(A) /\ IsFiniteSet(B)
      BY <1>1, <2>1, FS_Subset
    <2>3. \A i \in DOMAIN heap.jobs : i \in W <=> (i \in A \/ i \in B)
      <3> SUFFICES ASSUME NEW i \in DOMAIN heap.jobs PROVE i \in W <=> (i \in A \/ i \in B)
        OBVIOUS
      <3>1. i \in W <=> heap.jobs[i] \in JobsFor(Of(p), Thenables(p))
        BY DEF Where
      <3>2. CASE i \in Queued
        <4>1. IsReaction(heap.jobs[i]) /\ heap.jobs[i] \in Jobs /\ heap.jobs[i].reaction \in Reactions
          BY <3>2, JobIn
        <4>2. heap.jobs[i] \in JobsFor(Of(p), Thenables(p)) <=> heap.jobs[i].reaction \in Of(p)
          BY <4>1, TokenKinds, JobsForParts
        <4>3. heap.jobs[i].reaction \in Of(p) <=> i \in A
          BY <3>2, <4>1 DEF Of, QueuedFor
        <4>4. i \notin B
          BY <3>2 DEF ThenablesOf
        <4> QED BY <3>1, <4>2, <4>3, <4>4
      <3>3. CASE i \notin Queued
        <4>1. ~ IsReaction(heap.jobs[i]) /\ heap.jobs[i] \in Jobs /\ heap.jobs[i].kind = "thenable"
          BY <3>3, JobIn
        <4>2. heap.jobs[i] \in JobsFor(Of(p), Thenables(p)) <=> heap.jobs[i] \in Thenables(p)
          BY <4>1, TokenKinds, JobsForParts
        <4>3. heap.jobs[i] \in Thenables(p) <=> i \in B
          BY <3>3, <4>1 DEF Thenables, ThenablesOf
        <4>4. i \notin A
          BY <3>3 DEF QueuedFor
        <4> QED BY <3>1, <4>2, <4>3, <4>4
      <3> QED BY <3>2, <3>3
    <2>4. W = A \cup B
      <3>1. W \subseteq DOMAIN heap.jobs
        BY DEF Where
      <3> HIDE DEF W, A, B
      <3> QED BY <2>1, <2>3, <3>1
    <2> HIDE DEF W, A, B
    <2>5. Cardinality(A) \in Nat /\ Cardinality(B) \in Nat /\ Cardinality(A \cap B) = 0
      BY <2>1, <2>2, FS_CardinalityType, FS_EmptySet
    <2>6. Cardinality(A \cup B) = Cardinality(A) + Cardinality(B) - Cardinality(A \cap B)
      BY <2>2, FS_Union
    <2>7. Cardinality(W) = Cardinality(A) + Cardinality(B)
      BY <2>4, <2>5, <2>6
    <2> QED BY <2>5, <2>7 DEF W, A, B, Count
  <1>3. ASSUME NEW c PROVE Count(heap.jobs, JobsFor(AwaitsOf(c), {})) = Cardinality(QueuedWake(c))
    <2>1. \A i \in DOMAIN heap.jobs : heap.jobs[i] \in JobsFor(AwaitsOf(c), {}) <=> i \in QueuedWake(c)
      <3> SUFFICES ASSUME NEW i \in DOMAIN heap.jobs
                   PROVE  heap.jobs[i] \in JobsFor(AwaitsOf(c), {}) <=> i \in QueuedWake(c)
        OBVIOUS
      <3>1. CASE i \in Queued
        <4>1. IsReaction(heap.jobs[i]) /\ heap.jobs[i] \in Jobs /\ heap.jobs[i].reaction \in Reactions
          BY <3>1, JobIn
        <4>2. heap.jobs[i] \in JobsFor(AwaitsOf(c), {}) <=> heap.jobs[i].reaction \in AwaitsOf(c)
          BY <4>1, TokenKinds, JobsForParts
        <4> QED BY <3>1, <4>1, <4>2 DEF AwaitsOf, QueuedWake
      <3>2. CASE i \notin Queued
        <4>1. ~ IsReaction(heap.jobs[i]) /\ heap.jobs[i] \in Jobs
          BY <3>2, JobIn
        <4>2. heap.jobs[i] \notin JobsFor(AwaitsOf(c), {})
          BY <4>1 DEF JobsFor
        <4> QED BY <3>2, <4>2 DEF QueuedWake
      <3> QED BY <3>1, <3>2
    <2>2. QueuedWake(c) \subseteq DOMAIN heap.jobs
      BY <1>1 DEF QueuedWake
    <2>3. Where(heap.jobs, JobsFor(AwaitsOf(c), {})) = QueuedWake(c)
      BY <2>1, <2>2 DEF Where
    <2> QED BY <2>3 DEF Count
  <1> QED BY <1>2, <1>3

\* Holders of PromiseJobs counts what the invariant counts.
LEMMA HoldersTotal ==
    ASSUME Inv, NEW p
    PROVE  Holders(p) = Total(heap, stack, suspended, p)
  <1> DEFINE a == Cardinality({i \in DOMAIN stack : stack[i].promise = p
                                      /\ stack[i].op \in {"async", "returning", "reaction"}})
             b == Cardinality({s \in suspended : s.promise = p})
             c == Cardinality(KeptFor(p))
             d == Cardinality(QueuedFor(p))
             e == Cardinality(ThenablesOf(p))
  <1>1. Holders(p) = a + b + c + d + e
    BY DEF Holders, KeptFor, QueuedFor, ThenablesOf
  <1>2. a = Count(stack, FramesOf(p))
    <2>1. \A i \in DOMAIN stack : stack[i] \in Frames
      BY InvParts
    <2>2. {i \in DOMAIN stack : stack[i].promise = p /\ stack[i].op \in {"async", "returning", "reaction"}}
          = Where(stack, FramesOf(p))
      BY <2>1 DEF Where, FramesOf, Owners
    <2> QED BY <2>2 DEF Count
  <1>3. b = Cardinality(Asleep(suspended, p))
    BY DEF Asleep
  <1>4. c = KeptCount(heap.reactions, Of(p))
    BY KeptSizes
  <1>5. d + e = Count(heap.jobs, JobsFor(Of(p), Thenables(p))) /\ d \in Nat /\ e \in Nat
    BY JobSizes
  <1> HIDE DEF a, b, c, d, e
  <1>6. Total(heap, stack, suspended, p) = (c + (d + e)) + a + b
    BY <1>2, <1>3, <1>4, <1>5 DEF Total, Holds, Tokens
  <1>7. a \in Nat /\ b \in Nat /\ c \in Nat
    BY <1>2, <1>3, <1>4, InvParts, TotalType, TokensType
  <1>8. (c + (d + e)) + a + b = a + b + c + d + e
    BY <1>5, <1>7
  <1> QED BY <1>1, <1>6, <1>8

\* No pending promise is forgotten, and none is in two hands: settle_promise,
\* resolve_promise, the opcodes and drain_jobs pass each promise the program cannot
\* settle itself from one frame, continuation, reaction or job to one other.
THEOREM PendingOwned == Spec => []PendingIsOwned
  <1>1. Inv => PendingIsOwned
    <2> SUFFICES ASSUME Inv, NEW p \in 1..heap.made, heap.state[p] = "pending", p \notin heap.held \cup heap.orphans
                 PROVE  Holders(p) = 1
      BY DEF PendingIsOwned
    <2>1. p \in Ids
      BY InvParts
    <2>2. Total(heap, stack, suspended, p) = 1
      BY <2>1, InvParts DEF Owned, Pending
    <2> QED BY <2>2, HoldersTotal
  <1> QED BY <1>1, Inductive, PTL

\* What resumes a continuation, counted by the properties and by the invariant.
LEMMA Awaiting ==
    ASSUME Inv, NEW c
    PROVE  Cardinality(KeptWake(c)) + Cardinality(QueuedWake(c)) = Waits(heap, c)
  BY KeptSizes, JobSizes DEF Waits, Tokens

\* A reaction that resumes something resumes a continuation that is there.
LEMMA Awaiter ==
    ASSUME Inv, NEW r \in Reactions, r.kind = "await",
           \/ \E x \in Positions : Kept(x) = r
           \/ \E i \in Queued : heap.jobs[i].reaction = r
    PROVE  \E s \in suspended : s.id = r.id
  <1> DEFINE c == r.id
  <1>1. c \in 1..MaxOps /\ r \in AwaitsOf(c)
    BY DEF Reactions, ThenReactions, AwaitReactions, AwaitsOf
  <1> HIDE DEF c
  <1>2. SUFFICES ASSUME \A s \in suspended : s.id # c PROVE FALSE
    BY DEF c
  <1>3. Waits(heap, c) = 0
    BY <1>1, <1>2, InvParts DEF Wakes
  <1>4. /\ \A p \in Ids : \A i \in DOMAIN heap.reactions[p] : heap.reactions[p][i] \notin AwaitsOf(c)
        /\ \A i \in DOMAIN heap.jobs : IsReaction(heap.jobs[i]) => heap.jobs[i].reaction \notin AwaitsOf(c)
    BY <1>3, InvParts, TokenKinds, NothingHeld DEF Waits
  <1>5. ~ \E x \in Positions : Kept(x) = r
    BY <1>1, <1>4, KeptIn
  <1>6. ~ \E i \in Queued : heap.jobs[i].reaction = r
    BY <1>1, <1>4, JobIn DEF Queued
  <1> QED BY <1>5, <1>6

\* Every async function that is suspended is resumed by one reaction or job, and
\* resume_async_continuation never misses the frame it is to resume.
THEOREM Continuations == Spec => []ContinuationHeld
  <1>1. Inv => ContinuationHeld
    <2> SUFFICES ASSUME Inv PROVE ContinuationHeld
      OBVIOUS
    <2>1. ASSUME NEW s \in suspended PROVE Cardinality(KeptWake(s.id)) + Cardinality(QueuedWake(s.id)) = 1
      <3>1. s.id \in 1..MaxOps
        BY InvParts DEF Sleepers
      <3>2. Waits(heap, s.id) = 1
        BY <3>1, InvParts DEF Wakes
      <3> QED BY <3>2, Awaiting
    <2>2. ASSUME NEW r \in {Kept(x) : x \in Positions} \cup {heap.jobs[i].reaction : i \in Queued}, r.kind = "await"
          PROVE  \E s \in suspended : s.id = r.id
      <3>1. (\E x \in Positions : Kept(x) = r) \/ (\E i \in Queued : heap.jobs[i].reaction = r)
        OBVIOUS
      <3>2. r \in Reactions
        BY <3>1, KeptIn, JobIn DEF Queued
      <3> QED BY <2>2, <3>1, <3>2, Awaiter
    <2>3. ASSUME NEW x \in Positions PROVE heap.state[x[1]] = "pending"
      <3>1. x[1] \in Ids /\ heap.reactions[x[1]] # <<>>
        BY KeptIn
      <3> QED BY <3>1, InvParts DEF HeapInv, KeptPending, Pending
    <2>4. outcome # "fault"
      BY DEF Inv, Over
    <2> QED BY <2>1, <2>2, <2>3, <2>4 DEF ContinuationHeld, KeptWake, QueuedWake
  <1> QED BY <1>1, Inductive, PTL

\* The reactions to a promise are queued and run in the order in which they were
\* registered, whether by then(), by await or by the adoption of the promise, those
\* registered after settlement included.
THEOREM InOrder == Spec => []ReactionOrder
  <1>1. Inv => ReactionOrder
    <2> SUFFICES ASSUME Inv PROVE ReactionOrder
      OBVIOUS
    <2>1. OrderedKept(heap) /\ OrderedJobs(heap)
      BY InvParts DEF HeapInv
    <2>2. \A i, j \in Queued : i < j /\ heap.jobs[i].from = heap.jobs[j].from
                               => Before(heap.jobs[i].reaction, heap.jobs[j].reaction)
      BY <2>1 DEF OrderedJobs, BeforeJob, Queued, IsReaction
    <2> QED BY <2>1, <2>2 DEF OrderedKept, ReactionOrder
  <1> QED BY <1>1, Inductive, PTL

\* When main has completed or nothing can resume it, the queue is empty and every
\* function still suspended awaits a promise that is pending.
THEOREM Ended == Spec => []NothingLeft
  <1>1. Inv => NothingLeft
    <2> SUFFICES ASSUME Inv, outcome \in {"completed", "stuck"} PROVE /\ heap.jobs = <<>>
                     /\ \A s \in suspended : \E x \in Positions : Kept(x).kind = "await" /\ Kept(x).id = s.id
      BY DEF NothingLeft
    <2>1. heap.jobs = <<>>
      BY DEF Inv, Over
    <2>2. ASSUME NEW s \in suspended
          PROVE  \E x \in Positions : Kept(x).kind = "await" /\ Kept(x).id = s.id
      <3>1. s.id \in 1..MaxOps
        BY InvParts DEF Sleepers
      <3>2. Waits(heap, s.id) = 1
        BY <3>1, InvParts DEF Wakes
      <3>3. QueuedWake(s.id) = {}
        BY <2>1 DEF QueuedWake, Queued
      <3>4. KeptWake(s.id) # {}
        <4> SUFFICES ASSUME KeptWake(s.id) = {} PROVE FALSE
          OBVIOUS
        <4>1. Cardinality(KeptWake(s.id)) = 0 /\ Cardinality(QueuedWake(s.id)) = 0
          BY <3>3, FS_EmptySet
        <4> QED BY <3>2, <4>1, Awaiting
      <3> QED BY <3>4 DEF KeptWake
    <2> QED BY <2>1, <2>2
  <1> QED BY <1>1, Inductive, PTL

\* drain_jobs runs inside itself in one way only: an async function that the host's
\* drain resumed returns as the only call frame.
THEOREM Depth == Spec => []DrainDepth
  <1>1. Inv => DrainDepth
    <2> SUFFICES ASSUME Inv, NEW i \in DOMAIN stack, stack[i].op = "drain", i > 1
                 PROVE  \/ i = 2 /\ stack[1].op = "returning" /\ stack[1].promise = 0
                        \/ i = 3 /\ stack[1].op = "drain" /\ stack[2].op = "returning"
      BY DEF DrainDepth
    <2>1. \/ i = 2 /\ IsReturning(stack[1]) /\ IsBase(stack[1])
          \/ i = 3 /\ IsDrain(stack[1]) /\ IsReturning(stack[2])
      <3>1. IsDrain(stack[i])
        BY DEF IsDrain
      <3> QED BY <3>1, InvParts DEF Shape
    <2>2. IsReturning(stack[1]) /\ IsBase(stack[1]) => stack[1].promise = 0
      BY DEF IsReturning, IsBase, IsMain
    <2> QED BY <2>1, <2>2 DEF IsReturning, IsDrain
  <1> QED BY <1>1, Inductive, PTL
=============================================================================
