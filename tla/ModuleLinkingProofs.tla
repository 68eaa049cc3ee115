------------------------ MODULE ModuleLinkingProofs -------------------------
(*****************************************************************************)
(* Proofs about ModuleLinking, for every set of modules and every program:   *)
(* DynamicAligned, PartialIsReported and LinkOrder. They rest on one         *)
(* invariant of the call stacks of load_module_graph and link_module: where  *)
(* each call is in the requests of its module, what it waits for, and what   *)
(* the calls that are no longer there have left in the graph.                *)
(*                                                                           *)
(* What resolve_export returns is not looked into: these properties hold     *)
(* whatever it returns. TypeOK, LiveUnlessForwarded, LinkVerdict and         *)
(* NamespaceExact depend on it, and are proved in NameResolutionProofs.      *)
(*****************************************************************************)
EXTENDS ModuleLinking, SequenceTheorems, FiniteSetTheorems, WellFoundedInduction, TLAPS

\* A call that has a request left; a module with a call in progress.
Has(f)     == f.todo # <<>> \/ f.dynamic # <<>>
OnStack(m) == \E i \in DOMAIN stack : stack[i].mod = m

\* Whether every static request of m has its dependency, every import() its
\* resolution, and some import() the answer that its module could not be loaded.
Satisfied(m) == Requested(code[m]) \subseteq deps[m]
Answered(m)  == Len(dynamic[m]) = Len(code[m].dynamic)
Told         == \E m \in Recorded : Unresolved \in ToSet(dynamic[m])

\* What remains of a load that is over. A record can be short of resolutions only if
\* it is short of a dependency, too, and only if some import() was told.
Loaded(m)    == (Satisfied(m) => Answered(m)) /\ (Satisfied(m) \/ Told)

\* The records, and the dependencies they have: requested ones, among the records.
Graph ==
    /\ code \in Programs
    /\ records \in Seq(Modules)
    /\ Recorded \cap Missing = {}
    /\ deps \in [Modules -> SUBSET Modules]
    /\ \A m \in Modules : deps[m] \subseteq Recorded \cap Requested(code[m])
    /\ dynamic \in [Modules -> Seq(Modules \cup {Unresolved})]

\* The resolutions of m so far answer its import() requests in order; a module not
\* in the graph has nothing.
Answers(m) ==
    \A i \in DOMAIN dynamic[m] :
        /\ i \in DOMAIN code[m].dynamic
        /\ dynamic[m][i] = code[m].dynamic[i] \/ dynamic[m][i] = Unresolved
        /\ dynamic[m][i] \notin Missing

Fresh(m) == deps[m] = {} /\ dynamic[m] = <<>>

Dynamics == \A m \in Modules : Answers(m) /\ (m \notin Recorded => Fresh(m))

\* Where a call of load_module_graph is in the requests of its module: what it has
\* to do continues what was done.
Position(f) ==
    /\ Len(dynamic[f.mod]) + Len(f.dynamic) = Len(code[f.mod].dynamic)
    /\ \A i \in DOMAIN f.dynamic : f.dynamic[i] = code[f.mod].dynamic[Len(dynamic[f.mod]) + i]
    /\ ToSet(f.todo) \subseteq Requested(code[f.mod])
    /\ Requested(code[f.mod]) \subseteq deps[f.mod] \cup ToSet(f.todo)

\* The calls in progress are of one function, for different records.
Calls(op) ==
    /\ \A i \in DOMAIN stack : stack[i].op = op /\ stack[i].mod \in Recorded
    /\ \A i, j \in DOMAIN stack : stack[i].mod = stack[j].mod => i = j

\* A call whose answer will be d, which it does not have yet.
Waiting(f, d) == Has(f) /\ d = Awaiting(f) /\ (f.todo # <<>> => d \notin deps[f.mod])

\* While the graph is loaded: each call waits for the one above it, and a record
\* without a call was loaded or was dropped on the way to an import().
Loading ==
    /\ Calls("load")
    /\ stack # <<>>
    /\ \A i \in DOMAIN stack : Position(stack[i])
    /\ \A i \in DOMAIN stack : i + 1 \in DOMAIN stack => Waiting(stack[i], stack[i + 1].mod)
    /\ \A m \in Recorded : ~OnStack(m) => Loaded(m)
    /\ \A m \in Modules : status[m] = "Unlinked"
    /\ outcome = "running"

\* Of its dependencies, a call of link_module has still to visit the ones to do.
Visited(f) == \A d \in deps[f.mod] : d \in ToSet(f.todo) \/ status[d] # "Unlinked"

\* While records are linked: Linking is the status of the records on the stack, and
\* each call is for a dependency of the one below.
Linking ==
    /\ Calls("link")
    /\ \A i \in DOMAIN stack : Visited(stack[i])
    /\ \A i \in DOMAIN stack : i + 1 \in DOMAIN stack => stack[i + 1].mod \in deps[stack[i].mod]
    /\ \A m \in Modules : status[m] # "Errored" /\ (status[m] = "Linking" <=> OnStack(m))
    /\ outcome = "running"

\* The inductive invariant. DynamicAligned and PartialIsReported say nothing of the
\* calls in progress, and are not inductive: an error that goes up the stack
\* drops calls, and that what they leave is reported follows from each of them
\* waiting for a static request which its record cannot have (Waiting).
Inv ==
    /\ Graph
    /\ Dynamics
    /\ stack \in Seq(Frames)
    /\ status \in [Modules -> Statuses]
    /\ phase \in {"load", "link", "end"}
    /\ phase = "load" => Loading
    /\ phase = "link" => Linking
    /\ phase = "end" => stack = <<>>
    /\ phase # "load" /\ outcome # "loadError" => \A m \in Recorded : Loaded(m)

\* A value appended to a sequence is its last, and the others stay.
LEMMA Pushed ==
    ASSUME NEW S, NEW s \in Seq(S), NEW f \in S
    PROVE  /\ Append(s, f) \in Seq(S) /\ Append(s, f) # <<>> /\ Len(Append(s, f)) = Len(s) + 1
           /\ Len(s) \in Nat /\ DOMAIN s = 1..Len(s) /\ DOMAIN Append(s, f) = 1..(Len(s) + 1)
           /\ Append(s, f)[Len(s) + 1] = f
           /\ \A i \in DOMAIN s : Append(s, f)[i] = s[i]
  OBVIOUS

\* The last value of a sequence is taken: the others stay in place.
LEMMA LastFront ==
    ASSUME NEW S, NEW s \in Seq(S), s # <<>>
    PROVE  /\ Front(s) \in Seq(S) /\ Len(Front(s)) = Len(s) - 1
           /\ Len(s) \in Nat \ {0} /\ DOMAIN s = 1..Len(s) /\ DOMAIN Front(s) = 1..(Len(s) - 1)
           /\ Last(s) = s[Len(s)] /\ Last(s) \in S
           /\ \A i \in DOMAIN Front(s) : Front(s)[i] = s[i]
  <1>1. Len(s) \in Nat \ {0} /\ DOMAIN s = 1..Len(s)
    BY EmptySeq
  <1>2. \A i \in 1..(Len(s) - 1) : s[i] \in S
    BY <1>1
  <1>3. /\ SubSeq(s, 1, Len(s) - 1) \in Seq(S)
        /\ Len(SubSeq(s, 1, Len(s) - 1)) = Len(s) - 1
        /\ \A i \in 1..(Len(s) - 1) : SubSeq(s, 1, Len(s) - 1)[i] = s[i]
    BY <1>1, <1>2, SubSeqProperties
  <1> QED BY <1>1, <1>3 DEF Front, Last

\* The first value of a sequence is taken: the others move down by one.
LEMMA Behead ==
    ASSUME NEW S, NEW s \in Seq(S), s # <<>>
    PROVE  /\ Tail(s) \in Seq(S) /\ Len(Tail(s)) = Len(s) - 1
           /\ Len(s) \in Nat \ {0} /\ DOMAIN s = 1..Len(s) /\ DOMAIN Tail(s) = 1..(Len(s) - 1)
           /\ Head(s) = s[1] /\ Head(s) \in S
           /\ \A i \in DOMAIN Tail(s) : Tail(s)[i] = s[i + 1]
  BY HeadTailProperties, EmptySeq

\* The values of a sequence with one more.
LEMMA SetOfAppend ==
    ASSUME NEW S, NEW s \in Seq(S), NEW x \in S
    PROVE  ToSet(Append(s, x)) = ToSet(s) \cup {x}
  <1> DEFINE t == Append(s, x)
             n == Len(s) + 1
  <1>1. /\ n \in Nat /\ n \notin DOMAIN s /\ DOMAIN t = DOMAIN s \cup {n}
        /\ t[n] = x /\ \A i \in DOMAIN s : t[i] = s[i]
    BY Pushed
  <1> HIDE DEF t, n
  <1>2. ToSet(t) = ToSet(s) \cup {x}
    BY <1>1 DEF ToSet
  <1> QED BY <1>2 DEF t

\* The values of a sequence are its first and those of the rest.
LEMMA SetOfTail ==
    ASSUME NEW S, NEW s \in Seq(S), s # <<>>
    PROVE  ToSet(s) = {Head(s)} \cup ToSet(Tail(s))
  <1> DEFINE t == Tail(s)
             h == Head(s)
  <1>1. /\ Len(s) \in Nat \ {0} /\ DOMAIN s = 1..Len(s) /\ DOMAIN t = 1..(Len(s) - 1)
        /\ h = s[1] /\ \A i \in DOMAIN t : t[i] = s[i + 1]
    BY Behead
  <1> HIDE DEF t, h
  <1>2. ASSUME NEW x \in ToSet(s)
        PROVE  x \in {h} \cup ToSet(t)
    <2>1. PICK i \in DOMAIN s : x = s[i]
      BY DEF ToSet
    <2>2. CASE i = 1
      BY <1>1, <2>1, <2>2
    <2>3. CASE i # 1
      <3>1. i - 1 \in DOMAIN t /\ t[i - 1] = s[(i - 1) + 1] /\ (i - 1) + 1 = i
        BY <1>1, <2>1, <2>3
      <3> QED BY <2>1, <3>1 DEF ToSet
    <2> QED BY <2>2, <2>3
  <1>3. ASSUME NEW x \in ToSet(t)
        PROVE  x \in ToSet(s)
    <2>1. PICK i \in DOMAIN t : x = t[i]
      BY <1>3 DEF ToSet
    <2>2. i + 1 \in DOMAIN s /\ x = s[i + 1]
      BY <1>1, <2>1
    <2> QED BY <2>2 DEF ToSet
  <1>4. h \in ToSet(s)
    <2>1. 1 \in DOMAIN s
      BY <1>1
    <2> QED BY <1>1, <2>1 DEF ToSet
  <1> QED BY <1>2, <1>3, <1>4 DEF t, h

\* An empty sequence has no values.
LEMMA SetOfEmpty == ToSet(<<>>) = {}
  BY DEF ToSet

\* A nonempty set of natural numbers has a least member. A proof by induction
\* below takes the least number for which its statement fails.
LEMMA LeastNat ==
    ASSUME NEW T \in SUBSET Nat, T # {}
    PROVE  \E n \in T : \A m \in T : n <= m
  <1>1. \E n \in T : \A m \in T : <<m, n>> \notin OpToRel(<, Nat)
    BY NatLessThanWellFounded, WFMin
  <1>2. PICK n \in T : \A m \in T : <<m, n>> \notin OpToRel(<, Nat)
    BY <1>1
  <1>3. \A m \in T : ~ (m < n)
    BY <1>2 DEF OpToRel
  <1> QED BY <1>3

\* Induction, over a set of natural numbers.
LEMMA NatSteps ==
    ASSUME NEW T, 0 \in T, \A k \in Nat : k \in T => k + 1 \in T
    PROVE  \A n \in Nat : n \in T
  <1> DEFINE U == {i \in Nat : i \notin T}
  <1>1. SUFFICES ASSUME U # {} PROVE FALSE
    OBVIOUS
  <1>2. PICK i \in U : \A j \in U : i <= j
    <2>1. U \in SUBSET Nat
      OBVIOUS
    <2> HIDE DEF U
    <2> QED BY <1>1, <2>1, LeastNat
  <1>3. i # 0
    BY <1>2
  <1>4. i - 1 \in Nat /\ ~ (i <= i - 1) /\ (i - 1) + 1 = i
    BY <1>2, <1>3
  <1>5. i - 1 \notin U
    BY <1>2, <1>4
  <1> QED BY <1>2, <1>4, <1>5

\* Max chooses the greatest member of a nonempty set of indices.
LEMMA MaxOf ==
    ASSUME NEW n \in Nat, NEW T \in SUBSET (1..n), T # {}
    PROVE  Max(T) \in T /\ \A i \in T : i <= Max(T)
  <1> DEFINE U == {k \in Nat : n - k \in T}
  <1>0. \A i \in T : i \in 1..n /\ n - i \in Nat /\ n - (n - i) = i
    OBVIOUS
  <1>1. U \in SUBSET Nat /\ U # {}
    <2>1. PICK i \in T : TRUE
      OBVIOUS
    <2>2. n - i \in U
      BY <1>0
    <2> QED BY <2>2
  <1>2. PICK k \in U : \A j \in U : k <= j
    BY <1>1, LeastNat
  <1>3. PICK m \in T : k = n - m
    BY <1>0, <1>2
  <1>4. \A i \in T : m >= i
    <2> TAKE i \in T
    <2>1. n - i \in U
      BY <1>0
    <2>2. n - m <= n - i
      BY <1>2, <1>3, <2>1
    <2> QED BY <1>0, <2>2
  <1>5. Max(T) \in T /\ \A i \in T : Max(T) >= i
    BY <1>3, <1>4 DEF Max
  <1> QED BY <1>5

\* The requests of a module are sequences of modules.
LEMMA CodeTypes ==
    ASSUME Graph, NEW m \in Modules
    PROVE  code[m].requests \in Seq(Modules) /\ code[m].dynamic \in Seq(Modules)
  <1>1. code \in [Modules -> Metadata]
    BY LinkingAssumption DEF Graph
  <1>2. code[m] \in Metadata
    BY <1>1
  <1> QED BY <1>2 DEF Metadata

\* So is what a call has to do.
LEMMA FrameTypes ==
    ASSUME NEW f \in Frames
    PROVE  f.mod \in Modules /\ f.todo \in Seq(Modules) /\ f.dynamic \in Seq(Modules)
  BY DEF Frames

\* A call goes on to its next static request.
LEMMA NextStatic ==
    ASSUME NEW f \in Frames, f.todo # <<>>
    PROVE  LET g == [f EXCEPT !.todo = Tail(@)] IN
           /\ g \in Frames /\ g.op = f.op /\ g.mod = f.mod /\ g.dynamic = f.dynamic
           /\ g.todo = Tail(f.todo)
  <1>1. Tail(f.todo) \in Seq(Modules)
    BY FrameTypes, Behead
  <1> QED BY <1>1 DEF Frames

\* A call goes on to its next import() request.
LEMMA NextDynamic ==
    ASSUME NEW f \in Frames, f.dynamic # <<>>
    PROVE  LET g == [f EXCEPT !.dynamic = Tail(@)] IN
           /\ g \in Frames /\ g.op = f.op /\ g.mod = f.mod /\ g.todo = f.todo
           /\ g.dynamic = Tail(f.dynamic)
  <1>1. Tail(f.dynamic) \in Seq(Modules)
    BY FrameTypes, Behead
  <1> QED BY <1>1 DEF Frames

\* The calls that load and link a module begin with its requests.
LEMMA NewFrames ==
    ASSUME Graph, NEW m \in Modules
    PROVE  /\ LoadFrame(m) \in Frames /\ LoadFrame(m).op = "load" /\ LoadFrame(m).mod = m
           /\ LoadFrame(m).todo = code[m].requests /\ LoadFrame(m).dynamic = code[m].dynamic
           /\ LinkFrame(m) \in Frames /\ LinkFrame(m).op = "link" /\ LinkFrame(m).mod = m
           /\ LinkFrame(m).todo = code[m].requests
  <1>1. code[m].requests \in Seq(Modules) /\ code[m].dynamic \in Seq(Modules) /\ <<>> \in Seq(Modules)
    BY CodeTypes
  <1> QED BY <1>1 DEF LoadFrame, LinkFrame, Frames

-----------------------------------------------------------------------------
\* The call on top of the stack.
LEMMA OnTop ==
    ASSUME Inv, stack # <<>>
    PROVE  /\ Top \in Frames /\ Len(stack) \in Nat \ {0} /\ DOMAIN stack = 1..Len(stack)
           /\ Top = stack[Len(stack)] /\ Len(stack) \in DOMAIN stack
  BY LastFront DEF Inv, Top

\* A call of load_module_graph is made while the graph is loaded only.
LEMMA LoadPhase ==
    ASSUME Inv, Running("load")
    PROVE  phase = "load" /\ Loading /\ stack # <<>>
  <1>1. stack # <<>> /\ Top.op = "load"
    BY DEF Running, Idle
  <1>2. Len(stack) \in DOMAIN stack /\ Top = stack[Len(stack)]
    BY <1>1, OnTop
  <1>3. ~ Calls("link")
    BY <1>1, <1>2 DEF Calls
  <1> QED BY <1>1, <1>3 DEF Inv, Linking

\* A call of link_module is made while records are linked only.
LEMMA LinkPhase ==
    ASSUME Inv, Running("link")
    PROVE  phase = "link" /\ Linking /\ stack # <<>>
  <1>1. stack # <<>> /\ Top.op = "link"
    BY DEF Running, Idle
  <1>2. Len(stack) \in DOMAIN stack /\ Top = stack[Len(stack)]
    BY <1>1, OnTop
  <1>3. ~ Calls("load")
    BY <1>1, <1>2 DEF Calls
  <1> QED BY <1>1, <1>3 DEF Inv, Loading

\* A request is a module.
LEMMA AwaitingType ==
    ASSUME NEW f \in Frames, Has(f)
    PROVE  Awaiting(f) \in Modules
  BY FrameTypes, Behead DEF Has, Awaiting

\* A record is of a module.
LEMMA InModules ==
    ASSUME Graph
    PROVE  \A m \in Recorded : m \in Modules
  BY DEF Graph, Recorded, ToSet

\* A call above the one that goes on may be left as it is.
Dropped(m) == Loaded(m) \/ (~ Satisfied(m) /\ Told')

\* What was loaded stays so.
LEMMA LoadedStays ==
    ASSUME NEW m, deps'[m] = deps[m], dynamic'[m] = dynamic[m], UNCHANGED <<code, records>>,
           Told => Told', Dropped(m)
    PROVE  Loaded(m)'
  <1>1. Satisfied(m)' <=> Satisfied(m)
    BY DEF Satisfied
  <1>2. Answered(m)' <=> Answered(m)
    BY DEF Answered
  <1> QED BY <1>1, <1>2 DEF Dropped, Loaded

\* A call, the n-th, gets its answer and goes on; the calls above it are gone. What
\* the call then is, and what becomes of the graph, are assumptions.
LEMMA Resumed ==
    ASSUME Inv, phase = "load", NEW n \in DOMAIN stack, NEW g \in Frames,
           stack' \in Seq(Frames), Len(stack') = n, \A i \in 1..(n - 1) : stack'[i] = stack[i],
           stack'[n] = g, g.mod = stack[n].mod, g.op = "load", Position(g)',
           UNCHANGED <<code, records, linkVars, ending>>, Graph', Dynamics',
           \A m \in Modules : m # g.mod => deps'[m] = deps[m] /\ dynamic'[m] = dynamic[m],
           Told => Told',
           \A i \in DOMAIN stack : i > n => Dropped(stack[i].mod)
    PROVE  Inv'
  <1>1. /\ Loading /\ stack \in Seq(Frames) /\ Len(stack) \in Nat /\ DOMAIN stack = 1..Len(stack)
        /\ n \in Nat \ {0} /\ DOMAIN stack' = 1..n /\ n \in DOMAIN stack'
    BY DEF Inv
  <1>2. /\ \A i \in DOMAIN stack' : i \in DOMAIN stack /\ i <= n
        /\ \A i \in DOMAIN stack' : i # n => i \in 1..(n - 1)
    BY <1>1
  <1>3. \A i \in DOMAIN stack' : stack'[i].mod = stack[i].mod
    BY <1>2
  <1>4. Calls("load")'
    <2>1. Calls("load") /\ Recorded' = Recorded
      BY <1>1 DEF Loading, Recorded
    <2>2. \A i \in DOMAIN stack' : stack'[i].op = "load"
      BY <1>2, <2>1 DEF Calls
    <2>3. \A i \in DOMAIN stack' : stack'[i].mod \in Recorded'
      BY <1>2, <1>3, <2>1 DEF Calls
    <2>4. \A i, j \in DOMAIN stack' : stack'[i].mod = stack'[j].mod => i = j
      BY <1>2, <1>3, <2>1 DEF Calls
    <2> QED BY <2>2, <2>3, <2>4 DEF Calls
  <1>5. \A i \in DOMAIN stack' : i # n =>
            /\ stack'[i] = stack[i] /\ stack[i] \in Frames
            /\ stack[i].mod \in Modules /\ stack[i].mod # g.mod
            /\ deps'[stack[i].mod] = deps[stack[i].mod] /\ dynamic'[stack[i].mod] = dynamic[stack[i].mod]
    <2> SUFFICES ASSUME NEW i \in DOMAIN stack', i # n
                 PROVE  /\ stack'[i] = stack[i] /\ stack[i] \in Frames
                        /\ stack[i].mod \in Modules /\ stack[i].mod # g.mod
                        /\ deps'[stack[i].mod] = deps[stack[i].mod]
                        /\ dynamic'[stack[i].mod] = dynamic[stack[i].mod]
      OBVIOUS
    <2>1. stack'[i] = stack[i] /\ stack[i] \in Frames /\ i \in DOMAIN stack
      BY <1>1, <1>2
    <2>2. stack[i].mod \in Modules
      BY <2>1, FrameTypes
    <2>3. stack[i].mod # g.mod
      BY <1>1, <2>1 DEF Loading, Calls
    <2> QED BY <2>1, <2>2, <2>3
  <1>6. \A i \in DOMAIN stack' : Position(stack[i])'
    <2> SUFFICES ASSUME NEW i \in DOMAIN stack'
                 PROVE  Position(stack[i])'
      OBVIOUS
    <2>1. CASE i = n
      BY <2>1
    <2>2. CASE i # n
      <3>1. Position(stack[i]) /\ code' = code
        BY <1>1, <1>2 DEF Loading
      <3>2. /\ stack'[i] = stack[i] /\ deps'[stack[i].mod] = deps[stack[i].mod]
            /\ dynamic'[stack[i].mod] = dynamic[stack[i].mod]
        BY <1>5, <2>2
      <3>3. PICK f \in Frames : f = stack[i]
        BY <1>5, <2>2
      <3>4. Position(f)'
        BY <3>1, <3>2, <3>3 DEF Position
      <3>5. stack'[i] = f
        BY <3>2, <3>3
      <3> QED BY <3>4, <3>5
    <2> QED BY <2>1, <2>2
  <1>7. \A i \in DOMAIN stack' : i + 1 \in DOMAIN stack' => Waiting(stack[i], stack[i + 1].mod)'
    <2> SUFFICES ASSUME NEW i \in DOMAIN stack', i + 1 \in DOMAIN stack'
                 PROVE  Waiting(stack[i], stack[i + 1].mod)'
      OBVIOUS
    <2>1. i # n
      BY <1>2
    <2>2. stack'[i] = stack[i] /\ deps'[stack[i].mod] = deps[stack[i].mod]
      BY <1>5, <2>1
    <2>3. stack'[i + 1].mod = stack[i + 1].mod
      BY <1>3
    <2>4. Waiting(stack[i], stack[i + 1].mod)
      BY <1>1, <1>2 DEF Loading
    <2> QED BY <2>2, <2>3, <2>4 DEF Waiting, Has, Awaiting
  <1>8. \A m \in Recorded' : ~OnStack(m)' => Loaded(m)'
    <2> SUFFICES ASSUME NEW m \in Recorded, ~OnStack(m)'
                 PROVE  Loaded(m)'
      BY DEF Recorded
    <2>1. m \in Modules
      BY InModules DEF Inv
    <2>2. m # g.mod
      BY <1>1 DEF OnStack
    <2>3. Dropped(m)
      <3>1. CASE OnStack(m)
        <4>1. PICK i \in DOMAIN stack : stack[i].mod = m
          BY <3>1 DEF OnStack
        <4>2. i \notin DOMAIN stack'
          BY <1>3, <4>1 DEF OnStack
        <4>3. i > n
          BY <1>1, <4>2
        <4> QED BY <4>1, <4>3
      <3>2. CASE ~ OnStack(m)
        BY <1>1, <3>2 DEF Loading, Dropped
      <3> QED BY <3>1, <3>2
    <2> QED BY <2>1, <2>2, <2>3, LoadedStays
  <1>9. \A m \in Modules : status'[m] = "Unlinked"
    BY <1>1 DEF Loading, linkVars
  <1>10. outcome' = "running" /\ phase' = "load" /\ stack' # <<>> /\ status' \in [Modules -> Statuses]
    BY <1>1 DEF Loading, Inv, linkVars, ending
  <1>11. Loading'
    BY <1>4, <1>6, <1>7, <1>8, <1>9, <1>10 DEF Loading
  <1> QED BY <1>10, <1>11 DEF Inv

\* The last call of a stack is replaced.
LEMMA Replaced ==
    ASSUME NEW S, NEW u \in Seq(S), NEW n \in Nat \ {0}, NEW g \in S, Len(u) = n - 1
    PROVE  /\ Append(u, g) \in Seq(S) /\ Len(Append(u, g)) = n /\ Append(u, g)[n] = g
           /\ \A i \in 1..(n - 1) : Append(u, g)[i] = u[i]
  <1>1. /\ Append(u, g) \in Seq(S) /\ Len(Append(u, g)) = Len(u) + 1 /\ Append(u, g)[Len(u) + 1] = g
        /\ DOMAIN u = 1..Len(u) /\ \A i \in DOMAIN u : Append(u, g)[i] = u[i]
    BY Pushed
  <1>2. Len(u) + 1 = n
    OBVIOUS
  <1> QED BY <1>1, <1>2

\* A static request is answered: the dependency is entered.
LEMMA StaticAnswer ==
    ASSUME Inv, phase = "load", NEW n \in DOMAIN stack, NEW d \in Recorded,
           NEW f \in Frames, f = stack[n], f.todo # <<>>, d = Head(f.todo),
           deps' = [deps EXCEPT ![f.mod] = @ \cup {d}],
           NEW u \in Seq(Frames), Len(u) = n - 1, \A i \in 1..(n - 1) : u[i] = stack[i],
           stack' = Append(u, [f EXCEPT !.todo = Tail(@)]),
           UNCHANGED <<code, records, dynamic, linkVars, ending>>,
           \A i \in DOMAIN stack : i > n => Loaded(stack[i].mod)
    PROVE  Inv'
  <1> DEFINE g == [f EXCEPT !.todo = Tail(@)]
             m == f.mod
  <1>1. Graph /\ Dynamics /\ stack \in Seq(Frames) /\ Loading
    BY DEF Inv
  <1>2. f \in Frames /\ f.todo # <<>> /\ Position(f) /\ f.op = "load"
    BY <1>1 DEF Loading, Calls
  <1>3. m \in Modules /\ f.todo \in Seq(Modules)
    BY <1>2, FrameTypes
  <1>4. g \in Frames /\ g.op = f.op /\ g.mod = m /\ g.dynamic = f.dynamic /\ g.todo = Tail(f.todo)
    BY <1>2, NextStatic
  <1>5. /\ stack' \in Seq(Frames) /\ Len(stack') = n /\ stack'[n] = g
        /\ \A i \in 1..(n - 1) : stack'[i] = stack[i]
    <2>1. n \in Nat \ {0} /\ stack' = Append(u, g)
      BY <1>1
    <2> HIDE DEF g
    <2>2. /\ Append(u, g) \in Seq(Frames) /\ Len(Append(u, g)) = n /\ Append(u, g)[n] = g
          /\ \A i \in 1..(n - 1) : Append(u, g)[i] = u[i]
      BY <1>4, <2>1, Replaced
    <2> QED BY <2>1, <2>2
  <1>6. ToSet(f.todo) = {d} \cup ToSet(Tail(f.todo))
    BY <1>2, <1>3, SetOfTail
  <1>7. d \in Requested(code[m]) /\ d = Head(f.todo)
    BY <1>2, <1>6 DEF Position
  <1>8. deps' = [deps EXCEPT ![m] = @ \cup {d}] /\ UNCHANGED <<code, records, dynamic>>
    OBVIOUS
  <1> HIDE DEF g, m
  <1>9. deps'[m] = deps[m] \cup {d} /\ \A k \in Modules : k # m => deps'[k] = deps[k]
    BY <1>1, <1>3, <1>8 DEF Graph
  <1>10. Graph'
    <2>1. d \in Modules
      BY <1>1, InModules
    <2>2. deps' \in [Modules -> SUBSET Modules]
      <3>1. deps \in [Modules -> SUBSET Modules] /\ deps[m] \cup {d} \in SUBSET Modules
        BY <1>1, <1>3, <2>1 DEF Graph
      <3> QED BY <1>3, <1>8, <3>1
    <2>3. \A k \in Modules : deps'[k] \subseteq Recorded \cap Requested(code[k])
      BY <1>1, <1>3, <1>7, <1>9 DEF Graph
    <2> QED BY <1>1, <1>8, <2>2, <2>3 DEF Graph, Recorded
  <1>11. m \in Recorded
    BY <1>1 DEF Loading, Calls, m
  <1>12. Dynamics'
    <2> SUFFICES ASSUME NEW k \in Modules
                 PROVE  Answers(k)' /\ (k \notin Recorded => Fresh(k)')
      BY <1>8 DEF Dynamics, Recorded
    <2>1. Answers(k)'
      BY <1>1, <1>8 DEF Dynamics, Answers
    <2>2. ASSUME k \notin Recorded
          PROVE  Fresh(k)'
      <3>1. Fresh(k) /\ k # m
        BY <1>1, <1>11, <2>2 DEF Dynamics
      <3> QED BY <1>8, <1>9, <3>1 DEF Fresh
    <2> QED BY <2>1, <2>2
  <1>13. Position(g)'
    <2>1. Requested(code[m]) \subseteq deps'[m] \cup ToSet(g.todo)
      BY <1>2, <1>4, <1>6, <1>9 DEF Position, m
    <2>2. ToSet(g.todo) \subseteq Requested(code[m])
      BY <1>2, <1>4, <1>6 DEF Position, m
    <2>3. /\ Len(dynamic[m]) + Len(g.dynamic) = Len(code[m].dynamic)
          /\ \A i \in DOMAIN g.dynamic : g.dynamic[i] = code[m].dynamic[Len(dynamic[m]) + i]
      BY <1>2, <1>4 DEF Position, m
    <2> QED BY <1>4, <1>8, <2>1, <2>2, <2>3 DEF Position
  <1>14. Told => Told'
    BY <1>8 DEF Told, Recorded
  <1>15. \A i \in DOMAIN stack : i > n => Dropped(stack[i].mod)
    BY DEF Dropped
  <1>16. \A k \in Modules : k # g.mod => deps'[k] = deps[k] /\ dynamic'[k] = dynamic[k]
    BY <1>4, <1>8, <1>9
  <1>17. g.mod = stack[n].mod /\ g.op = "load"
    BY <1>2, <1>4 DEF m
  <1> QED BY <1>4, <1>5, <1>10, <1>12, <1>13, <1>14, <1>15, <1>16, <1>17, Resumed

\* An import() request is answered, by a record or by Unresolved.
LEMMA DynamicAnswer ==
    ASSUME Inv, phase = "load", NEW n \in DOMAIN stack, NEW f \in Frames, f = stack[n],
           f.todo = <<>>, f.dynamic # <<>>,
           NEW x, x = Unresolved \/ (x \in Recorded /\ x = Head(f.dynamic)),
           dynamic' = [dynamic EXCEPT ![f.mod] = Append(@, x)],
           NEW u \in Seq(Frames), Len(u) = n - 1, \A i \in 1..(n - 1) : u[i] = stack[i],
           stack' = Append(u, [f EXCEPT !.dynamic = Tail(@)]),
           UNCHANGED <<code, records, deps, linkVars, ending>>,
           \A i \in DOMAIN stack : i > n => Loaded(stack[i].mod) \/ (~Satisfied(stack[i].mod) /\ x = Unresolved)
    PROVE  Inv'
  <1> DEFINE g == [f EXCEPT !.dynamic = Tail(@)]
             m == f.mod
  <1>1. Graph /\ Dynamics /\ stack \in Seq(Frames) /\ Loading
    BY DEF Inv
  <1>2. Position(f) /\ f.op = "load"
    BY <1>1 DEF Loading, Calls
  <1>3. m \in Modules /\ f.dynamic \in Seq(Modules)
    BY FrameTypes
  <1>4. g \in Frames /\ g.op = f.op /\ g.mod = m /\ g.todo = f.todo /\ g.dynamic = Tail(f.dynamic)
    BY NextDynamic
  <1>5. /\ stack' \in Seq(Frames) /\ Len(stack') = n /\ stack'[n] = g
        /\ \A i \in 1..(n - 1) : stack'[i] = stack[i]
    <2>1. n \in Nat \ {0} /\ stack' = Append(u, g)
      BY <1>1
    <2> HIDE DEF g
    <2>2. /\ Append(u, g) \in Seq(Frames) /\ Len(Append(u, g)) = n /\ Append(u, g)[n] = g
          /\ \A i \in 1..(n - 1) : Append(u, g)[i] = u[i]
      BY <1>4, <2>1, Replaced
    <2> QED BY <2>1, <2>2
  <1>6. m \in Recorded
    BY <1>1 DEF Loading, Calls, m
  <1>7. dynamic' = [dynamic EXCEPT ![m] = Append(@, x)] /\ UNCHANGED <<code, records, deps>>
    OBVIOUS
  <1> HIDE DEF g, m
  <1>8. x \in Modules \cup {Unresolved} /\ x \notin Missing
    <2>1. \A r \in Recorded : r \in Modules /\ r \notin Missing
      BY <1>1, InModules DEF Graph
    <2>2. Unresolved \notin Missing
      BY LinkingAssumption
    <2> QED BY <2>1, <2>2
  <1>9. dynamic[m] \in Seq(Modules \cup {Unresolved})
    BY <1>1, <1>3 DEF Graph
  <1>10. /\ dynamic'[m] = Append(dynamic[m], x)
         /\ \A k \in Modules : k # m => dynamic'[k] = dynamic[k]
    BY <1>1, <1>3, <1>7 DEF Graph
  <1>11. /\ Append(dynamic[m], x) \in Seq(Modules \cup {Unresolved})
         /\ Len(dynamic[m]) \in Nat /\ DOMAIN dynamic[m] = 1..Len(dynamic[m])
         /\ DOMAIN dynamic'[m] = 1..(Len(dynamic[m]) + 1) /\ Len(dynamic'[m]) = Len(dynamic[m]) + 1
         /\ dynamic'[m][Len(dynamic[m]) + 1] = x
         /\ \A i \in DOMAIN dynamic[m] : dynamic'[m][i] = dynamic[m][i]
    <2> DEFINE old == dynamic[m]
               V   == Modules \cup {Unresolved}
    <2>1. old \in Seq(V) /\ x \in V /\ dynamic'[m] = Append(old, x)
      BY <1>8, <1>9, <1>10
    <2> HIDE DEF old, V
    <2>2. /\ Append(old, x) \in Seq(V) /\ Len(Append(old, x)) = Len(old) + 1
          /\ Len(old) \in Nat /\ DOMAIN old = 1..Len(old)
          /\ DOMAIN Append(old, x) = 1..(Len(old) + 1) /\ Append(old, x)[Len(old) + 1] = x
          /\ \A i \in DOMAIN old : Append(old, x)[i] = old[i]
      BY <2>1, Pushed
    <2> QED BY <2>1, <2>2 DEF old, V
  <1>12. Graph'
    <2>1. dynamic' \in [Modules -> Seq(Modules \cup {Unresolved})]
      <3>1. dynamic \in [Modules -> Seq(Modules \cup {Unresolved})]
        BY <1>1 DEF Graph
      <3> QED BY <1>3, <1>7, <1>11, <3>1
    <2> QED BY <1>1, <1>7, <2>1 DEF Graph, Recorded
  <1>13. /\ Len(f.dynamic) \in Nat \ {0} /\ Len(g.dynamic) = Len(f.dynamic) - 1
         /\ DOMAIN f.dynamic = 1..Len(f.dynamic) /\ DOMAIN g.dynamic = 1..(Len(f.dynamic) - 1)
         /\ Head(f.dynamic) = f.dynamic[1]
         /\ \A i \in DOMAIN g.dynamic : g.dynamic[i] = f.dynamic[i + 1]
    BY <1>3, <1>4, Behead
  <1>14. Len(code[m].dynamic) \in Nat /\ DOMAIN code[m].dynamic = 1..Len(code[m].dynamic)
    BY <1>1, <1>3, CodeTypes
  <1>15. /\ Len(dynamic[m]) + Len(f.dynamic) = Len(code[m].dynamic)
         /\ \A i \in DOMAIN f.dynamic : f.dynamic[i] = code[m].dynamic[Len(dynamic[m]) + i]
    BY <1>2 DEF Position, m
  <1>16. /\ Len(dynamic[m]) + 1 \in DOMAIN code[m].dynamic
         /\ Head(f.dynamic) = code[m].dynamic[Len(dynamic[m]) + 1]
    <2> DEFINE a == Len(dynamic[m])
               b == Len(f.dynamic)
               c == Len(code[m].dynamic)
    <2>1. a \in Nat /\ b \in Nat \ {0} /\ c \in Nat /\ a + b = c
      BY <1>11, <1>13, <1>14, <1>15
    <2>2. DOMAIN code[m].dynamic = 1..c /\ 1 \in DOMAIN f.dynamic
      BY <1>13, <1>14
    <2>3. f.dynamic[1] = code[m].dynamic[a + 1]
      BY <1>15, <2>2
    <2> HIDE DEF a, b, c
    <2>4. a + 1 \in 1..c
      BY <2>1
    <2>5. a + 1 \in DOMAIN code[m].dynamic /\ Head(f.dynamic) = code[m].dynamic[a + 1]
      BY <1>13, <2>2, <2>3, <2>4
    <2> QED BY <2>5 DEF a
  <1>17. Answers(m)'
    <2>1. ASSUME NEW i \in DOMAIN dynamic'[m]
          PROVE  /\ i \in DOMAIN code[m].dynamic
                 /\ dynamic'[m][i] = code[m].dynamic[i] \/ dynamic'[m][i] = Unresolved
                 /\ dynamic'[m][i] \notin Missing
      <3>1. CASE i \in DOMAIN dynamic[m]
        <4>1. Answers(m)
          BY <1>1, <1>3 DEF Dynamics
        <4> QED BY <1>11, <3>1, <4>1 DEF Answers
      <3>2. CASE i \notin DOMAIN dynamic[m]
        <4>1. i = Len(dynamic[m]) + 1
          BY <1>11, <2>1, <3>2
        <4> QED BY <1>8, <1>11, <1>16, <4>1
      <3> QED BY <3>1, <3>2
    <2> QED BY <1>7, <2>1 DEF Answers, m
  <1>18. Dynamics'
    <2> SUFFICES ASSUME NEW k \in Modules
                 PROVE  Answers(k)' /\ (k \notin Recorded => Fresh(k)')
      BY <1>7 DEF Dynamics, Recorded
    <2>1. CASE k = m
      BY <1>6, <1>17, <2>1 DEF m
    <2>2. CASE k # m
      <3>1. Answers(k) /\ (k \notin Recorded => Fresh(k)) /\ dynamic'[k] = dynamic[k]
        BY <1>1, <1>10, <2>2 DEF Dynamics
      <3>2. Answers(k)'
        BY <1>7, <3>1 DEF Answers
      <3>3. k \notin Recorded => Fresh(k)'
        BY <1>7, <3>1 DEF Fresh
      <3> QED BY <3>2, <3>3
    <2> QED BY <2>1, <2>2
  <1>19. Position(g)'
    <2>1. Len(dynamic'[m]) + Len(g.dynamic) = Len(code[m].dynamic)
      <3> DEFINE a == Len(dynamic[m])
                 b == Len(f.dynamic)
                 c == Len(code[m].dynamic)
      <3>1. a \in Nat /\ b \in Nat /\ a + b = c /\ Len(dynamic'[m]) = a + 1 /\ Len(g.dynamic) = b - 1
        BY <1>11, <1>13, <1>15
      <3> HIDE DEF a, b, c
      <3>2. (a + 1) + (b - 1) = c
        BY <3>1
      <3> QED BY <3>1, <3>2 DEF c
    <2>2. \A i \in DOMAIN g.dynamic : g.dynamic[i] = code[m].dynamic[Len(dynamic'[m]) + i]
      <3> TAKE i \in DOMAIN g.dynamic
      <3>1. i + 1 \in DOMAIN f.dynamic /\ g.dynamic[i] = f.dynamic[i + 1]
        BY <1>13
      <3>2. f.dynamic[i + 1] = code[m].dynamic[Len(dynamic[m]) + (i + 1)]
        BY <1>15, <3>1
      <3>3. Len(dynamic[m]) + (i + 1) = Len(dynamic'[m]) + i
        BY <1>11, <1>13
      <3> QED BY <3>1, <3>2, <3>3
    <2>3. /\ ToSet(g.todo) \subseteq Requested(code[m])
          /\ Requested(code[m]) \subseteq deps[m] \cup ToSet(g.todo)
      BY <1>2, <1>4 DEF Position, m
    <2> QED BY <1>4, <1>7, <2>1, <2>2, <2>3 DEF Position
  <1>26. ToSet(dynamic'[m]) = ToSet(dynamic[m]) \cup {x}
    <2> DEFINE old == dynamic[m]
               V   == Modules \cup {Unresolved}
    <2>1. old \in Seq(V) /\ x \in V /\ dynamic'[m] = Append(old, x)
      BY <1>8, <1>9, <1>10
    <2> HIDE DEF old, V
    <2>2. ToSet(Append(old, x)) = ToSet(old) \cup {x}
      BY <2>1, SetOfAppend
    <2> QED BY <2>1, <2>2 DEF old
  <1>20. \A k \in Modules : ToSet(dynamic[k]) \subseteq ToSet(dynamic'[k])
    <2> TAKE k \in Modules
    <2>1. CASE k = m
      BY <1>26, <2>1
    <2>2. CASE k # m
      BY <1>10, <2>2
    <2> QED BY <2>1, <2>2
  <1>21. Told => Told'
    BY <1>1, <1>7, <1>20, InModules DEF Told, Recorded
  <1>22. x = Unresolved => Told'
    <2>1. x \in ToSet(dynamic'[m])
      BY <1>26
    <2> QED BY <1>6, <1>7, <2>1 DEF Told, Recorded
  <1>23. \A i \in DOMAIN stack : i > n => Dropped(stack[i].mod)
    BY <1>22 DEF Dropped
  <1>24. \A k \in Modules : k # g.mod => deps'[k] = deps[k] /\ dynamic'[k] = dynamic[k]
    BY <1>4, <1>7, <1>10
  <1>25. g.mod = stack[n].mod /\ g.op = "load"
    BY <1>2, <1>4 DEF m
  <1> QED BY <1>4, <1>5, <1>12, <1>18, <1>19, <1>21, <1>23, <1>24, <1>25, Resumed

\* Ok is returned to a call.
LEMMA Delivered ==
    ASSUME Inv, phase = "load", NEW n \in DOMAIN stack, NEW calls, NEW d \in Recorded,
           calls \in Seq(Frames), Len(calls) = n, \A i \in 1..n : calls[i] = stack[i],
           Has(stack[n]), d = Awaiting(stack[n]), Deliver(d, calls),
           UNCHANGED <<code, records, linkVars, ending>>,
           \A i \in DOMAIN stack : i > n => Loaded(stack[i].mod)
    PROVE  Inv'
  <1>1. stack[n] \in Frames /\ n \in Nat \ {0}
    BY DEF Inv
  <1>0. /\ Front(calls) \in Seq(Frames) /\ Len(Front(calls)) = n - 1 /\ Last(calls) = stack[n]
        /\ \A i \in 1..(n - 1) : Front(calls)[i] = stack[i]
    <2>1. calls # <<>>
      BY <1>1
    <2>2. /\ Front(calls) \in Seq(Frames) /\ Len(Front(calls)) = n - 1
          /\ DOMAIN Front(calls) = 1..(n - 1) /\ Last(calls) = calls[n]
          /\ \A i \in DOMAIN Front(calls) : Front(calls)[i] = calls[i]
      BY <2>1, LastFront
    <2> QED BY <1>1, <2>2
  <1> DEFINE u == Front(calls)
  <1>2. PICK f \in Frames : f = stack[n]
    BY <1>1
  <1>3. CASE f.todo # <<>>
    <2>1. d = Head(f.todo)
      BY <1>2, <1>3 DEF Awaiting
    <2>2. /\ deps' = [deps EXCEPT ![f.mod] = @ \cup {d}]
          /\ stack' = Append(u, [f EXCEPT !.todo = Tail(@)])
          /\ UNCHANGED dynamic
      BY <1>0, <1>2, <1>3 DEF Deliver
    <2> HIDE DEF u
    <2>3. u \in Seq(Frames) /\ Len(u) = n - 1 /\ \A i \in 1..(n - 1) : u[i] = stack[i]
      BY <1>0 DEF u
    <2> QED BY <1>2, <1>3, <2>1, <2>2, <2>3, StaticAnswer
  <1>4. CASE f.todo = <<>>
    <2>1. d = Head(f.dynamic) /\ f.dynamic # <<>>
      BY <1>2, <1>4 DEF Awaiting, Has
    <2>2. /\ dynamic' = [dynamic EXCEPT ![f.mod] = Append(@, d)]
          /\ stack' = Append(u, [f EXCEPT !.dynamic = Tail(@)])
          /\ UNCHANGED deps
      BY <1>0, <1>2, <1>4 DEF Deliver
    <2> HIDE DEF u
    <2>3. u \in Seq(Frames) /\ Len(u) = n - 1 /\ \A i \in 1..(n - 1) : u[i] = stack[i]
      BY <1>0 DEF u
    <2> QED BY <1>2, <1>4, <2>1, <2>2, <2>3, DynamicAnswer
  <1> QED BY <1>3, <1>4

\* A record that is in the graph answers the request at once.
LEMMA FindRecordInv ==
    ASSUME Inv, FindRecord
    PROVE  Inv'
  <1>1. phase = "load" /\ stack # <<>> /\ Has(Top) /\ stack \in Seq(Frames)
    BY LoadPhase DEF FindRecord, HasRequest, Has, Inv
  <1>2. Len(stack) \in DOMAIN stack /\ Top = stack[Len(stack)] /\ DOMAIN stack = 1..Len(stack)
    BY <1>1, OnTop
  <1>4. Awaiting(Top) \in Recorded /\ Deliver(Awaiting(Top), stack)
        /\ UNCHANGED <<code, records, linkVars, ending>>
    BY DEF FindRecord
  <1>5. \A i \in DOMAIN stack : ~ (i > Len(stack))
    BY <1>2
  <1> QED BY <1>1, <1>2, <1>4, <1>5, Delivered

\* A call without requests left is done with its module; the last one ends the
\* loading.
LEMMA LoadReturnsInv ==
    ASSUME Inv, LoadReturns
    PROVE  Inv'
  <1>1. phase = "load" /\ stack # <<>> /\ stack \in Seq(Frames) /\ Loading /\ Graph
    BY LoadPhase DEF LoadReturns, Inv
  <1>2. /\ Len(stack) \in DOMAIN stack /\ Top = stack[Len(stack)] /\ DOMAIN stack = 1..Len(stack)
        /\ Len(stack) \in Nat \ {0} /\ Top \in Frames
    BY <1>1, OnTop
  <1>3. Top.todo = <<>> /\ Top.dynamic = <<>> /\ UNCHANGED <<code, records, linkVars>>
    BY DEF LoadReturns
  <1>4. Loaded(Top.mod)
    <2>1. Position(Top)
      BY <1>1, <1>2 DEF Loading
    <2>2. Satisfied(Top.mod)
      BY <1>3, <2>1, SetOfEmpty DEF Position, Satisfied
    <2>3. Answered(Top.mod)
      <3>1. Top.mod \in Modules
        BY <1>2, FrameTypes
      <3>2. Len(dynamic[Top.mod]) \in Nat
        BY <1>1, <3>1 DEF Graph
      <3>3. Len(dynamic[Top.mod]) + 0 = Len(code[Top.mod].dynamic)
        BY <1>3, <2>1 DEF Position
      <3> QED BY <3>2, <3>3 DEF Answered
    <2> QED BY <2>2, <2>3 DEF Loaded
  <1>5. CASE Len(stack) > 1 /\ Deliver(Top.mod, Front(stack)) /\ UNCHANGED ending
    <2> DEFINE n == Len(stack) - 1
               calls == Front(stack)
    <2>1. n \in DOMAIN stack /\ n + 1 \in DOMAIN stack /\ n + 1 = Len(stack)
      BY <1>2, <1>5
    <2>2. /\ calls \in Seq(Frames) /\ Len(calls) = n /\ DOMAIN calls = 1..n
          /\ \A i \in DOMAIN calls : calls[i] = stack[i]
      BY <1>1, LastFront
    <2>5. Waiting(stack[n], stack[n + 1].mod)
      BY <1>1, <2>1 DEF Loading
    <2>6. Has(stack[n]) /\ Top.mod = Awaiting(stack[n])
      BY <1>2, <2>1, <2>5 DEF Waiting
    <2>7. Top.mod \in Recorded
      BY <1>1, <1>2 DEF Loading, Calls
    <2>8. \A i \in DOMAIN stack : i > n => Loaded(stack[i].mod)
      <3> TAKE i \in DOMAIN stack
      <3> HAVE i > n
      <3>1. i = Len(stack)
        BY <1>2
      <3> QED BY <1>2, <1>4, <3>1
    <2> HIDE DEF n, calls
    <2>9. Deliver(Top.mod, calls) /\ UNCHANGED <<code, records, linkVars, ending>>
      BY <1>3, <1>5 DEF calls
    <2> QED BY <1>1, <2>1, <2>2, <2>6, <2>7, <2>8, <2>9, Delivered
  <1>6. CASE /\ Len(stack) = 1
             /\ stack' = <<>>
             /\ phase' = "link"
             /\ UNCHANGED <<deps, dynamic, outcome>>
    <2>1. UNCHANGED <<code, records, deps, dynamic, status, outcome>> /\ DOMAIN stack' = {}
      BY <1>3, <1>6 DEF linkVars
    <2>2. Graph' /\ Dynamics' /\ stack' \in Seq(Frames) /\ status' \in [Modules -> Statuses]
      BY <1>6, <2>1 DEF Inv, Graph, Dynamics, Answers, Fresh, Recorded
    <2>3. \A m \in Recorded : Loaded(m)
      <3> TAKE m \in Recorded
      <3>1. CASE OnStack(m)
        <4>1. m = Top.mod
          BY <1>2, <1>6, <3>1 DEF OnStack
        <4> QED BY <1>4, <4>1
      <3>2. CASE ~ OnStack(m)
        BY <1>1, <3>2 DEF Loading
      <3> QED BY <3>1, <3>2
    <2>4. \A m \in Recorded' : Loaded(m)'
      BY <2>1, <2>3 DEF Loaded, Satisfied, Answered, Told, Recorded
    <2>5. Linking'
      <3>1. Calls("link")'
        BY <2>1 DEF Calls
      <3>2. \A m \in Modules : status'[m] = "Unlinked" /\ ~ OnStack(m)'
        BY <1>1, <2>1 DEF Loading, OnStack
      <3>3. outcome' = "running"
        BY <1>1, <2>1 DEF Loading
      <3> QED BY <2>1, <3>1, <3>2, <3>3 DEF Linking
    <2> QED BY <1>6, <2>2, <2>4, <2>5 DEF Inv
  <1> QED BY <1>5, <1>6 DEF LoadReturns

\* A record is published and its call pushed: nobody can have had it before.
LEMMA LoadRecordInv ==
    ASSUME Inv, LoadRecord
    PROVE  Inv'
  <1>1. phase = "load" /\ stack # <<>> /\ Has(Top) /\ stack \in Seq(Frames) /\ Loading /\ Graph /\ Dynamics
    BY LoadPhase DEF LoadRecord, HasRequest, Has, Inv
  <1>2. /\ Len(stack) \in DOMAIN stack /\ Top = stack[Len(stack)] /\ DOMAIN stack = 1..Len(stack)
        /\ Len(stack) \in Nat \ {0} /\ Top \in Frames
    BY <1>1, OnTop
  <1>3. PICK d \in Modules : d = Awaiting(Top)
    BY <1>1, <1>2, AwaitingType
  <1>4. PICK g \in Frames : g = LoadFrame(d)
    BY <1>1, NewFrames
  <1>5. g.op = "load" /\ g.mod = d /\ g.todo = code[d].requests /\ g.dynamic = code[d].dynamic
    BY <1>1, <1>4, NewFrames
  <1>6. /\ d \notin Recorded /\ d \notin Missing /\ records' = Append(records, d)
        /\ stack' = Append(stack, g) /\ UNCHANGED <<code, deps, dynamic, linkVars, ending>>
    BY <1>3, <1>4 DEF LoadRecord
  <1>7. Recorded' = Recorded \cup {d}
    BY <1>1, <1>6, SetOfAppend DEF Recorded, Graph
  <1>8. /\ stack' \in Seq(Frames) /\ DOMAIN stack' = 1..(Len(stack) + 1)
        /\ stack'[Len(stack) + 1] = g /\ \A i \in DOMAIN stack : stack'[i] = stack[i]
    BY <1>1, <1>6, Pushed
  <1> DEFINE n == Len(stack)
  <1>9. /\ n \in Nat \ {0} /\ DOMAIN stack = 1..n /\ DOMAIN stack' = 1..(n + 1) /\ stack'[n + 1] = g
        /\ Top = stack[n]
    BY <1>2, <1>8
  <1> HIDE DEF n
  <1>10. \A i \in DOMAIN stack' : i # n + 1 => i \in DOMAIN stack /\ stack'[i] = stack[i]
    BY <1>8, <1>9
  <1>11. Graph'
    <2>1. records' \in Seq(Modules)
      BY <1>1, <1>6, Pushed DEF Graph
    <2>2. Recorded' \cap Missing = {}
      BY <1>1, <1>6, <1>7 DEF Graph
    <2> QED BY <1>1, <1>6, <1>7, <2>1, <2>2 DEF Graph
  <1>12. Dynamics'
    <2> SUFFICES ASSUME NEW k \in Modules
                 PROVE  Answers(k)' /\ (k \notin Recorded' => Fresh(k)')
      BY <1>6 DEF Dynamics
    <2>1. Answers(k)'
      BY <1>1, <1>6 DEF Dynamics, Answers
    <2>2. k \notin Recorded' => Fresh(k)'
      BY <1>1, <1>6, <1>7 DEF Dynamics, Fresh
    <2> QED BY <2>1, <2>2
  <1>13. Calls("load")'
    <2>1. Calls("load")
      BY <1>1 DEF Loading
    <2>2. \A i \in DOMAIN stack' : stack'[i].op = "load" /\ stack'[i].mod \in Recorded'
      BY <1>5, <1>7, <1>9, <1>10, <2>1 DEF Calls
    <2>3. \A i \in DOMAIN stack' : i # n + 1 => stack'[i].mod # d
      BY <1>6, <1>10, <2>1 DEF Calls
    <2>4. \A i, j \in DOMAIN stack' : stack'[i].mod = stack'[j].mod => i = j
      <3> TAKE i, j \in DOMAIN stack'
      <3> HAVE stack'[i].mod = stack'[j].mod
      <3>1. CASE i = n + 1
        BY <1>5, <1>9, <2>3, <3>1
      <3>2. CASE j = n + 1
        BY <1>5, <1>9, <2>3, <3>2
      <3>3. CASE i # n + 1 /\ j # n + 1
        BY <1>10, <2>1, <3>3 DEF Calls
      <3> QED BY <3>1, <3>2, <3>3
    <2> QED BY <2>2, <2>4 DEF Calls
  <1>14. Position(g)'
    <2>1. Fresh(d) /\ deps'[d] = {} /\ dynamic'[d] = <<>>
      BY <1>1, <1>6 DEF Dynamics, Fresh
    <2>2. Len(g.dynamic) \in Nat /\ DOMAIN g.dynamic = 1..Len(g.dynamic) /\ Len(<<>>) = 0
      BY <1>4, FrameTypes
    <2>3. /\ Len(dynamic'[d]) + Len(g.dynamic) = Len(code[d].dynamic)
          /\ \A i \in DOMAIN g.dynamic : g.dynamic[i] = code[d].dynamic[Len(dynamic'[d]) + i]
      BY <1>5, <2>1, <2>2
    <2>4. ToSet(g.todo) = Requested(code[d])
      BY <1>5 DEF Requested
    <2> QED BY <1>5, <1>6, <2>3, <2>4 DEF Position
  <1>15. \A i \in DOMAIN stack' : Position(stack[i])'
    <2> SUFFICES ASSUME NEW i \in DOMAIN stack'
                 PROVE  Position(stack[i])'
      OBVIOUS
    <2>1. CASE i = n + 1
      BY <1>9, <1>14, <2>1
    <2>2. CASE i # n + 1
      <3>1. Position(stack[i]) /\ stack'[i] = stack[i]
        BY <1>1, <1>10, <2>2 DEF Loading
      <3>2. PICK f : f = stack[i]
        OBVIOUS
      <3>3. Position(f)'
        BY <1>6, <3>1, <3>2 DEF Position
      <3> QED BY <3>1, <3>2, <3>3
    <2> QED BY <2>1, <2>2
  <1>16. \A i \in DOMAIN stack' : i + 1 \in DOMAIN stack' => Waiting(stack[i], stack[i + 1].mod)'
    <2> SUFFICES ASSUME NEW i \in DOMAIN stack', i + 1 \in DOMAIN stack'
                 PROVE  Waiting(stack[i], stack[i + 1].mod)'
      OBVIOUS
    <2>1. i # n + 1 /\ i \in DOMAIN stack /\ stack'[i] = stack[i]
      BY <1>9, <1>10
    <2>2. Waiting(stack[i], stack'[i + 1].mod)
      <3>1. CASE i = n
        <4>1. stack'[i + 1].mod = d /\ stack[i] = Top
          BY <1>5, <1>9, <3>1
        <4>2. d \notin deps[Top.mod]
          <5>1. Top.mod \in Modules
            BY <1>2, FrameTypes
          <5> QED BY <1>1, <1>6, <5>1 DEF Graph
        <4> QED BY <1>1, <1>3, <4>1, <4>2 DEF Waiting
      <3>2. CASE i # n
        <4>1. i + 1 \in DOMAIN stack
          BY <1>9, <2>1, <3>2
        <4>2. stack'[i + 1] = stack[i + 1]
          BY <1>8, <4>1
        <4> QED BY <1>1, <2>1, <4>1, <4>2 DEF Loading
      <3> QED BY <3>1, <3>2
    <2> QED BY <1>6, <2>1, <2>2 DEF Waiting, Has, Awaiting
  <1>17. Told => Told'
    BY <1>6, <1>7 DEF Told
  <1>18. \A m \in Recorded' : ~OnStack(m)' => Loaded(m)'
    <2> SUFFICES ASSUME NEW m \in Recorded', ~OnStack(m)'
                 PROVE  Loaded(m)'
      OBVIOUS
    <2>1. m # d
      BY <1>5, <1>9 DEF OnStack
    <2>2. m \in Recorded
      BY <1>7, <2>1
    <2>3. ~ OnStack(m)
      BY <1>8, <1>9 DEF OnStack
    <2>4. Loaded(m)
      BY <1>1, <2>2, <2>3 DEF Loading
    <2> QED BY <1>6, <1>17, <2>4 DEF Loaded, Satisfied, Answered
  <1>19. Loading'
    <2>1. (\A m \in Modules : status'[m] = "Unlinked") /\ outcome' = "running" /\ stack' # <<>>
      BY <1>1, <1>6, <1>9 DEF Loading, linkVars, ending
    <2> QED BY <1>13, <1>15, <1>16, <1>18, <2>1 DEF Loading
  <1>20. phase' = "load" /\ status' \in [Modules -> Statuses]
    BY <1>1, <1>6 DEF linkVars, ending, Inv
  <1> QED BY <1>8, <1>11, <1>12, <1>19, <1>20 DEF Inv

\* Above the catching call every call waits for a static request that its record
\* does not have, the top one for a module that is not in the graph: what they
\* leave is not Satisfied, and is told to the catching call.
LEMMA LoadFailsInv ==
    ASSUME Inv, LoadFails
    PROVE  Inv'
  <1>1. phase = "load" /\ stack # <<>> /\ Has(Top) /\ stack \in Seq(Frames) /\ Loading /\ Graph /\ Dynamics
    BY LoadPhase DEF LoadFails, HasRequest, Has, Inv
  <1>2. /\ Len(stack) \in DOMAIN stack /\ Top = stack[Len(stack)] /\ DOMAIN stack = 1..Len(stack)
        /\ Len(stack) \in Nat \ {0} /\ Top \in Frames
    BY <1>1, OnTop
  <1>3. UNCHANGED <<code, records, deps, status>> /\ UNCHANGED linkVars /\ Awaiting(Top) \in Missing
    BY DEF LoadFails, linkVars
  <1>4. CASE CatchingCalls = {} /\ stack' = <<>> /\ EndWith("loadError") /\ UNCHANGED dynamic
    <2>1. Graph' /\ Dynamics'
      BY <1>1, <1>3, <1>4 DEF Graph, Dynamics, Answers, Fresh, Recorded
    <2>2. status' \in [Modules -> Statuses] /\ phase' = "end" /\ outcome' = "loadError" /\ stack' \in Seq(Frames)
      BY <1>3, <1>4 DEF Inv, EndWith
    <2> QED BY <1>4, <2>1, <2>2 DEF Inv
  <1>5. CASE CatchingCalls # {} /\ CatchLoadError(stack[Max(CatchingCalls)]) /\ UNCHANGED ending
    <2>1. PICK n : n = Max(CatchingCalls)
      OBVIOUS
    <2>2. n \in CatchingCalls /\ \A i \in CatchingCalls : i <= n
      <3>1. CatchingCalls \in SUBSET (1..Len(stack))
        BY DEF CatchingCalls
      <3> QED BY <1>2, <1>5, <2>1, <3>1, MaxOf
    <2>3. n \in DOMAIN stack /\ n \in Nat \ {0} /\ stack[n].todo = <<>>
      BY <1>2, <2>2 DEF CatchingCalls
    <2>4. PICK f \in Frames : f = stack[n]
      BY <1>1, <2>3
    <2>5. /\ dynamic' = [dynamic EXCEPT ![f.mod] = Append(@, Unresolved)]
          /\ \E i \in {j \in CatchingCalls : stack[j] = f} :
                stack' = Append(SubSeq(stack, 1, i - 1), [f EXCEPT !.dynamic = Tail(@)])
      BY <1>5, <2>1, <2>4 DEF CatchLoadError
    <2>6. \A j \in CatchingCalls : stack[j] = f => j = n
      BY <1>1, <1>2, <2>3, <2>4 DEF Loading, Calls, CatchingCalls
    <2>7. PICK u : u = SubSeq(stack, 1, n - 1)
      OBVIOUS
    <2>8. stack' = Append(u, [f EXCEPT !.dynamic = Tail(@)])
      BY <2>5, <2>6, <2>7
    <2>9. u \in Seq(Frames) /\ Len(u) = n - 1 /\ \A i \in 1..(n - 1) : u[i] = stack[i]
      <3>1. \A i \in 1..(n - 1) : stack[i] \in Frames
        BY <1>1, <1>2, <2>3
      <3> QED BY <1>1, <1>2, <2>3, <2>7, <3>1, SubSeqProperties
    <2>10. f.todo = <<>> /\ f.dynamic # <<>>
      <3>1. Has(f)
        <4>1. CASE n = Len(stack)
          BY <1>1, <1>2, <2>4, <4>1
        <4>2. CASE n # Len(stack)
          <5>1. n + 1 \in DOMAIN stack
            BY <1>2, <2>3, <4>2
          <5> QED BY <1>1, <2>3, <2>4, <5>1 DEF Loading, Waiting
        <4> QED BY <4>1, <4>2
      <3> QED BY <2>3, <2>4, <3>1 DEF Has
    <2>11. \A i \in DOMAIN stack : i > n => ~ Satisfied(stack[i].mod)
      <3> SUFFICES ASSUME NEW i \in DOMAIN stack, i > n
                   PROVE  ~ Satisfied(stack[i].mod)
        OBVIOUS
      <3>1. i \notin CatchingCalls /\ i \in 1..Len(stack)
        BY <1>2, <2>2, <2>3
      <3>2. PICK e \in Frames : e = stack[i]
        BY <1>1
      <3>3. e.todo # <<>> /\ e.mod \in Modules /\ e.todo \in Seq(Modules)
        BY <3>1, <3>2, FrameTypes DEF CatchingCalls
      <3>4. Head(e.todo) \in Requested(code[e.mod])
        <4>1. ToSet(e.todo) \subseteq Requested(code[e.mod])
          BY <1>1, <3>2 DEF Loading, Position
        <4> QED BY <3>3, <4>1, SetOfTail
      <3>5. Head(e.todo) \notin deps[e.mod]
        <4>1. CASE i = Len(stack)
          <5>1. Head(e.todo) \in Missing
            BY <1>2, <1>3, <3>2, <3>3, <4>1 DEF Awaiting
          <5> QED BY <1>1, <3>3, <5>1 DEF Graph
        <4>2. CASE i # Len(stack)
          <5>1. i + 1 \in DOMAIN stack
            BY <1>2, <3>1, <4>2
          <5> QED BY <1>1, <3>2, <3>3, <5>1 DEF Loading, Waiting, Awaiting
        <4> QED BY <4>1, <4>2
      <3> QED BY <3>2, <3>4, <3>5 DEF Satisfied
    <2> QED BY <1>1, <1>3, <1>5, <2>3, <2>4, <2>5, <2>8, <2>9, <2>10, <2>11, DynamicAnswer
  <1> QED BY <1>4, <1>5 DEF LoadFails

\* run_module starts with the record of the entry and its call.
LEMMA InitInv ==
    ASSUME Init
    PROVE  Inv
  <1>1. /\ code \in Programs /\ records = <<Entry>> /\ deps = [m \in Modules |-> {}]
        /\ dynamic = [m \in Modules |-> <<>>] /\ stack = <<LoadFrame(Entry)>> /\ phase = "load"
        /\ outcome = "running" /\ status = [m \in Modules |-> "Unlinked"] /\ Entry \in Modules \ Missing
    BY LinkingAssumption DEF Init
  <1>2. Recorded = {Entry}
    BY <1>1 DEF Recorded, ToSet
  <1>3. /\ \A m \in Modules : deps[m] = {} /\ dynamic[m] = <<>> /\ ToSet(dynamic[m]) = {}
        /\ Len(<<>>) = 0 /\ DOMAIN <<>> = {}
    BY <1>1, SetOfEmpty
  <1>4. Graph
    <2>1. records \in Seq(Modules) /\ Recorded \cap Missing = {}
      BY <1>1, <1>2
    <2>2. deps \in [Modules -> SUBSET Modules] /\ dynamic \in [Modules -> Seq(Modules \cup {Unresolved})]
      BY <1>1
    <2> QED BY <1>1, <1>3, <2>1, <2>2 DEF Graph
  <1>5. Dynamics
    BY <1>3 DEF Dynamics, Answers, Fresh
  <1>6. PICK g \in Frames : g = LoadFrame(Entry)
    BY <1>1, <1>4, NewFrames
  <1>7. /\ g.op = "load" /\ g.mod = Entry /\ g.todo = code[Entry].requests
        /\ g.dynamic = code[Entry].dynamic
    BY <1>1, <1>4, <1>6, NewFrames
  <1>8. stack = <<g>> /\ stack \in Seq(Frames) /\ DOMAIN stack = {1} /\ stack[1] = g /\ stack # <<>>
    BY <1>1, <1>6
  <1>9. Calls("load")
    BY <1>2, <1>7, <1>8 DEF Calls
  <1>10. Position(g)
    <2>1. /\ Len(dynamic[Entry]) + Len(g.dynamic) = Len(code[Entry].dynamic)
          /\ \A i \in DOMAIN g.dynamic : g.dynamic[i] = code[Entry].dynamic[Len(dynamic[Entry]) + i]
      <3>1. Len(g.dynamic) \in Nat /\ DOMAIN g.dynamic = 1..Len(g.dynamic)
        BY <1>6, FrameTypes
      <3> QED BY <1>1, <1>3, <1>7, <3>1
    <2>2. ToSet(g.todo) = Requested(code[Entry])
      BY <1>7 DEF Requested
    <2> QED BY <1>7, <2>1, <2>2 DEF Position
  <1>11. \A m \in Recorded : OnStack(m)
    BY <1>2, <1>7, <1>8 DEF OnStack
  <1>12. \A i \in DOMAIN stack : i + 1 \notin DOMAIN stack
    BY <1>8
  <1>13. Loading
    BY <1>1, <1>8, <1>9, <1>10, <1>11, <1>12 DEF Loading
  <1> QED BY <1>1, <1>4, <1>5, <1>8, <1>13 DEF Inv, Statuses

-----------------------------------------------------------------------------
\* Linking does not change the graph.
SameGraph ==
    /\ UNCHANGED graphVars
    /\ status' \in [Modules -> Statuses]
    /\ phase # "load"

\* So what was said of the graph is kept.
LEMMA GraphKept ==
    ASSUME Inv, SameGraph, outcome # "loadError"
    PROVE  /\ Graph' /\ Dynamics' /\ Recorded' = Recorded
           /\ \A m \in Recorded' : Loaded(m)'
  <1>1. UNCHANGED <<code, records, deps, dynamic>>
    BY DEF SameGraph, graphVars
  <1>2. Graph'
    BY <1>1 DEF Inv, Graph, Recorded
  <1>3. Dynamics'
    BY <1>1 DEF Inv, Dynamics, Answers, Fresh, Recorded
  <1>4. \A m \in Recorded : Loaded(m)
    BY DEF Inv, SameGraph
  <1>5. \A m \in Recorded' : Loaded(m)'
    BY <1>1, <1>4 DEF Loaded, Satisfied, Answered, Told, Recorded
  <1> QED BY <1>1, <1>2, <1>3, <1>5 DEF Recorded

\* A call in progress, and the dependencies of its module.
LEMMA LinkTypes ==
    ASSUME Inv, NEW i \in DOMAIN stack
    PROVE  /\ stack[i] \in Frames /\ stack[i].mod \in Modules /\ stack[i].todo \in Seq(Modules)
           /\ \A d \in deps[stack[i].mod] : d \in Modules /\ d \in Recorded
           /\ deps[stack[i].mod] \subseteq Requested(code[stack[i].mod])
  <1>1. stack[i] \in Frames
    BY DEF Inv
  <1>2. stack[i].mod \in Modules /\ stack[i].todo \in Seq(Modules)
    BY <1>1, FrameTypes
  <1> QED BY <1>1, <1>2, InModules DEF Inv, Graph

\* link_module is called for d, a dependency of the top call or the first record.
LEMMA Entered ==
    ASSUME Inv, phase = "link", NEW calls \in Seq(Frames), NEW d \in Recorded,
           status[d] = "Unlinked", EnterLink(d, calls),
           DOMAIN calls = DOMAIN stack,
           \A i \in DOMAIN calls : /\ calls[i].op = "link" /\ calls[i].mod = stack[i].mod
                                   /\ \A e \in deps[calls[i].mod] :
                                        e \in ToSet(calls[i].todo) \/ e = d \/ status[e] # "Unlinked",
           \A i \in DOMAIN calls : i = Len(calls) => d \in deps[calls[i].mod],
           UNCHANGED <<graphVars, env, namespaces, ending>>
    PROVE  Inv'
  <1>1. Linking /\ Graph /\ status \in [Modules -> Statuses]
    BY DEF Inv
  <1>2. d \in Modules
    BY <1>1, InModules
  <1>3. PICK g \in Frames : g = LinkFrame(d)
    BY <1>1, <1>2, NewFrames
  <1>4. g.op = "link" /\ g.mod = d /\ g.todo = code[d].requests
    BY <1>1, <1>2, <1>3, NewFrames
  <1>5. /\ stack' = Append(calls, g) /\ status' = [status EXCEPT ![d] = "Linking"]
        /\ phase' = "link" /\ UNCHANGED <<outcome, code, deps, records>>
    BY <1>3 DEF EnterLink, ending, graphVars
  <1>6. /\ status' \in [Modules -> Statuses] /\ status'[d] = "Linking"
        /\ \A m \in Modules : m # d => status'[m] = status[m]
    BY <1>1, <1>2, <1>5 DEF Statuses
  <1> DEFINE n == Len(calls)
  <1>7. /\ stack' \in Seq(Frames) /\ n \in Nat /\ DOMAIN stack' = 1..(n + 1) /\ DOMAIN calls = 1..n
        /\ stack'[n + 1] = g /\ \A i \in DOMAIN calls : stack'[i] = calls[i]
    BY <1>5, Pushed
  <1>8. \A i \in DOMAIN calls : i = n => d \in deps[calls[i].mod]
    OBVIOUS
  <1> HIDE DEF n
  <1>9. \A i \in DOMAIN stack' : i # n + 1 =>
            /\ i \in DOMAIN stack /\ i \in DOMAIN calls /\ stack'[i] = calls[i]
            /\ stack'[i].mod = stack[i].mod
    BY <1>7
  <1>10. outcome = "running"
    BY <1>1 DEF Linking
  <1>11. Graph' /\ Dynamics' /\ Recorded' = Recorded /\ \A m \in Recorded' : Loaded(m)'
    BY <1>6, <1>10, GraphKept DEF SameGraph
  <1>12. ~ OnStack(d)
    BY <1>1, <1>2 DEF Linking
  <1>13. Calls("link")'
    <2>1. Calls("link")
      BY <1>1 DEF Linking
    <2>2. \A i \in DOMAIN stack' : stack'[i].op = "link" /\ stack'[i].mod \in Recorded'
      <3> TAKE i \in DOMAIN stack'
      <3>1. CASE i = n + 1
        BY <1>4, <1>7, <1>11, <3>1
      <3>2. CASE i # n + 1
        BY <1>9, <1>11, <2>1, <3>2 DEF Calls
      <3> QED BY <3>1, <3>2
    <2>3. \A i \in DOMAIN stack' : i # n + 1 => stack'[i].mod # d
      BY <1>9, <1>12 DEF OnStack
    <2>4. \A i, j \in DOMAIN stack' : stack'[i].mod = stack'[j].mod => i = j
      <3> TAKE i, j \in DOMAIN stack'
      <3> HAVE stack'[i].mod = stack'[j].mod
      <3>1. CASE i = n + 1
        BY <1>4, <1>7, <2>3, <3>1
      <3>2. CASE j = n + 1
        BY <1>4, <1>7, <2>3, <3>2
      <3>3. CASE i # n + 1 /\ j # n + 1
        BY <1>9, <2>1, <3>3 DEF Calls
      <3> QED BY <3>1, <3>2, <3>3
    <2> QED BY <2>2, <2>4 DEF Calls
  <1>14. \A i \in DOMAIN stack' : Visited(stack[i])'
    <2> SUFFICES ASSUME NEW i \in DOMAIN stack'
                 PROVE  Visited(stack[i])'
      OBVIOUS
    <2>1. CASE i = n + 1
      <3>1. deps[d] \subseteq ToSet(g.todo)
        BY <1>1, <1>2, <1>4 DEF Graph, Requested
      <3>2. Visited(g)'
        BY <1>4, <1>5, <3>1 DEF Visited
      <3> QED BY <1>7, <2>1, <3>2
    <2>2. CASE i # n + 1
      <3>1. PICK f : f = calls[i]
        OBVIOUS
      <3>2. f = stack'[i] /\ i \in DOMAIN calls /\ i \in DOMAIN stack /\ f.mod = stack[i].mod
        BY <1>9, <2>2, <3>1
      <3>3. \A e \in deps[f.mod] : e \in Modules
        BY <3>2, LinkTypes
      <3>4. \A e \in deps[f.mod] : e \in ToSet(f.todo) \/ status'[e] # "Unlinked"
        BY <1>6, <3>1, <3>2, <3>3
      <3>5. Visited(f)'
        BY <1>5, <3>4 DEF Visited
      <3> QED BY <3>2, <3>5
    <2> QED BY <2>1, <2>2
  <1>15. \A i \in DOMAIN stack' : i + 1 \in DOMAIN stack' => stack'[i + 1].mod \in deps'[stack'[i].mod]
    <2> TAKE i \in DOMAIN stack'
    <2> HAVE i + 1 \in DOMAIN stack'
    <2>1. i # n + 1 /\ i \in DOMAIN calls
      BY <1>7
    <2>2. stack'[i].mod = stack[i].mod /\ stack'[i] = calls[i]
      BY <1>9, <2>1
    <2>3. CASE i = n
      BY <1>4, <1>5, <1>7, <1>8, <2>1, <2>2, <2>3
    <2>4. CASE i # n
      <3>1. i + 1 \in DOMAIN calls /\ i + 1 # n + 1
        BY <1>7, <2>1, <2>4
      <3>2. i + 1 \in DOMAIN stack /\ i \in DOMAIN stack /\ stack'[i + 1].mod = stack[i + 1].mod
        BY <1>9, <2>1, <3>1
      <3> QED BY <1>1, <1>5, <2>2, <3>2 DEF Linking
    <2> QED BY <2>3, <2>4
  <1>16. \A m \in Modules : status'[m] # "Errored" /\ (status'[m] = "Linking" <=> OnStack(m)')
    <2> TAKE m \in Modules
    <2>1. CASE m = d
      <3>1. OnStack(d)'
        BY <1>4, <1>7 DEF OnStack
      <3> QED BY <1>6, <2>1, <3>1
    <2>2. CASE m # d
      <3>1. OnStack(m)' => OnStack(m)
        BY <1>4, <1>7, <1>9, <2>2 DEF OnStack
      <3>2. OnStack(m) => OnStack(m)'
        <4> SUFFICES ASSUME NEW i \in DOMAIN stack, stack[i].mod = m
                     PROVE  OnStack(m)'
          BY DEF OnStack
        <4>1. i \in DOMAIN stack' /\ i # n + 1
          BY <1>7
        <4> QED BY <1>9, <4>1 DEF OnStack
      <3>3. status[m] # "Errored" /\ (status[m] = "Linking" <=> OnStack(m))
        BY <1>1 DEF Linking
      <3> QED BY <1>6, <2>2, <3>1, <3>2, <3>3
    <2> QED BY <2>1, <2>2
  <1>17. Linking'
    BY <1>5, <1>10, <1>13, <1>14, <1>15, <1>16 DEF Linking
  <1> QED BY <1>5, <1>6, <1>7, <1>11, <1>17 DEF Inv

\* run_module links the first record that is Unlinked.
LEMMA LinkRecordInv ==
    ASSUME Inv, LinkRecord
    PROVE  Inv'
  <1>1. phase = "link" /\ stack = <<>> /\ DOMAIN stack = {} /\ Graph
    BY DEF LinkRecord, Idle, Inv
  <1>2. PICK i \in DOMAIN records : status[records[i]] = "Unlinked" /\ EnterLink(records[i], <<>>)
    BY DEF LinkRecord
  <1>3. PICK d : d = records[i]
    OBVIOUS
  <1>4. d \in Recorded
    BY <1>3 DEF Recorded, ToSet
  <1>5. UNCHANGED <<graphVars, env, namespaces, ending>>
    BY DEF LinkRecord
  <1>6. <<>> \in Seq(Frames) /\ DOMAIN <<>> = DOMAIN stack
    BY <1>1
  <1> QED BY <1>1, <1>2, <1>3, <1>4, <1>5, <1>6, Entered

\* The top call goes on to its next request. A dependency that needs no call is not
\* Unlinked, or was not loaded.
LEMMA LinkDependencyInv ==
    ASSUME Inv, LinkDependency
    PROVE  Inv'
  <1>1. phase = "link" /\ Linking /\ stack # <<>> /\ stack \in Seq(Frames) /\ Graph
        /\ status \in [Modules -> Statuses]
    BY LinkPhase DEF LinkDependency, Inv
  <1>2. PICK n : n = Len(stack)
    OBVIOUS
  <1>3. /\ n \in Nat \ {0} /\ n \in DOMAIN stack /\ DOMAIN stack = 1..n /\ Top = stack[n]
    BY <1>1, <1>2, OnTop
  <1>4. PICK f \in Frames : f = Top
    BY <1>1, <1>3
  <1>5. f.todo # <<>> /\ f.op = "link" /\ f.todo \in Seq(Modules) /\ f.mod \in Modules
    BY <1>1, <1>3, <1>4, FrameTypes DEF LinkDependency, Linking, Calls
  <1>6. PICK g \in Frames : g = [f EXCEPT !.todo = Tail(@)]
    BY <1>5, NextStatic
  <1>7. g.op = "link" /\ g.mod = f.mod /\ g.todo = Tail(f.todo)
    BY <1>5, <1>6, NextStatic
  <1>8. PICK d \in Modules : d = Head(f.todo)
    BY <1>5, Behead
  <1>9. ToSet(f.todo) = {d} \cup ToSet(g.todo)
    BY <1>5, <1>7, <1>8, SetOfTail
  <1>10. PICK calls : calls = Append(Front(stack), g)
    OBVIOUS
  <1>11. /\ IF d \in deps[f.mod] /\ status[d] = "Unlinked"
              THEN EnterLink(d, calls)
              ELSE stack' = calls /\ UNCHANGED status
         /\ UNCHANGED <<graphVars, env, namespaces, ending>>
    BY <1>4, <1>6, <1>8, <1>10 DEF LinkDependency
  <1>12. /\ Front(stack) \in Seq(Frames) /\ Len(Front(stack)) = n - 1
         /\ \A i \in 1..(n - 1) : Front(stack)[i] = stack[i]
    <2>1. /\ Front(stack) \in Seq(Frames) /\ Len(Front(stack)) = Len(stack) - 1
          /\ DOMAIN Front(stack) = 1..(Len(stack) - 1)
          /\ \A i \in DOMAIN Front(stack) : Front(stack)[i] = stack[i]
      BY <1>1, LastFront
    <2> QED BY <1>2, <2>1
  <1>13. /\ calls \in Seq(Frames) /\ Len(calls) = n /\ calls[n] = g
         /\ \A i \in 1..(n - 1) : calls[i] = stack[i]
    <2>1. PICK u : u = Front(stack)
      OBVIOUS
    <2>2. u \in Seq(Frames) /\ Len(u) = n - 1 /\ \A i \in 1..(n - 1) : u[i] = stack[i]
      BY <1>12, <2>1
    <2>3. /\ Append(u, g) \in Seq(Frames) /\ Len(Append(u, g)) = n /\ Append(u, g)[n] = g
          /\ \A i \in 1..(n - 1) : Append(u, g)[i] = u[i]
      BY <1>3, <2>2, Replaced
    <2> QED BY <1>10, <2>1, <2>2, <2>3
  <1>14. DOMAIN calls = 1..n
    BY <1>3, <1>13
  <1>15. \A i \in DOMAIN calls : i # n => i \in 1..(n - 1) /\ calls[i] = stack[i]
    BY <1>3, <1>13, <1>14
  <1>16. \A i \in DOMAIN calls : calls[i].op = "link" /\ calls[i].mod = stack[i].mod
    BY <1>1, <1>3, <1>4, <1>7, <1>13, <1>14, <1>15 DEF Linking, Calls
  <1>17. \A i \in DOMAIN calls : \A e \in deps[calls[i].mod] :
            e \in ToSet(calls[i].todo) \/ e = d \/ status[e] # "Unlinked"
    <2> TAKE i \in DOMAIN calls
    <2>1. Visited(stack[i])
      BY <1>1, <1>3, <1>14 DEF Linking
    <2>2. CASE i = n
      BY <1>3, <1>4, <1>7, <1>9, <1>13, <2>1, <2>2 DEF Visited
    <2>3. CASE i # n
      BY <1>15, <2>1, <2>3 DEF Visited
    <2> QED BY <2>2, <2>3
  <1>18. CASE d \in deps[f.mod] /\ status[d] = "Unlinked"
    <2>1. d \in Recorded
      BY <1>1, <1>5, <1>18 DEF Graph
    <2>2. \A i \in DOMAIN calls : i = Len(calls) => d \in deps[calls[i].mod]
      BY <1>7, <1>13, <1>18
    <2> QED BY <1>1, <1>3, <1>11, <1>13, <1>14, <1>16, <1>17, <1>18, <2>1, <2>2, Entered
  <1>19. CASE ~ (d \in deps[f.mod] /\ status[d] = "Unlinked")
    <2>1. stack' = calls /\ UNCHANGED <<status, outcome, phase, code, records, deps>>
      BY <1>11, <1>19 DEF ending, graphVars
    <2>2. outcome = "running"
      BY <1>1 DEF Linking
    <2>3. Graph' /\ Dynamics' /\ Recorded' = Recorded /\ \A m \in Recorded' : Loaded(m)'
      BY <1>1, <1>11, <2>1, <2>2, GraphKept DEF SameGraph
    <2>4. \A i \in DOMAIN stack' : stack'[i].mod = stack[i].mod /\ stack'[i].op = "link"
      BY <1>16, <2>1
    <2>5. DOMAIN stack' = DOMAIN stack
      BY <1>3, <1>14, <2>1
    <2>6. Calls("link")'
      BY <1>1, <2>3, <2>4, <2>5 DEF Linking, Calls
    <2>7. \A i \in DOMAIN stack' : Visited(stack[i])'
      <3> SUFFICES ASSUME NEW i \in DOMAIN stack'
                   PROVE  Visited(stack[i])'
        OBVIOUS
      <3>1. PICK h : h = calls[i]
        OBVIOUS
      <3>2. i \in DOMAIN calls /\ stack'[i] = h /\ h.mod = stack[i].mod
        BY <1>3, <1>14, <1>16, <2>1, <2>5, <3>1
      <3>3. \A e \in deps[h.mod] : e \in ToSet(h.todo) \/ status[e] # "Unlinked"
        <4> TAKE e \in deps[h.mod]
        <4>1. e \in ToSet(h.todo) \/ e = d \/ status[e] # "Unlinked"
          BY <1>17, <3>1, <3>2
        <4>2. CASE e = d /\ i = n
          <5>1. h.mod = f.mod
            BY <1>7, <1>13, <3>1, <4>2
          <5> QED BY <1>19, <4>2, <5>1
        <4>3. CASE i # n
          <5>1. Visited(h)
            BY <1>1, <1>15, <2>5, <3>1, <3>2, <4>3 DEF Linking
          <5> QED BY <5>1 DEF Visited
        <4> QED BY <4>1, <4>2, <4>3
      <3>4. Visited(h)'
        BY <2>1, <3>3 DEF Visited
      <3> QED BY <3>2, <3>4
    <2>8. \A i \in DOMAIN stack' : i + 1 \in DOMAIN stack' => stack'[i + 1].mod \in deps'[stack'[i].mod]
      BY <1>1, <2>1, <2>4, <2>5 DEF Linking
    <2>9. \A m \in Modules : OnStack(m)' <=> OnStack(m)
      BY <2>4, <2>5 DEF OnStack
    <2>10. Linking'
      <3>1. \A m \in Modules : status'[m] # "Errored" /\ (status'[m] = "Linking" <=> OnStack(m)')
        BY <1>1, <2>1, <2>9 DEF Linking
      <3> QED BY <2>1, <2>2, <2>6, <2>7, <2>8, <3>1 DEF Linking
    <2> QED BY <1>1, <1>13, <2>1, <2>3, <2>10 DEF Inv
  <1> QED BY <1>18, <1>19

\* The step that ends the run.
LEMMA EndedInv ==
    ASSUME Inv, phase = "link", stack' = <<>>, phase' = "end", UNCHANGED graphVars,
           status' \in [Modules -> Statuses]
    PROVE  Inv'
  <1>1. outcome # "loadError"
    BY DEF Inv, Linking
  <1>2. Graph' /\ Dynamics' /\ Recorded' = Recorded /\ \A m \in Recorded' : Loaded(m)'
    BY <1>1, GraphKept DEF SameGraph
  <1>3. stack' \in Seq(Frames)
    OBVIOUS
  <1> QED BY <1>2, <1>3 DEF Inv

\* What BindImports changes: it ends the run, or it is done with the top call.
LEMMA BindCases ==
    ASSUME BindImports
    PROVE  /\ Running("link") /\ Top.todo = <<>> /\ UNCHANGED graphVars
           /\ \/ /\ stack' = <<>> /\ phase' = "end"
                 /\ \/ UNCHANGED status
                    \/ \E S : status' = [m \in Modules |-> IF m \in S THEN "Errored" ELSE status[m]]
              \/ /\ status' = [status EXCEPT ![Top.mod] = "Linked"]
                 /\ stack' = Front(stack)
                 /\ UNCHANGED ending
  <1>1. \A failure, own : LinkFails(failure, own) =>
            /\ stack' = <<>> /\ phase' = "end"
            /\ \/ UNCHANGED status
               \/ \E S : status' = [m \in Modules |-> IF m \in S THEN "Errored" ELSE status[m]]
    <2> TAKE failure, own
    <2> HAVE LinkFails(failure, own)
    <2>1. PICK S : S = own \cup {f.mod : f \in ToSet(Front(stack))}
      OBVIOUS
    <2>2. stack' = <<>> /\ phase' = "end"
      BY DEF LinkFails, EndWith
    <2>3. CASE failure = Panic
      BY <2>2, <2>3 DEF LinkFails
    <2>4. CASE failure # Panic
      <3>1. status' = [m \in Modules |-> IF m \in S THEN "Errored" ELSE status[m]]
        BY <2>1, <2>4 DEF LinkFails
      <3> QED BY <2>2, <3>1
    <2> QED BY <2>3, <2>4
  <1>2. \/ \E failure, own : LinkFails(failure, own)
        \/ /\ status' = [status EXCEPT ![Top.mod] = "Linked"]
           /\ stack' = Front(stack)
           /\ UNCHANGED ending
    <2>1. CASE Fails(Bindings(Top.mod)) /\ LinkFails(FirstFailure(Bindings(Top.mod)), {})
      BY <2>1
    <2>2. ASSUME NEW checked, NEW own, LinkFails(FirstFailure(checked), own)
          PROVE  \E failure, o : LinkFails(failure, o)
      BY <2>2
    <2> QED BY <2>1, <2>2 DEF BindImports
  <1>3. Running("link") /\ Top.todo = <<>> /\ UNCHANGED graphVars
    BY DEF BindImports
  <1> QED BY <1>1, <1>2, <1>3

\* The statuses after an error are the old ones and Errored.
LEMMA Erroring ==
    ASSUME status \in [Modules -> Statuses], NEW S,
           status' = [m \in Modules |-> IF m \in S THEN "Errored" ELSE status[m]]
    PROVE  /\ status' \in [Modules -> Statuses]
           /\ \A m \in Modules : status'[m] = "Errored" \/ status'[m] = status[m]
  BY DEF Statuses

\* The record of the top call is linked and no longer on the stack.
LEMMA BindImportsInv ==
    ASSUME Inv, BindImports
    PROVE  Inv'
  <1>1. /\ phase = "link" /\ Linking /\ stack # <<>> /\ stack \in Seq(Frames) /\ Graph
        /\ status \in [Modules -> Statuses]
    BY LinkPhase, BindCases DEF Inv
  <1>2. UNCHANGED graphVars /\ UNCHANGED <<code, records, deps, dynamic>>
    BY BindCases DEF graphVars
  <1>3. CASE stack' = <<>> /\ phase' = "end" /\ UNCHANGED status
    BY <1>1, <1>2, <1>3, EndedInv
  <1>4. CASE /\ stack' = <<>> /\ phase' = "end"
             /\ \E S : status' = [m \in Modules |-> IF m \in S THEN "Errored" ELSE status[m]]
    <2>1. status' \in [Modules -> Statuses]
      BY <1>1, <1>4, Erroring
    <2> QED BY <1>1, <1>2, <1>4, <2>1, EndedInv
  <1>5. CASE /\ status' = [status EXCEPT ![Top.mod] = "Linked"]
             /\ stack' = Front(stack)
             /\ UNCHANGED ending
    <2>1. PICK n : n = Len(stack)
      OBVIOUS
    <2>2. n \in Nat \ {0} /\ DOMAIN stack = 1..n /\ Top = stack[n] /\ n \in DOMAIN stack
      BY <1>1, <2>1, OnTop
    <2>3. PICK t \in Modules : t = Top.mod
      BY <2>2, LinkTypes
    <2>4. /\ stack' \in Seq(Frames) /\ DOMAIN stack' = 1..(n - 1)
          /\ \A i \in DOMAIN stack' : stack'[i] = stack[i]
      BY <1>1, <1>5, <2>1, LastFront
    <2>5. \A i \in DOMAIN stack' : i \in DOMAIN stack /\ i # n
      BY <2>2, <2>4
    <2>6. /\ status' \in [Modules -> Statuses] /\ status'[t] = "Linked"
          /\ \A m \in Modules : m # t => status'[m] = status[m]
      BY <1>1, <1>5, <2>3 DEF Statuses
    <2>7. outcome' = "running" /\ outcome = "running" /\ phase' = "link"
      BY <1>1, <1>5 DEF Linking, ending
    <2>8. Graph' /\ Dynamics' /\ Recorded' = Recorded /\ \A m \in Recorded' : Loaded(m)'
      BY <1>1, <1>2, <2>6, <2>7, GraphKept DEF SameGraph
    <2>9. Calls("link")'
      BY <1>1, <2>4, <2>5, <2>8 DEF Linking, Calls
    <2>10. \A i \in DOMAIN stack' : Visited(stack[i])'
      <3> SUFFICES ASSUME NEW i \in DOMAIN stack'
                   PROVE  Visited(stack[i])'
        OBVIOUS
      <3>1. PICK h : h = stack[i]
        OBVIOUS
      <3>2. stack'[i] = h /\ Visited(h) /\ \A e \in deps[h.mod] : e \in Modules
        BY <1>1, <2>4, <2>5, <3>1, LinkTypes DEF Linking
      <3>3. \A e \in deps[h.mod] : e \in ToSet(h.todo) \/ status'[e] # "Unlinked"
        BY <2>6, <3>2 DEF Visited
      <3>4. Visited(h)'
        BY <1>2, <3>3 DEF Visited
      <3> QED BY <3>2, <3>4
    <2>11. \A i \in DOMAIN stack' : i + 1 \in DOMAIN stack' => stack'[i + 1].mod \in deps'[stack'[i].mod]
      BY <1>1, <1>2, <2>4, <2>5 DEF Linking
    <2>12. \A m \in Modules : m # t => (OnStack(m)' <=> OnStack(m))
      <3> SUFFICES ASSUME NEW m \in Modules, m # t
                   PROVE  OnStack(m)' <=> OnStack(m)
        OBVIOUS
      <3>1. OnStack(m)' => OnStack(m)
        BY <2>4, <2>5 DEF OnStack
      <3>2. ASSUME NEW i \in DOMAIN stack, stack[i].mod = m
            PROVE  OnStack(m)'
        <4>1. i # n
          BY <2>2, <2>3, <3>2
        <4>2. i \in DOMAIN stack'
          BY <2>2, <2>4, <4>1
        <4> QED BY <2>4, <3>2, <4>2 DEF OnStack
      <3> QED BY <3>1, <3>2 DEF OnStack
    <2>13. ~ OnStack(t)'
      BY <1>1, <2>2, <2>3, <2>4, <2>5 DEF OnStack, Linking, Calls
    <2>14. \A m \in Modules : status'[m] # "Errored" /\ (status'[m] = "Linking" <=> OnStack(m)')
      <3> TAKE m \in Modules
      <3>1. CASE m = t
        BY <2>6, <2>13, <3>1
      <3>2. CASE m # t
        <4>1. status[m] # "Errored" /\ (status[m] = "Linking" <=> OnStack(m))
          BY <1>1 DEF Linking
        <4> QED BY <2>6, <2>12, <3>2, <4>1
      <3> QED BY <3>1, <3>2
    <2>15. Linking'
      BY <2>7, <2>9, <2>10, <2>11, <2>14 DEF Linking
    <2> QED BY <2>4, <2>6, <2>7, <2>8, <2>15 DEF Inv
  <1> QED BY <1>3, <1>4, <1>5, BindCases

\* Making the namespaces ends the run.
LEMMA MaterializeInv ==
    ASSUME Inv, MaterializeNamespaces
    PROVE  Inv'
  <1>1. phase = "link" /\ stack = <<>> /\ UNCHANGED <<graphVars, status, stack>>
    BY DEF MaterializeNamespaces, Idle
  <1>2. phase' = "end"
    BY DEF MaterializeNamespaces, EndWith
  <1>3. status' \in [Modules -> Statuses]
    BY <1>1 DEF Inv
  <1> QED BY <1>1, <1>2, <1>3, EndedInv

\* Nothing changes.
LEMMA StutterInv ==
    ASSUME Inv, UNCHANGED vars
    PROVE  Inv'
  <1>1. UNCHANGED <<code, records, deps, dynamic, status, stack, phase, outcome>>
    BY DEF vars, graphVars, linkVars, ending
  <1>2. Graph' /\ Dynamics'
    BY <1>1 DEF Inv, Graph, Dynamics, Answers, Fresh, Recorded
  <1>3. \A m : Loaded(m)' <=> Loaded(m)
    BY <1>1 DEF Loaded, Satisfied, Answered, Told, Recorded
  <1>4. \A m : OnStack(m)' <=> OnStack(m)
    BY <1>1 DEF OnStack
  <1>5. Loading => Loading'
    <2>1. Calls("load") => Calls("load")'
      BY <1>1 DEF Calls, Recorded
    <2>2. (\A i \in DOMAIN stack : Position(stack[i])) => (\A i \in DOMAIN stack : Position(stack[i]))'
      BY <1>1 DEF Position
    <2>3. (\A i \in DOMAIN stack : i + 1 \in DOMAIN stack => Waiting(stack[i], stack[i + 1].mod))
          => (\A i \in DOMAIN stack : i + 1 \in DOMAIN stack => Waiting(stack[i], stack[i + 1].mod))'
      BY <1>1 DEF Waiting, Has, Awaiting
    <2> QED BY <1>1, <1>3, <1>4, <2>1, <2>2, <2>3 DEF Loading, Recorded
  <1>6. Linking => Linking'
    <2>1. Calls("link") => Calls("link")'
      BY <1>1 DEF Calls, Recorded
    <2>2. (\A i \in DOMAIN stack : Visited(stack[i])) => (\A i \in DOMAIN stack : Visited(stack[i]))'
      BY <1>1 DEF Visited
    <2> QED BY <1>1, <1>4, <2>1, <2>2 DEF Linking
  <1> QED BY <1>1, <1>2, <1>3, <1>5, <1>6 DEF Inv, Recorded

\* Every step keeps the invariant.
LEMMA NextInv ==
    ASSUME Inv, [Next]_vars
    PROVE  Inv'
  <1>1. CASE FindRecord
    BY <1>1, FindRecordInv
  <1>2. CASE LoadRecord
    BY <1>2, LoadRecordInv
  <1>3. CASE LoadReturns
    BY <1>3, LoadReturnsInv
  <1>4. CASE LoadFails
    BY <1>4, LoadFailsInv
  <1>5. CASE LinkRecord
    BY <1>5, LinkRecordInv
  <1>6. CASE LinkDependency
    BY <1>6, LinkDependencyInv
  <1>7. CASE BindImports
    BY <1>7, BindImportsInv
  <1>8. CASE MaterializeNamespaces
    BY <1>8, MaterializeInv
  <1>9. CASE Terminating
    BY <1>9, StutterInv DEF Terminating
  <1>10. CASE UNCHANGED vars
    BY <1>10, StutterInv
  <1> QED BY <1>1, <1>2, <1>3, <1>4, <1>5, <1>6, <1>7, <1>8, <1>9, <1>10 DEF Next, Step, Load, Link

\* The invariant holds of every behaviour of run_module.
THEOREM Inductive == Spec => []Inv
  <1> QED BY InitInv, NextInv, PTL DEF Spec

\* The import() opcode finds its resolution by position: the resolutions of a record
\* answer its requests one by one, and none is missing from a record that has
\* its dependencies.
THEOREM Aligned == Spec => []DynamicAligned
  <1>1. Inv => DynamicAligned
    <2> SUFFICES ASSUME Inv, NEW m \in Recorded
                 PROVE  /\ \A i \in DOMAIN dynamic[m] :
                              dynamic[m][i] \in {code[m].dynamic[i], Unresolved} \ Missing
                        /\ phase # "load" /\ outcome # "loadError"
                           /\ Requested(code[m]) \subseteq deps[m]
                           => Len(dynamic[m]) = Len(code[m].dynamic)
      BY DEF DynamicAligned
    <2>1. m \in Modules /\ Answers(m)
      BY InModules DEF Inv, Dynamics
    <2>2. \A i \in DOMAIN dynamic[m] :
              dynamic[m][i] \in {code[m].dynamic[i], Unresolved} \ Missing
      BY <2>1 DEF Answers
    <2>3. phase # "load" /\ outcome # "loadError" => Loaded(m)
      BY DEF Inv
    <2> QED BY <2>2, <2>3 DEF Loaded, Satisfied, Answered
  <1> QED BY <1>1, Inductive, PTL

\* load_module_graph leaves a record without a dependency only when an import() on
\* the way to it was told of the failure.
THEOREM Reported == Spec => []PartialIsReported
  <1>1. Inv => PartialIsReported
    <2> SUFFICES ASSUME Inv, phase = "link", ~Complete
                 PROVE  Told
      BY DEF PartialIsReported, Told
    <2>1. PICK m \in Recorded : ~ Satisfied(m)
      BY DEF Complete, Satisfied
    <2>2. Loaded(m)
      BY DEF Inv, Linking
    <2> QED BY <2>1, <2>2 DEF Loaded
  <1> QED BY <1>1, Inductive, PTL

-----------------------------------------------------------------------------
\* What Closure has found after up to n steps, for each number of steps.
Stages(S, next, n, r) ==
    r = [k \in 0..n |-> IF k = 0 THEN S ELSE r[k - 1] \cup UNION {next[x] : x \in r[k - 1]}]

\* There are such sets, so the recursive function in Closure is one.
LEMMA StagesExist ==
    ASSUME NEW S, NEW next, NEW n \in Nat
    PROVE  \E r : Stages(S, next, n, r)
  <1> DEFINE T == {i \in Nat : \E r : Stages(S, next, i, r)}
  <1>1. 0 \in T
    <2>1. Stages(S, next, 0, [k \in 0..0 |-> S])
      BY DEF Stages
    <2> QED BY <2>1
  <1>2. ASSUME NEW j \in Nat, j \in T
        PROVE  j + 1 \in T
    <2>1. PICK r : Stages(S, next, j, r)
      BY <1>2
    <2> DEFINE More(q, k) == IF k = 0 THEN S ELSE q[k - 1] \cup UNION {next[x] : x \in q[k - 1]}
               s == [k \in 0..(j + 1) |-> More(r, k)]
    <2>2. \A k \in 0..j : s[k] = r[k]
      <3> TAKE k \in 0..j
      <3>1. r[k] = More(r, k)
        BY <2>1 DEF Stages
      <3>2. k \in 0..(j + 1)
        OBVIOUS
      <3> QED BY <3>1, <3>2
    <2>3. \A k \in 0..(j + 1) : More(r, k) = More(s, k)
      <3> TAKE k \in 0..(j + 1)
      <3>1. CASE k = 0
        BY <3>1
      <3>2. CASE k # 0
        <4>1. k - 1 \in 0..j
          BY <3>2
        <4>2. s[k - 1] = r[k - 1]
          BY <2>2, <4>1
        <4> HIDE DEF s
        <4> QED BY <3>2, <4>2
      <3> QED BY <3>1, <3>2
    <2>4. s = [k \in 0..(j + 1) |-> More(s, k)]
      BY <2>3
    <2>5. Stages(S, next, j + 1, s)
      <3> HIDE DEF s
      <3> QED BY <2>4 DEF Stages
    <2> QED BY <2>5
  <1> HIDE DEF T
  <1>3. n \in T
    BY <1>1, <1>2, NatSteps
  <1> QED BY <1>3 DEF T

\* Closure is the last of them.
LEMMA ClosureIs ==
    ASSUME NEW S, NEW next, Cardinality(DOMAIN next) \in Nat
    PROVE  \E r : /\ Stages(S, next, Cardinality(DOMAIN next), r)
                  /\ Closure(S, next) = r[Cardinality(DOMAIN next)]
  <1> DEFINE n == Cardinality(DOMAIN next)
             c == CHOOSE r : Stages(S, next, n, r)
  <1>1. \E r : Stages(S, next, n, r)
    BY StagesExist
  <1>2. Stages(S, next, n, c)
    BY <1>1
  <1>3. Closure(S, next) = c[n]
    BY DEF Closure, Stages
  <1> QED BY <1>2, <1>3

\* A set that next does not leave.
Closed(C, next) == \A x \in C : next[x] \subseteq C

\* Closure is the least set that next does not leave: if a step adds nothing the set
\* is closed, and otherwise it has an element more.
LEMMA ClosureIsLeast ==
    ASSUME NEW U, IsFiniteSet(U), NEW next \in [U -> SUBSET U], NEW S \in SUBSET U
    PROVE  /\ Closure(S, next) \in SUBSET U
           /\ S \subseteq Closure(S, next)
           /\ Closed(Closure(S, next), next)
           /\ \A D : S \subseteq D /\ Closed(D, next) => Closure(S, next) \subseteq D
  <1> DEFINE n == Cardinality(U)
  <1>1. n \in Nat /\ DOMAIN next = U
    BY FS_CardinalityType
  <1> HIDE DEF n
  <1>2. PICK r : Stages(S, next, n, r) /\ Closure(S, next) = r[n]
    BY <1>1, ClosureIs DEF n
  <1>3. r[0] = S
    <2>1. 0 \in 0..n
      BY <1>1
    <2> QED BY <1>2, <2>1 DEF Stages
  <1>4. \A k \in Nat : k + 1 <= n => r[k + 1] = r[k] \cup UNION {next[x] : x \in r[k]}
    <2> TAKE k \in Nat
    <2> HAVE k + 1 <= n
    <2>1. k + 1 \in 0..n /\ k + 1 # 0 /\ (k + 1) - 1 = k
      BY <1>1
    <2>2. r[k + 1] = r[(k + 1) - 1] \cup UNION {next[x] : x \in r[(k + 1) - 1]}
      BY <1>2, <2>1 DEF Stages
    <2> QED BY <2>1, <2>2
  <1> DEFINE Good(k) ==
               /\ r[k] \in SUBSET U /\ S \subseteq r[k]
               /\ \A D : S \subseteq D /\ Closed(D, next) => r[k] \subseteq D
               /\ Closed(r[k], next) \/ k <= Cardinality(r[k])
             T == {k \in Nat : k <= n => Good(k)}
  <1>5. 0 \in T
    <2>1. IsFiniteSet(S) /\ Cardinality(S) \in Nat
      BY FS_Subset, FS_CardinalityType
    <2>2. Good(0)
      BY <1>3, <2>1
    <2> QED BY <2>2
  <1>6. ASSUME NEW k \in Nat, k \in T
        PROVE  k + 1 \in T
    <2> SUFFICES ASSUME k + 1 <= n PROVE Good(k + 1)
      OBVIOUS
    <2>1. Good(k)
      BY <1>1, <1>6
    <2>2. r[k + 1] = r[k] \cup UNION {next[x] : x \in r[k]}
      BY <1>4
    <2>3. r[k] \subseteq r[k + 1] /\ \A x \in r[k] : next[x] \subseteq r[k + 1]
      BY <2>2
    <2>4. \A y \in r[k + 1] : y \in r[k] \/ \E x \in r[k] : y \in next[x]
      BY <2>2
    <2>5. r[k + 1] \in SUBSET U
      BY <2>1, <2>4
    <2>6. \A D : S \subseteq D /\ Closed(D, next) => r[k + 1] \subseteq D
      BY <2>1, <2>4 DEF Closed
    <2>7. Closed(r[k + 1], next) \/ k + 1 <= Cardinality(r[k + 1])
      <3>1. CASE Closed(r[k], next)
        BY <2>3, <2>4, <3>1 DEF Closed
      <3>2. CASE ~ Closed(r[k], next)
        <4>1. r[k + 1] # r[k]
          BY <2>3, <3>2 DEF Closed
        <4>2. IsFiniteSet(r[k + 1])
          BY <2>5, FS_Subset
        <4>3. Cardinality(r[k]) <= Cardinality(r[k + 1]) /\ Cardinality(r[k]) # Cardinality(r[k + 1])
          BY <2>3, <4>1, <4>2, FS_Subset
        <4>4. Cardinality(r[k]) \in Nat /\ Cardinality(r[k + 1]) \in Nat
          BY <2>1, <4>2, FS_Subset, FS_CardinalityType
        <4>5. k <= Cardinality(r[k])
          BY <2>1, <3>2
        <4> QED BY <4>3, <4>4, <4>5
      <3> QED BY <3>1, <3>2
    <2> QED BY <2>1, <2>3, <2>5, <2>6, <2>7
  <1>7. Good(n)
    <2> HIDE DEF T
    <2>1. n \in T
      BY <1>1, <1>5, <1>6, NatSteps
    <2> HIDE DEF Good
    <2> QED BY <1>1, <2>1 DEF T
  <1>8. Closed(r[n], next)
    <2>1. CASE n <= Cardinality(r[n])
      <3>1. Cardinality(r[n]) <= n /\ (n = Cardinality(r[n]) => U = r[n])
        BY <1>7, FS_Subset DEF n
      <3>2. Cardinality(r[n]) \in Nat
        BY <1>7, FS_Subset, FS_CardinalityType
      <3>3. r[n] = U
        BY <1>1, <2>1, <3>1, <3>2
      <3> QED BY <3>3 DEF Closed
    <2> QED BY <1>7, <2>1
  <1> QED BY <1>2, <1>7, <1>8

-----------------------------------------------------------------------------
\* What a module reaches by requests is closed under them, and is the least such set.
LEMMA ReachIsLeast ==
    ASSUME Graph, NEW m \in Modules
    PROVE  /\ Reach(m) \in SUBSET Modules /\ m \in Reach(m)
           /\ \A x \in Reach(m) : Requested(code[x]) \subseteq Reach(m)
           /\ \A D \in SUBSET Modules :
                 m \in D /\ (\A x \in D : Requested(code[x]) \subseteq D) => Reach(m) \subseteq D
  <1> DEFINE next == [k \in Modules |-> Requested(code[k])]
  <1>1. next \in [Modules -> SUBSET Modules]
    <2>1. \A k \in Modules : Requested(code[k]) \subseteq Modules
      BY CodeTypes DEF Requested, ToSet
    <2> QED BY <2>1
  <1>2. \A k \in Modules : next[k] = Requested(code[k])
    OBVIOUS
  <1>3. Reach(m) = Closure({m}, next) /\ {m} \in SUBSET Modules
    BY DEF Reach
  <1> HIDE DEF next
  <1>4. /\ Closure({m}, next) \in SUBSET Modules
        /\ {m} \subseteq Closure({m}, next)
        /\ Closed(Closure({m}, next), next)
        /\ \A D : {m} \subseteq D /\ Closed(D, next) => Closure({m}, next) \subseteq D
    BY <1>1, <1>3, LinkingAssumption, ClosureIsLeast
  <1>5. \A D \in SUBSET Modules : Closed(D, next) <=> \A x \in D : Requested(code[x]) \subseteq D
    BY <1>2 DEF Closed
  <1> QED BY <1>3, <1>4, <1>5

\* The module of the call on top is reached from the module of each call below.
LEMMA BelowReaches ==
    ASSUME Inv, Linking, NEW i \in DOMAIN stack
    PROVE  stack[Len(stack)].mod \in Reach(stack[i].mod)
  <1>1. Graph /\ Len(stack) \in Nat /\ DOMAIN stack = 1..Len(stack)
    BY DEF Inv
  <1>2. stack[i].mod \in Modules
    BY LinkTypes
  <1>3. PICK R : R = Reach(stack[i].mod)
    OBVIOUS
  <1> DEFINE T == {d \in Nat : i + d \in DOMAIN stack => stack[i + d].mod \in R}
  <1>4. stack[i].mod \in R /\ \A x \in R : Requested(code[x]) \subseteq R
    BY <1>1, <1>2, <1>3, ReachIsLeast
  <1>5. 0 \in T
    BY <1>1, <1>4
  <1>6. ASSUME NEW d \in Nat, d \in T
        PROVE  d + 1 \in T
    <2> SUFFICES ASSUME i + (d + 1) \in DOMAIN stack PROVE stack[i + (d + 1)].mod \in R
      OBVIOUS
    <2>1. i + d \in DOMAIN stack /\ i + (d + 1) = (i + d) + 1
      BY <1>1
    <2>2. stack[i + d].mod \in R
      BY <1>6, <2>1
    <2>3. stack[(i + d) + 1].mod \in deps[stack[i + d].mod] /\ stack[i + d].mod \in Modules
      BY <2>1, LinkTypes DEF Linking
    <2>4. deps[stack[i + d].mod] \subseteq Requested(code[stack[i + d].mod])
      BY <1>1, <2>3 DEF Graph
    <2> QED BY <1>4, <2>1, <2>2, <2>3, <2>4
  <1> HIDE DEF T
  <1>7. Len(stack) - i \in Nat /\ i + (Len(stack) - i) = Len(stack) /\ Len(stack) \in DOMAIN stack
    BY <1>1
  <1>8. Len(stack) - i \in T
    BY <1>5, <1>6, <1>7, NatSteps
  <1>9. stack[Len(stack)].mod \in R
    BY <1>7, <1>8 DEF T
  <1> QED BY <1>3, <1>9

\* BindImports links a module when every dependency has been visited: one that is
\* still Linking has a call in progress, from which the module is reached.
LEMMA Ordered ==
    ASSUME Inv, [Next]_vars, NEW m \in Modules, status'[m] = "Linked", status[m] # "Linked",
           NEW d \in deps[m] \ {m}
    PROVE  status[d] = "Linked" \/ (status[d] = "Linking" /\ m \in Reach(d))
  <1>1. status \in [Modules -> Statuses]
    BY DEF Inv
  <1>2. ~ UNCHANGED status
    OBVIOUS
  <1>3. ~ Load
    BY <1>2, LoadPhase DEF Load, FindRecord, LoadRecord, LoadReturns, LoadFails, linkVars
  <1>4. ~ MaterializeNamespaces /\ ~ UNCHANGED vars
    BY <1>2 DEF MaterializeNamespaces, vars, linkVars
  <1>5. \A e, calls : ~ EnterLink(e, calls)
    <2> TAKE e, calls
    <2>1. EnterLink(e, calls) => status' = [status EXCEPT ![e] = "Linking"]
      BY DEF EnterLink
    <2> QED BY <1>1, <2>1
  <1>6. ~ LinkRecord /\ ~ LinkDependency
    BY <1>2, <1>5 DEF LinkRecord, LinkDependency
  <1>7. BindImports
    BY <1>3, <1>4, <1>6 DEF Next, Step, Link, Terminating
  <1>8. phase = "link" /\ Linking /\ stack # <<>> /\ Graph /\ Top.todo = <<>>
    BY <1>7, LinkPhase, BindCases DEF Inv
  <1>9. status' = [status EXCEPT ![Top.mod] = "Linked"]
    <2>1. ~ \E S : status' = [k \in Modules |-> IF k \in S THEN "Errored" ELSE status[k]]
      <3>1. ASSUME NEW S, status' = [k \in Modules |-> IF k \in S THEN "Errored" ELSE status[k]]
            PROVE  FALSE
        BY <1>1, <3>1, Erroring
      <3> QED BY <3>1
    <2> QED BY <1>2, <1>7, <2>1, BindCases
  <1>10. m = Top.mod
    BY <1>1, <1>9
  <1>11. Len(stack) \in DOMAIN stack /\ Top = stack[Len(stack)]
    BY <1>8, OnTop
  <1>12. status[d] # "Unlinked" /\ d \in Modules
    <2>1. Visited(Top)
      BY <1>8, <1>11 DEF Linking
    <2> QED BY <1>8, <1>10, <1>11, <2>1, SetOfEmpty, LinkTypes DEF Visited
  <1>13. status[d] \in {"Linked", "Linking"}
    BY <1>1, <1>8, <1>12 DEF Linking, Statuses
  <1>14. ASSUME status[d] = "Linking"
         PROVE  m \in Reach(d)
    <2>1. PICK i \in DOMAIN stack : stack[i].mod = d
      BY <1>8, <1>12, <1>14 DEF Linking, OnStack
    <2> QED BY <1>8, <1>10, <1>11, <2>1, BelowReaches
  <1> QED BY <1>13, <1>14

\* link_module links a module after its dependencies, except those of its own cycle
\* that are still being linked.
THEOREM Order == Spec => LinkOrder
  <1>1. Inv /\ [Next]_vars =>
          [\A m \in Modules : status'[m] = "Linked" /\ status[m] # "Linked" =>
              \A d \in deps[m] \ {m} :
                  status[d] = "Linked" \/ (status[d] = "Linking" /\ m \in Reach(d))]_vars
    BY Ordered
  <1> QED BY <1>1, Inductive, PTL DEF Spec, LinkOrder
=============================================================================
