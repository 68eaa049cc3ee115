------------------------ MODULE ModuleEvaluationProofs ------------------------
(***************************************************************************)
(* Proofs about ModuleEvaluation, for every graph, every set of modules    *)
(* and every bound: type correctness, the accounting of asynchronous       *)
(* dependencies, and that no body is started twice.                        *)
(***************************************************************************)
EXTENDS ModuleEvaluation, FiniteSetTheorems, SequenceTheorems, TLAPS

(* What holds of a call in progress, given the status, pending counts,      *)
(* parents and start counts of the modules.  A module still visiting its     *)
(* dependencies is registered only with those it has seen; a body runs only  *)
(* with no dependency pending; an available parent has not run.             *)
FrameOK(f, st, pe, pa, ru) ==
    /\ f.op \in {"inner", "join"} =>
          /\ st[f.mod] = "Evaluating"
          /\ ru[f.mod] = 0
          /\ \A d \in Modules : f.mod \in pa[d] => d \in f.seen
    /\ f.op = "join" =>
          /\ f.todo # <<>>
          /\ Head(f.todo) \in f.seen
          /\ f.mod \notin pa[Head(f.todo)]
    /\ f.op \in {"body", "return"} =>
          /\ st[f.mod] \in {"Evaluating", "EvaluatingAsync"}
          /\ pe[f.mod] = 0
          /\ ru[f.mod] = 1
    /\ f.op = "complete" => st[f.mod] = "Evaluated"
    /\ f.op # "complete" => f.avail = {}
    /\ \A p \in f.avail : st[p] = "EvaluatingAsync" /\ pe[p] = 0 /\ ru[p] = 0

(* No module has two calls in progress or is about to be started twice.     *)
Distinct(s) ==
    \A i, j \in 1 .. Len(s) : i # j =>
        s[i].mod # s[j].mod /\ s[i].avail \cap s[j].avail = {}

CallsOK(s, st, pe, pa, ru) ==
    /\ \A i \in 1 .. Len(s) : FrameOK(s[i], st, pe, pa, ru)
    /\ Distinct(s)

StackOK == CallsOK(stack, status, pending, parents, runs)

ModuleOK(m) ==
    /\ runs[m] <= 1
    /\ status[m] = "Linked" =>
          runs[m] = 0 /\ \A d \in Modules : m \notin parents[d]
    /\ status[m] = "EvaluatingAsync" /\ pending[m] > 0 => runs[m] = 0
    /\ suspended[m].kind # "none" => runs[m] = 1 /\ pending[m] = 0

IInv ==
    /\ TypeOK
    /\ StackOK
    /\ \A m \in Modules : ModuleOK(m)
    /\ PendingCountsParents

-----------------------------------------------------------------------------
(* Lemmas about the operators of the model.                                *)

(* Popping and replacing the last element of a sequence.                    *)
LEMMA StackOps ==
    ASSUME NEW S, NEW s \in Seq(S), s # <<>>
    PROVE  /\ Len(s) \in Nat \ {0}
           /\ Last(s) \in S /\ Last(s) = s[Len(s)]
           /\ Front(s) \in Seq(S)
           /\ Len(Front(s)) = Len(s) - 1
           /\ \A i \in 1 .. Len(s) - 1 : Front(s)[i] = s[i]
<1>1. Len(s) \in Nat \ {0}
  BY EmptySeq
<1>2. PICK n \in Nat : n = Len(s) - 1 /\ Len(s) = n + 1
  BY <1>1
<1>3. \A i \in 1 .. n : s[i] \in S
  BY <1>1, <1>2, ElementOfSeq
<1>4. /\ SubSeq(s, 1, n) \in Seq(S)
      /\ Len(SubSeq(s, 1, n)) = n
      /\ \A i \in 1 .. n : SubSeq(s, 1, n)[i] = s[i]
  BY <1>3, SubSeqProperties
<1>5. Front(s) = SubSeq(s, 1, n)
  BY <1>2 DEF Front
<1>6. Last(s) \in S /\ Last(s) = s[Len(s)]
  BY <1>1, ElementOfSeq DEF Last
<1> QED
  BY <1>1, <1>2, <1>4, <1>5, <1>6

(* A pushed call is the last of the stack, and what was below stays below.  *)
LEMMA PushOps ==
    ASSUME NEW S, NEW s \in Seq(S), NEW f \in S
    PROVE  /\ Append(s, f) \in Seq(S)
           /\ Len(Append(s, f)) = Len(s) + 1
           /\ Append(s, f)[Len(s) + 1] = f
           /\ \A i \in 1 .. Len(s) : Append(s, f)[i] = s[i]
  BY AppendProperties, LenProperties

(* There are finitely many import() promises.                               *)
LEMMA PromisesFinite ==
    /\ IsFiniteSet(Promises)
    /\ \A ps \in SUBSET Promises : IsFiniteSet(ps) /\ Cardinality(ps) \in Nat
<1>1. IsFiniteSet(Promises)
  BY BoundsAssumption, FS_Interval DEF Promises
<1> QED
  BY <1>1, FS_Subset, FS_CardinalityType

(* Every set of modules of a graph is finite.                               *)
LEMMA ModulesFinite ==
    \A S \in SUBSET Modules : IsFiniteSet(S) /\ Cardinality(S) \in Nat
  BY ModulesAssumption, FS_Subset, FS_CardinalityType

(* A parent is released a natural number of times.                          *)
LEMMA ReleasedType ==
    ASSUME NEW p, NEW done \in SUBSET Modules
    PROVE  Released(p, done) \in Nat
  BY ModulesFinite DEF Released

(* What saturating_sub leaves is a natural number.                          *)
LEMMA SaturatingSub ==
    ASSUME NEW a \in Nat, NEW b \in Nat
    PROVE  (IF a >= b THEN 0 ELSE b - a) \in Nat
  OBVIOUS

(* Releasing more modules can only release more dependencies.               *)
LEMMA ReleasedMonotonic ==
    ASSUME NEW p, NEW small \in SUBSET Modules, NEW big \in SUBSET Modules,
           small \subseteq big
    PROVE  Released(p, small) <= Released(p, big)
<1> DEFINE X(S) == {d \in S : p \in parents[d]}
<1>1. IsFiniteSet(X(big)) /\ X(small) \subseteq X(big)
  BY ModulesFinite
<1>2. Cardinality(X(small)) <= Cardinality(X(big))
  BY <1>1, FS_Subset
<1> QED
  BY <1>2 DEF Released

(* The set gather_available_ancestors collects is the least one: each of its *)
(* members was released by the completed module and by other members.       *)
LEMMA AvailableIsReleased ==
    ASSUME TypeOK, NEW m \in Modules, NEW p \in Available(m)
    PROVE  Becomes(p, Available(m) \cup {m})
<1> DEFINE A == Available(m)
           Closed(S) == \A q \in Modules : Becomes(q, S \cup {m}) => q \in S
<1>1. A \subseteq Modules
  BY DEF Available
<1>2. \A S \in SUBSET Modules : Closed(S) => A \subseteq S
  BY DEF Available
<1>3. ASSUME NEW q \in Modules, NEW S \in SUBSET Modules, NEW T \in SUBSET Modules,
             S \subseteq T, Becomes(q, S \cup {m})
      PROVE  Becomes(q, T \cup {m})
  <2>1. Released(q, S \cup {m}) <= Released(q, T \cup {m})
    BY <1>3, ReleasedMonotonic
  <2>2. Released(q, S \cup {m}) \in Nat /\ Released(q, T \cup {m}) \in Nat
    BY ReleasedType
  <2>3. pending[q] \in Nat
    BY DEF TypeOK
  <2> QED
    BY <1>3, <2>1, <2>2, <2>3 DEF Becomes
<1>4. Closed(A)
  <2> SUFFICES ASSUME NEW q \in Modules, Becomes(q, A \cup {m}),
                      NEW S \in SUBSET Modules, Closed(S)
               PROVE  q \in S
    BY DEF Available
  <2>1. A \subseteq S
    BY <1>2
  <2>2. Becomes(q, S \cup {m})
    BY <1>1, <1>3, <2>1
  <2> QED
    BY <2>2
<1>5. SUFFICES ASSUME ~Becomes(p, A \cup {m})
               PROVE  FALSE
  OBVIOUS
<1> DEFINE S == A \ {p}
<1>6. Closed(S)
  <2> SUFFICES ASSUME NEW q \in Modules, Becomes(q, S \cup {m})
               PROVE  q \in S
    OBVIOUS
  <2>1. Becomes(q, A \cup {m})
    BY <1>1, <1>3
  <2> QED
    BY <1>4, <1>5, <2>1
<1>7. A \subseteq S
  BY <1>1, <1>2, <1>6
<1> QED
  BY <1>7

-----------------------------------------------------------------------------
(* Type correctness.                                                       *)

(* A new call frame is a frame.                                             *)
LEMMA FrameType ==
    ASSUME NEW op \in {"inner", "join", "body", "return", "complete"},
           NEW m \in Modules
    PROVE  Frame(op, m) \in Frames
  BY EmptySeq DEF Frame, Frames

(* The frame of inner_evaluation carries the requests of its module.        *)
LEMMA InnerType ==
    ASSUME TypeOK, NEW m \in Modules
    PROVE  Inner(m) \in Frames
<1>1. deps[m] \in Seq(Modules)
  BY GraphsAssumption DEF TypeOK
<1> QED
  BY <1>1 DEF Inner, Frame, Frames

(* The call on top of a stack is a frame, and what is below it a stack.     *)
LEMMA TopType ==
    ASSUME TypeOK, ~Idle
    PROVE  /\ Top \in Frames
           /\ Front(stack) \in Seq(Frames)
  BY StackOps DEF TypeOK, Idle, Top

(* Settling promises keeps their states and the job count typed.            *)
LEMMA SettleType ==
    ASSUME TypeOK, NEW ps \in SUBSET Promises, NEW as \in {"fulfilled", "rejected"},
           Settle(ps, as)
    PROVE  /\ promise' \in [Promises -> {"unused", "pending", "fulfilled", "rejected"}]
           /\ jobs' \in Nat
<1>1. jobs' \in Nat
  BY PromisesFinite DEF Settle, TypeOK
<1> QED
  BY <1>1 DEF Settle, TypeOK

(* mark_async keeps the order of the asynchronous modules typed.            *)
LEMMA MarkAsyncType ==
    ASSUME TypeOK, NEW m \in Modules, MarkAsync(m)
    PROVE  /\ status' \in [Modules -> Statuses]
           /\ order' \in [Modules -> Nat \cup {NoOrder}]
           /\ nextOrder' \in Nat
<1>1. status' \in [Modules -> Statuses]
  BY DEF MarkAsync, TypeOK, Statuses
<1>2. CASE order[m] = NoOrder
  <2>1. nextOrder \in Nat /\ order \in [Modules -> Nat \cup {NoOrder}]
    BY DEF TypeOK
  <2>2. order' = [order EXCEPT ![m] = nextOrder] /\ nextOrder' = nextOrder + 1
    BY <1>2 DEF MarkAsync
  <2> QED
    BY <1>1, <2>1, <2>2
<1>3. CASE order[m] # NoOrder
  BY <1>1, <1>3 DEF MarkAsync, TypeOK
<1> QED
  BY <1>2, <1>3

(* complete_module keeps the variables it assigns typed.                    *)
LEMMA CompleteType ==
    ASSUME TypeOK, NEW m \in Modules, NEW below \in Seq(Frames),
           CompleteModule(m, below)
    PROVE  /\ status' \in [Modules -> Statuses]
           /\ promise' \in [Promises -> {"unused", "pending", "fulfilled", "rejected"}]
           /\ jobs' \in Nat
           /\ waiters' \in [Modules -> SUBSET Promises]
           /\ parents' \in [Modules -> SUBSET Modules]
           /\ pending' \in [Modules -> Nat]
           /\ stack' \in Seq(Frames)
<1> DEFINE done == Available(m) \cup {m}
<1>1. done \in SUBSET Modules
  BY DEF Available
<1>2. status' \in [Modules -> Statuses] /\ waiters' \in [Modules -> SUBSET Promises]
  BY DEF CompleteModule, TypeOK, Statuses
<1>3. waiters[m] \in SUBSET Promises
  BY DEF TypeOK
<1>4. promise' \in [Promises -> {"unused", "pending", "fulfilled", "rejected"}] /\ jobs' \in Nat
  BY <1>3, SettleType DEF CompleteModule
<1>5. parents' \in [Modules -> SUBSET Modules]
  BY DEF CompleteModule, GatherAvailableAncestors, TypeOK
<1>6. pending' \in [Modules -> Nat]
  <2>1. \A p \in Modules : Released(p, done) \in Nat /\ pending[p] \in Nat
    BY <1>1, ReleasedType DEF TypeOK
  <2>2. \A p \in Modules :
           (IF Released(p, done) >= pending[p] THEN 0
            ELSE pending[p] - Released(p, done)) \in Nat
    BY <2>1, SaturatingSub
  <2> QED
    BY <2>2 DEF CompleteModule, GatherAvailableAncestors
<1>7. stack' \in Seq(Frames)
  <2>1. [Frame("complete", m) EXCEPT !.avail = Available(m)] \in Frames
    BY <1>1, FrameType DEF Frame, Frames
  <2> QED
    BY <2>1, PushOps DEF CompleteModule
<1> QED
  BY <1>2, <1>4, <1>5, <1>6, <1>7

(* Entering inner_evaluation keeps the status and the stack typed.          *)
LEMMA EnterType ==
    ASSUME TypeOK, NEW m \in Modules, NEW return \in Seq(Frames), Enter(m, return)
    PROVE  status' \in [Modules -> Statuses] /\ stack' \in Seq(Frames)
<1>1. Append(return, Inner(m)) \in Seq(Frames)
  BY InnerType, PushOps
<1> QED
  BY <1>1 DEF Enter, TypeOK, Statuses

(* An error that leaves a call keeps every variable typed.                  *)
LEMMA RaiseType ==
    ASSUME TypeOK, ~Idle, NEW kind \in {"exception", "fault", "linkError"}, Raise(kind)
    PROVE  TypeOK'
<1>1. \A t \in Catcher : t \in Modules
  <2>1. 1 \in 1 .. Len(stack)
    BY EmptySeq DEF TypeOK, Idle
  <2>2. stack[1] \in Frames
    BY <2>1, ElementOfSeq DEF TypeOK
  <2> QED
    BY <2>2 DEF Catcher, Frames
<1>2. stack' \in Seq(Frames)
  BY EmptySeq DEF Raise
<1>3. phase' \in Phases /\ outcome' \in Outcomes
  BY DEF Raise, EndWith, TypeOK, Phases, Outcomes
<1>4. /\ status' \in [Modules -> Statuses]
      /\ waiters' \in [Modules -> SUBSET Promises]
      /\ promise' \in [Promises -> {"unused", "pending", "fulfilled", "rejected"}]
      /\ jobs' \in Nat
  <2>1. CASE kind = "exception" /\ Catcher # {}
    <3>1. PICK t \in Catcher : FailModule(t)
      BY <2>1 DEF Raise
    <3>2. t \in Modules /\ waiters[t] \in SUBSET Promises
      BY <1>1 DEF TypeOK
    <3>3. promise' \in [Promises -> {"unused", "pending", "fulfilled", "rejected"}] /\ jobs' \in Nat
      BY <3>1, <3>2, SettleType DEF FailModule
    <3> QED
      BY <3>1, <3>2, <3>3 DEF FailModule, TypeOK, Statuses
  <2>2. CASE ~(kind = "exception" /\ Catcher # {})
    BY <2>2 DEF Raise, TypeOK
  <2> QED
    BY <2>1, <2>2
<1> QED
  BY <1>2, <1>3, <1>4 DEF Raise, TypeOK, history

(* A call of import() keeps the requests and the promises typed.            *)
LEMMA ImportType ==
    ASSUME TypeOK, NEW target \in Importable, Import(target)
    PROVE  /\ requests' \in Seq(Promises)
           /\ to' \in [Promises -> Modules \cup {Unresolved}]
           /\ promise' \in [Promises -> {"unused", "pending", "fulfilled", "rejected"}]
<1>1. PICK p \in Promises : /\ promise' = [promise EXCEPT ![p] = "pending"]
                            /\ to' = [to EXCEPT ![p] = target]
                            /\ requests' = Append(requests, p)
  BY DEF Import
<1>2. target \in Modules \cup {Unresolved}
  BY ModulesAssumption
<1> QED
  BY <1>1, <1>2, PushOps DEF TypeOK

(* Starting a body keeps every variable typed.                              *)
LEMMA StartBodyType ==
    ASSUME TypeOK, NEW m \in Modules, NEW below \in Seq(Frames), StartBody(m, below)
    PROVE  TypeOK'
<1>1. stack' \in Seq(Frames)
  BY FrameType, PushOps DEF StartBody
<1>2. runs' \in [Modules -> Nat]
  BY DEF StartBody, TypeOK
<1> QED
  BY <1>1, <1>2 DEF StartBody, TypeOK, graphVars, vmVars, loopVars

(* Completing a JSON module keeps every variable typed.                     *)
LEMMA StartJsonType ==
    ASSUME TypeOK, NEW m \in Modules, NEW below \in Seq(Frames), StartJson(m, below)
    PROVE  TypeOK'
  BY CompleteType DEF StartJson, TypeOK, loopVars, history

(* Replacing the call on top of the stack by one with other arguments.      *)
LEMMA SetTopType ==
    ASSUME TypeOK, ~Idle, NEW f \in Frames
    PROVE  Append(Front(stack), f) \in Seq(Frames)
  BY TopType, PushOps

(* Every step of the evaluator keeps every variable typed.                  *)
LEMMA TypeStep ==
    ASSUME TypeOK, [Next]_vars
    PROVE  TypeOK'
<1> USE DEF Running
<1> DEFINE Same == UNCHANGED <<graphVars, vmVars, loopVars, history>>
<1>0. ASSUME ~Idle
      PROVE  /\ Top.mod \in Modules /\ Top.todo \in Seq(Modules)
             /\ Top.seen \subseteq Modules /\ Top.avail \subseteq Modules
             /\ \A t \in Seq(Modules) : [Top EXCEPT !.todo = t] \in Frames
             /\ \A t \in Seq(Modules) : [Top EXCEPT !.op = "inner", !.todo = t] \in Frames
             /\ \A d \in Modules :
                   [Top EXCEPT !.op = "join", !.seen = @ \cup {d}] \in Frames
             /\ \A p \in Modules : [Top EXCEPT !.avail = @ \ {p}] \in Frames
             /\ Front(stack) \in Seq(Frames)
  BY <1>0, TopType DEF Frames
<1>00. ASSUME ~Idle, Top.todo # <<>>
       PROVE  Head(Top.todo) \in Modules /\ Tail(Top.todo) \in Seq(Modules)
  BY <1>0, <1>00, HeadTailProperties
<1>1. CASE SkipDependency
  <2>1. stack' \in Seq(Frames)
    BY <1>0, <1>00, <1>1, SetTopType DEF SkipDependency, SetTop
  <2> QED
    BY <1>1, <2>1 DEF SkipDependency, TypeOK, graphVars, vmVars, loopVars, history
<1>2. CASE EvaluateDependency
  <2> DEFINE d == Head(Top.todo)
             ret == Append(Front(stack), [Top EXCEPT !.op = "join", !.seen = @ \cup {d}])
  <2>1. ~Idle /\ d \in Modules /\ ret \in Seq(Frames) /\ Enter(d, ret)
    BY <1>0, <1>00, <1>2, SetTopType DEF EvaluateDependency
  <2>2. status' \in [Modules -> Statuses] /\ stack' \in Seq(Frames)
    BY <2>1, EnterType
  <2> QED
    BY <1>2, <2>2 DEF EvaluateDependency, TypeOK, vmVars, loopVars, history
<1>3. CASE DependencyErrored
  BY <1>3, RaiseType DEF DependencyErrored
<1>4. CASE JoinDependency
  <2> DEFINE m == Top.mod
             d == Head(Top.todo)
  <2>1. stack' \in Seq(Frames) /\ m \in Modules
    BY <1>0, <1>00, <1>4, SetTopType DEF JoinDependency, SetTop
  <2>2. pending' \in [Modules -> Nat] /\ parents' \in [Modules -> SUBSET Modules]
    <3>1. CASE status[d] = "EvaluatingAsync"
      <4>1. /\ pending' = [pending EXCEPT ![m] = @ + 1]
            /\ parents' = [parents EXCEPT ![d] = @ \cup {m}]
        BY <1>4, <3>1 DEF JoinDependency
      <4>2. /\ pending \in [Modules -> Nat]
            /\ parents \in [Modules -> SUBSET Modules]
        BY DEF TypeOK
      <4>3. pending' \in [Modules -> Nat]
        BY <2>1, <4>1, <4>2
      <4>4. \A e \in Modules : parents[e] \cup {m} \in SUBSET Modules
        BY <2>1, <4>2
      <4>5. parents' \in [Modules -> SUBSET Modules]
        BY <4>1, <4>2, <4>4
      <4> QED
        BY <4>3, <4>5
    <3>2. CASE status[d] # "EvaluatingAsync"
      BY <1>4, <3>2 DEF JoinDependency, TypeOK
    <3> QED
      BY <3>1, <3>2
  <2> QED
    BY <1>4, <2>1, <2>2 DEF JoinDependency, TypeOK, vmVars, loopVars, history
<1>5. CASE WaitForDependencies
  <2>1. Front(stack) \in Seq(Frames) /\ Top.mod \in Modules
    BY <1>0, <1>5 DEF WaitForDependencies
  <2> QED
    BY <1>5, <2>1, MarkAsyncType DEF WaitForDependencies, Pop, TypeOK, vmVars, loopVars, history
<1>6. CASE StartModule
  <2>1. Front(stack) \in Seq(Frames) /\ Top.mod \in Modules
    BY <1>0, <1>6 DEF StartModule
  <2> QED
    BY <1>6, <2>1, StartBodyType, StartJsonType DEF StartModule
<1>7. CASE StartAvailable
  <2>1. ~Idle
    BY <1>7 DEF StartAvailable
  <2>2. PICK p \in Top.avail :
           LET below == Append(Front(stack), [Top EXCEPT !.avail = @ \ {p}])
           IN  IF status[p] = "EvaluatingAsync" /\ pending[p] = 0
                 THEN StartBody(p, below)
                 ELSE /\ stack' = below
                      /\ UNCHANGED <<graphVars, vmVars, loopVars, history>>
    BY <1>7 DEF StartAvailable
  <2> DEFINE below == Append(Front(stack), [Top EXCEPT !.avail = @ \ {p}])
  <2>3. p \in Modules /\ below \in Seq(Frames)
    BY <1>0, <2>1, SetTopType
  <2>4. CASE status[p] = "EvaluatingAsync" /\ pending[p] = 0
    BY <2>2, <2>3, <2>4, StartBodyType
  <2>5. CASE ~(status[p] = "EvaluatingAsync" /\ pending[p] = 0)
    BY <2>2, <2>3, <2>5 DEF TypeOK, graphVars, vmVars, loopVars, history
  <2> QED
    BY <2>4, <2>5
<1>8. CASE ReturnFromComplete
  <2>1. Front(stack) \in Seq(Frames)
    BY <1>0, <1>8 DEF ReturnFromComplete
  <2> QED
    BY <1>8, <2>1 DEF ReturnFromComplete, Pop, TypeOK, graphVars, vmVars, loopVars, history
<1>9. CASE ImportInBody
  BY <1>9, ImportType DEF ImportInBody, TypeOK, graphVars, loopVars, history
<1>10. CASE QueueJob
  BY <1>10 DEF QueueJob, TypeOK, graphVars, loopVars, history
<1>11. CASE Suspend
  <2>1. Front(stack) \in Seq(Frames) /\ Top.mod \in Modules
    BY <1>0, <1>11 DEF Suspend
  <2>2. Awaitable \subseteq AwaitKinds
    BY BoundsAssumption DEF Awaitable, AwaitKinds, Promises
  <2>3. suspended' \in [Modules -> AwaitKinds] /\ awaits' \in [Modules -> Nat]
    BY <1>11, <2>1, <2>2 DEF Suspend, TypeOK
  <2> QED
    BY <1>11, <2>1, <2>3, MarkAsyncType DEF Suspend, Pop, TypeOK, loopVars
<1>12. CASE Throw
  BY <1>12, RaiseType DEF Throw
<1>13. CASE Return
  <2>1. stack' \in Seq(Frames)
    BY <1>0, <1>13, FrameType, SetTopType DEF Return, SetTop
  <2> QED
    BY <1>13, <2>1 DEF Return, TypeOK, graphVars, vmVars, loopVars, history
<1>14. CASE BodyCompleted
  <2>1. Front(stack) \in Seq(Frames) /\ Top.mod \in Modules
    BY <1>0, <1>14 DEF BodyCompleted
  <2> QED
    BY <1>14, <2>1, CompleteType DEF BodyCompleted, TypeOK, loopVars, history
<1>15. CASE RunJob
  <2>1. jobs' \in Nat
    BY <1>15 DEF RunJob, TypeOK
  <2> QED
    BY <1>15, <2>1, ImportType DEF RunJob, TypeOK, graphVars, loopVars, history
<1>16. CASE TakeRequests
  BY <1>16, EmptySeq DEF TakeRequests, TypeOK, graphVars, history, Phases
<1>17. CASE ProcessRequest
  <2> DEFINE p == Head(batch)
  <2>1. p \in Promises /\ Tail(batch) \in Seq(Promises)
    BY <1>17, HeadTailProperties DEF ProcessRequest, TypeOK
  <2>2. CASE SettleRequest(p)
    <3>1. /\ promise' \in [Promises -> {"unused", "pending", "fulfilled", "rejected"}]
          /\ jobs' \in Nat
      BY <2>1, <2>2, SettleType DEF SettleRequest
    <3> QED
      BY <1>17, <2>1, <2>2, <3>1 DEF ProcessRequest, SettleRequest, TypeOK, history
  <2>3. CASE AwaitTarget(p)
    <3>1. to[p] \in Modules
      BY <2>1, <2>3 DEF AwaitTarget, TypeOK
    <3>2. Enter(to[p], stack) /\ stack \in Seq(Frames)
      BY <2>3 DEF AwaitTarget, TypeOK
    <3>3. status' \in [Modules -> Statuses] /\ stack' \in Seq(Frames)
      BY <3>1, <3>2, EnterType
    <3>4. waiters' \in [Modules -> SUBSET Promises]
      BY <2>1, <2>3, <3>1 DEF AwaitTarget, TypeOK
    <3> QED
      BY <1>17, <2>1, <2>3, <3>3, <3>4 DEF ProcessRequest, AwaitTarget, TypeOK, history
  <2> QED
    BY <1>17, <2>2, <2>3 DEF ProcessRequest
<1>18. CASE RunPromiseJobs
  <2>1. progressed' \in BOOLEAN
    BY <1>18 DEF RunPromiseJobs, TypeOK
  <2> QED
    BY <1>18, <2>1 DEF RunPromiseJobs, TypeOK, graphVars, vmVars, history, Phases
<1>19. CASE CollectReady
  BY <1>19 DEF CollectReady, TypeOK, graphVars, vmVars, history, Phases
<1>20. CASE ResumeReady
  <2>1. PICK m \in ready :
          /\ ready' = ready \ {m}
          /\ IF status[m] = "EvaluatingAsync" /\ IsReady(m)
               THEN /\ progressed' = TRUE
                    /\ suspended' = [suspended EXCEPT ![m] = NotSuspended]
                    /\ Push(Frame("body", m))
               ELSE UNCHANGED <<progressed, suspended, stack>>
    BY <1>20 DEF ResumeReady
  <2>2. m \in Modules /\ NotSuspended \in AwaitKinds
    BY BoundsAssumption DEF TypeOK, NotSuspended, AwaitKinds
  <2>3. Append(stack, Frame("body", m)) \in Seq(Frames)
    BY <2>2, FrameType, PushOps DEF TypeOK
  <2>4. /\ ready' \in SUBSET Modules /\ progressed' \in BOOLEAN
        /\ suspended' \in [Modules -> AwaitKinds] /\ stack' \in Seq(Frames)
    BY <2>1, <2>2, <2>3 DEF TypeOK, Push
  <2> QED
    BY <1>20, <2>4 DEF ResumeReady, TypeOK, graphVars, history
<1>21. CASE EndOfTurn
  BY <1>21 DEF EndOfTurn, TypeOK, graphVars, vmVars, history, Phases
<1>22. CASE ReturnFromEvaluate
  BY <1>22 DEF ReturnFromEvaluate, EndWith, TypeOK, graphVars, vmVars, history,
               Phases, Outcomes
<1>23. CASE UNCHANGED vars
  BY <1>23 DEF vars, TypeOK, graphVars, vmVars, loopVars, history
<1> QED
  BY <1>1, <1>2, <1>3, <1>4, <1>5, <1>6, <1>7, <1>8, <1>9, <1>10, <1>11, <1>12,
     <1>13, <1>14, <1>15, <1>16, <1>17, <1>18, <1>19, <1>20, <1>21, <1>22, <1>23
     DEF Next, Step, InnerEvaluation, AsyncParents, Body, Evaluate, Terminating

(* Every variable of the evaluator keeps its type in every behaviour.       *)
THEOREM TypeCorrect == Spec => []TypeOK
<1>1. Init => TypeOK
  <2> SUFFICES ASSUME Init
               PROVE  TypeOK
    OBVIOUS
  <2>1. Inner(Entry) \in Frames
    BY ModulesAssumption, GraphsAssumption DEF Init, Inner, Frame, Frames
  <2>2. <<Inner(Entry)>> \in Seq(Frames) /\ <<>> \in Seq(Promises)
    BY <2>1
  <2>3. NotSuspended \in AwaitKinds
    BY BoundsAssumption DEF NotSuspended, AwaitKinds
  <2> QED
    BY <2>2, <2>3 DEF Init, TypeOK, Statuses, Phases, Outcomes
<1>2. TypeOK /\ [Next]_vars => TypeOK'
  BY TypeStep
<1> QED
  BY <1>1, <1>2, PTL DEF Spec

-----------------------------------------------------------------------------
(* Calls in progress, over any state of the modules.                        *)

(* A call pushed on calls of other modules leaves the calls distinct.       *)
LEMMA PushCalls ==
    ASSUME NEW s \in Seq(Frames), NEW f \in Frames,
           NEW st, NEW pe, NEW pa, NEW ru,
           CallsOK(s, st, pe, pa, ru),
           FrameOK(f, st, pe, pa, ru),
           \A i \in 1 .. Len(s) : s[i].mod # f.mod /\ s[i].avail \cap f.avail = {}
    PROVE  CallsOK(Append(s, f), st, pe, pa, ru)
<1> DEFINE t == Append(s, f)
<1>1. /\ Len(s) \in Nat /\ Len(t) = Len(s) + 1 /\ t[Len(s) + 1] = f
      /\ \A i \in 1 .. Len(s) : t[i] = s[i]
  BY PushOps, LenProperties
<1> HIDE DEF t
<1>2. \A i \in 1 .. Len(t) : i \in 1 .. Len(s) \/ i = Len(s) + 1
  BY <1>1
<1>3. \A i \in 1 .. Len(t) : FrameOK(t[i], st, pe, pa, ru)
  BY <1>1, <1>2 DEF CallsOK
<1>4. Distinct(t)
  <2> SUFFICES ASSUME NEW i \in 1 .. Len(t), NEW j \in 1 .. Len(t), i # j
               PROVE  t[i].mod # t[j].mod /\ t[i].avail \cap t[j].avail = {}
    BY DEF Distinct
  <2>1. CASE i \in 1 .. Len(s) /\ j \in 1 .. Len(s)
    BY <1>1, <2>1 DEF CallsOK, Distinct
  <2>2. CASE i \in 1 .. Len(s) /\ j = Len(s) + 1
    BY <1>1, <2>2
  <2>3. CASE i = Len(s) + 1 /\ j \in 1 .. Len(s)
    BY <1>1, <2>3
  <2> QED
    BY <1>2, <2>1, <2>2, <2>3
<1> QED
  BY <1>3, <1>4 DEF CallsOK, t

(* A call that returns leaves the calls distinct.                           *)
LEMMA PopCalls ==
    ASSUME NEW s \in Seq(Frames), s # <<>>,
           NEW st, NEW pe, NEW pa, NEW ru,
           Distinct(s),
           \A i \in 1 .. Len(s) - 1 : FrameOK(s[i], st, pe, pa, ru)
    PROVE  /\ CallsOK(Front(s), st, pe, pa, ru)
           /\ Len(Front(s)) = Len(s) - 1
           /\ \A i \in 1 .. Len(s) - 1 :
                 /\ Front(s)[i] = s[i]
                 /\ s[i] \in Frames
                 /\ s[i].mod # Last(s).mod
                 /\ s[i].avail \cap Last(s).avail = {}
<1>1. /\ Len(s) \in Nat \ {0} /\ Last(s) = s[Len(s)]
      /\ Len(Front(s)) = Len(s) - 1
      /\ \A i \in 1 .. Len(s) - 1 : Front(s)[i] = s[i]
  BY StackOps
<1>2. PICK n \in Nat : n = Len(s) - 1 /\ Len(s) = n + 1 /\ Len(Front(s)) = n
  BY <1>1
<1>3. Distinct(Front(s))
  BY <1>1, <1>2 DEF Distinct
<1>4. \A i \in 1 .. n : FrameOK(Front(s)[i], st, pe, pa, ru)
  BY <1>1, <1>2
<1>5. \A i \in 1 .. n : s[i].mod # Last(s).mod /\ s[i].avail \cap Last(s).avail = {}
  BY <1>1, <1>2 DEF Distinct
<1>6. \A i \in 1 .. n : s[i] \in Frames
  BY <1>2, ElementOfSeq
<1> QED
  BY <1>1, <1>2, <1>3, <1>4, <1>5, <1>6 DEF CallsOK

(* A frame stays all right while the modules it mentions do not change.      *)
Agree(f, st, pe, pa, ru, st2, pe2, pa2, ru2) ==
    /\ st2[f.mod] = st[f.mod] /\ pe2[f.mod] = pe[f.mod] /\ ru2[f.mod] = ru[f.mod]
    /\ \A d \in Modules : f.mod \in pa2[d] => f.mod \in pa[d]
    /\ \A p \in f.avail : st2[p] = st[p] /\ pe2[p] = pe[p] /\ ru2[p] = ru[p]

(* A call stays all right when no module it is about has changed.           *)
LEMMA FrameKept ==
    ASSUME NEW f \in Frames,
           NEW st, NEW pe, NEW pa, NEW ru, FrameOK(f, st, pe, pa, ru),
           NEW st2, NEW pe2, NEW pa2, NEW ru2,
           Agree(f, st, pe, pa, ru, st2, pe2, pa2, ru2)
    PROVE  FrameOK(f, st2, pe2, pa2, ru2)
<1>1. f.op = "join" => Head(f.todo) \in Modules
  BY HeadTailProperties DEF FrameOK, Frames
<1>2. f.op \in {"inner", "join"} =>
          /\ st2[f.mod] = "Evaluating"
          /\ ru2[f.mod] = 0
          /\ \A d \in Modules : f.mod \in pa2[d] => d \in f.seen
  BY DEF FrameOK, Agree
<1>3. f.op = "join" =>
          /\ f.todo # <<>>
          /\ Head(f.todo) \in f.seen
          /\ f.mod \notin pa2[Head(f.todo)]
  BY <1>1 DEF FrameOK, Agree
<1>4. f.op \in {"body", "return"} =>
          /\ st2[f.mod] \in {"Evaluating", "EvaluatingAsync"}
          /\ pe2[f.mod] = 0
          /\ ru2[f.mod] = 1
  BY DEF FrameOK, Agree
<1>5. /\ f.op = "complete" => st2[f.mod] = "Evaluated"
      /\ f.op # "complete" => f.avail = {}
      /\ \A p \in f.avail : st2[p] = "EvaluatingAsync" /\ pe2[p] = 0 /\ ru2[p] = 0
  BY DEF FrameOK, Agree
<1> QED
  BY <1>2, <1>3, <1>4, <1>5 DEF FrameOK

(* An empty stack has nothing to be wrong.                                  *)
LEMMA NoCalls ==
    ASSUME NEW st, NEW pe, NEW pa, NEW ru
    PROVE  CallsOK(<<>>, st, pe, pa, ru)
  BY DEF CallsOK, Distinct

-----------------------------------------------------------------------------
(* The inductive invariant, action by action.                               *)

(* The frames below the top, in a state where they are still all right.     *)
LEMMA BelowTop ==
    ASSUME TypeOK, StackOK, ~Idle,
           NEW st, NEW pe, NEW pa, NEW ru,
           \A i \in 1 .. Len(stack) - 1 : FrameOK(stack[i], st, pe, pa, ru)
    PROVE  /\ CallsOK(Front(stack), st, pe, pa, ru)
           /\ Front(stack) \in Seq(Frames)
           /\ \A i \in 1 .. Len(Front(stack)) :
                 /\ Front(stack)[i].mod # Top.mod
                 /\ Front(stack)[i].avail \cap Top.avail = {}
<1>1. stack \in Seq(Frames) /\ stack # <<>> /\ Distinct(stack)
  BY DEF TypeOK, Idle, StackOK, CallsOK
<1>2. /\ CallsOK(Front(stack), st, pe, pa, ru)
      /\ Len(Front(stack)) = Len(stack) - 1
      /\ \A i \in 1 .. Len(stack) - 1 :
            /\ Front(stack)[i] = stack[i]
            /\ stack[i].mod # Last(stack).mod
            /\ stack[i].avail \cap Last(stack).avail = {}
  BY <1>1, PopCalls
<1> QED
  BY <1>2, TopType DEF Top

(* The top frame and the frames below it, one by one.                       *)
LEMMA CallFrames ==
    ASSUME TypeOK, StackOK, ~Idle
    PROVE  /\ FrameOK(Top, status, pending, parents, runs)
           /\ Top \in Frames
           /\ \A i \in 1 .. Len(stack) - 1 :
                 /\ stack[i] \in Frames
                 /\ FrameOK(stack[i], status, pending, parents, runs)
                 /\ stack[i].mod # Top.mod
                 /\ stack[i].avail \cap Top.avail = {}
<1>1. stack \in Seq(Frames) /\ stack # <<>> /\ Distinct(stack)
  BY DEF TypeOK, Idle, StackOK, CallsOK
<1>2. Len(stack) \in Nat \ {0} /\ Top = stack[Len(stack)]
  BY <1>1, StackOps DEF Top
<1>3. \A i \in 1 .. Len(stack) : FrameOK(stack[i], status, pending, parents, runs)
  BY DEF StackOK, CallsOK
<1>4. \A i \in 1 .. Len(stack) - 1 : i \in 1 .. Len(stack) /\ i # Len(stack)
  BY <1>2
<1>5. Len(stack) \in 1 .. Len(stack)
  BY <1>2
<1> QED
  BY <1>1, <1>2, <1>3, <1>4, <1>5, ElementOfSeq DEF Distinct

(* Steps that touch neither the calls nor the modules' progress.            *)
LEMMA QuietStep ==
    ASSUME IInv, TypeOK',
           UNCHANGED <<status, pending, parents, runs, stack, suspended>>
    PROVE  IInv'
  BY DEF IInv, StackOK, ModuleOK, PendingCountsParents

(* A step that only moves the calls.                                        *)
LEMMA CallStep ==
    ASSUME IInv, TypeOK', StackOK',
           UNCHANGED <<status, pending, parents, runs, suspended>>
    PROVE  IInv'
  BY DEF IInv, ModuleOK, PendingCountsParents

(* Skipping a repeated request preserves the invariant.                     *)
LEMMA SkipDependencyStep ==
    ASSUME IInv, TypeOK', SkipDependency
    PROVE  IInv'
<1> DEFINE f == [Top EXCEPT !.todo = Tail(@)]
<1>1. ~Idle /\ TypeOK /\ StackOK /\ Top.op = "inner"
  BY DEF IInv, SkipDependency, Running
<1>2. /\ FrameOK(Top, status, pending, parents, runs) /\ Top \in Frames
      /\ \A i \in 1 .. Len(stack) - 1 : FrameOK(stack[i], status, pending, parents, runs)
  BY <1>1, CallFrames
<1>3. f \in Frames /\ f.mod = Top.mod /\ f.avail = Top.avail /\ f.op = "inner"
  <2>1. Tail(Top.todo) \in Seq(Modules)
    BY <1>2, HeadTailProperties DEF SkipDependency, Frames
  <2> QED
    BY <1>1, <1>2, <2>1 DEF Frames
<1>4. FrameOK(f, status, pending, parents, runs)
  BY <1>1, <1>2, <1>3 DEF FrameOK, Frames
<1>5. CallsOK(Append(Front(stack), f), status, pending, parents, runs)
  BY <1>1, <1>2, <1>3, <1>4, BelowTop, PushCalls
<1>6. StackOK'
  BY <1>5 DEF SkipDependency, SetTop, StackOK, graphVars, history
<1> QED
  BY <1>6, CallStep DEF SkipDependency, graphVars, vmVars, history

(* Returning from complete_module preserves the invariant.                  *)
LEMMA ReturnFromCompleteStep ==
    ASSUME IInv, TypeOK', ReturnFromComplete
    PROVE  IInv'
<1>1. ~Idle /\ TypeOK /\ StackOK
  BY DEF IInv, ReturnFromComplete, Running
<1>2. CallsOK(Front(stack), status, pending, parents, runs)
  BY <1>1, CallFrames, BelowTop
<1>3. StackOK'
  BY <1>2 DEF ReturnFromComplete, Pop, StackOK, graphVars, history
<1> QED
  BY <1>3, CallStep DEF ReturnFromComplete, graphVars, vmVars, history

(* The Return opcode of a body preserves the invariant.                     *)
LEMMA ReturnStep ==
    ASSUME IInv, TypeOK', Return
    PROVE  IInv'
<1> DEFINE f == Frame("return", Top.mod)
<1>1. ~Idle /\ TypeOK /\ StackOK /\ Top.op = "body"
  BY DEF IInv, Return, Running
<1>2. /\ FrameOK(Top, status, pending, parents, runs) /\ Top \in Frames
      /\ \A i \in 1 .. Len(stack) - 1 : FrameOK(stack[i], status, pending, parents, runs)
  BY <1>1, CallFrames
<1>3. f \in Frames /\ f.mod = Top.mod /\ f.avail = {} /\ f.op = "return"
  BY <1>2, FrameType DEF Frame, Frames
<1>4. FrameOK(f, status, pending, parents, runs)
  BY <1>1, <1>2, <1>3 DEF FrameOK
<1>5. CallsOK(Append(Front(stack), f), status, pending, parents, runs)
  BY <1>1, <1>2, <1>3, <1>4, BelowTop, PushCalls
<1>6. StackOK'
  BY <1>5 DEF Return, SetTop, StackOK, graphVars, history
<1> QED
  BY <1>6, CallStep DEF Return, graphVars, vmVars, history

(* inner_evaluation(m) on top of the calls `return`: the early returns, or a  *)
(* new call for a module that nobody has visited.                           *)
LEMMA EnterCalls ==
    ASSUME IInv, NEW m \in Modules, NEW return \in Seq(Frames),
           CallsOK(return, status, pending, parents, runs),
           Enter(m, return), TypeOK',
           UNCHANGED <<pending, parents, runs, suspended>>
    PROVE  IInv'
<1>1. CASE UNCHANGED status /\ stack' = return
  BY <1>1, CallStep DEF StackOK
<1>2. CASE /\ status[m] = "Linked"
           /\ status' = [status EXCEPT ![m] = "Evaluating"]
           /\ stack' = Append(return, Inner(m))
  <2>1. /\ runs[m] = 0
        /\ \A d \in Modules : m \notin parents[d]
    BY <1>2 DEF IInv, ModuleOK
  <2>2. /\ status'[m] = "Evaluating"
        /\ \A x \in Modules : x # m => status'[x] = status[x]
    BY <1>2 DEF IInv, TypeOK
  <2>3. ASSUME NEW i \in 1 .. Len(return)
        PROVE  /\ FrameOK(return[i], status', pending, parents, runs)
               /\ return[i].mod # m
    <3>1. return[i] \in Frames /\ FrameOK(return[i], status, pending, parents, runs)
      BY ElementOfSeq DEF CallsOK
    <3>2. return[i].mod # m /\ m \notin return[i].avail
      BY <1>2, <3>1 DEF FrameOK, Frames
    <3>3. return[i].mod \in Modules /\ return[i].avail \subseteq Modules
      BY <3>1 DEF Frames
    <3> QED
      BY <2>2, <3>1, <3>2, <3>3 DEF FrameOK
  <2>4. Inner(m) \in Frames /\ Inner(m).avail = {} /\ Inner(m).mod = m
        /\ Inner(m).op = "inner"
    BY InnerType DEF IInv, Inner, Frame
  <2>5. FrameOK(Inner(m), status', pending, parents, runs)
    BY <2>1, <2>2, <2>4 DEF FrameOK
  <2>6. CallsOK(return, status', pending, parents, runs)
    BY <2>3 DEF CallsOK
  <2>7. CallsOK(Append(return, Inner(m)), status', pending, parents, runs)
    BY <2>3, <2>4, <2>5, <2>6, PushCalls
  <2>8. StackOK'
    BY <1>2, <2>7 DEF StackOK
  <2>9. \A x \in Modules : ModuleOK(x)'
    BY <2>1, <2>2 DEF IInv, ModuleOK
  <2> QED
    BY <2>8, <2>9 DEF IInv, PendingCountsParents
<1> QED
  BY <1>1, <1>2 DEF Enter

(* The recursive call for a dependency preserves the invariant.             *)
LEMMA EvaluateDependencyStep ==
    ASSUME IInv, TypeOK', EvaluateDependency
    PROVE  IInv'
<1> DEFINE d == Head(Top.todo)
           f == [Top EXCEPT !.op = "join", !.seen = @ \cup {d}]
<1>1. ~Idle /\ TypeOK /\ StackOK /\ Top.op = "inner" /\ Top.todo # <<>> /\ d \notin Top.seen
  BY DEF IInv, EvaluateDependency, Running
<1>2. /\ FrameOK(Top, status, pending, parents, runs) /\ Top \in Frames
      /\ \A i \in 1 .. Len(stack) - 1 : FrameOK(stack[i], status, pending, parents, runs)
  BY <1>1, CallFrames
<1>3. d \in Modules
  BY <1>1, <1>2, HeadTailProperties DEF Frames
<1>4. /\ f \in Frames /\ f.mod = Top.mod /\ f.avail = Top.avail /\ f.op = "join"
      /\ f.seen = Top.seen \cup {d} /\ f.todo = Top.todo
  BY <1>2, <1>3 DEF Frames
<1>5. FrameOK(f, status, pending, parents, runs)
  BY <1>1, <1>2, <1>3, <1>4 DEF FrameOK
<1>6. CallsOK(Append(Front(stack), f), status, pending, parents, runs)
  BY <1>1, <1>2, <1>4, <1>5, BelowTop, PushCalls
<1>7. Append(Front(stack), f) \in Seq(Frames)
  BY <1>1, <1>4, SetTopType
<1>8. Enter(d, Append(Front(stack), f))
  BY DEF EvaluateDependency
<1>9. UNCHANGED <<pending, parents, runs, suspended>>
  BY DEF EvaluateDependency, vmVars, history
<1> QED
  BY <1>3, <1>6, <1>7, <1>8, <1>9, EnterCalls

(* Registering with an asynchronous dependency preserves the invariant: the *)
(* pending count and the list of parents grow together.                     *)
LEMMA JoinDependencyStep ==
    ASSUME IInv, TypeOK', JoinDependency
    PROVE  IInv'
<1> DEFINE m == Top.mod
           d == Head(Top.todo)
           f == [Top EXCEPT !.op = "inner", !.todo = Tail(@)]
<1>1. /\ ~Idle /\ TypeOK /\ StackOK /\ Top.op = "join" /\ Top.todo # <<>>
      /\ stack' = Append(Front(stack), f)
      /\ UNCHANGED <<status, runs, suspended>>
  BY DEF IInv, JoinDependency, Running, SetTop, vmVars, history
<1>2. /\ FrameOK(Top, status, pending, parents, runs) /\ Top \in Frames
      /\ \A i \in 1 .. Len(stack) - 1 :
            /\ stack[i] \in Frames
            /\ FrameOK(stack[i], status, pending, parents, runs)
            /\ stack[i].mod # Top.mod
  BY <1>1, CallFrames
<1>3. d \in Modules /\ m \in Modules /\ Tail(Top.todo) \in Seq(Modules)
  BY <1>1, <1>2, HeadTailProperties DEF Frames
<1>4. /\ f \in Frames /\ f.mod = m /\ f.avail = Top.avail /\ f.op = "inner"
      /\ f.seen = Top.seen
  BY <1>2, <1>3 DEF Frames
<1>5. /\ status[m] = "Evaluating" /\ runs[m] = 0 /\ m \notin parents[d] /\ d \in Top.seen
      /\ \A e \in Modules : m \in parents[e] => e \in Top.seen
      /\ Top.avail = {}
  BY <1>1, <1>2 DEF FrameOK
<1>6. CASE status[d] # "EvaluatingAsync"
  <2>1. UNCHANGED <<pending, parents>>
    BY <1>6 DEF JoinDependency
  <2>2. FrameOK(f, status, pending, parents, runs)
    BY <1>4, <1>5 DEF FrameOK
  <2>3. CallsOK(Append(Front(stack), f), status, pending, parents, runs)
    BY <1>1, <1>2, <1>4, <2>2, BelowTop, PushCalls
  <2>4. StackOK'
    BY <1>1, <2>1, <2>3 DEF StackOK
  <2> QED
    BY <1>1, <2>1, <2>4, CallStep
<1>7. CASE status[d] = "EvaluatingAsync"
  <2>1. /\ pending' = [pending EXCEPT ![m] = @ + 1]
        /\ parents' = [parents EXCEPT ![d] = @ \cup {m}]
    BY <1>7 DEF JoinDependency
  <2>2. /\ pending'[m] = pending[m] + 1
        /\ \A x \in Modules : x # m => pending'[x] = pending[x]
        /\ parents'[d] = parents[d] \cup {m}
        /\ \A x \in Modules : x # d => parents'[x] = parents[x]
    BY <1>1, <1>3, <2>1 DEF TypeOK
  <2>3. \A x, e \in Modules : x # m => (x \in parents'[e] <=> x \in parents[e])
    BY <2>2
  <2>4. \A i \in 1 .. Len(stack) - 1 :
           FrameOK(stack[i], status, pending', parents', runs)
    <3> SUFFICES ASSUME NEW i \in 1 .. Len(stack) - 1
                 PROVE  FrameOK(stack[i], status, pending', parents', runs)
      OBVIOUS
    <3> DEFINE g == stack[i]
    <3>1. /\ g \in Frames /\ FrameOK(g, status, pending, parents, runs)
          /\ g.mod \in Modules /\ g.mod # m /\ g.avail \subseteq Modules
      BY <1>2 DEF Frames
    <3>2. m \notin g.avail
      BY <1>5, <3>1 DEF FrameOK
    <3>4. \A e \in Modules : g.mod \in parents'[e] <=> g.mod \in parents[e]
      BY <2>3, <3>1
    <3>5. pending'[g.mod] = pending[g.mod]
      BY <2>2, <3>1
    <3>6. \A p \in g.avail : pending'[p] = pending[p]
      BY <2>2, <3>1, <3>2
    <3>7. Agree(g, status, pending, parents, runs, status, pending', parents', runs)
      BY <3>4, <3>5, <3>6 DEF Agree
    <3> QED
      BY <3>1, <3>7, FrameKept
  <2>5. FrameOK(f, status, pending', parents', runs)
    BY <1>3, <1>4, <1>5, <2>2 DEF FrameOK
  <2>6. CallsOK(Append(Front(stack), f), status, pending', parents', runs)
    BY <1>1, <1>4, <2>4, <2>5, BelowTop, PushCalls
  <2>7. StackOK'
    BY <1>1, <2>6 DEF StackOK
  <2>8. \A x \in Modules : ModuleOK(x)'
    BY <1>1, <1>5, <2>2, <2>3 DEF IInv, ModuleOK
  <2>9. PendingCountsParents'
    <3> DEFINE X(x) == {e \in Modules : x \in parents[e]}
               Y(x) == {e \in Modules : x \in parents'[e]}
    <3>1. \A x \in Modules : x # m => Y(x) = X(x)
      BY <2>3
    <3>2. Y(m) = X(m) \cup {d} /\ d \notin X(m)
      BY <1>3, <1>5, <2>2
    <3>3. IsFiniteSet(X(m))
      BY ModulesFinite
    <3>4. Cardinality(Y(m)) = Cardinality(X(m)) + 1
      BY <3>2, <3>3, FS_AddElement
    <3>5. \A x \in Modules : pending[x] = Cardinality(X(x))
      BY DEF IInv, PendingCountsParents
    <3>6. ASSUME NEW x \in Modules
          PROVE  pending'[x] = Cardinality(Y(x))
      <4>1. CASE x = m
        <5>1. pending'[m] = pending[m] + 1 /\ pending[m] = Cardinality(X(m))
          BY <1>3, <2>2, <3>5
        <5> QED
          BY <3>4, <4>1, <5>1
      <4>2. CASE x # m
        <5>1. pending'[x] = pending[x] /\ Y(x) = X(x) /\ pending[x] = Cardinality(X(x))
          BY <2>2, <3>1, <3>5, <4>2
        <5> HIDE DEF X, Y
        <5> QED
          BY <5>1
      <4> QED
        BY <4>1, <4>2
    <3> QED
      BY <3>6 DEF PendingCountsParents
  <2> QED
    BY <2>7, <2>8, <2>9 DEF IInv
<1> QED
  BY <1>6, <1>7

(* The frames below the top are about other modules than the top's, so they   *)
(* survive a change of the top's module alone.                              *)
LEMMA OtherFrames ==
    ASSUME TypeOK, StackOK, ~Idle,
           \A i \in 1 .. Len(stack) - 1 : Top.mod \notin stack[i].avail,
           NEW st, NEW pe, NEW ru,
           \A x \in Modules : x # Top.mod =>
               st[x] = status[x] /\ pe[x] = pending[x] /\ ru[x] = runs[x]
    PROVE  \A i \in 1 .. Len(stack) - 1 : FrameOK(stack[i], st, pe, parents, ru)
<1> SUFFICES ASSUME NEW i \in 1 .. Len(stack) - 1
             PROVE  FrameOK(stack[i], st, pe, parents, ru)
  OBVIOUS
<1>1. /\ stack[i] \in Frames /\ FrameOK(stack[i], status, pending, parents, runs)
      /\ stack[i].mod # Top.mod /\ Top.mod \notin stack[i].avail
  BY CallFrames
<1>2. stack[i].mod \in Modules /\ stack[i].avail \subseteq Modules
  BY <1>1 DEF Frames
<1>3. Agree(stack[i], status, pending, parents, runs, st, pe, parents, ru)
  BY <1>1, <1>2 DEF Agree
<1> QED
  BY <1>1, <1>3, FrameKept

(* A module in the course of a call is not waiting to be started.            *)
LEMMA TopNotAvailable ==
    ASSUME TypeOK, StackOK, ~Idle, Top.op # "complete"
    PROVE  \A i \in 1 .. Len(stack) - 1 : Top.mod \notin stack[i].avail
<1> SUFFICES ASSUME NEW i \in 1 .. Len(stack) - 1, Top.mod \in stack[i].avail
             PROVE  FALSE
  OBVIOUS
<1>1. /\ FrameOK(stack[i], status, pending, parents, runs)
      /\ FrameOK(Top, status, pending, parents, runs) /\ Top \in Frames
  BY CallFrames
<1>2. status[Top.mod] = "EvaluatingAsync" /\ runs[Top.mod] = 0
  BY <1>1 DEF FrameOK
<1>3. Top.op \in {"inner", "join", "body", "return"}
  BY <1>1 DEF Frames
<1> QED
  BY <1>1, <1>2, <1>3 DEF FrameOK

(* Leaving a module to wait for its dependencies preserves the invariant.   *)
LEMMA WaitForDependenciesStep ==
    ASSUME IInv, TypeOK', WaitForDependencies
    PROVE  IInv'
<1> DEFINE m == Top.mod
<1>1. /\ ~Idle /\ TypeOK /\ StackOK /\ Top.op = "inner" /\ pending[m] > 0
      /\ stack' = Front(stack)
      /\ status' = [status EXCEPT ![m] = "EvaluatingAsync"]
      /\ UNCHANGED <<pending, parents, runs, suspended>>
  BY DEF IInv, WaitForDependencies, Running, Pop, MarkAsync, vmVars, history
<1>2. FrameOK(Top, status, pending, parents, runs) /\ Top \in Frames
  BY <1>1, CallFrames
<1>3. m \in Modules /\ runs[m] = 0
  BY <1>1, <1>2 DEF FrameOK, Frames
<1>4. /\ status'[m] = "EvaluatingAsync"
      /\ \A x \in Modules : x # m => status'[x] = status[x]
  BY <1>1, <1>3 DEF TypeOK
<1>5. \A i \in 1 .. Len(stack) - 1 : FrameOK(stack[i], status', pending, parents, runs)
  BY <1>1, <1>4, TopNotAvailable, OtherFrames
<1>6. StackOK'
  BY <1>1, <1>5, BelowTop DEF StackOK
<1>7. \A x \in Modules : ModuleOK(x)'
  BY <1>1, <1>3, <1>4 DEF IInv, ModuleOK
<1> QED
  BY <1>1, <1>6, <1>7 DEF IInv, PendingCountsParents

(* A top-level await preserves the invariant.                               *)
LEMMA SuspendStep ==
    ASSUME IInv, TypeOK', Suspend
    PROVE  IInv'
<1> DEFINE m == Top.mod
<1>1. /\ ~Idle /\ TypeOK /\ StackOK /\ Top.op = "body"
      /\ stack' = Front(stack)
      /\ status' = [status EXCEPT ![m] = "EvaluatingAsync"]
      /\ UNCHANGED <<pending, parents, runs>>
  BY DEF IInv, Suspend, Running, Pop, MarkAsync
<1>2. FrameOK(Top, status, pending, parents, runs) /\ Top \in Frames
  BY <1>1, CallFrames
<1>3. m \in Modules /\ runs[m] = 1 /\ pending[m] = 0
  BY <1>1, <1>2 DEF FrameOK, Frames
<1>4. /\ status'[m] = "EvaluatingAsync"
      /\ \A x \in Modules : x # m => status'[x] = status[x]
      /\ \A x \in Modules : x # m => suspended'[x] = suspended[x]
  BY <1>1, <1>3 DEF TypeOK, Suspend
<1>5. \A i \in 1 .. Len(stack) - 1 : FrameOK(stack[i], status', pending, parents, runs)
  BY <1>1, <1>4, TopNotAvailable, OtherFrames
<1>6. StackOK'
  BY <1>1, <1>5, BelowTop DEF StackOK
<1>7. \A x \in Modules : ModuleOK(x)'
  BY <1>1, <1>3, <1>4 DEF IInv, ModuleOK
<1> QED
  BY <1>1, <1>6, <1>7 DEF IInv, PendingCountsParents

(* Starting the body of a module that has not run and has nothing pending,    *)
(* on top of calls that are about other modules.                            *)
LEMMA StartBodyStep ==
    ASSUME IInv, TypeOK', NEW m \in Modules, NEW below \in Seq(Frames),
           StartBody(m, below),
           CallsOK(below, status, pending, parents, runs),
           \A i \in 1 .. Len(below) : below[i].mod # m /\ m \notin below[i].avail,
           status[m] \in {"Evaluating", "EvaluatingAsync"},
           pending[m] = 0, runs[m] = 0
    PROVE  IInv'
<1> DEFINE f == Frame("body", m)
<1>1. /\ stack' = Append(below, f)
      /\ runs' = [runs EXCEPT ![m] = @ + 1]
      /\ UNCHANGED <<status, pending, parents, suspended>>
  BY DEF StartBody, graphVars, vmVars
<1>2. /\ runs'[m] = 1
      /\ \A x \in Modules : x # m => runs'[x] = runs[x]
  BY <1>1 DEF IInv, TypeOK
<1>3. ASSUME NEW i \in 1 .. Len(below)
      PROVE  FrameOK(below[i], status, pending, parents, runs')
  <2>1. below[i] \in Frames /\ FrameOK(below[i], status, pending, parents, runs)
    BY ElementOfSeq DEF CallsOK
  <2>2. below[i].mod \in Modules /\ below[i].avail \subseteq Modules
    BY <2>1 DEF Frames
  <2>3. Agree(below[i], status, pending, parents, runs, status, pending, parents, runs')
    BY <1>2, <2>2 DEF Agree
  <2> QED
    BY <2>1, <2>3, FrameKept
<1>4. f \in Frames /\ f.mod = m /\ f.op = "body" /\ f.avail = {}
  BY FrameType DEF Frame
<1>5. FrameOK(f, status, pending, parents, runs')
  BY <1>2, <1>4 DEF FrameOK
<1>6. CallsOK(Append(below, f), status, pending, parents, runs')
  BY <1>3, <1>4, <1>5, PushCalls DEF CallsOK
<1>7. StackOK'
  BY <1>1, <1>6 DEF StackOK
<1>8. \A x \in Modules : ModuleOK(x)'
  BY <1>1, <1>2 DEF IInv, ModuleOK
<1> QED
  BY <1>1, <1>7, <1>8 DEF IInv, PendingCountsParents

(* Starting the first available parent preserves the invariant.             *)
LEMMA StartAvailableStep ==
    ASSUME IInv, TypeOK', StartAvailable
    PROVE  IInv'
<1>1. ~Idle /\ TypeOK /\ StackOK /\ Top.op = "complete"
  BY DEF IInv, StartAvailable, Running
<1>2. PICK p \in Top.avail :
         LET below == Append(Front(stack), [Top EXCEPT !.avail = @ \ {p}])
         IN  IF status[p] = "EvaluatingAsync" /\ pending[p] = 0
               THEN StartBody(p, below)
               ELSE /\ stack' = below
                    /\ UNCHANGED <<graphVars, vmVars, loopVars, history>>
  BY DEF StartAvailable
<1> DEFINE f == [Top EXCEPT !.avail = @ \ {p}]
           below == Append(Front(stack), f)
<1>3. /\ FrameOK(Top, status, pending, parents, runs) /\ Top \in Frames
      /\ \A i \in 1 .. Len(stack) - 1 :
            FrameOK(stack[i], status, pending, parents, runs)
  BY <1>1, CallFrames
<1>4. p \in Modules /\ status[p] = "EvaluatingAsync" /\ pending[p] = 0 /\ runs[p] = 0
  BY <1>3 DEF FrameOK, Frames
<1>5. /\ f \in Frames /\ f.mod = Top.mod /\ f.op = "complete"
      /\ f.avail = Top.avail \ {p}
  BY <1>1, <1>3 DEF Frames
<1>6. FrameOK(f, status, pending, parents, runs)
  BY <1>1, <1>3, <1>5 DEF FrameOK
<1>7. /\ CallsOK(Front(stack), status, pending, parents, runs)
      /\ Front(stack) \in Seq(Frames)
      /\ \A i \in 1 .. Len(Front(stack)) :
            /\ Front(stack)[i].mod # Top.mod
            /\ Front(stack)[i].avail \cap Top.avail = {}
  BY <1>1, <1>3, BelowTop
<1>8. CallsOK(below, status, pending, parents, runs) /\ below \in Seq(Frames)
  BY <1>5, <1>6, <1>7, PushCalls, PushOps
<1>9. ASSUME NEW i \in 1 .. Len(below)
      PROVE  below[i].mod # p /\ p \notin below[i].avail
  <2>1. /\ Len(below) = Len(Front(stack)) + 1 /\ Len(Front(stack)) \in Nat
        /\ below[Len(Front(stack)) + 1] = f
        /\ \A j \in 1 .. Len(Front(stack)) : below[j] = Front(stack)[j]
    BY <1>5, <1>7, PushOps, LenProperties
  <2>2. FrameOK(below[i], status, pending, parents, runs) /\ below[i] \in Frames
    BY <1>8, ElementOfSeq DEF CallsOK
  <2>3. p \notin below[i].avail
    <3> HIDE DEF below, f
    <3>1. CASE i \in 1 .. Len(Front(stack))
      BY <1>7, <2>1, <3>1
    <3>2. CASE i = Len(Front(stack)) + 1
      BY <1>5, <2>1, <3>2
    <3> QED
      BY <2>1, <3>1, <3>2
  <2>4. below[i].mod # p
    <3> HIDE DEF below, f
    <3>1. below[i].op \in {"inner", "join", "body", "return", "complete"}
      BY <2>2 DEF Frames
    <3> QED
      BY <1>4, <2>2, <3>1 DEF FrameOK
  <2> QED
    BY <2>3, <2>4
<1>10. StartBody(p, below)
  BY <1>2, <1>4
<1> HIDE DEF below, f
<1> QED
  BY <1>4, <1>8, <1>9, <1>10, StartBodyStep

(* An error that discards the calls preserves the invariant.                *)
LEMMA RaiseStep ==
    ASSUME IInv, TypeOK', ~Idle, NEW kind, Raise(kind)
    PROVE  IInv'
<1>1. stack' = <<>> /\ UNCHANGED <<pending, parents, runs, suspended>>
  BY DEF Raise, history
<1>2. StackOK'
  BY <1>1, NoCalls DEF StackOK
<1>3. \A m \in Modules : status'[m] = status[m] \/ status'[m] = "Errored"
  BY DEF Raise, FailModule, IInv, TypeOK
<1>4. \A m \in Modules : ModuleOK(m)'
  BY <1>1, <1>3 DEF IInv, ModuleOK
<1> QED
  BY <1>1, <1>2, <1>4 DEF IInv, PendingCountsParents

(* Evaluating the target of an import() preserves the invariant.            *)
LEMMA AwaitTargetStep ==
    ASSUME IInv, TypeOK', ProcessRequest, AwaitTarget(Head(batch))
    PROVE  IInv'
<1> DEFINE p == Head(batch)
<1>1. p \in Promises
  BY HeadTailProperties DEF IInv, TypeOK, ProcessRequest
<1>2. to[p] \in Modules /\ Enter(to[p], stack)
  BY <1>1 DEF AwaitTarget, IInv, TypeOK
<1>3. stack \in Seq(Frames) /\ CallsOK(stack, status, pending, parents, runs)
  BY DEF IInv, TypeOK, StackOK
<1>4. UNCHANGED <<pending, parents, runs, suspended>>
  BY DEF ProcessRequest, history
<1> QED
  BY <1>2, <1>3, <1>4, EnterCalls

(* Resuming a suspended module preserves the invariant.                     *)
LEMMA ResumeReadyStep ==
    ASSUME IInv, TypeOK', ResumeReady
    PROVE  IInv'
<1>1. PICK m \in ready :
         IF status[m] = "EvaluatingAsync" /\ IsReady(m)
           THEN /\ suspended' = [suspended EXCEPT ![m] = NotSuspended]
                /\ Push(Frame("body", m))
           ELSE UNCHANGED <<progressed, suspended, stack>>
  BY DEF ResumeReady
<1>2. /\ stack = <<>> /\ UNCHANGED <<status, pending, parents, runs>>
      /\ m \in Modules
  BY DEF ResumeReady, Idle, graphVars, history, IInv, TypeOK
<1>3. CASE ~(status[m] = "EvaluatingAsync" /\ IsReady(m))
  BY <1>1, <1>2, <1>3, QuietStep
<1>4. CASE status[m] = "EvaluatingAsync" /\ IsReady(m)
  <2> DEFINE f == Frame("body", m)
  <2>1. suspended[m].kind # "none"
    BY <1>4 DEF IsReady
  <2>2. runs[m] = 1 /\ pending[m] = 0
    BY <1>2, <2>1 DEF IInv, ModuleOK
  <2>3. f \in Frames /\ f.mod = m /\ f.op = "body" /\ f.avail = {}
    BY <1>2, FrameType DEF Frame
  <2>4. FrameOK(f, status, pending, parents, runs)
    BY <1>4, <2>2, <2>3 DEF FrameOK
  <2>5. /\ stack \in Seq(Frames) /\ \A i \in 1 .. Len(stack) : FALSE
        /\ CallsOK(stack, status, pending, parents, runs)
    BY <1>2, EmptySeq DEF IInv, TypeOK, StackOK
  <2>6. CallsOK(Append(stack, f), status, pending, parents, runs)
    <3> HIDE DEF f
    <3> QED
      BY <2>3, <2>4, <2>5, PushCalls
  <2>7. StackOK'
    BY <1>1, <1>2, <1>4, <2>6 DEF StackOK, Push
  <2>8. \A x \in Modules : suspended'[x].kind # "none" => suspended[x].kind # "none"
    <3>1. suspended' = [suspended EXCEPT ![m] = NotSuspended]
      BY <1>1, <1>4
    <3>2. suspended \in [Modules -> AwaitKinds] /\ NotSuspended.kind = "none"
      BY DEF IInv, TypeOK, NotSuspended
    <3>3. suspended'[m] = NotSuspended
          /\ \A x \in Modules : x # m => suspended'[x] = suspended[x]
      BY <1>2, <3>1, <3>2
    <3> QED
      BY <3>2, <3>3
  <2>9. \A x \in Modules : ModuleOK(x)'
    BY <1>2, <2>8 DEF IInv, ModuleOK
  <2> QED
    BY <1>2, <2>7, <2>9 DEF IInv, PendingCountsParents
<1> QED
  BY <1>3, <1>4

(* complete_module(m), replacing the call on top of the stack, which was      *)
(* m's own: the parents it releases have their counts reduced by exactly     *)
(* the entries that are removed.                                            *)
LEMMA CompleteStep ==
    ASSUME IInv, TypeOK', ~Idle, Top.op # "complete",
           pending[Top.mod] = 0,
           CompleteModule(Top.mod, Front(stack)),
           UNCHANGED <<runs, suspended>>
    PROVE  IInv'
<1> DEFINE m == Top.mod
           A == Available(m)
           done == A \cup {m}
           f == [Frame("complete", m) EXCEPT !.avail = A]
<1>1. TypeOK /\ StackOK
  BY DEF IInv
<1>2. /\ FrameOK(Top, status, pending, parents, runs) /\ Top \in Frames
      /\ m \in Modules
      /\ \A i \in 1 .. Len(stack) - 1 :
            /\ stack[i] \in Frames
            /\ FrameOK(stack[i], status, pending, parents, runs)
            /\ stack[i].mod # m
  BY <1>1, CallFrames DEF Frames
<1>3. /\ status' = [status EXCEPT ![m] = "Evaluated"]
      /\ stack' = Append(Front(stack), f)
      /\ parents' = [d \in Modules |-> IF d \in done THEN {} ELSE parents[d]]
      /\ pending' = [p \in Modules |->
                        IF Released(p, done) >= pending[p] THEN 0
                        ELSE pending[p] - Released(p, done)]
  BY DEF CompleteModule, GatherAvailableAncestors
<1>4. A \subseteq Modules /\ done \subseteq Modules
  BY <1>2 DEF Available
<1>5. ASSUME NEW p \in Modules
      PROVE  /\ Released(p, done) \in Nat /\ Released(p, done) <= pending[p]
             /\ pending[p] \in Nat /\ pending'[p] \in Nat
             /\ pending'[p] = pending[p] - Released(p, done)
             /\ pending'[p] = Cardinality({d \in Modules : p \in parents'[d]})
  <2> DEFINE X == {d \in Modules : p \in parents[d]}
             R == {d \in done : p \in parents[d]}
             Y == {d \in Modules : p \in parents'[d]}
  <2>1. R \subseteq X /\ Y = X \ R
    BY <1>3, <1>4
  <2>2. IsFiniteSet(X) /\ IsFiniteSet(R) /\ IsFiniteSet(Y)
    BY <1>4, ModulesFinite
  <2>3. /\ Cardinality(R) \in Nat /\ Cardinality(X) \in Nat /\ Cardinality(Y) \in Nat
    BY <2>2, FS_CardinalityType
  <2>4. Cardinality(R) <= Cardinality(X)
    BY <2>1, <2>2, FS_Subset
  <2>5. Cardinality(Y) = Cardinality(X) - Cardinality(R)
    <3>1. Cardinality(X \ R) = Cardinality(X) - Cardinality(X \cap R)
      BY <2>2, FS_Difference
    <3>2. X \cap R = R
      BY <2>1
    <3> QED
      BY <2>1, <3>1, <3>2
  <2>6. pending[p] = Cardinality(X) /\ Released(p, done) = Cardinality(R)
    BY DEF IInv, PendingCountsParents, Released
  <2>7. pending'[p] = IF Released(p, done) >= pending[p] THEN 0
                      ELSE pending[p] - Released(p, done)
    BY <1>3
  <2> HIDE DEF X, R, Y
  <2>8. pending'[p] = pending[p] - Released(p, done)
    BY <2>3, <2>4, <2>6, <2>7
  <2>9. pending'[p] = Cardinality(Y)
    BY <2>5, <2>6, <2>8
  <2>10. pending[p] \in Nat /\ pending'[p] \in Nat
    BY <2>3, <2>6, <2>9
  <2> QED
    BY <2>3, <2>4, <2>6, <2>8, <2>9, <2>10 DEF Y
<1>6. PendingCountsParents'
  BY <1>5 DEF PendingCountsParents
<1>7. \A p \in Modules : pending[p] = 0 => pending'[p] = 0 /\ Released(p, done) = 0
  <2> SUFFICES ASSUME NEW p \in Modules, pending[p] = 0
               PROVE  pending'[p] = 0 /\ Released(p, done) = 0
    OBVIOUS
  <2>1. /\ Released(p, done) \in Nat /\ Released(p, done) <= pending[p]
        /\ pending'[p] = pending[p] - Released(p, done)
    BY <1>5
  <2> HIDE DEF done
  <2> QED
    BY <2>1
<1>8. ASSUME NEW p \in A
      PROVE  /\ p \in Modules /\ p # m
             /\ status[p] = "EvaluatingAsync"
             /\ pending[p] > 0 /\ pending'[p] = 0 /\ runs[p] = 0
  <2>1. Becomes(p, done) /\ p \in Modules
    BY <1>1, <1>2, <1>4, AvailableIsReleased
  <2>2. status[p] = "EvaluatingAsync" /\ Released(p, done) > 0
        /\ Released(p, done) >= pending[p]
    BY <2>1 DEF Becomes
  <2>3. pending[p] \in Nat
    BY <1>1, <2>1 DEF TypeOK
  <2>4. pending[p] > 0 /\ pending'[p] = 0
    <3>1. /\ Released(p, done) \in Nat /\ Released(p, done) <= pending[p]
          /\ pending'[p] = pending[p] - Released(p, done)
      BY <1>5, <2>1
    <3> HIDE DEF done
    <3> QED
      BY <2>2, <2>3, <3>1
  <2>5. p # m
    BY <2>4
  <2>6. runs[p] = 0
    BY <2>1, <2>2, <2>4 DEF IInv, ModuleOK
  <2> QED
    BY <2>1, <2>2, <2>4, <2>5, <2>6
<1>9. /\ status'[m] = "Evaluated"
      /\ \A x \in Modules : x # m => status'[x] = status[x]
  BY <1>1, <1>2, <1>3 DEF TypeOK
<1>10. \A i \in 1 .. Len(stack) - 1 : m \notin stack[i].avail
  BY <1>1, TopNotAvailable
<1>11. ASSUME NEW i \in 1 .. Len(stack) - 1
       PROVE  /\ FrameOK(stack[i], status', pending', parents', runs)
              /\ stack[i].avail \cap A = {}
  <2>1. PICK g \in Frames : g = stack[i]
    BY <1>2
  <2>2. /\ FrameOK(g, status, pending, parents, runs)
        /\ g.mod \in Modules /\ g.mod # m
        /\ g.avail \subseteq Modules /\ m \notin g.avail
    BY <1>2, <1>10, <2>1 DEF Frames
  <2>3. \A p \in g.avail : pending[p] = 0
    BY <2>2 DEF FrameOK
  <2>4. g.avail \cap A = {}
    BY <1>8, <2>3
  <2>5. \A d \in Modules : g.mod \in parents'[d] => g.mod \in parents[d]
    BY <1>3
  <2>6. g.op \in {"inner", "join", "body", "return", "complete"}
    BY DEF Frames
  <2> HIDE DEF m, A, done, f
  <2>7. FrameOK(g, status', pending', parents', runs)
    <3>1. CASE g.op \in {"body", "return"}
      <4>1. pending[g.mod] = 0 /\ pending'[g.mod] = pending[g.mod]
        BY <1>7, <2>2, <3>1 DEF FrameOK
      <4>2. \A p \in g.avail : status'[p] = status[p] /\ pending'[p] = pending[p]
        BY <1>7, <1>9, <2>2, <2>3
      <4>3. Agree(g, status, pending, parents, runs, status', pending', parents', runs)
        BY <1>9, <2>2, <2>5, <4>1, <4>2 DEF Agree
      <4> QED
        BY <2>2, <4>3, FrameKept
    <3>2. CASE g.op \in {"inner", "join", "complete"}
      <4>1. status'[g.mod] = status[g.mod]
        BY <1>9, <2>2
      <4>2. \A p \in g.avail : status'[p] = status[p] /\ pending'[p] = pending[p]
        BY <1>7, <1>9, <2>2, <2>3
      <4>3. g.op = "join" => Head(g.todo) \in Modules
        BY <2>2, HeadTailProperties DEF FrameOK, Frames
      <4> QED
        BY <2>2, <2>5, <3>2, <4>1, <4>2, <4>3 DEF FrameOK
    <3> QED
      BY <2>6, <3>1, <3>2
  <2> QED
    BY <2>1, <2>4, <2>7
<1>12. f \in Frames /\ f.mod = m /\ f.op = "complete" /\ f.avail = A
  BY <1>2, <1>4, FrameType DEF Frame, Frames
<1>13. FrameOK(f, status', pending', parents', runs)
  BY <1>8, <1>9, <1>12 DEF FrameOK
<1>14. CallsOK(Append(Front(stack), f), status', pending', parents', runs)
  <2>1. /\ CallsOK(Front(stack), status', pending', parents', runs)
        /\ Front(stack) \in Seq(Frames)
        /\ \A i \in 1 .. Len(Front(stack)) : Front(stack)[i].mod # m
    BY <1>1, <1>11, BelowTop
  <2>2. \A i \in 1 .. Len(Front(stack)) : Front(stack)[i].avail \cap A = {}
    <3>1. stack \in Seq(Frames) /\ stack # <<>>
      BY <1>1 DEF TypeOK, Idle
    <3>2. /\ Len(Front(stack)) = Len(stack) - 1
          /\ \A i \in 1 .. Len(stack) - 1 : Front(stack)[i] = stack[i]
      BY <3>1, StackOps
    <3> QED
      BY <1>11, <3>2
  <2> HIDE DEF f, A, m, done
  <2> QED
    BY <1>12, <1>13, <2>1, <2>2, PushCalls
<1>15. StackOK'
  BY <1>3, <1>14 DEF StackOK
<1>16. \A x \in Modules : ModuleOK(x)'
  <2> SUFFICES ASSUME NEW x \in Modules
               PROVE  ModuleOK(x)'
    OBVIOUS
  <2>1. ModuleOK(x)
    BY DEF IInv
  <2>2. pending'[x] \in Nat /\ pending[x] \in Nat /\ pending'[x] <= pending[x]
    <3>1. /\ Released(x, done) \in Nat /\ pending[x] \in Nat /\ pending'[x] \in Nat
          /\ pending'[x] = pending[x] - Released(x, done)
      BY <1>5
    <3> HIDE DEF done
    <3> QED
      BY <3>1
  <2>3. \A d \in Modules : x \in parents'[d] => x \in parents[d]
    BY <1>3
  <2>4. status'[x] = status[x] \/ status'[x] = "Evaluated"
    BY <1>9
  <2> HIDE DEF m, A, done, f
  <2> QED
    BY <2>1, <2>2, <2>3, <2>4 DEF ModuleOK
<1> QED
  BY <1>6, <1>15, <1>16 DEF IInv

(* Starting a module without pending dependencies preserves the invariant.  *)
LEMMA StartModuleStep ==
    ASSUME IInv, TypeOK', StartModule
    PROVE  IInv'
<1> DEFINE m == Top.mod
<1>1. ~Idle /\ TypeOK /\ StackOK /\ Top.op = "inner" /\ pending[m] = 0
  BY DEF IInv, StartModule, Running
<1>2. /\ FrameOK(Top, status, pending, parents, runs) /\ Top \in Frames
      /\ \A i \in 1 .. Len(stack) - 1 :
            /\ FrameOK(stack[i], status, pending, parents, runs)
            /\ stack[i].mod # m
  BY <1>1, CallFrames
<1>3. m \in Modules /\ status[m] = "Evaluating" /\ runs[m] = 0
  BY <1>1, <1>2 DEF FrameOK, Frames
<1>4. CASE StartBody(m, Front(stack))
  <2>1. /\ CallsOK(Front(stack), status, pending, parents, runs)
        /\ Front(stack) \in Seq(Frames)
    BY <1>1, <1>2, BelowTop
  <2>2. /\ Len(Front(stack)) = Len(stack) - 1
        /\ \A i \in 1 .. Len(stack) - 1 : Front(stack)[i] = stack[i]
    BY <1>1, StackOps DEF TypeOK, Idle
  <2>3. \A i \in 1 .. Len(stack) - 1 : m \notin stack[i].avail
    BY <1>1, TopNotAvailable
  <2>4. \A i \in 1 .. Len(Front(stack)) :
           Front(stack)[i].mod # m /\ m \notin Front(stack)[i].avail
    BY <1>2, <2>2, <2>3
  <2> HIDE DEF m
  <2> QED
    BY <1>1, <1>3, <1>4, <2>1, <2>4, StartBodyStep
<1>5. CASE StartJson(m, Front(stack))
  <2>1. CompleteModule(m, Front(stack)) /\ UNCHANGED <<runs, suspended>>
    BY <1>5 DEF StartJson, history
  <2> QED
    BY <1>1, <2>1, CompleteStep
<1> QED
  BY <1>4, <1>5 DEF StartModule

(* The completion of a body preserves the invariant.                        *)
LEMMA BodyCompletedStep ==
    ASSUME IInv, TypeOK', BodyCompleted
    PROVE  IInv'
<1>1. ~Idle /\ TypeOK /\ StackOK /\ Top.op = "return"
  BY DEF IInv, BodyCompleted, Running
<1>2. FrameOK(Top, status, pending, parents, runs)
  BY <1>1, CallFrames
<1>3. pending[Top.mod] = 0
  BY <1>1, <1>2 DEF FrameOK
<1>4. CompleteModule(Top.mod, Front(stack)) /\ UNCHANGED <<runs, suspended>>
  BY DEF BodyCompleted, history
<1> QED
  BY <1>1, <1>3, <1>4, CompleteStep

(* The invariant is inductive: every step of the evaluator, of a body, of a  *)
(* promise job or of the event loop preserves it.                           *)
LEMMA InvStep ==
    ASSUME IInv, [Next]_vars
    PROVE  IInv'
<1>0. TypeOK'
  BY TypeStep DEF IInv
<1>1. CASE InnerEvaluation
  <2>1. CASE DependencyErrored
    BY <1>0, <2>1, RaiseStep DEF DependencyErrored, Running
  <2> QED
    BY <1>0, <1>1, <2>1, SkipDependencyStep, EvaluateDependencyStep,
       JoinDependencyStep, WaitForDependenciesStep, StartModuleStep
       DEF InnerEvaluation
<1>2. CASE AsyncParents
  BY <1>0, <1>2, StartAvailableStep, ReturnFromCompleteStep DEF AsyncParents
<1>3. CASE Body
  <2>1. CASE ImportInBody \/ QueueJob \/ RunJob
    BY <1>0, <2>1, QuietStep DEF ImportInBody, QueueJob, RunJob, graphVars, history
  <2>2. CASE Throw
    BY <1>0, <2>2, RaiseStep DEF Throw, Running
  <2> QED
    BY <1>0, <1>3, <2>1, <2>2, SuspendStep, ReturnStep, BodyCompletedStep DEF Body
<1>4. CASE Evaluate
  <2>1. CASE ProcessRequest
    <3>1. CASE SettleRequest(Head(batch))
      BY <1>0, <2>1, <3>1, QuietStep DEF ProcessRequest, SettleRequest, history
    <3>2. CASE AwaitTarget(Head(batch))
      BY <1>0, <2>1, <3>2, AwaitTargetStep
    <3> QED
      BY <2>1, <3>1, <3>2 DEF ProcessRequest
  <2>2. CASE TakeRequests \/ RunPromiseJobs \/ CollectReady \/ EndOfTurn
             \/ ReturnFromEvaluate
    BY <1>0, <2>2, QuietStep DEF TakeRequests, RunPromiseJobs, CollectReady,
       EndOfTurn, ReturnFromEvaluate, graphVars, vmVars, history
  <2> QED
    BY <1>0, <1>4, <2>1, <2>2, ResumeReadyStep DEF Evaluate
<1>5. CASE UNCHANGED vars
  BY <1>0, <1>5, QuietStep DEF vars, graphVars, vmVars, history
<1> QED
  BY <1>1, <1>2, <1>3, <1>4, <1>5 DEF Next, Step, Terminating

(* The invariant holds when run_module calls the evaluator.                 *)
LEMMA InitInv ==
    ASSUME Init, TypeOK
    PROVE  IInv
<1> DEFINE f == Inner(Entry)
<1>1. f \in Frames /\ f.op = "inner" /\ f.mod = Entry /\ f.avail = {}
  BY ModulesAssumption, InnerType DEF Inner, Frame
<1>2. /\ status[Entry] = "Evaluating" /\ runs[Entry] = 0
      /\ \A m \in Modules : parents[m] = {} /\ pending[m] = 0 /\ runs[m] = 0
                            /\ suspended[m].kind = "none"
  BY ModulesAssumption DEF Init, NotSuspended
<1>3. FrameOK(f, status, pending, parents, runs)
  BY <1>1, <1>2 DEF FrameOK
<1>4. StackOK
  <2>1. stack = <<f>> /\ Len(stack) = 1 /\ stack[1] = f
    BY DEF Init
  <2> HIDE DEF f
  <2>2. \A i \in 1 .. Len(stack) : stack[i] = f /\ i = 1
    BY <2>1
  <2> QED
    BY <1>3, <2>2 DEF StackOK, CallsOK, Distinct
<1>5. \A m \in Modules : ModuleOK(m)
  BY <1>2 DEF ModuleOK
<1>6. PendingCountsParents
  <2> SUFFICES ASSUME NEW m \in Modules
               PROVE  pending[m] = Cardinality({d \in Modules : m \in parents[d]})
    BY DEF PendingCountsParents
  <2>1. {d \in Modules : m \in parents[d]} = {}
    BY <1>2
  <2> QED
    BY <1>2, <2>1, FS_EmptySet
<1> QED
  BY <1>4, <1>5, <1>6 DEF IInv

(* The inductive invariant holds in every behaviour of the evaluator.       *)
LEMMA Invariance == Spec => []IInv
<1>1. Init /\ TypeOK => IInv
  BY InitInv
<1>2. IInv /\ [Next]_vars => IInv'
  BY InvStep
<1> QED
  BY <1>1, <1>2, TypeCorrect, PTL DEF Spec

-----------------------------------------------------------------------------
(* The results.                                                            *)

(* pending_async_dependencies is, in every reachable state, the number of   *)
(* async_parent_modules lists that name the module: the increment in         *)
(* inner_evaluation and the decrements in gather_available_ancestors keep    *)
(* in step, so saturating_sub never has to clip a count.                    *)
THEOREM PendingAccounting == Spec => []PendingCountsParents
<1>1. IInv => PendingCountsParents
  BY DEF IInv
<1> QED
  BY <1>1, Invariance, PTL

(* start_module_in_graph is called at most once for a module: from            *)
(* inner_evaluation, which only a Linked module enters, or from              *)
(* complete_module, for a parent whose last dependency was just released.   *)
THEOREM BodyStartedOnce == Spec => []BodyOnce
<1>1. IInv => BodyOnce
  BY DEF IInv, ModuleOK, BodyOnce
<1> QED
  BY <1>1, Invariance, PTL
=============================================================================
