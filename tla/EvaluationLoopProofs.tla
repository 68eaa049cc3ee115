------------------------- MODULE EvaluationLoopProofs -------------------------
(***************************************************************************)
(* Proofs about the event loop of ModuleEvaluation, for every graph, every  *)
(* set of modules and every bound: who holds the promise of an import(),     *)
(* that what it was told stays true, that a run is reported as stuck only    *)
(* when nothing is left to do, and that bodies start in dependency order.    *)
(***************************************************************************)
EXTENDS ModuleEvaluationProofs, WellFoundedInduction

(* The evaluator is visiting dependencies: it evaluates the entry, or the    *)
(* target of an import().                                                  *)
Visiting == phase \in {"entry", "imports"}

(* While it is, no call is that of a module that was asynchronous before, so  *)
(* that no parent is registered with it and none becomes available; each     *)
(* call but the last waits for the one above it.                            *)
VisitingCall(i) ==
    /\ stack[i].avail = {}
    /\ i < Len(stack) => stack[i].op = "join"
    /\ stack[i].op \in {"body", "return"} => status[stack[i].mod] = "Evaluating"

(* When a body is resumed nobody visits.  Only the call at the bottom may     *)
(* have parents to start: those it starts have released theirs with it.      *)
ResumedCall(i) ==
    /\ stack[i].op \in {"body", "return", "complete"}
    /\ i > 1 => stack[i].avail = {} /\ parents[stack[i].mod] = {}
    /\ \A p \in stack[i].avail : parents[p] = {}

Nested ==
    /\ phase \in {"jobs", "check", "end"} => Idle
    /\ Visiting => \A i \in 1 .. Len(stack) : VisitingCall(i)
    /\ phase = "resume" => \A i \in 1 .. Len(stack) : ResumedCall(i)
    /\ \A m \in Modules : status[m] \in {"Linked", "Evaluating"} => parents[m] = {}

(* Each import() promise that is pending is in one place.                   *)
Once(s) == \A i, j \in DOMAIN s : s[i] = s[j] => i = j

InLine == ToSet(requests) \cup ToSet(batch)

Waiting(p, m) ==
    /\ promise[p] = "pending" /\ to[p] = m
    /\ status[m] \in {"Evaluating", "EvaluatingAsync"}
    /\ p \notin InLine

HeldOnce ==
    /\ Once(requests) /\ Once(batch)
    /\ ToSet(requests) \cap ToSet(batch) = {}
    /\ \A p \in InLine : promise[p] = "pending"
    /\ \A m \in Modules : \A p \in waiters[m] : Waiting(p, m)
    /\ \A p \in Promises : promise[p] = "pending" =>
          p \in InLine \/ (to[p] \in Modules /\ p \in waiters[to[p]])

(* A turn of the loop that made no progress left nothing to do.             *)
Runnable(m) == status[m] = "EvaluatingAsync" /\ IsReady(m)

Turn ==
    /\ phase \notin {"imports", "end"} => batch = <<>>
    /\ phase = "imports" /\ ~progressed => Idle /\ requests = <<>> /\ batch = <<>>
    /\ phase \in {"jobs", "resume", "check"} /\ ~progressed =>
          Idle /\ requests = <<>> /\ jobs = 0
    /\ phase \in {"resume", "check"} /\ ~progressed =>
          \A m \in Modules : Runnable(m) => m \in ready
    /\ phase = "check" => ready = {}
    /\ outcome = "stuck" =>
          /\ phase = "end" /\ requests = <<>> /\ batch = <<>> /\ jobs = 0
          /\ \A m \in Modules : ~Runnable(m)

(* What may be said of a dependency d when the body of m starts.            *)
Before(d, m) ==
    runs[d] > 0 \/ status[d] = "Evaluated" \/ Reaches(d, m) \/ Abandoned(d)

(* A dependency is on time for m, or will be: m is registered with it, or it  *)
(* is about to be started and comes first.                                  *)
Settled(d, m) == Before(d, m) \/ m \in parents[d]

Due(d, m) ==
    \/ Settled(d, m)
    \/ order[d] < order[m] /\ \E i \in 1 .. Len(stack) : d \in stack[i].avail

Visits(f) ==
    /\ ToSet(deps[f.mod]) \subseteq f.seen \cup ToSet(f.todo)
    /\ ToSet(f.todo) \subseteq ToSet(deps[f.mod])
    /\ \A d \in f.seen :
          Settled(d, f.mod) \/ (f.op = "join" /\ d = Head(f.todo))
    /\ f.op = "join" => status[Head(f.todo)] \notin {"Linked", "Errored"}

Numbered ==
    /\ \A m \in Modules : order[m] < nextOrder
    /\ \A m \in Modules : status[m] = "EvaluatingAsync" => order[m] # NoOrder
    /\ \A m \in Modules : status[m] \in {"Linked", "Evaluating"} => order[m] = NoOrder
    /\ \A d, m \in Modules : m \in parents[d] =>
          order[d] # NoOrder /\ (order[m] # NoOrder => order[d] < order[m])

(* The calls of a visit lead along the imports to the one on top.            *)
Path == \A i, j \in 1 .. Len(stack) : i <= j => Reaches(stack[i].mod, stack[j].mod)

VisitsOf == \A i \in 1 .. Len(stack) : stack[i].op \in {"inner", "join"} => Visits(stack[i])

(* Every dependency of a module that waits to be started is on time.         *)
Awaited == \A m \in Modules : status[m] = "EvaluatingAsync" /\ runs[m] = 0 =>
              \A d \in ToSet(deps[m]) : Due(d, m)

Ordered ==
    /\ Numbered
    /\ Visiting => Path
    /\ phase # "end" => VisitsOf /\ Awaited

(* What becomes of a module that has not ended: a call in progress, an await, *)
(* a dependency it is registered with, or a failed import() that left it      *)
(* behind.  Nobody stays registered with a module that is evaluated.         *)
Fate(m) ==
    /\ Abandoned(m) => LeftBehind(m)
    /\ status[m] = "EvaluatingAsync" => InHand(m) \/ pending[m] > 0

Accounted ==
    /\ RunFailed => phase = "end"
    /\ RunFailed \/ \A m \in Modules : Fate(m)
    /\ \A m \in Modules : status[m] = "Evaluated" => parents[m] = {}

LoopInv ==
    /\ IInv
    /\ Nested
    /\ HeldOnce
    /\ SettledImportAgrees
    /\ Turn
    /\ Ordered
    /\ Accounted

-----------------------------------------------------------------------------
(* What a step does to the calls in progress.                               *)
SameBelow == \A i \in 1 .. Len(stack) - 1 : stack'[i] = stack[i]

Replaces(f) ==
    Len(stack') = Len(stack) /\ stack'[Len(stack)] = f /\ SameBelow

Adds(g, f) ==
    /\ Len(stack') = Len(stack) + 1 /\ SameBelow
    /\ stack'[Len(stack)] = g /\ stack'[Len(stack) + 1] = f

Returns == Len(stack') = Len(stack) - 1 /\ SameBelow

(* The same of the sequences the actions write.                             *)
LEMMA Shapes ==
    ASSUME TypeOK, ~Idle
    PROVE  /\ Len(stack) \in Nat \ {0} /\ Top = stack[Len(stack)]
           /\ \A f \in Frames : stack' = Append(Front(stack), f) => Replaces(f)
           /\ \A g, f \in Frames :
                 stack' = Append(Append(Front(stack), g), f) => Adds(g, f)
           /\ stack' = Front(stack) => Returns
<1>1. stack \in Seq(Frames) /\ stack # <<>>
  BY DEF TypeOK, Idle
<1>2. PICK b : b = Front(stack)
  OBVIOUS
<1>3. /\ Len(stack) \in Nat \ {0} /\ Top = stack[Len(stack)]
      /\ b \in Seq(Frames) /\ Len(b) = Len(stack) - 1
      /\ \A i \in 1 .. Len(stack) - 1 : b[i] = stack[i]
  BY <1>1, <1>2, StackOps DEF Top
<1>4. PICK n \in Nat : Len(b) = n /\ Len(stack) = n + 1 /\ Len(stack) - 1 = n
  BY <1>3
<1>5. ASSUME NEW f \in Frames
      PROVE  /\ Append(b, f) \in Seq(Frames) /\ Len(Append(b, f)) = n + 1
             /\ Append(b, f)[n + 1] = f
             /\ \A i \in 1 .. n : Append(b, f)[i] = stack[i]
  BY <1>3, <1>4, PushOps
<1>6. \A f \in Frames : stack' = Append(b, f) => Replaces(f)
  BY <1>4, <1>5 DEF Replaces, SameBelow
<1>7. ASSUME NEW g \in Frames, NEW f \in Frames, stack' = Append(Append(b, g), f)
      PROVE  Adds(g, f)
  <2>1. PICK c : c = Append(b, g)
    OBVIOUS
  <2>2. c \in Seq(Frames) /\ Len(c) = n + 1 /\ c[n + 1] = g
        /\ \A i \in 1 .. n : c[i] = stack[i]
    BY <1>5, <2>1
  <2>3. /\ Len(stack') = (n + 1) + 1 /\ stack'[(n + 1) + 1] = f
        /\ \A i \in 1 .. n + 1 : stack'[i] = c[i]
    <3>1. /\ Len(Append(c, f)) = Len(c) + 1 /\ Append(c, f)[Len(c) + 1] = f
          /\ \A i \in 1 .. Len(c) : Append(c, f)[i] = c[i]
      BY <2>2, PushOps
    <3>2. stack' = Append(c, f)
      BY <1>7, <2>1
    <3> QED BY <2>2, <3>1, <3>2
  <2>4. \A i \in 1 .. n : i \in 1 .. n + 1
    OBVIOUS
  <2>5. n + 1 \in 1 .. n + 1
    OBVIOUS
  <2> QED
    BY <1>4, <2>2, <2>3, <2>4, <2>5 DEF Adds, SameBelow
<1>8. stack' = b => Returns
  BY <1>3 DEF Returns, SameBelow
<1> QED
  BY <1>2, <1>3, <1>6, <1>7, <1>8

(* The call on top, by the phase of the loop.                               *)
LEMMA OnTop ==
    ASSUME IInv, Nested, ~Idle
    PROVE  /\ Len(stack) \in Nat \ {0} /\ Top = stack[Len(stack)] /\ Top \in Frames
           /\ Len(stack) \in 1 .. Len(stack)
           /\ FrameOK(Top, status, pending, parents, runs)
           /\ Visiting \/ phase = "resume"
           /\ Visiting => VisitingCall(Len(stack))
           /\ phase = "resume" => ResumedCall(Len(stack))
           /\ Top.op \in {"inner", "join"} => Visiting
           /\ Top.avail # {} => phase = "resume" /\ Len(stack) = 1
<1>1. TypeOK /\ StackOK
  BY DEF IInv
<1>2. /\ Len(stack) \in Nat \ {0} /\ Top = stack[Len(stack)] /\ Top \in Frames
      /\ FrameOK(Top, status, pending, parents, runs)
  BY <1>1, Shapes, CallFrames
<1>3. Len(stack) \in 1 .. Len(stack)
  BY <1>2
<1>4. Visiting \/ phase = "resume"
  BY <1>1 DEF Nested, Visiting, TypeOK, Phases
<1>5. /\ Visiting => VisitingCall(Len(stack))
      /\ phase = "resume" => ResumedCall(Len(stack))
  BY <1>3 DEF Nested
<1>6. Top.op \in {"inner", "join"} => Visiting
  BY <1>2, <1>4, <1>5 DEF ResumedCall
<1>7. Top.avail # {} => phase = "resume" /\ Len(stack) = 1
  <2> SUFFICES ASSUME Top.avail # {} PROVE phase = "resume" /\ Len(stack) = 1
    OBVIOUS
  <2>1. phase = "resume"
    BY <1>2, <1>4, <1>5 DEF VisitingCall
  <2>2. ~ (Len(stack) > 1)
    BY <1>2, <1>5, <2>1 DEF ResumedCall
  <2>3. PICK n \in Nat \ {0} : n = Len(stack)
    BY <1>2
  <2>4. n = 1
    BY <2>2, <2>3
  <2> QED
    BY <2>1, <2>3, <2>4
<1> QED
  BY <1>2, <1>3, <1>4, <1>5, <1>6, <1>7

(* A module no parent is registered with releases none.                     *)
LEMMA NoParents ==
    ASSUME NEW m \in Modules, parents[m] = {}
    PROVE  Available(m) = {}
<1>1. ASSUME NEW q \in Modules PROVE ~Becomes(q, {} \cup {m})
  <2>1. {d \in {} \cup {m} : q \in parents[d]} = {}
    OBVIOUS
  <2>2. Released(q, {} \cup {m}) = 0
    BY <2>1, FS_EmptySet DEF Released
  <2> QED
    BY <2>2 DEF Becomes
<1>2. \A p \in Available(m) : p \in {}
  <2> TAKE p \in Available(m)
  <2>1. (\A q \in Modules : Becomes(q, {} \cup {m}) => q \in {}) => p \in {}
    BY DEF Available
  <2> QED
    BY <1>1, <2>1
<1> QED
  BY <1>2

-----------------------------------------------------------------------------
(* Each action, as a change of the top of the stack.                        *)

(* Skipping a request that names a module visited before.                   *)
LEMMA SkipEffect ==
    ASSUME IInv, Nested, SkipDependency
    PROVE  /\ ~Idle /\ Visiting /\ Top.op = "inner" /\ Top.todo # <<>>
           /\ Head(Top.todo) \in Top.seen
           /\ UNCHANGED <<graphVars, vmVars, loopVars, history>>
           /\ \E f \in Frames :
                 /\ Replaces(f) /\ f.op = "inner" /\ f.mod = Top.mod /\ f.avail = {}
                 /\ f.seen = Top.seen /\ f.todo = Tail(Top.todo)
<1> DEFINE f == [Top EXCEPT !.todo = Tail(@)]
<1>1. /\ ~Idle /\ Top.op = "inner" /\ Top.todo # <<>> /\ Head(Top.todo) \in Top.seen
      /\ UNCHANGED <<graphVars, vmVars, loopVars, history>>
      /\ stack' = Append(Front(stack), f)
  BY DEF SkipDependency, Running, SetTop
<1>2. Visiting /\ Top \in Frames /\ Top.avail = {}
  BY <1>1, OnTop DEF VisitingCall
<1>3. Tail(Top.todo) \in Seq(Modules)
  BY <1>1, <1>2, HeadTailProperties DEF Frames
<1>4. f \in Frames /\ f.op = "inner" /\ f.mod = Top.mod /\ f.avail = {}
      /\ f.seen = Top.seen /\ f.todo = Tail(Top.todo)
  BY <1>1, <1>2, <1>3 DEF Frames
<1>5. Replaces(f)
  BY <1>1, <1>4, Shapes DEF IInv
<1> HIDE DEF f
<1> QED
  BY <1>1, <1>2, <1>4, <1>5

(* Evaluating a dependency: the call waits for it, and a new one is made for *)
(* a module nobody has visited.                                             *)
LEMMA EvaluateEffect ==
    ASSUME IInv, Nested, EvaluateDependency
    PROVE  /\ ~Idle /\ Visiting /\ Top.op = "inner" /\ Top.todo # <<>>
           /\ UNCHANGED <<deps, pending, parents, order, nextOrder, waiters, vmVars,
                          loopVars, history>>
           /\ \E g \in Frames :
                 /\ g.op = "join" /\ g.mod = Top.mod /\ g.avail = {} /\ g.todo = Top.todo
                 /\ g.seen = Top.seen \cup {Head(Top.todo)}
                 /\ \/ /\ status[Head(Top.todo)]
                            \in {"Evaluated", "Evaluating", "EvaluatingAsync"}
                       /\ UNCHANGED status /\ Replaces(g)
                    \/ /\ status[Head(Top.todo)] = "Linked"
                       /\ status' = [status EXCEPT ![Head(Top.todo)] = "Evaluating"]
                       /\ Adds(g, Inner(Head(Top.todo)))
<1> DEFINE g == [Top EXCEPT !.op = "join", !.seen = @ \cup {Head(Top.todo)}]
           return == Append(Front(stack), g)
<1>1. /\ ~Idle /\ Top.op = "inner" /\ Top.todo # <<>>
      /\ UNCHANGED <<deps, pending, parents, order, nextOrder, waiters, vmVars,
                     loopVars, history>>
      /\ Enter(Head(Top.todo), return)
  BY DEF EvaluateDependency, Running
<1>2. Visiting /\ Top \in Frames /\ Top.avail = {}
  BY <1>1, OnTop DEF VisitingCall
<1>3. Head(Top.todo) \in Modules
  BY <1>1, <1>2, HeadTailProperties DEF Frames
<1>4. g \in Frames /\ g.op = "join" /\ g.mod = Top.mod /\ g.avail = {}
      /\ g.todo = Top.todo /\ g.seen = Top.seen \cup {Head(Top.todo)}
  BY <1>1, <1>2, <1>3 DEF Frames
<1>5. stack' = return => Replaces(g)
  BY <1>1, <1>4, Shapes DEF IInv
<1>6. Inner(Head(Top.todo)) \in Frames
  BY <1>3, InnerType DEF IInv
<1>7. stack' = Append(return, Inner(Head(Top.todo))) => Adds(g, Inner(Head(Top.todo)))
  <2> HIDE DEF g
  <2> QED BY <1>1, <1>4, <1>6, Shapes DEF IInv
<1> HIDE DEF g, return
<1>8. \/ /\ status[Head(Top.todo)] \in {"Evaluated", "Evaluating", "EvaluatingAsync"}
         /\ UNCHANGED status /\ Replaces(g)
      \/ /\ status[Head(Top.todo)] = "Linked"
         /\ status' = [status EXCEPT ![Head(Top.todo)] = "Evaluating"]
         /\ Adds(g, Inner(Head(Top.todo)))
  BY <1>1, <1>5, <1>7 DEF Enter
<1> QED
  BY <1>1, <1>2, <1>4, <1>8

(* The call goes on after a dependency, registered with it if it is         *)
(* asynchronous.                                                           *)
LEMMA JoinEffect ==
    ASSUME IInv, Nested, JoinDependency
    PROVE  /\ ~Idle /\ Visiting /\ Top.op = "join" /\ Top.todo # <<>>
           /\ Head(Top.todo) \in Modules
           /\ UNCHANGED <<deps, status, order, nextOrder, waiters, vmVars, loopVars,
                          history>>
           /\ parents' = IF status[Head(Top.todo)] = "EvaluatingAsync"
                           THEN [parents EXCEPT ![Head(Top.todo)] = @ \cup {Top.mod}]
                           ELSE parents
           /\ \E f \in Frames :
                 /\ Replaces(f) /\ f.op = "inner" /\ f.mod = Top.mod /\ f.avail = {}
                 /\ f.seen = Top.seen /\ f.todo = Tail(Top.todo)
<1> DEFINE f == [Top EXCEPT !.op = "inner", !.todo = Tail(@)]
<1>1. /\ ~Idle /\ Top.op = "join" /\ Top.todo # <<>>
      /\ UNCHANGED <<deps, status, order, nextOrder, waiters, vmVars, loopVars, history>>
      /\ stack' = Append(Front(stack), f)
  BY DEF JoinDependency, Running, SetTop
<1>2. Visiting /\ Top \in Frames /\ Top.avail = {}
  BY <1>1, OnTop DEF VisitingCall
<1>3. Tail(Top.todo) \in Seq(Modules) /\ Head(Top.todo) \in Modules
  BY <1>1, <1>2, HeadTailProperties DEF Frames
<1>4. f \in Frames /\ f.op = "inner" /\ f.mod = Top.mod /\ f.avail = {}
      /\ f.seen = Top.seen /\ f.todo = Tail(Top.todo)
  BY <1>1, <1>2, <1>3 DEF Frames
<1>5. Replaces(f)
  BY <1>1, <1>4, Shapes DEF IInv
<1>6. parents' = IF status[Head(Top.todo)] = "EvaluatingAsync"
                   THEN [parents EXCEPT ![Head(Top.todo)] = @ \cup {Top.mod}]
                   ELSE parents
  BY DEF JoinDependency
<1> HIDE DEF f
<1> QED
  BY <1>1, <1>2, <1>3, <1>4, <1>5, <1>6

(* A module whose dependencies are pending becomes asynchronous.             *)
LEMMA WaitEffect ==
    ASSUME IInv, Nested, WaitForDependencies
    PROVE  /\ ~Idle /\ Visiting /\ Top.op = "inner" /\ Top.todo = <<>> /\ Returns
           /\ MarkAsync(Top.mod)
           /\ UNCHANGED <<deps, pending, parents, waiters, vmVars, loopVars, history>>
<1>1. /\ ~Idle /\ Top.op = "inner" /\ Top.todo = <<>> /\ stack' = Front(stack)
      /\ MarkAsync(Top.mod)
      /\ UNCHANGED <<deps, pending, parents, waiters, vmVars, loopVars, history>>
  BY DEF WaitForDependencies, Running, Pop
<1> QED
  BY <1>1, OnTop, Shapes DEF IInv

(* A top-level await suspends the body.                                     *)
LEMMA SuspendEffect ==
    ASSUME IInv, Nested, Suspend
    PROVE  /\ ~Idle /\ Top.op = "body" /\ Returns
           /\ MarkAsync(Top.mod)
           /\ UNCHANGED <<deps, pending, parents, waiters, requests, to, promise, jobs,
                          loopVars, runs>>
           /\ \E a : a.kind # "none" /\ suspended' = [suspended EXCEPT ![Top.mod] = a]
<1>1. /\ ~Idle /\ Top.op = "body" /\ stack' = Front(stack) /\ MarkAsync(Top.mod)
      /\ UNCHANGED <<deps, pending, parents, waiters, requests, to, promise, jobs,
                     loopVars, runs>>
      /\ \E a \in Awaitable : suspended' = [suspended EXCEPT ![Top.mod] = a]
  BY DEF Suspend, Running, Pop
<1>2. \A a \in Awaitable : a.kind # "none"
  BY DEF Awaitable
<1> QED
  BY <1>1, <1>2, Shapes DEF IInv

(* The Return opcode starts to drain the promise jobs.                      *)
LEMMA ReturnEffect ==
    ASSUME IInv, Nested, Return
    PROVE  /\ ~Idle /\ Top.op = "body"
           /\ UNCHANGED <<graphVars, vmVars, loopVars, history>>
           /\ \E f \in Frames :
                 /\ Replaces(f) /\ f.op = "return" /\ f.mod = Top.mod /\ f.avail = {}
<1>1. /\ ~Idle /\ Top.op = "body" /\ stack' = Append(Front(stack), Frame("return", Top.mod))
      /\ UNCHANGED <<graphVars, vmVars, loopVars, history>>
  BY DEF Return, Running, SetTop
<1>2. Top.mod \in Modules
  BY <1>1, OnTop DEF Frames
<1>3. PICK f : f = Frame("return", Top.mod)
  OBVIOUS
<1>4. f \in Frames /\ f.op = "return" /\ f.mod = Top.mod /\ f.avail = {}
  BY <1>2, <1>3, FrameType DEF Frame
<1>5. Replaces(f)
  BY <1>1, <1>3, <1>4, Shapes DEF IInv
<1> QED
  BY <1>1, <1>4, <1>5

(* complete_module has started the parents it found.                        *)
LEMMA LeaveEffect ==
    ASSUME IInv, Nested, ReturnFromComplete
    PROVE  /\ ~Idle /\ Top.op = "complete" /\ Top.avail = {} /\ Returns
           /\ UNCHANGED <<graphVars, vmVars, loopVars, history>>
<1>1. /\ ~Idle /\ Top.op = "complete" /\ Top.avail = {} /\ stack' = Front(stack)
      /\ UNCHANGED <<graphVars, vmVars, loopVars, history>>
  BY DEF ReturnFromComplete, Running, Pop
<1> QED
  BY <1>1, Shapes DEF IInv

(* A module without pending dependencies runs.                              *)
LEMMA StartEffect ==
    ASSUME IInv, Nested, StartModule, ~StartJson(Top.mod, Front(stack))
    PROVE  /\ ~Idle /\ Visiting /\ Top.op = "inner" /\ Top.todo = <<>> /\ pending[Top.mod] = 0
           /\ Top.mod \in Modules
           /\ runs' = [runs EXCEPT ![Top.mod] = @ + 1]
           /\ UNCHANGED <<graphVars, vmVars, loopVars, awaits>>
           /\ \E f \in Frames :
                 /\ Replaces(f) /\ f.op = "body" /\ f.mod = Top.mod /\ f.avail = {}
<1>1. /\ ~Idle /\ Top.op = "inner" /\ Top.todo = <<>> /\ pending[Top.mod] = 0
      /\ StartBody(Top.mod, Front(stack))
  BY DEF StartModule, Running
<1>2. Top.mod \in Modules
  BY <1>1, OnTop DEF Frames
<1>3. PICK f : f = Frame("body", Top.mod)
  OBVIOUS
<1>4. f \in Frames /\ f.op = "body" /\ f.mod = Top.mod /\ f.avail = {}
  BY <1>2, <1>3, FrameType DEF Frame
<1>5. Replaces(f)
  BY <1>1, <1>3, <1>4, Shapes DEF IInv, StartBody
<1> QED
  BY <1>1, <1>2, <1>4, <1>5, OnTop DEF StartBody

(* An available parent runs: the call it is started from is the only one.    *)
LEMMA StartAvailableEffect ==
    ASSUME IInv, Nested, StartAvailable
    PROVE  /\ ~Idle /\ Top.op = "complete" /\ phase = "resume" /\ Len(stack) = 1
           /\ UNCHANGED <<graphVars, vmVars, loopVars, awaits>>
           /\ \E p \in Top.avail, g \in Frames, f \in Frames :
                 /\ FirstByOrder(p, Top.avail) /\ p \in Modules
                 /\ status[p] = "EvaluatingAsync" /\ pending[p] = 0 /\ runs[p] = 0
                 /\ parents[p] = {}
                 /\ runs' = [runs EXCEPT ![p] = @ + 1]
                 /\ g.op = "complete" /\ g.mod = Top.mod /\ g.avail = Top.avail \ {p}
                 /\ f.op = "body" /\ f.mod = p /\ f.avail = {}
                 /\ Adds(g, f)
<1>1. ~Idle /\ Top.op = "complete"
  BY DEF StartAvailable, Running
<1>2. PICK p \in Top.avail :
         LET below == Append(Front(stack), [Top EXCEPT !.avail = @ \ {p}]) IN
         /\ FirstByOrder(p, Top.avail)
         /\ IF status[p] = "EvaluatingAsync" /\ pending[p] = 0
              THEN StartBody(p, below)
              ELSE /\ stack' = below
                   /\ UNCHANGED <<graphVars, vmVars, loopVars, history>>
  BY DEF StartAvailable
<1>3. /\ Top \in Frames /\ FrameOK(Top, status, pending, parents, runs)
      /\ phase = "resume" /\ Len(stack) = 1 /\ ResumedCall(Len(stack)) /\ Top = stack[Len(stack)]
  BY <1>1, <1>2, OnTop
<1>4. /\ status[p] = "EvaluatingAsync" /\ pending[p] = 0 /\ runs[p] = 0 /\ p \in Modules
      /\ parents[p] = {}
  BY <1>2, <1>3 DEF FrameOK, Frames, ResumedCall
<1>5. PICK g : g = [Top EXCEPT !.avail = @ \ {p}]
  OBVIOUS
<1>6. g \in Frames /\ g.op = "complete" /\ g.mod = Top.mod /\ g.avail = Top.avail \ {p}
  BY <1>1, <1>3, <1>5 DEF Frames
<1>7. StartBody(p, Append(Front(stack), g)) /\ FirstByOrder(p, Top.avail)
  BY <1>2, <1>4, <1>5
<1>8. PICK f : f = Frame("body", p)
  OBVIOUS
<1>9. f \in Frames /\ f.op = "body" /\ f.mod = p /\ f.avail = {}
  BY <1>4, <1>8, FrameType DEF Frame
<1>10. Adds(g, f)
  BY <1>1, <1>6, <1>7, <1>8, <1>9, Shapes DEF IInv, StartBody
<1>11. /\ runs' = [runs EXCEPT ![p] = @ + 1]
       /\ UNCHANGED <<graphVars, vmVars, loopVars, awaits>>
  BY <1>7 DEF StartBody
<1> QED
  BY <1>1, <1>2, <1>3, <1>4, <1>6, <1>7, <1>9, <1>10, <1>11

(* complete_module releases parents only for a body that was resumed: nobody  *)
(* is registered with a module that completes while it is visited, nor with  *)
(* one that was started by complete_module.                                 *)
LEMMA CompleteEffect ==
    ASSUME IInv, Nested, ~Idle, Top.op \in {"inner", "return"},
           CompleteModule(Top.mod, Front(stack))
    PROVE  /\ Top.mod \in Modules
           /\ status[Top.mod] \in {"Evaluating", "EvaluatingAsync"}
           /\ status' = [status EXCEPT ![Top.mod] = "Evaluated"]
           /\ waiters' = [waiters EXCEPT ![Top.mod] = {}]
           /\ Settle(waiters[Top.mod], "fulfilled")
           /\ \E f \in Frames :
                 /\ Replaces(f) /\ f.op = "complete" /\ f.mod = Top.mod
                 /\ f.avail \subseteq Modules
                 /\ f.avail # {} => phase = "resume" /\ Len(stack) = 1
                 /\ parents' = [d \in Modules |-> IF d = Top.mod \/ d \in f.avail THEN {}
                                                  ELSE parents[d]]
<1>1. /\ Top \in Frames /\ FrameOK(Top, status, pending, parents, runs)
      /\ Top = stack[Len(stack)] /\ Len(stack) \in Nat \ {0}
      /\ Len(stack) \in 1 .. Len(stack)
      /\ Visiting \/ phase = "resume"
  BY OnTop
<1>2. Top.mod \in Modules /\ status[Top.mod] \in {"Evaluating", "EvaluatingAsync"}
  BY <1>1 DEF FrameOK, Frames
<1>3. PICK f : f = [Frame("complete", Top.mod) EXCEPT !.avail = Available(Top.mod)]
  OBVIOUS
<1>4. Available(Top.mod) \subseteq Modules
  BY DEF Available
<1>5. f \in Frames /\ f.op = "complete" /\ f.mod = Top.mod /\ f.avail = Available(Top.mod)
  BY <1>2, <1>3, <1>4, FrameType DEF Frame, Frames
<1>6. Replaces(f)
  BY <1>3, <1>5, Shapes DEF IInv, CompleteModule
<1>7. f.avail # {} => phase = "resume" /\ Len(stack) = 1
  <2>1. CASE Visiting
    <3>1. status[Top.mod] = "Evaluating"
      BY <1>1, <2>1, OnTop DEF VisitingCall, FrameOK
    <3>2. parents[Top.mod] = {}
      BY <1>2, <3>1 DEF Nested
    <3> QED
      BY <1>2, <1>5, <3>2, NoParents
  <2>2. CASE phase = "resume" /\ Len(stack) > 1
    <3>1. parents[Top.mod] = {}
      BY <1>1, <2>2, OnTop DEF ResumedCall
    <3> QED
      BY <1>2, <1>5, <3>1, NoParents
  <2>3. Len(stack) = 1 \/ Len(stack) > 1
    <3>1. PICK n \in Nat \ {0} : n = Len(stack)
      BY <1>1
    <3>2. n = 1 \/ n > 1
      OBVIOUS
    <3> QED BY <3>1, <3>2
  <2> QED
    BY <1>1, <2>1, <2>2, <2>3
<1>8. parents' = [d \in Modules |-> IF d = Top.mod \/ d \in f.avail THEN {} ELSE parents[d]]
  BY <1>5 DEF CompleteModule, GatherAvailableAncestors
<1>9. /\ status' = [status EXCEPT ![Top.mod] = "Evaluated"]
      /\ waiters' = [waiters EXCEPT ![Top.mod] = {}]
      /\ Settle(waiters[Top.mod], "fulfilled")
  BY DEF CompleteModule
<1> QED
  BY <1>2, <1>4, <1>5, <1>6, <1>7, <1>8, <1>9

(* An error leaves all calls.  The module that is marked Errored, if any, was  *)
(* neither evaluated nor failed, and no parent was waiting to be started.    *)
LEMMA RaiseEffect ==
    ASSUME IInv, Nested, ~Idle, Top.op \in {"inner", "body"},
           NEW kind \in {"exception", "fault", "linkError"}, Raise(kind)
    PROVE  /\ Visiting \/ phase = "resume"
           /\ Idle' /\ Len(stack') = 0
           /\ UNCHANGED <<deps, pending, parents, order, nextOrder, suspended,
                          requests, to, batch, ready, progressed, history>>
           /\ \/ /\ UNCHANGED <<status, waiters, promise, jobs>>
                 /\ phase' = "end" /\ outcome' # "stuck"
              \/ \E t \in Modules :
                    /\ FailModule(t)
                    /\ status[t] \in {"Evaluating", "EvaluatingAsync"}
                    /\ \E i \in 1 .. Len(stack) : stack[i].mod = t
                    /\ \A i \in 1 .. Len(stack) : stack[i].avail = {}
                    /\ \/ phase' = "end" /\ outcome' # "stuck"
                       \/ UNCHANGED <<phase, outcome>>
<1>1. /\ stack' = <<>>
      /\ UNCHANGED <<deps, pending, parents, order, nextOrder, suspended,
                     requests, to, batch, ready, progressed, history>>
  BY DEF Raise
<1>2. Idle' /\ Len(stack') = 0
  BY <1>1 DEF Idle
<1>3. /\ Len(stack) \in Nat \ {0} /\ Top = stack[Len(stack)] /\ Top \in Frames
      /\ FrameOK(Top, status, pending, parents, runs) /\ Top.avail = {}
      /\ Visiting \/ phase = "resume"
  BY OnTop DEF FrameOK
<1>4. PICK n \in Nat \ {0} : n = Len(stack)
  BY <1>3
<1>5. CASE UNCHANGED <<status, waiters, promise, jobs>> /\ EndWith(kind)
  BY <1>1, <1>2, <1>3, <1>5 DEF EndWith
<1>6. CASE Catcher # {} /\ \E t \in Catcher :
              /\ FailModule(t)
              /\ IF waiters[t] = {} THEN EndWith("exception")
                                    ELSE UNCHANGED <<phase, outcome>>
  <2>1. PICK t \in Catcher :
              /\ FailModule(t)
              /\ IF waiters[t] = {} THEN EndWith("exception")
                                    ELSE UNCHANGED <<phase, outcome>>
    BY <1>6
  <2>2. t = stack[1].mod /\ (phase = "imports" \/ (phase = "resume" /\ Len(stack) = 1))
    BY <2>1 DEF Catcher
  <2>3. 1 \in 1 .. n /\ (1 = n \/ 1 < n)
    OBVIOUS
  <2>4. FrameOK(stack[1], status, pending, parents, runs) /\ stack[1] \in Frames
    BY <1>4, <2>3, ElementOfSeq DEF IInv, StackOK, CallsOK, TypeOK
  <2>5. stack[1].op \in {"join", "inner", "body"}
    <3>1. CASE 1 = n
      BY <1>3, <1>4, <3>1
    <3>2. CASE 1 < n /\ phase = "imports"
      BY <1>4, <2>3, <3>2 DEF Nested, Visiting, VisitingCall
    <3> QED
      BY <1>4, <2>2, <2>3, <3>1, <3>2
  <2>6. status[t] \in {"Evaluating", "EvaluatingAsync"} /\ t \in Modules
    BY <2>2, <2>4, <2>5 DEF FrameOK, Frames
  <2>7. \A i \in 1 .. n : stack[i].avail = {}
    <3>1. CASE phase = "imports"
      BY <1>4, <3>1 DEF Nested, Visiting, VisitingCall
    <3>2. CASE n = 1
      <4>1. \A i \in 1 .. n : i = 1
        BY <3>2
      <4> QED BY <1>3, <1>4, <3>2, <4>1
    <3> QED BY <1>4, <2>2, <3>1, <3>2
  <2>8. (phase' = "end" /\ outcome' # "stuck") \/ UNCHANGED <<phase, outcome>>
    BY <2>1 DEF EndWith
  <2> QED
    BY <1>1, <1>2, <1>3, <1>4, <2>1, <2>2, <2>3, <2>6, <2>7, <2>8
<1> QED
  BY <1>5, <1>6 DEF Raise

(* process_dynamic_imports registers a promise with its target, and visits    *)
(* the target unless somebody has.                                          *)
LEMMA AwaitEffect ==
    ASSUME IInv, ProcessRequest, AwaitTarget(Head(batch))
    PROVE  /\ Idle /\ Len(stack) = 0 /\ phase = "imports" /\ batch # <<>>
           /\ batch' = Tail(batch) /\ Head(batch) \in Promises
           /\ to[Head(batch)] \in Modules
           /\ waiters' = [waiters EXCEPT ![to[Head(batch)]] = @ \cup {Head(batch)}]
           /\ UNCHANGED <<deps, pending, parents, order, nextOrder, suspended, requests,
                          to, phase, ready, progressed, outcome, history, promise, jobs>>
           /\ \/ /\ status[to[Head(batch)]] \in {"Evaluating", "EvaluatingAsync"}
                 /\ UNCHANGED <<status, stack>>
              \/ /\ status[to[Head(batch)]] = "Linked"
                 /\ status' = [status EXCEPT ![to[Head(batch)]] = "Evaluating"]
                 /\ Len(stack') = 1 /\ stack'[1] = Inner(to[Head(batch)])
<1>1. /\ Idle /\ phase = "imports" /\ batch # <<>> /\ batch' = Tail(batch)
      /\ UNCHANGED <<deps, pending, parents, order, nextOrder, suspended, requests,
                     to, phase, ready, progressed, outcome, history>>
  BY DEF ProcessRequest
<1>2. Head(batch) \in Promises
  BY <1>1, HeadTailProperties DEF IInv, TypeOK
<1>3. PICK p \in Promises : p = Head(batch)
  BY <1>2
<1>4. /\ to[p] \in Modules /\ status[to[p]] \notin {"Errored", "Evaluated"}
      /\ waiters' = [waiters EXCEPT ![to[p]] = @ \cup {p}]
      /\ Enter(to[p], stack) /\ UNCHANGED <<promise, jobs>>
  BY <1>3 DEF AwaitTarget, IInv, TypeOK
<1>5. stack = <<>> /\ Len(stack) = 0
  BY <1>1 DEF Idle
<1>6. CASE UNCHANGED <<status, stack>>
           /\ status[to[p]] \in {"Evaluated", "Evaluating", "EvaluatingAsync"}
  BY <1>1, <1>3, <1>4, <1>5, <1>6
<1>7. CASE /\ status[to[p]] = "Linked"
           /\ status' = [status EXCEPT ![to[p]] = "Evaluating"]
           /\ stack' = Append(stack, Inner(to[p]))
  <2>1. PICK f \in Frames : f = Inner(to[p])
    BY <1>4, InnerType DEF IInv
  <2>2. stack' = <<f>>
    BY <1>5, <1>7, <2>1
  <2>3. Len(stack') = 1 /\ stack'[1] = f
    BY <2>2
  <2> QED
    BY <1>1, <1>3, <1>4, <1>5, <1>7, <2>1, <2>3
<1> QED
  BY <1>4, <1>6, <1>7 DEF Enter

(* A module is resumed, or is not ready any more.                           *)
LEMMA ResumeEffect ==
    ASSUME IInv, ResumeReady
    PROVE  /\ Idle /\ Len(stack) = 0 /\ phase = "resume"
           /\ UNCHANGED <<graphVars, requests, jobs, to, promise, phase, batch, outcome,
                          history>>
           /\ \/ /\ UNCHANGED <<progressed, suspended, stack>>
                 /\ \E m \in ready : ready' = ready \ {m} /\ ~Runnable(m)
              \/ /\ progressed' = TRUE
                 /\ \E m \in Modules, f \in Frames :
                       /\ status[m] = "EvaluatingAsync" /\ runs[m] = 1
                       /\ Len(stack') = 1 /\ stack'[1] = f
                       /\ f.op = "body" /\ f.mod = m /\ f.avail = {}
                       /\ suspended' = [suspended EXCEPT ![m] = NotSuspended]
<1>1. /\ Idle /\ phase = "resume"
      /\ UNCHANGED <<graphVars, requests, jobs, to, promise, phase, batch, outcome, history>>
  BY DEF ResumeReady
<1>2. stack = <<>> /\ Len(stack) = 0
  BY <1>1 DEF Idle
<1>3. PICK m \in ready :
         /\ ready' = ready \ {m}
         /\ IF status[m] = "EvaluatingAsync" /\ IsReady(m)
              THEN /\ progressed' = TRUE
                   /\ suspended' = [suspended EXCEPT ![m] = NotSuspended]
                   /\ Push(Frame("body", m))
              ELSE UNCHANGED <<progressed, suspended, stack>>
  BY DEF ResumeReady
<1>4. m \in Modules
  BY DEF IInv, TypeOK
<1>5. CASE ~Runnable(m)
  BY <1>1, <1>2, <1>3, <1>5 DEF Runnable
<1>6. CASE Runnable(m)
  <2>1. /\ progressed' = TRUE /\ stack' = Append(stack, Frame("body", m))
        /\ status[m] = "EvaluatingAsync"
        /\ suspended' = [suspended EXCEPT ![m] = NotSuspended]
    BY <1>3, <1>6 DEF Runnable, Push
  <2>2. runs[m] = 1
    <3>1. suspended[m].kind # "none"
      BY <1>6 DEF Runnable, IsReady
    <3> QED BY <1>4, <3>1 DEF IInv, ModuleOK
  <2>3. PICK f \in Frames : f = Frame("body", m)
    BY <1>4, FrameType
  <2>4. stack' = <<f>>
    BY <1>2, <2>1, <2>3
  <2>5. Len(stack') = 1 /\ stack'[1] = f
    BY <2>4
  <2>6. f.op = "body" /\ f.mod = m /\ f.avail = {}
    BY <2>3 DEF Frame
  <2> QED
    BY <1>1, <1>2, <1>4, <2>1, <2>2, <2>5, <2>6
<1> QED
  BY <1>5, <1>6

-----------------------------------------------------------------------------
(* The calls in each phase.                                                 *)

(* A step that leaves the calls and the lists of parents alone.              *)
LEMMA NestedSame ==
    ASSUME Nested, UNCHANGED <<status, parents, stack>>,
           \/ phase' = phase
           \/ Idle /\ phase' \in {"imports", "jobs", "resume", "check", "end"}
    PROVE  Nested'
<1>1. CASE phase' = phase
  BY <1>1 DEF Nested, Visiting, VisitingCall, ResumedCall, Idle
<1>2. CASE Idle
  <2>1. \A i \in 1 .. Len(stack') : FALSE
    BY <1>2 DEF Idle
  <2>2. Idle'
    BY <1>2 DEF Idle
  <2> QED
    BY <2>1, <2>2 DEF Nested
<1> QED
  BY <1>1, <1>2

(* A step of a visit.                                                       *)
LEMMA NestedVisit ==
    ASSUME IInv, IInv', Nested, Visiting, UNCHANGED phase,
           \A m \in Modules : status'[m] \in {"Linked", "Evaluating"} => parents'[m] = {},
           \A i \in 1 .. Len(stack') : VisitingCall(i)'
    PROVE  Nested'
<1>1. Visiting' /\ phase' \notin {"jobs", "check", "end", "resume"}
  BY DEF Visiting
<1> QED
  BY <1>1 DEF Nested

(* The calls below the top wait, whatever the step does to the top.          *)
LEMMA BelowVisits ==
    ASSUME IInv, Nested, ~Idle, Visiting, SameBelow
    PROVE  \A i \in 1 .. Len(stack) - 1 : VisitingCall(i)' /\ stack'[i].op = "join"
<1>1. PICK n \in Nat \ {0} : n = Len(stack)
  BY OnTop
<1> SUFFICES ASSUME NEW i \in 1 .. n - 1
             PROVE  VisitingCall(i)' /\ stack'[i].op = "join"
  BY <1>1
<1>2. i \in 1 .. n /\ i < n
  OBVIOUS
<1>3. stack[i].avail = {} /\ stack[i].op = "join"
  BY <1>1, <1>2 DEF Nested, VisitingCall
<1>4. stack'[i] = stack[i]
  BY <1>1 DEF SameBelow
<1> QED
  BY <1>3, <1>4 DEF VisitingCall

(* The call on top of a visit is replaced.                                  *)
LEMMA ReplacedVisit ==
    ASSUME IInv, IInv', Nested, ~Idle, Visiting, UNCHANGED phase,
           \A m \in Modules : status'[m] \in {"Linked", "Evaluating"} => parents'[m] = {},
           NEW f, Replaces(f), f.avail = {},
           f.op \in {"body", "return"} => status'[f.mod] = "Evaluating"
    PROVE  Nested'
<1>1. PICK n \in Nat \ {0} : n = Len(stack)
  BY OnTop
<1>2. Len(stack') = n /\ stack'[n] = f
  BY <1>1 DEF Replaces
<1>3. \A i \in 1 .. n - 1 : VisitingCall(i)'
  BY <1>1, BelowVisits DEF Replaces
<1>4. VisitingCall(n)'
  BY <1>2 DEF VisitingCall
<1>5. \A i \in 1 .. n : i \in 1 .. n - 1 \/ i = n
  OBVIOUS
<1>6. \A i \in 1 .. n : VisitingCall(i)'
  BY <1>3, <1>4, <1>5
<1> QED
  BY <1>2, <1>6, NestedVisit

(* The top of a visit waits for a new call.                                 *)
LEMMA AddedVisit ==
    ASSUME IInv, IInv', Nested, ~Idle, Visiting, UNCHANGED phase,
           \A m \in Modules : status'[m] \in {"Linked", "Evaluating"} => parents'[m] = {},
           NEW g, NEW f, Adds(g, f), g.op = "join", g.avail = {},
           f.op = "inner", f.avail = {}
    PROVE  Nested'
<1>1. PICK n \in Nat \ {0} : n = Len(stack)
  BY OnTop
<1>2. Len(stack') = n + 1 /\ stack'[n] = g /\ stack'[n + 1] = f
  BY <1>1 DEF Adds
<1>3. \A i \in 1 .. n - 1 : VisitingCall(i)'
  BY <1>1, BelowVisits DEF Adds
<1>4. VisitingCall(n)'
  BY <1>2 DEF VisitingCall
<1>5. VisitingCall(n + 1)'
  BY <1>2 DEF VisitingCall
<1>6. \A i \in 1 .. n + 1 : i \in 1 .. n - 1 \/ i = n \/ i = n + 1
  OBVIOUS
<1>7. \A i \in 1 .. n + 1 : VisitingCall(i)'
  BY <1>3, <1>4, <1>5, <1>6
<1> QED
  BY <1>2, <1>7, NestedVisit

(* The top of the stack is left.                                            *)
LEMMA ReturnedNested ==
    ASSUME IInv, IInv', Nested, ~Idle, UNCHANGED <<phase, parents>>, Returns,
           \A m \in Modules : status'[m] \in {"Linked", "Evaluating"} => parents'[m] = {}
    PROVE  Nested'
<1>1. PICK n \in Nat \ {0} : n = Len(stack)
  BY OnTop
<1>2. Len(stack') = n - 1 /\ SameBelow
  BY <1>1 DEF Returns
<1>3. CASE Visiting
  <2>1. \A i \in 1 .. n - 1 : VisitingCall(i)'
    BY <1>1, <1>2, <1>3, BelowVisits
  <2> QED
    BY <1>2, <1>3, <2>1, NestedVisit
<1>4. CASE phase = "resume"
  <2>1. ASSUME NEW i \in 1 .. n - 1 PROVE ResumedCall(i)'
    <3>1. i \in 1 .. n
      OBVIOUS
    <3>2. ResumedCall(i) /\ stack'[i] = stack[i]
      BY <1>1, <1>2, <1>4, <3>1 DEF Nested, SameBelow
    <3> QED
      BY <3>2 DEF ResumedCall
  <2>2. ~Visiting' /\ phase' = "resume"
    BY <1>4 DEF Visiting
  <2> QED
    BY <1>2, <2>1, <2>2 DEF Nested
<1> QED
  BY <1>3, <1>4, OnTop

(* The call on top of a resumed body's is replaced.                         *)
LEMMA ReplacedResumed ==
    ASSUME IInv, Nested, ~Idle, phase = "resume", UNCHANGED phase,
           \A m \in Modules : status'[m] \in {"Linked", "Evaluating"} => parents'[m] = {},
           \A m \in Modules : parents[m] = {} => parents'[m] = {},
           NEW f, Replaces(f), f.op \in {"body", "return", "complete"}, f.mod = Top.mod,
           Len(stack) > 1 => f.avail = {},
           \A p \in f.avail : parents'[p] = {}
    PROVE  Nested'
<1>1. /\ Len(stack) \in Nat \ {0} /\ Top = stack[Len(stack)] /\ Top \in Frames
      /\ ResumedCall(Len(stack))
  BY OnTop
<1>2. PICK n \in Nat \ {0} : n = Len(stack)
  BY <1>1
<1>3. Len(stack') = n /\ stack'[n] = f
  BY <1>2 DEF Replaces
<1>4. ASSUME NEW i \in 1 .. n - 1 PROVE ResumedCall(i)'
  <2>1. i \in 1 .. n /\ i \in Nat
    OBVIOUS
  <2>2. PICK e \in Frames : e = stack[i]
    BY <1>2, <2>1, ElementOfSeq DEF IInv, TypeOK
  <2>3. stack'[i] = e
    BY <1>2, <2>2 DEF Replaces, SameBelow
  <2>4. ResumedCall(i) /\ e.mod \in Modules /\ e.avail \subseteq Modules
    BY <1>2, <2>1, <2>2 DEF Nested, Frames
  <2> QED
    BY <2>2, <2>3, <2>4 DEF ResumedCall
<1>5. ResumedCall(n)'
  <2>1. n > 1 => parents[f.mod] = {}
    BY <1>1, <1>2 DEF ResumedCall
  <2>2. f.mod \in Modules
    BY <1>1 DEF Frames
  <2> QED
    BY <1>2, <1>3, <2>1, <2>2 DEF ResumedCall
<1>6. \A i \in 1 .. n : i \in 1 .. n - 1 \/ i = n
  OBVIOUS
<1>7. \A i \in 1 .. n : ResumedCall(i)'
  BY <1>4, <1>5, <1>6
<1>8. ~Visiting' /\ phase' = "resume"
  BY DEF Visiting
<1> QED
  BY <1>3, <1>7, <1>8 DEF Nested

(* complete_module, in a visit or in a resumed body.                        *)
LEMMA CompleteNested ==
    ASSUME IInv, IInv', Nested, ~Idle, Top.op \in {"inner", "return"},
           CompleteModule(Top.mod, Front(stack)), UNCHANGED phase
    PROVE  Nested'
<1>1. PICK f \in Frames :
         /\ Replaces(f) /\ f.op = "complete" /\ f.mod = Top.mod
         /\ f.avail \subseteq Modules
         /\ f.avail # {} => phase = "resume" /\ Len(stack) = 1
         /\ parents' = [d \in Modules |-> IF d = Top.mod \/ d \in f.avail THEN {}
                                          ELSE parents[d]]
  BY CompleteEffect
<1>2. Top.mod \in Modules /\ status' = [status EXCEPT ![Top.mod] = "Evaluated"]
  BY CompleteEffect
<1>3. \A m \in Modules : parents[m] = {} => parents'[m] = {}
  BY <1>1
<1>4. \A m \in Modules : status'[m] \in {"Linked", "Evaluating"} => parents'[m] = {}
  <2> TAKE m \in Modules
  <2>1. status'[m] \in {"Linked", "Evaluating"} => status'[m] = status[m]
    BY <1>2 DEF IInv, TypeOK
  <2> QED
    BY <1>3, <2>1 DEF Nested
<1>5. \A p \in f.avail : parents'[p] = {}
  BY <1>1
<1>6. CASE Visiting
  <2>1. f.avail = {}
    BY <1>1, <1>6 DEF Visiting
  <2> QED
    BY <1>1, <1>4, <1>6, <2>1, ReplacedVisit
<1>7. CASE phase = "resume"
  <2>1. Len(stack) > 1 => f.avail = {}
    <3>1. PICK n \in Nat : n = Len(stack)
      BY OnTop
    <3>2. ~(n > 1 /\ n = 1)
      OBVIOUS
    <3> QED BY <1>1, <3>1, <3>2
  <2>2. f.op \in {"body", "return", "complete"} /\ Replaces(f) /\ f.mod = Top.mod
    BY <1>1
  <2> QED
    BY <1>3, <1>4, <1>5, <1>7, <2>1, <2>2, ReplacedResumed
<1> QED
  BY <1>6, <1>7, OnTop

(* Steps that only change the status of a module.                           *)
LEMMA KeptParents ==
    ASSUME Nested, UNCHANGED parents,
           \A m \in Modules : status'[m] \in {"Linked", "Evaluating"} =>
               status[m] \in {"Linked", "Evaluating"}
    PROVE  \A m \in Modules : status'[m] \in {"Linked", "Evaluating"} => parents'[m] = {}
  BY DEF Nested

(* The calls are nested as the phase has it after every step.               *)
LEMMA NestedStep ==
    ASSUME IInv, Nested, [Next]_vars
    PROVE  Nested'
<1> DEFINE Clear == \A m \in Modules : status'[m] \in {"Linked", "Evaluating"} => parents'[m] = {}
<1>0. IInv'
  BY InvStep
<1>00. TypeOK /\ status \in [Modules -> Statuses] /\ parents \in [Modules -> SUBSET Modules]
  BY DEF IInv, TypeOK
<1>1. CASE SkipDependency
  <2>1. Clear /\ Visiting /\ ~Idle /\ UNCHANGED phase
    BY <1>1, SkipEffect, KeptParents DEF graphVars, loopVars
  <2> QED
    BY <1>0, <1>1, <2>1, SkipEffect, ReplacedVisit
<1>2. CASE EvaluateDependency
  <2>1. Visiting /\ ~Idle /\ UNCHANGED <<phase, parents>>
    BY <1>2, EvaluateEffect DEF loopVars
  <2>2. PICK g \in Frames :
           /\ g.op = "join" /\ g.avail = {}
           /\ \/ UNCHANGED status /\ Replaces(g)
              \/ /\ status[Head(Top.todo)] = "Linked"
                 /\ status' = [status EXCEPT ![Head(Top.todo)] = "Evaluating"]
                 /\ Adds(g, Inner(Head(Top.todo)))
    BY <1>2, EvaluateEffect
  <2>3. Clear
    BY <1>00, <2>1, <2>2, KeptParents
  <2>4. PICK h : h = Inner(Head(Top.todo))
    OBVIOUS
  <2>5. h.op = "inner" /\ h.avail = {}
    BY <2>4 DEF Inner, Frame
  <2>6. CASE Replaces(g)
    BY <1>0, <2>1, <2>2, <2>3, <2>6, ReplacedVisit
  <2>7. CASE Adds(g, h)
    BY <1>0, <2>1, <2>2, <2>3, <2>5, <2>7, AddedVisit
  <2> QED
    BY <2>2, <2>4, <2>6, <2>7
<1>3. ASSUME ~Idle, Top.op \in {"inner", "body"},
             NEW kind \in {"exception", "fault", "linkError"}, Raise(kind)
      PROVE  Nested'
  <2>1. Idle' /\ Len(stack') = 0 /\ UNCHANGED parents
    BY <1>3, RaiseEffect
  <2>2. \A m \in Modules : status'[m] = status[m] \/ status'[m] = "Errored"
    BY <1>00, <1>3, RaiseEffect DEF FailModule
  <2>3. Clear
    BY <2>1, <2>2, KeptParents
  <2>4. \A i \in 1 .. Len(stack') : FALSE
    BY <2>1
  <2> QED
    BY <2>1, <2>3, <2>4 DEF Nested
<1>4. CASE DependencyErrored \/ Throw
  BY <1>3, <1>4 DEF DependencyErrored, Throw, Running
<1>5. CASE JoinDependency
  <2>1. /\ Visiting /\ ~Idle /\ UNCHANGED <<phase, status>>
        /\ parents' = IF status[Head(Top.todo)] = "EvaluatingAsync"
                        THEN [parents EXCEPT ![Head(Top.todo)] = @ \cup {Top.mod}]
                        ELSE parents
        /\ Head(Top.todo) \in Modules
    BY <1>5, JoinEffect DEF loopVars
  <2>2. Clear
    <3> TAKE m \in Modules
    <3>1. status[m] \in {"Linked", "Evaluating"} => parents'[m] = parents[m]
      BY <1>00, <2>1
    <3> QED
      BY <2>1, <3>1 DEF Nested
  <2>3. PICK f \in Frames : Replaces(f) /\ f.op = "inner" /\ f.avail = {}
    BY <1>5, JoinEffect
  <2> QED
    BY <1>0, <2>1, <2>2, <2>3, ReplacedVisit
<1>6. ASSUME MarkAsync(Top.mod), UNCHANGED parents
      PROVE  Clear
  <2>1. \A m \in Modules : status'[m] = status[m] \/ status'[m] = "EvaluatingAsync"
    BY <1>00, <1>6 DEF MarkAsync
  <2> QED
    BY <1>6, <2>1, KeptParents
<1>7. CASE WaitForDependencies
  BY <1>0, <1>6, <1>7, WaitEffect, ReturnedNested DEF loopVars
<1>8. CASE Suspend
  BY <1>0, <1>6, <1>8, SuspendEffect, ReturnedNested DEF loopVars
<1>9. CASE StartModule
  <2>1. CASE StartJson(Top.mod, Front(stack))
    <3>1. ~Idle /\ Top.op = "inner" /\ UNCHANGED phase
          /\ CompleteModule(Top.mod, Front(stack))
      BY <1>9, <2>1 DEF StartModule, Running, StartJson, loopVars
    <3> QED
      BY <1>0, <3>1, CompleteNested
  <2>2. CASE ~StartJson(Top.mod, Front(stack))
    <3>1. ~Idle /\ Visiting /\ Top.op = "inner" /\ UNCHANGED <<phase, parents, status>>
      BY <1>9, <2>2, StartEffect DEF graphVars, loopVars
    <3>2. Clear
      BY <3>1, KeptParents
    <3>3. status'[Top.mod] = "Evaluating"
      BY <3>1, OnTop DEF FrameOK
    <3>4. PICK f \in Frames : Replaces(f) /\ f.mod = Top.mod /\ f.avail = {}
      BY <1>9, <2>2, StartEffect
    <3> QED
      BY <1>0, <3>1, <3>2, <3>3, <3>4, ReplacedVisit
  <2> QED
    BY <2>1, <2>2
<1>10. CASE StartAvailable
  <2>1. /\ ~Idle /\ phase = "resume" /\ Len(stack) = 1 /\ UNCHANGED <<phase, parents, status>>
    BY <1>10, StartAvailableEffect DEF graphVars, loopVars
  <2>2. PICK p \in Top.avail, g \in Frames, f \in Frames :
           /\ parents[p] = {} /\ g.op = "complete" /\ g.avail = Top.avail \ {p}
           /\ f.op = "body" /\ f.mod = p /\ f.avail = {} /\ Adds(g, f)
    BY <1>10, StartAvailableEffect
  <2>3. Len(stack') = 2 /\ stack'[1] = g /\ stack'[2] = f
    BY <2>1, <2>2 DEF Adds
  <2>4. \A q \in g.avail : parents[q] = {}
    BY <2>1, <2>2, OnTop DEF ResumedCall
  <2>5. \A i \in 1 .. Len(stack') : i = 1 \/ i = 2
    BY <2>3
  <2>6. \A i \in 1 .. Len(stack') : ResumedCall(i)'
    BY <2>1, <2>2, <2>3, <2>4, <2>5 DEF ResumedCall
  <2>7. Clear
    BY <2>1, KeptParents
  <2>8. ~Visiting' /\ phase' = "resume"
    BY <2>1 DEF Visiting
  <2> QED
    BY <2>6, <2>7, <2>8 DEF Nested
<1>11. CASE ReturnFromComplete
  <2>1. ~Idle /\ Returns /\ UNCHANGED <<phase, parents, status>>
    BY <1>11, LeaveEffect DEF graphVars, loopVars
  <2>2. Clear
    BY <2>1, KeptParents
  <2> QED
    BY <1>0, <2>1, <2>2, ReturnedNested
<1>12. CASE Return
  <2>1. ~Idle /\ Top.op = "body" /\ UNCHANGED <<phase, parents, status>>
    BY <1>12, ReturnEffect DEF graphVars, loopVars
  <2>2. PICK f \in Frames : Replaces(f) /\ f.op = "return" /\ f.mod = Top.mod /\ f.avail = {}
    BY <1>12, ReturnEffect
  <2>3. Clear
    BY <2>1, KeptParents
  <2>4. CASE Visiting
    <3>1. status'[f.mod] = "Evaluating"
      BY <2>1, <2>2, <2>4, OnTop DEF VisitingCall
    <3> QED
      BY <1>0, <2>1, <2>2, <2>3, <2>4, <3>1, ReplacedVisit
  <2>5. CASE phase = "resume"
    BY <2>1, <2>2, <2>3, <2>5, ReplacedResumed
  <2> QED
    BY <2>1, <2>4, <2>5, OnTop
<1>13. CASE BodyCompleted
  <2>1. ~Idle /\ Top.op = "return" /\ UNCHANGED phase
        /\ CompleteModule(Top.mod, Front(stack))
    BY <1>13 DEF BodyCompleted, Running, loopVars
  <2> QED
    BY <1>0, <2>1, CompleteNested
<1>14. CASE ImportInBody \/ QueueJob \/ RunJob \/ UNCHANGED vars
  BY <1>14, NestedSame DEF ImportInBody, QueueJob, RunJob, vars, graphVars, loopVars
<1>15. CASE TakeRequests \/ RunPromiseJobs \/ CollectReady \/ EndOfTurn \/ ReturnFromEvaluate
  BY <1>15, NestedSame DEF TakeRequests, RunPromiseJobs, CollectReady, EndOfTurn,
     ReturnFromEvaluate, EndWith, graphVars
<1>16. CASE ProcessRequest
  <2>1. CASE SettleRequest(Head(batch))
    BY <1>16, <2>1, NestedSame DEF ProcessRequest, SettleRequest
  <2>2. CASE AwaitTarget(Head(batch))
    <3>1. PICK m \in Modules : m = to[Head(batch)]
      BY <1>16, <2>2, AwaitEffect
    <3>2. /\ Len(stack) = 0 /\ phase = "imports" /\ UNCHANGED <<phase, parents>>
          /\ \/ UNCHANGED <<status, stack>>
             \/ /\ status[m] = "Linked" /\ status' = [status EXCEPT ![m] = "Evaluating"]
                /\ Len(stack') = 1 /\ stack'[1] = Inner(m)
      BY <1>16, <2>2, <3>1, AwaitEffect
    <3>3. Clear
      <4>1. \A x \in Modules : status'[x] = status[x] \/ x = m
        BY <1>00, <3>2
      <4>2. UNCHANGED status \/ status[m] = "Linked"
        BY <3>2
      <4> QED BY <3>2, <4>1, <4>2, KeptParents
    <3>4. PICK f : f = Inner(m)
      OBVIOUS
    <3>5. f.op = "inner" /\ f.avail = {}
      BY <3>4 DEF Inner, Frame
    <3>6. \A i \in 1 .. Len(stack') : VisitingCall(i)'
      <4>1. CASE UNCHANGED stack
        <5>1. Len(stack') = 0
          BY <3>2, <4>1
        <5> QED BY <5>1
      <4>2. CASE Len(stack') = 1 /\ stack'[1] = f
        <5>1. \A i \in 1 .. Len(stack') : i = 1 /\ ~(i < Len(stack'))
          BY <4>2
        <5> QED BY <3>5, <4>2, <5>1 DEF VisitingCall
      <4> QED BY <3>2, <3>4, <4>1, <4>2
    <3> QED
      BY <1>0, <3>2, <3>3, <3>6, NestedVisit DEF Visiting
  <2> QED
    BY <1>16, <2>1, <2>2 DEF ProcessRequest
<1>17. CASE ResumeReady
  <2>1. UNCHANGED <<status, parents, phase>> /\ phase = "resume"
    BY <1>17, ResumeEffect DEF graphVars
  <2>2. CASE UNCHANGED stack
    BY <2>1, <2>2, NestedSame
  <2>3. CASE \E f \in Frames : Len(stack') = 1 /\ stack'[1] = f /\ f.op = "body" /\ f.avail = {}
    <3>1. \A i \in 1 .. Len(stack') : i = 1 /\ ~(i > 1)
      BY <2>3
    <3>2. \A i \in 1 .. Len(stack') : ResumedCall(i)'
      BY <2>3, <3>1 DEF ResumedCall
    <3>3. ~Visiting' /\ phase' = "resume"
      BY <2>1 DEF Visiting
    <3>4. Clear
      BY <2>1, KeptParents
    <3> QED
      BY <3>2, <3>3, <3>4 DEF Nested
  <2> QED
    BY <1>17, <2>2, <2>3, ResumeEffect
<1> QED
  BY <1>1, <1>2, <1>4, <1>5, <1>7, <1>8, <1>9, <1>10, <1>11, <1>12, <1>13, <1>14,
     <1>15, <1>16, <1>17
     DEF Next, Step, Terminating, InnerEvaluation, AsyncParents, Body, Evaluate

-----------------------------------------------------------------------------
(* What becomes of a module's status.                                       *)
Active(m) == status[m] \in {"Evaluating", "EvaluatingAsync"}

InProgress(m) == \E i \in 1 .. Len(stack) : stack[i].mod = m

(* Only a call in progress takes a module out of Evaluating or               *)
(* EvaluatingAsync, an error with all other calls; nothing takes it out of   *)
(* Evaluated or Errored.                                                    *)
Advances(m) ==
    \/ status'[m] = status[m]
    \/ status[m] = "Linked" /\ status'[m] = "Evaluating"
    \/ /\ Active(m) /\ InProgress(m)
       /\ status'[m] \in {"EvaluatingAsync", "Evaluated", "Errored"}
       /\ status'[m] = "Errored" => Len(stack') = 0

LEMMA StatusStep ==
    ASSUME IInv, Nested, [Next]_vars
    PROVE  \A m \in Modules : Advances(m)
<1>0. status \in [Modules -> Statuses]
  BY DEF IInv, TypeOK
<1>1. CASE UNCHANGED status
  BY <1>1 DEF Advances
<1>2. ASSUME ~Idle
      PROVE  Top.mod \in Modules /\ InProgress(Top.mod)
             /\ (Top.op \in {"inner", "body", "return"} => Active(Top.mod))
  BY <1>2, OnTop DEF FrameOK, Frames, InProgress, Active
<1>3. ASSUME NEW t \in Modules, Active(t), InProgress(t),
             NEW s \in {"EvaluatingAsync", "Evaluated", "Errored"},
             s = "Errored" => Len(stack') = 0, status' = [status EXCEPT ![t] = s]
      PROVE  \A m \in Modules : Advances(m)
  BY <1>0, <1>3 DEF Advances
<1>4. CASE WaitForDependencies \/ Suspend
  BY <1>2, <1>3, <1>4, WaitEffect, SuspendEffect DEF MarkAsync
<1>5. CASE /\ ~Idle /\ Top.op \in {"inner", "return"}
           /\ CompleteModule(Top.mod, Front(stack))
  BY <1>2, <1>3, <1>5 DEF CompleteModule
<1>6. ASSUME ~Idle, Top.op \in {"inner", "body"},
             NEW kind \in {"exception", "fault", "linkError"}, Raise(kind)
      PROVE  \A m \in Modules : Advances(m)
  <2>1. CASE \E t \in Modules :
               FailModule(t) /\ status[t] \in {"Evaluating", "EvaluatingAsync"}
               /\ \E i \in 1 .. Len(stack) : stack[i].mod = t
    <3>1. Len(stack') = 0
      BY <1>6, RaiseEffect
    <3> QED BY <1>3, <2>1, <3>1 DEF FailModule, Active, InProgress
  <2> QED
    BY <1>1, <1>6, <2>1, RaiseEffect
<1>7. ASSUME NEW t \in Modules, status[t] = "Linked",
             status' = [status EXCEPT ![t] = "Evaluating"]
      PROVE  \A m \in Modules : Advances(m)
  BY <1>0, <1>7 DEF Advances
<1>8. CASE EvaluateDependency
  <2>1. ~Idle /\ Top.todo # <<>>
    BY <1>8, EvaluateEffect
  <2>2. Head(Top.todo) \in Modules
    BY <2>1, OnTop, HeadTailProperties DEF Frames
  <2> QED
    BY <1>1, <1>7, <1>8, <2>2, EvaluateEffect
<1>9. CASE ProcessRequest /\ AwaitTarget(Head(batch))
  BY <1>1, <1>7, <1>9, AwaitEffect
<1>10. CASE InnerEvaluation
  <2>1. CASE StartModule
    <3>1. CASE StartJson(Top.mod, Front(stack))
      BY <1>5, <2>1, <3>1 DEF StartModule, Running, StartJson
    <3>2. CASE StartBody(Top.mod, Front(stack))
      BY <1>1, <3>2 DEF StartBody, graphVars
    <3> QED BY <2>1, <3>1, <3>2 DEF StartModule
  <2>2. CASE DependencyErrored
    BY <1>6, <2>2 DEF DependencyErrored, Running
  <2> QED
    BY <1>1, <1>4, <1>8, <1>10, <2>1, <2>2
       DEF InnerEvaluation, SkipDependency, JoinDependency, graphVars
<1>11. CASE AsyncParents
  BY <1>1, <1>11, StartAvailableEffect, LeaveEffect DEF AsyncParents, graphVars
<1>12. CASE Body
  <2>1. CASE Throw
    BY <1>6, <2>1 DEF Throw, Running
  <2>2. CASE BodyCompleted
    BY <1>5, <2>2 DEF BodyCompleted, Running
  <2> QED
    BY <1>1, <1>4, <1>12, <2>1, <2>2
       DEF Body, ImportInBody, QueueJob, Return, RunJob, graphVars
<1>13. CASE Evaluate
  BY <1>1, <1>9, <1>13
     DEF Evaluate, TakeRequests, ProcessRequest, SettleRequest, RunPromiseJobs, CollectReady,
         ResumeReady, EndOfTurn, ReturnFromEvaluate, graphVars
<1>14. CASE UNCHANGED vars
  BY <1>1, <1>14 DEF vars, graphVars
<1> QED
  BY <1>10, <1>11, <1>12, <1>13, <1>14 DEF Next, Step, Terminating

-----------------------------------------------------------------------------
(* The promises of import().                                                *)

(* The members of a sequence that grows or shrinks.                         *)
LEMMA Lines ==
    ASSUME NEW S, NEW s \in Seq(S)
    PROVE  /\ ToSet(s) \subseteq S /\ (s = <<>> => ToSet(s) = {})
           /\ \A e \in S :
                 /\ ToSet(Append(s, e)) = ToSet(s) \cup {e}
                 /\ Once(s) /\ e \notin ToSet(s) => Once(Append(s, e))
           /\ s # <<>> =>
                 /\ Head(s) \in ToSet(s)
                 /\ ToSet(s) = ToSet(Tail(s)) \cup {Head(s)}
                 /\ Once(s) => Once(Tail(s)) /\ Head(s) \notin ToSet(Tail(s))
<1>1. PICK n \in Nat : n = Len(s) /\ DOMAIN s = 1 .. n
  BY LenProperties
<1>2. \A i \in 1 .. n : s[i] \in S
  BY <1>1, ElementOfSeq
<1>3. ToSet(s) \subseteq S /\ (s = <<>> => ToSet(s) = {})
  BY <1>1, <1>2, EmptySeq DEF ToSet
<1>4. ASSUME NEW e \in S
      PROVE  /\ ToSet(Append(s, e)) = ToSet(s) \cup {e}
             /\ Once(s) /\ e \notin ToSet(s) => Once(Append(s, e))
  <2>1. PICK t : t = Append(s, e)
    OBVIOUS
  <2>2. /\ DOMAIN t = 1 .. n + 1 /\ t[n + 1] = e
        /\ \A i \in 1 .. n : t[i] = s[i]
    BY <1>1, <2>1, PushOps, LenProperties
  <2>3. \A i \in 1 .. n + 1 : i \in 1 .. n \/ i = n + 1
    OBVIOUS
  <2>4. \A i \in 1 .. n : i \in 1 .. n + 1
    OBVIOUS
  <2>5. n + 1 \in 1 .. n + 1
    OBVIOUS
  <2>6. ToSet(t) = ToSet(s) \cup {e}
    BY <1>1, <2>2, <2>3, <2>4, <2>5 DEF ToSet
  <2>7. Once(s) /\ e \notin ToSet(s) => Once(t)
    BY <1>1, <2>2, <2>3 DEF ToSet, Once
  <2> QED
    BY <2>1, <2>6, <2>7
<1>5. ASSUME s # <<>>
      PROVE  /\ Head(s) \in ToSet(s)
             /\ ToSet(s) = ToSet(Tail(s)) \cup {Head(s)}
             /\ Once(s) => Once(Tail(s)) /\ Head(s) \notin ToSet(Tail(s))
  <2>1. PICK t : t = Tail(s)
    OBVIOUS
  <2>2. /\ n # 0 /\ DOMAIN t = 1 .. n - 1 /\ Head(s) = s[1]
        /\ \A i \in 1 .. n - 1 : t[i] = s[i + 1]
    BY <1>1, <1>5, <2>1, HeadTailProperties, EmptySeq, LenProperties
  <2>3. 1 \in 1 .. n
    BY <2>2
  <2>4. \A i \in 1 .. n : i = 1 \/ (i - 1 \in 1 .. n - 1 /\ (i - 1) + 1 = i)
    OBVIOUS
  <2>5. \A i \in 1 .. n - 1 : i + 1 \in 1 .. n /\ i + 1 # 1
    OBVIOUS
  <2>6. Head(s) \in ToSet(s)
    BY <1>1, <2>2, <2>3 DEF ToSet
  <2>7. ToSet(s) \subseteq ToSet(t) \cup {s[1]}
    <3> SUFFICES ASSUME NEW i \in 1 .. n PROVE s[i] \in ToSet(t) \cup {s[1]}
      BY <1>1 DEF ToSet
    <3>1. CASE i = 1
      BY <3>1
    <3>2. CASE i - 1 \in 1 .. n - 1 /\ (i - 1) + 1 = i
      <4>1. PICK j \in 1 .. n - 1 : j + 1 = i
        BY <3>2
      <4> QED BY <2>2, <4>1 DEF ToSet
    <3> QED BY <2>4, <3>1, <3>2
  <2>8. ToSet(t) \subseteq ToSet(s)
    BY <1>1, <2>2, <2>5 DEF ToSet
  <2>9. Once(s) => Once(t)
    <3> SUFFICES ASSUME Once(s), NEW i \in 1 .. n - 1, NEW j \in 1 .. n - 1, t[i] = t[j]
                 PROVE  i = j
      BY <2>2 DEF Once
    <3>1. i + 1 = j + 1
      BY <1>1, <2>2, <2>5 DEF Once
    <3> QED BY <3>1
  <2>10. Once(s) => s[1] \notin ToSet(t)
    <3> SUFFICES ASSUME Once(s), NEW i \in 1 .. n - 1, t[i] = s[1] PROVE FALSE
      BY <2>2 DEF ToSet
    <3>1. i + 1 \in 1 .. n /\ 1 \in 1 .. n /\ i + 1 # 1
      BY <2>3, <2>5
    <3>2. s[i + 1] = s[1]
      BY <2>2
    <3>3. \A k, l \in 1 .. n : s[k] = s[l] => k = l
      BY <1>1 DEF Once
    <3> QED BY <3>1, <3>2, <3>3
  <2> QED
    BY <2>1, <2>2, <2>6, <2>7, <2>8, <2>9, <2>10
<1> QED
  BY <1>3, <1>4, <1>5

(* What the parts of the invariant say of one state's types.                *)
LEMMA PromiseTypes ==
    ASSUME IInv
    PROVE  /\ promise \in [Promises -> {"unused", "pending", "fulfilled", "rejected"}]
           /\ to \in [Promises -> Modules \cup {Unresolved}]
           /\ requests \in Seq(Promises) /\ batch \in Seq(Promises)
           /\ waiters \in [Modules -> SUBSET Promises]
           /\ status \in [Modules -> Statuses]
           /\ InLine \subseteq Promises
<1>1. /\ requests \in Seq(Promises) /\ batch \in Seq(Promises)
      /\ promise \in [Promises -> {"unused", "pending", "fulfilled", "rejected"}]
      /\ to \in [Promises -> Modules \cup {Unresolved}]
      /\ waiters \in [Modules -> SUBSET Promises]
      /\ status \in [Modules -> Statuses]
  BY DEF IInv, TypeOK
<1> QED
  BY <1>1, Lines DEF InLine

(* A step that leaves the promises and their holders alone, and evaluates or  *)
(* fails no module.                                                         *)
LEMMA HeldSame ==
    ASSUME HeldOnce, SettledImportAgrees, IInv,
           UNCHANGED <<requests, batch, promise, to, waiters>>,
           \A m \in Modules : Active(m) => Active(m)',
           \A m \in Modules : status[m] \in {"Evaluated", "Errored"} => status'[m] = status[m]
    PROVE  HeldOnce' /\ SettledImportAgrees'
<1>1. InLine' = InLine
  BY DEF InLine
<1>2. \A m \in Modules : \A p \in waiters'[m] : Waiting(p, m)'
  BY <1>1 DEF HeldOnce, Waiting, Active
<1>3. HeldOnce'
  BY <1>1, <1>2 DEF HeldOnce
<1>4. SettledImportAgrees'
  BY PromiseTypes DEF SettledImportAgrees
<1> QED
  BY <1>3, <1>4

(* A module is evaluated or fails, and settles the promises that wait for it. *)
LEMMA HeldSettle ==
    ASSUME IInv, HeldOnce, SettledImportAgrees, NEW t \in Modules, Active(t),
           UNCHANGED <<requests, batch, to>>,
           waiters' = [waiters EXCEPT ![t] = {}],
           NEW as, NEW s, status' = [status EXCEPT ![t] = s], Settle(waiters[t], as),
           \/ as = "fulfilled" /\ s = "Evaluated"
           \/ as = "rejected" /\ s = "Errored"
    PROVE  HeldOnce' /\ SettledImportAgrees'
<1>1. /\ promise \in [Promises -> {"unused", "pending", "fulfilled", "rejected"}]
      /\ to \in [Promises -> Modules \cup {Unresolved}]
      /\ waiters \in [Modules -> SUBSET Promises]
      /\ status \in [Modules -> Statuses] /\ InLine \subseteq Promises
      /\ Unresolved \notin Modules
  BY PromiseTypes, ModulesAssumption
<1>2. InLine' = InLine
  BY DEF InLine
<1>3. promise' = [p \in Promises |-> IF p \in waiters[t] THEN as ELSE promise[p]]
  BY DEF Settle
<1>4. \A p \in waiters[t] : promise[p] = "pending" /\ to[p] = t /\ p \notin InLine
  BY DEF HeldOnce, Waiting
<1>5. /\ waiters'[t] = {} /\ status'[t] = s
      /\ \A m \in Modules : m # t => waiters'[m] = waiters[m] /\ status'[m] = status[m]
  BY <1>1
<1>6. \A p \in Promises : p \notin waiters[t] => promise'[p] = promise[p]
  BY <1>3
<1>7. \A p \in waiters[t] : promise'[p] = as
  BY <1>1, <1>3
<1>8. \A m \in Modules : \A p \in waiters'[m] : Waiting(p, m)'
  <2> SUFFICES ASSUME NEW m \in Modules, NEW p \in waiters'[m]
               PROVE  Waiting(p, m)'
    OBVIOUS
  <2>1. m # t /\ p \in waiters[m] /\ p \in Promises
    BY <1>1, <1>5
  <2>2. Waiting(p, m)
    BY <2>1 DEF HeldOnce
  <2>3. p \notin waiters[t]
    BY <1>4, <2>1, <2>2 DEF Waiting
  <2> QED
    BY <1>2, <1>5, <1>6, <2>1, <2>2, <2>3 DEF Waiting
<1>9. \A p \in InLine' : promise'[p] = "pending"
  BY <1>1, <1>2, <1>4, <1>6 DEF HeldOnce
<1>10. \A p \in Promises : promise'[p] = "pending" =>
          p \in InLine' \/ (to'[p] \in Modules /\ p \in waiters'[to'[p]])
  <2> SUFFICES ASSUME NEW p \in Promises, promise'[p] = "pending", p \notin InLine
               PROVE  to[p] \in Modules /\ p \in waiters'[to[p]]
    BY <1>2
  <2>1. p \notin waiters[t]
    BY <1>7
  <2>2. promise[p] = "pending"
    BY <1>6, <2>1
  <2>3. to[p] \in Modules /\ p \in waiters[to[p]]
    BY <2>2 DEF HeldOnce
  <2> QED
    BY <1>5, <2>1, <2>3
<1>11. HeldOnce'
  BY <1>8, <1>9, <1>10 DEF HeldOnce
<1>12. SettledImportAgrees'
  <2> SUFFICES ASSUME NEW p \in Promises
               PROVE  /\ promise'[p] = "fulfilled" =>
                            to[p] # Unresolved /\ status'[to[p]] = "Evaluated"
                      /\ promise'[p] = "rejected" =>
                            to[p] = Unresolved \/ status'[to[p]] = "Errored"
    BY DEF SettledImportAgrees
  <2>1. CASE p \in waiters[t]
    BY <1>1, <1>4, <1>5, <1>7, <2>1
  <2>2. CASE p \notin waiters[t]
    <3>1. promise'[p] = promise[p] /\ to[p] \in Modules \cup {Unresolved}
      BY <1>1, <1>6, <2>2
    <3>2. status[t] \notin {"Evaluated", "Errored"}
      BY DEF Active
    <3> QED
      BY <1>5, <3>1, <3>2 DEF SettledImportAgrees
  <2> QED
    BY <2>1, <2>2
<1> QED
  BY <1>11, <1>12

(* import() makes a promise and puts it in line.                            *)
LEMMA HeldImport ==
    ASSUME IInv, HeldOnce, SettledImportAgrees, NEW target \in Importable, Import(target),
           UNCHANGED <<batch, waiters, status>>
    PROVE  HeldOnce' /\ SettledImportAgrees'
<1>1. /\ promise \in [Promises -> {"unused", "pending", "fulfilled", "rejected"}]
      /\ to \in [Promises -> Modules \cup {Unresolved}]
      /\ waiters \in [Modules -> SUBSET Promises] /\ requests \in Seq(Promises)
      /\ InLine \subseteq Promises
  BY PromiseTypes
<1>2. PICK p \in Promises :
         /\ promise[p] = "unused"
         /\ promise' = [promise EXCEPT ![p] = "pending"]
         /\ to' = [to EXCEPT ![p] = target]
         /\ requests' = Append(requests, p)
  BY DEF Import, Used
<1>3. p \notin InLine /\ \A m \in Modules : p \notin waiters[m]
  BY <1>2 DEF HeldOnce, Waiting
<1>4. ToSet(requests') = ToSet(requests) \cup {p} /\ InLine' = InLine \cup {p}
  BY <1>1, <1>2, Lines DEF InLine
<1>5. Once(requests')
  BY <1>1, <1>2, <1>3, Lines DEF HeldOnce, InLine
<1>6. \A q \in Promises : q # p => promise'[q] = promise[q] /\ to'[q] = to[q]
  BY <1>1, <1>2
<1>7. promise'[p] = "pending"
  BY <1>1, <1>2
<1>8. \A m \in Modules : \A q \in waiters'[m] : Waiting(q, m)'
  <2> SUFFICES ASSUME NEW m \in Modules, NEW q \in waiters[m]
               PROVE  Waiting(q, m)'
    OBVIOUS
  <2>1. q \in Promises /\ q # p /\ Waiting(q, m)
    BY <1>1, <1>3 DEF HeldOnce
  <2> QED
    BY <1>4, <1>6, <2>1 DEF Waiting
<1>9. \A q \in InLine' : promise'[q] = "pending"
  BY <1>1, <1>4, <1>6, <1>7 DEF HeldOnce
<1>10. ToSet(requests') \cap ToSet(batch') = {}
  BY <1>3, <1>4 DEF HeldOnce, InLine
<1>11. \A q \in Promises : promise'[q] = "pending" =>
          q \in InLine' \/ (to'[q] \in Modules /\ q \in waiters'[to'[q]])
  BY <1>4, <1>6 DEF HeldOnce
<1>12. HeldOnce'
  BY <1>5, <1>8, <1>9, <1>10, <1>11 DEF HeldOnce
<1>13. SettledImportAgrees'
  BY <1>6, <1>7 DEF SettledImportAgrees
<1> QED
  BY <1>12, <1>13

(* A request is settled from the state of its target.                       *)
LEMMA HeldSettleRequest ==
    ASSUME IInv, HeldOnce, SettledImportAgrees, ProcessRequest, SettleRequest(Head(batch))
    PROVE  HeldOnce' /\ SettledImportAgrees'
<1>1. /\ promise \in [Promises -> {"unused", "pending", "fulfilled", "rejected"}]
      /\ to \in [Promises -> Modules \cup {Unresolved}]
      /\ waiters \in [Modules -> SUBSET Promises] /\ batch \in Seq(Promises)
      /\ InLine \subseteq Promises
  BY PromiseTypes
<1>2. batch # <<>> /\ batch' = Tail(batch) /\ UNCHANGED <<requests, to, waiters, status>>
  BY DEF ProcessRequest, SettleRequest
<1>3. PICK p : p = Head(batch)
  OBVIOUS
<1>4. /\ p \in ToSet(batch) /\ p \in Promises
      /\ ToSet(batch) = ToSet(batch') \cup {p}
      /\ Once(batch') /\ p \notin ToSet(batch')
  BY <1>1, <1>2, <1>3, Lines DEF HeldOnce
<1>5. PICK as : /\ Settle({p}, as)
                /\ \/ as = "rejected" /\ (to[p] = Unresolved \/ status[to[p]] = "Errored")
                   \/ as = "fulfilled" /\ to[p] # Unresolved /\ status[to[p]] = "Evaluated"
  BY <1>3 DEF SettleRequest
<1>6. promise'[p] = as /\ \A q \in Promises : q # p => promise'[q] = promise[q]
  BY <1>4, <1>5 DEF Settle
<1>7. p \notin ToSet(requests) /\ InLine' = InLine \ {p}
  BY <1>2, <1>4 DEF HeldOnce, InLine
<1>8. \A m \in Modules : \A q \in waiters'[m] : Waiting(q, m)'
  <2> SUFFICES ASSUME NEW m \in Modules, NEW q \in waiters[m]
               PROVE  Waiting(q, m)'
    BY <1>2
  <2>1. q \in Promises /\ Waiting(q, m)
    BY <1>1 DEF HeldOnce
  <2>2. q # p
    BY <1>4, <2>1 DEF Waiting, InLine
  <2> QED
    BY <1>2, <1>6, <1>7, <2>1, <2>2 DEF Waiting
<1>9. \A q \in InLine' : promise'[q] = "pending"
  BY <1>1, <1>6, <1>7 DEF HeldOnce
<1>10. \A q \in Promises : promise'[q] = "pending" =>
          q \in InLine' \/ (to'[q] \in Modules /\ q \in waiters'[to'[q]])
  BY <1>2, <1>5, <1>6, <1>7 DEF HeldOnce
<1>11. ToSet(requests') \cap ToSet(batch') = {} /\ Once(requests')
  BY <1>2, <1>4 DEF HeldOnce
<1>12. HeldOnce'
  BY <1>4, <1>8, <1>9, <1>10, <1>11 DEF HeldOnce
<1>13. SettledImportAgrees'
  BY <1>2, <1>5, <1>6 DEF SettledImportAgrees
<1> QED
  BY <1>12, <1>13

(* A request waits for its target.                                          *)
LEMMA HeldAwait ==
    ASSUME IInv, HeldOnce, SettledImportAgrees, ProcessRequest, AwaitTarget(Head(batch))
    PROVE  HeldOnce' /\ SettledImportAgrees'
<1>1. /\ to \in [Promises -> Modules \cup {Unresolved}]
      /\ waiters \in [Modules -> SUBSET Promises] /\ batch \in Seq(Promises)
      /\ status \in [Modules -> Statuses] /\ InLine \subseteq Promises
  BY PromiseTypes
<1>2. PICK p \in Promises : p = Head(batch)
  BY AwaitEffect
<1>3. PICK m \in Modules : m = to[p]
  BY <1>2, AwaitEffect
<1>4. /\ batch # <<>> /\ batch' = Tail(batch) /\ UNCHANGED <<requests, to, promise>>
      /\ waiters' = [waiters EXCEPT ![m] = @ \cup {p}]
      /\ \/ status[m] \in {"Evaluating", "EvaluatingAsync"} /\ UNCHANGED status
         \/ status[m] = "Linked" /\ status' = [status EXCEPT ![m] = "Evaluating"]
  BY <1>2, <1>3, AwaitEffect
<1>5. /\ p \in ToSet(batch) /\ ToSet(batch) = ToSet(batch') \cup {p}
      /\ Once(batch') /\ p \notin ToSet(batch')
  BY <1>1, <1>2, <1>4, Lines DEF HeldOnce
<1>6. p \notin ToSet(requests) /\ InLine' = InLine \ {p}
  BY <1>4, <1>5 DEF HeldOnce, InLine
<1>7. /\ waiters'[m] = waiters[m] \cup {p}
      /\ \A x \in Modules : x # m => waiters'[x] = waiters[x] /\ status'[x] = status[x]
      /\ status'[m] \in {"Evaluating", "EvaluatingAsync"}
  BY <1>1, <1>4
<1>8. promise[p] = "pending" /\ p \notin InLine'
  BY <1>5, <1>6 DEF HeldOnce, InLine
<1>9. \A x \in Modules : \A q \in waiters'[x] : Waiting(q, x)'
  <2> SUFFICES ASSUME NEW x \in Modules, NEW q \in waiters'[x]
               PROVE  Waiting(q, x)'
    OBVIOUS
  <2>1. CASE x = m /\ q = p
    BY <1>3, <1>4, <1>7, <1>8, <2>1 DEF Waiting
  <2>2. CASE q \in waiters[x]
    <3>1. Waiting(q, x)
      BY <2>2 DEF HeldOnce
    <3>2. q \notin InLine'
      BY <1>6, <3>1 DEF Waiting
    <3>3. status'[x] \in {"Evaluating", "EvaluatingAsync"}
      BY <1>7, <3>1 DEF Waiting
    <3> QED
      BY <1>4, <3>1, <3>2, <3>3 DEF Waiting
  <2> QED
    BY <1>7, <2>1, <2>2
<1>10. \A q \in Promises : promise'[q] = "pending" =>
          q \in InLine' \/ (to'[q] \in Modules /\ q \in waiters'[to'[q]])
  <2> SUFFICES ASSUME NEW q \in Promises, promise[q] = "pending", q \notin InLine'
               PROVE  to[q] \in Modules /\ q \in waiters'[to[q]]
    BY <1>4
  <2>1. CASE q = p
    BY <1>3, <1>7, <2>1
  <2>2. CASE q # p
    BY <1>6, <1>7, <2>2 DEF HeldOnce
  <2> QED
    BY <2>1, <2>2
<1>11. \A q \in InLine' : promise'[q] = "pending"
  BY <1>4, <1>6 DEF HeldOnce
<1>12. ToSet(requests') \cap ToSet(batch') = {} /\ Once(requests')
  BY <1>4, <1>5 DEF HeldOnce
<1>13. HeldOnce'
  BY <1>5, <1>9, <1>10, <1>11, <1>12 DEF HeldOnce
<1>14. SettledImportAgrees'
  <2>1. status[m] \notin {"Evaluated", "Errored"}
    BY <1>4
  <2> QED
    BY <1>1, <1>4, <1>7, <2>1 DEF SettledImportAgrees
<1> QED
  BY <1>13, <1>14

(* Every step leaves each pending promise in one hand, and what was told      *)
(* about a module true.                                                     *)
LEMMA HeldStep ==
    ASSUME IInv, Nested, Turn, HeldOnce, SettledImportAgrees, [Next]_vars
    PROVE  HeldOnce' /\ SettledImportAgrees'
<1> DEFINE Done == HeldOnce' /\ SettledImportAgrees'
           Still == UNCHANGED <<requests, batch, promise, to, waiters>>
<1>0. status \in [Modules -> Statuses]
  BY DEF IInv, TypeOK
<1>1. ASSUME Still, UNCHANGED status PROVE Done
  BY <1>1, HeldSame DEF Active
<1>2. ASSUME Still, NEW t \in Modules, status[t] \notin {"Evaluated", "Errored"},
             NEW s \in {"Evaluating", "EvaluatingAsync"}, status' = [status EXCEPT ![t] = s]
      PROVE  Done
  <2>1. /\ status'[t] = s
        /\ \A m \in Modules : m # t => status'[m] = status[m]
    BY <1>0, <1>2
  <2>2. \A m \in Modules : Active(m) => Active(m)'
    BY <1>2, <2>1 DEF Active
  <2>3. \A m \in Modules : status[m] \in {"Evaluated", "Errored"} => status'[m] = status[m]
    BY <1>2, <2>1
  <2> QED
    BY <1>2, <2>2, <2>3, HeldSame
<1>3. ASSUME ~Idle
      PROVE  Top.mod \in Modules
             /\ (Top.op \in {"inner", "body", "return"} => Active(Top.mod))
  BY <1>3, OnTop DEF FrameOK, Frames, Active
<1>4. CASE EvaluateDependency
  <2>1. ~Idle /\ Top.todo # <<>> /\ Still
    BY <1>4, EvaluateEffect DEF vmVars, loopVars
  <2>2. PICK d \in Modules : d = Head(Top.todo)
    BY <2>1, OnTop, HeadTailProperties DEF Frames
  <2>3. \/ UNCHANGED status
        \/ status[d] = "Linked" /\ status' = [status EXCEPT ![d] = "Evaluating"]
    BY <1>4, <2>2, EvaluateEffect
  <2> QED
    BY <1>1, <1>2, <2>1, <2>3
<1>5. CASE WaitForDependencies
  BY <1>2, <1>3, <1>5, WaitEffect DEF MarkAsync, Active, vmVars, loopVars
<1>6. CASE Suspend
  BY <1>2, <1>3, <1>6, SuspendEffect DEF MarkAsync, Active, loopVars
<1>7. CASE /\ ~Idle /\ Top.op \in {"inner", "return"}
           /\ CompleteModule(Top.mod, Front(stack))
           /\ UNCHANGED <<requests, batch, to>>
  <2>1. PICK t \in Modules : t = Top.mod
    BY <1>3, <1>7
  <2>2. /\ Active(t) /\ status' = [status EXCEPT ![t] = "Evaluated"]
        /\ waiters' = [waiters EXCEPT ![t] = {}] /\ Settle(waiters[t], "fulfilled")
    BY <1>3, <1>7, <2>1 DEF CompleteModule
  <2> QED
    BY <1>7, <2>2, HeldSettle
<1>8. ASSUME ~Idle, Top.op \in {"inner", "body"},
             NEW kind \in {"exception", "fault", "linkError"}, Raise(kind)
      PROVE  Done
  <2>1. UNCHANGED <<requests, batch, to>>
    BY <1>8 DEF Raise
  <2>2. CASE \E t \in Modules :
               FailModule(t) /\ status[t] \in {"Evaluating", "EvaluatingAsync"}
    <3>1. PICK t \in Modules :
               FailModule(t) /\ status[t] \in {"Evaluating", "EvaluatingAsync"}
      BY <2>2
    <3>2. Active(t) /\ status' = [status EXCEPT ![t] = "Errored"]
          /\ waiters' = [waiters EXCEPT ![t] = {}] /\ Settle(waiters[t], "rejected")
      BY <3>1 DEF FailModule, Active
    <3> QED
      BY <2>1, <3>2, HeldSettle
  <2>3. CASE UNCHANGED <<status, waiters, promise, jobs>>
    BY <1>1, <2>1, <2>3
  <2> QED
    BY <1>8, <2>2, <2>3, RaiseEffect
<1>9. ASSUME \E target \in Importable : Import(target), UNCHANGED <<batch, waiters, status>>
      PROVE  Done
  BY <1>9, HeldImport
<1>10. CASE InnerEvaluation
  <2>1. CASE StartModule
    <3>1. CASE StartJson(Top.mod, Front(stack))
      BY <1>7, <2>1, <3>1 DEF StartModule, Running, StartJson, loopVars
    <3>2. CASE StartBody(Top.mod, Front(stack))
      BY <1>1, <3>2 DEF StartBody, graphVars, vmVars, loopVars
    <3> QED BY <2>1, <3>1, <3>2 DEF StartModule
  <2>2. CASE DependencyErrored
    BY <1>8, <2>2 DEF DependencyErrored, Running
  <2>3. CASE SkipDependency
    BY <1>1, <2>3 DEF SkipDependency, graphVars, vmVars, loopVars
  <2>4. CASE JoinDependency
    BY <1>1, <2>4, JoinEffect DEF vmVars, loopVars
  <2> QED
    BY <1>4, <1>5, <1>10, <2>1, <2>2, <2>3, <2>4 DEF InnerEvaluation
<1>11. CASE AsyncParents
  BY <1>1, <1>11, StartAvailableEffect, LeaveEffect DEF AsyncParents, graphVars, vmVars, loopVars
<1>12. CASE Body
  <2>1. CASE Throw
    BY <1>8, <2>1 DEF Throw, Running
  <2>2. CASE BodyCompleted
    BY <1>7, <2>2 DEF BodyCompleted, Running, loopVars
  <2>3. CASE ImportInBody
    BY <1>9, <2>3 DEF ImportInBody, graphVars, loopVars
  <2>4. CASE RunJob
    <3>1. UNCHANGED <<batch, waiters, status>>
      BY <2>4 DEF RunJob, graphVars, loopVars
    <3>2. UNCHANGED <<requests, to, promise>> \/ \E target \in Importable : Import(target)
      BY <2>4 DEF RunJob
    <3> QED BY <1>1, <1>9, <3>1, <3>2
  <2>5. CASE QueueJob \/ Return
    BY <1>1, <2>5 DEF QueueJob, Return, graphVars, vmVars, loopVars
  <2> QED
    BY <1>6, <1>12, <2>1, <2>2, <2>3, <2>4, <2>5 DEF Body
<1>13. CASE Evaluate
  <2>1. CASE ProcessRequest
    BY <2>1, HeldSettleRequest, HeldAwait DEF ProcessRequest
  <2>2. CASE TakeRequests
    <3>1. /\ batch = <<>> /\ batch' = requests /\ requests' = <<>>
          /\ UNCHANGED <<to, promise, waiters, status>>
      BY <2>2 DEF TakeRequests, Turn, graphVars
    <3>2. ToSet(batch) = {} /\ ToSet(requests') = {} /\ Once(requests')
      <4>1. PICK e \in Seq(Promises) : e = <<>>
        BY EmptySeq
      <4>2. ToSet(e) = {}
        BY <4>1, Lines
      <4>3. Once(e)
        BY <4>1 DEF Once
      <4> QED BY <3>1, <4>1, <4>2, <4>3
    <3>3. InLine' = InLine
      BY <3>1, <3>2 DEF InLine
    <3>4. \A m \in Modules : \A p \in waiters'[m] : Waiting(p, m)'
      BY <3>1, <3>3 DEF HeldOnce, Waiting
    <3>5. HeldOnce'
      BY <3>1, <3>2, <3>3, <3>4 DEF HeldOnce
    <3>6. SettledImportAgrees'
      BY <3>1 DEF SettledImportAgrees
    <3> QED BY <3>5, <3>6
  <2>3. CASE ResumeReady
    BY <1>1, <2>3, ResumeEffect DEF graphVars
  <2>4. CASE RunPromiseJobs \/ CollectReady \/ EndOfTurn \/ ReturnFromEvaluate
    BY <1>1, <2>4 DEF RunPromiseJobs, CollectReady, EndOfTurn, ReturnFromEvaluate,
                      graphVars, vmVars
  <2> QED
    BY <1>13, <2>1, <2>2, <2>3, <2>4 DEF Evaluate
<1>14. CASE UNCHANGED vars
  BY <1>1, <1>14 DEF vars, graphVars, vmVars, loopVars
<1> QED
  BY <1>10, <1>11, <1>12, <1>13, <1>14 DEF Next, Step, Terminating

-----------------------------------------------------------------------------
(* The turns of the loop.                                                   *)

(* A step of a call: the turn that made it has made progress.                *)
LEMMA TurnCall ==
    ASSUME IInv, Nested, Turn, ~Idle, UNCHANGED <<batch, progressed>>,
           phase' = phase \/ phase' = "end",
           outcome' = outcome \/ outcome' # "stuck"
    PROVE  Turn'
<1>1. phase \in {"entry", "imports", "resume"}
  BY OnTop DEF Visiting
<1>2. phase # "entry" => progressed
  BY <1>1 DEF Turn
<1>3. outcome' # "stuck"
  BY <1>1 DEF Turn
<1>4. phase = "entry" \/ phase = "resume" => batch = <<>>
  BY DEF Turn
<1> QED
  BY <1>1, <1>2, <1>3, <1>4 DEF Turn

(* The turn's account of what is left to do stays right.                    *)
LEMMA TurnStep ==
    ASSUME IInv, Nested, Turn, [Next]_vars
    PROVE  Turn'
<1>1. CASE InnerEvaluation
  <2>1. CASE DependencyErrored
    <3>1. ~Idle /\ Top.op = "inner" /\ Raise("linkError")
      BY <2>1 DEF DependencyErrored, Running
    <3>2. UNCHANGED <<batch, progressed>> /\ (phase' = phase \/ phase' = "end")
          /\ (outcome' = outcome \/ outcome' # "stuck")
      BY <3>1, RaiseEffect
    <3> QED BY <3>1, <3>2, TurnCall
  <2>2. CASE ~DependencyErrored
    <3>1. ~Idle /\ UNCHANGED loopVars
      BY <1>1, <2>2 DEF InnerEvaluation, SkipDependency, EvaluateDependency, JoinDependency,
         WaitForDependencies, StartModule, StartBody, StartJson, Running
    <3> QED BY <3>1, TurnCall DEF loopVars
  <2> QED BY <2>1, <2>2
<1>2. CASE AsyncParents
  <2>1. ~Idle /\ UNCHANGED loopVars
    BY <1>2, StartAvailableEffect, LeaveEffect DEF AsyncParents
  <2> QED BY <2>1, TurnCall DEF loopVars
<1>3. CASE Body
  <2>1. CASE Throw
    <3>1. PICK kind \in {"exception", "fault"} : ~Idle /\ Top.op = "body" /\ Raise(kind)
      BY <2>1 DEF Throw, Running
    <3>2. UNCHANGED <<batch, progressed>> /\ (phase' = phase \/ phase' = "end")
          /\ (outcome' = outcome \/ outcome' # "stuck")
      BY <3>1, RaiseEffect
    <3> QED BY <3>1, <3>2, TurnCall
  <2>2. CASE RunJob /\ Idle
    <3>1. /\ phase = "jobs" /\ jobs > 0 /\ UNCHANGED <<loopVars, stack>>
      BY <2>2 DEF RunJob, Draining, Running
    <3>2. progressed /\ batch = <<>> /\ outcome # "stuck"
      BY <3>1 DEF Turn
    <3> QED
      BY <3>1, <3>2 DEF Turn, loopVars
  <2>3. CASE ~Throw /\ ~(RunJob /\ Idle)
    <3>1. ~Idle /\ UNCHANGED loopVars
      BY <1>3, <2>3 DEF Body, ImportInBody, QueueJob, Suspend, Return, BodyCompleted, RunJob,
         Draining, Running
    <3> QED BY <3>1, TurnCall DEF loopVars
  <2> QED BY <2>1, <2>2, <2>3
<1>4. CASE TakeRequests
  BY <1>4 DEF TakeRequests, Turn, Idle
<1>5. CASE ProcessRequest
  <2>1. /\ phase = "imports" /\ batch # <<>>
        /\ UNCHANGED <<phase, progressed, outcome>>
    BY <1>5 DEF ProcessRequest
  <2>2. progressed /\ outcome # "stuck"
    BY <2>1 DEF Turn
  <2> QED
    BY <2>1, <2>2 DEF Turn
<1>6. CASE RunPromiseJobs
  <2>1. /\ Idle /\ phase = "imports" /\ batch = <<>> /\ phase' = "jobs"
        /\ progressed' = (progressed \/ jobs > 0)
        /\ UNCHANGED <<graphVars, vmVars, stack, batch, ready, outcome>>
    BY <1>6 DEF RunPromiseJobs
  <2>2. jobs \in Nat /\ progressed \in BOOLEAN
    BY DEF IInv, TypeOK
  <2>3. outcome # "stuck"
    BY <2>1 DEF Turn
  <2>4. ~progressed' => ~progressed /\ jobs = 0
    <3>1. ~progressed' => ~progressed /\ ~(jobs > 0)
      BY <2>1, <2>2
    <3>2. ~(jobs > 0) => jobs = 0
      BY <2>2
    <3> QED BY <3>1, <3>2
  <2>5. ~progressed' => Idle /\ requests = <<>> /\ jobs = 0
    BY <2>1, <2>4 DEF Turn
  <2>6. ~progressed' => Idle' /\ requests' = <<>> /\ jobs' = 0
    BY <2>1, <2>5 DEF Idle, vmVars
  <2> QED
    BY <2>1, <2>3, <2>6 DEF Turn
<1>7. CASE CollectReady
  <2>1. /\ Idle /\ phase = "jobs" /\ phase' = "resume"
        /\ ready' = {m \in Modules : Runnable(m)}
        /\ UNCHANGED <<graphVars, vmVars, stack, batch, progressed, outcome>>
    BY <1>7 DEF CollectReady, Runnable
  <2>2. outcome # "stuck" /\ batch = <<>>
        /\ (~progressed => Idle /\ requests = <<>> /\ jobs = 0)
    BY <2>1 DEF Turn
  <2>3. \A m \in Modules : Runnable(m)' => m \in ready'
    BY <2>1 DEF Runnable, IsReady, graphVars, vmVars
  <2> QED
    BY <2>1, <2>2, <2>3 DEF Turn, Idle, vmVars
<1>8. CASE ResumeReady
  <2>1. /\ phase = "resume" /\ UNCHANGED <<graphVars, requests, jobs, promise, phase, batch, outcome>>
    BY <1>8, ResumeEffect
  <2>2. outcome # "stuck" /\ batch = <<>>
    BY <2>1 DEF Turn
  <2>3. CASE progressed'
    BY <2>1, <2>2, <2>3 DEF Turn
  <2>4. CASE /\ UNCHANGED <<progressed, suspended, stack>>
             /\ \E m \in ready : ready' = ready \ {m} /\ ~Runnable(m)
    <3>1. PICK m \in ready : ready' = ready \ {m} /\ ~Runnable(m)
      BY <2>4
    <3>2. \A x \in Modules : Runnable(x)' => Runnable(x)
      BY <2>1, <2>4 DEF Runnable, IsReady, graphVars
    <3>3. ~progressed' => \A x \in Modules : Runnable(x)' => x \in ready'
      BY <2>1, <2>4, <3>1, <3>2 DEF Turn
    <3> QED
      BY <2>1, <2>2, <2>4, <3>3 DEF Turn, Idle
  <2> QED
    BY <1>8, <2>3, <2>4, ResumeEffect
<1>9. CASE EndOfTurn
  <2>1. /\ Idle /\ phase = "resume" /\ ready = {} /\ phase' = "check"
        /\ UNCHANGED <<graphVars, vmVars, stack, batch, ready, progressed, outcome>>
    BY <1>9 DEF EndOfTurn
  <2>2. outcome # "stuck" /\ batch = <<>>
        /\ (~progressed => Idle /\ requests = <<>> /\ jobs = 0
                           /\ \A m \in Modules : Runnable(m) => m \in ready)
    BY <2>1 DEF Turn
  <2>3. \A m \in Modules : Runnable(m)' => Runnable(m)
    BY <2>1 DEF Runnable, IsReady, graphVars, vmVars
  <2> QED
    BY <2>1, <2>2, <2>3 DEF Turn, Idle, vmVars
<1>10. CASE ReturnFromEvaluate
  <2>1. /\ phase = "check" /\ phase' = "end"
        /\ outcome' = "stuck" => ~progressed
        /\ UNCHANGED <<graphVars, vmVars, stack, batch, ready, progressed>>
    BY <1>10 DEF ReturnFromEvaluate, EndWith
  <2>2. batch = <<>> /\ (~progressed => requests = <<>> /\ jobs = 0
                                        /\ \A m \in Modules : ~Runnable(m))
    BY <2>1 DEF Turn
  <2>3. \A m \in Modules : Runnable(m)' => Runnable(m)
    BY <2>1 DEF Runnable, IsReady, graphVars, vmVars
  <2> QED
    BY <2>1, <2>2, <2>3 DEF Turn, vmVars
<1>11. CASE UNCHANGED vars
  <2>1. \A m \in Modules : Runnable(m)' <=> Runnable(m)
    BY <1>11 DEF vars, Runnable, IsReady, graphVars, vmVars
  <2> QED
    BY <1>11, <2>1 DEF vars, Turn, Idle, vmVars, loopVars
<1> QED
  BY <1>1, <1>2, <1>3, <1>4, <1>5, <1>6, <1>7, <1>8, <1>9, <1>10, <1>11
     DEF Next, Step, Terminating, Evaluate

-----------------------------------------------------------------------------
(* The order in which bodies start.                                         *)

(* A body is started at most once, so runs[p] + 1 is more than none.         *)
LEMMA Started ==
    ASSUME IInv, NEW p \in Modules, runs' = [runs EXCEPT ![p] = @ + 1]
    PROVE  runs'[p] > 0 /\ \A m \in Modules : m # p => runs'[m] = runs[m]
<1>1. runs \in [Modules -> Nat]
  BY DEF IInv, TypeOK
<1>2. runs'[p] = runs[p] + 1 /\ runs[p] \in Nat
  BY <1>1
<1>3. runs'[p] > 0
  BY <1>2
<1> QED
  BY <1>1, <1>3

(* The calls before and after a step: new ones are of modules nobody visited  *)
(* or that were asynchronous, and available parents are passed on, started,   *)
(* or given up with the whole run.                                          *)
Enters(m) == status[m] \in {"Linked", "EvaluatingAsync"}

LEMMA Calling ==
    ASSUME IInv, Nested, [Next]_vars
    PROVE  \/ UNCHANGED stack
           \/ /\ Len(stack') = 0
              /\ phase' = "end" \/ \A i \in 1 .. Len(stack) : stack[i].avail = {}
           \/ ~Idle /\ Returns /\ Top.avail = {}
           \/ /\ ~Idle
              /\ \E f \in Frames : Replaces(f) /\ f.mod = Top.mod /\ Top.avail \subseteq f.avail
           \/ /\ ~Idle
              /\ \E g, f \in Frames :
                    /\ Adds(g, f) /\ g.mod = Top.mod /\ Enters(f.mod)
                    /\ \A p \in Top.avail : p \in g.avail \/ runs'[p] > 0
                    /\ Visiting' => Top.op = "inner" /\ f.mod \in ToSet(Top.todo)
           \/ Len(stack) = 0 /\ Len(stack') = 1 /\ Enters(stack'[1].mod)
<1> DEFINE Goal == \/ UNCHANGED stack
                   \/ /\ Len(stack') = 0
                      /\ phase' = "end" \/ \A i \in 1 .. Len(stack) : stack[i].avail = {}
                   \/ ~Idle /\ Returns /\ Top.avail = {}
                   \/ /\ ~Idle
                      /\ \E f \in Frames : Replaces(f) /\ f.mod = Top.mod /\ Top.avail \subseteq f.avail
                   \/ /\ ~Idle
                      /\ \E g, f \in Frames :
                            /\ Adds(g, f) /\ g.mod = Top.mod /\ Enters(f.mod)
                            /\ \A p \in Top.avail : p \in g.avail \/ runs'[p] > 0
                            /\ Visiting' => Top.op = "inner" /\ f.mod \in ToSet(Top.todo)
                   \/ Len(stack) = 0 /\ Len(stack') = 1 /\ Enters(stack'[1].mod)
<1>1. ASSUME ~Idle
      PROVE  /\ Top.op # "complete" => Top.avail = {}
             /\ Top \in Frames
  BY <1>1, OnTop DEF FrameOK
<1>2. ASSUME ~Idle, Top.op \in {"inner", "body"},
             NEW kind \in {"exception", "fault", "linkError"}, Raise(kind)
      PROVE  Goal
  BY <1>2, RaiseEffect
<1>3. CASE /\ ~Idle /\ Top.op \in {"inner", "return"}
           /\ CompleteModule(Top.mod, Front(stack))
  BY <1>1, <1>3, CompleteEffect
<1>4. CASE EvaluateDependency
  <2>1. ~Idle /\ Top.op = "inner" /\ Top.todo # <<>>
    BY <1>4, EvaluateEffect
  <2>2. PICK g \in Frames :
           /\ g.mod = Top.mod
           /\ \/ Replaces(g)
              \/ status[Head(Top.todo)] = "Linked" /\ Adds(g, Inner(Head(Top.todo)))
    BY <1>4, EvaluateEffect
  <2>3. Head(Top.todo) \in Modules /\ Head(Top.todo) \in ToSet(Top.todo)
    BY <1>1, <2>1, HeadTailProperties, Lines DEF Frames
  <2>4. PICK f \in Frames : f = Inner(Head(Top.todo))
    BY <2>3, InnerType DEF IInv
  <2>5. f.mod = Head(Top.todo)
    BY <2>4 DEF Inner, Frame
  <2>6. Top.avail = {}
    BY <1>1, <2>1
  <2>7. CASE Replaces(g)
    BY <2>1, <2>2, <2>6, <2>7
  <2>8. CASE status[f.mod] = "Linked" /\ Adds(g, f)
    BY <2>1, <2>2, <2>3, <2>5, <2>6, <2>8 DEF Enters
  <2> QED
    BY <2>2, <2>4, <2>5, <2>7, <2>8
<1>5. CASE InnerEvaluation
  <2>1. CASE StartModule
    <3>1. CASE StartJson(Top.mod, Front(stack))
      BY <1>3, <2>1, <3>1 DEF StartModule, Running, StartJson
    <3>2. CASE ~StartJson(Top.mod, Front(stack))
      <4>1. ~Idle /\ Top.op = "inner"
        BY <2>1, <3>2, StartEffect
      <4>2. PICK f \in Frames : Replaces(f) /\ f.mod = Top.mod
        BY <2>1, <3>2, StartEffect
      <4> QED BY <1>1, <4>1, <4>2
    <3> QED BY <3>1, <3>2
  <2>2. CASE DependencyErrored
    BY <1>2, <2>2 DEF DependencyErrored, Running
  <2>3. CASE SkipDependency
    <3>1. ~Idle /\ Top.op = "inner"
      BY <2>3, SkipEffect
    <3>2. PICK f \in Frames : Replaces(f) /\ f.mod = Top.mod
      BY <2>3, SkipEffect
    <3> QED BY <1>1, <3>1, <3>2
  <2>4. CASE JoinDependency
    <3>1. ~Idle /\ Top.op = "join"
      BY <2>4, JoinEffect
    <3>2. PICK f \in Frames : Replaces(f) /\ f.mod = Top.mod
      BY <2>4, JoinEffect
    <3> QED BY <1>1, <3>1, <3>2
  <2>5. CASE WaitForDependencies
    BY <1>1, <2>5, WaitEffect
  <2> QED
    BY <1>4, <1>5, <2>1, <2>2, <2>3, <2>4, <2>5 DEF InnerEvaluation
<1>6. CASE AsyncParents
  <2>1. CASE StartAvailable
    <3>1. ~Idle /\ ~Visiting'
      BY <2>1, StartAvailableEffect DEF Visiting, loopVars
    <3>2. PICK p \in Top.avail, g \in Frames, f \in Frames :
             /\ p \in Modules /\ status[p] = "EvaluatingAsync"
             /\ runs' = [runs EXCEPT ![p] = @ + 1]
             /\ g.mod = Top.mod /\ g.avail = Top.avail \ {p} /\ f.mod = p /\ Adds(g, f)
      BY <2>1, StartAvailableEffect
    <3>3. runs'[p] > 0
      BY <3>2, Started
    <3>4. \A q \in Top.avail : q \in g.avail \/ runs'[q] > 0
      BY <3>2, <3>3
    <3> QED BY <3>1, <3>2, <3>4 DEF Enters
  <2>2. CASE ReturnFromComplete
    BY <2>2, LeaveEffect
  <2> QED BY <1>6, <2>1, <2>2 DEF AsyncParents
<1>7. CASE Body
  <2>1. CASE Throw
    BY <1>2, <2>1 DEF Throw, Running
  <2>2. CASE BodyCompleted
    BY <1>3, <2>2 DEF BodyCompleted, Running
  <2>3. CASE Suspend
    BY <1>1, <2>3, SuspendEffect
  <2>4. CASE Return
    <3>1. ~Idle /\ Top.op = "body"
      BY <2>4, ReturnEffect
    <3>2. PICK f \in Frames : Replaces(f) /\ f.mod = Top.mod
      BY <2>4, ReturnEffect
    <3> QED BY <1>1, <3>1, <3>2
  <2>5. CASE ImportInBody \/ QueueJob \/ RunJob
    BY <2>5 DEF ImportInBody, QueueJob, RunJob
  <2> QED
    BY <1>7, <2>1, <2>2, <2>3, <2>4, <2>5 DEF Body
<1>8. CASE Evaluate
  <2>1. CASE ProcessRequest
    <3>1. CASE SettleRequest(Head(batch))
      BY <3>1 DEF SettleRequest
    <3>2. CASE AwaitTarget(Head(batch))
      <4>1. PICK t \in Modules : t = to[Head(batch)]
        BY <2>1, <3>2, AwaitEffect
      <4>2. \/ UNCHANGED stack
            \/ /\ Len(stack) = 0 /\ Len(stack') = 1 /\ stack'[1] = Inner(t)
               /\ status[t] = "Linked"
        BY <2>1, <3>2, <4>1, AwaitEffect
      <4>3. PICK f : f = Inner(t)
        OBVIOUS
      <4>4. f.mod = t
        BY <4>3 DEF Inner, Frame
      <4> QED BY <4>2, <4>3, <4>4 DEF Enters
    <3> QED BY <2>1, <3>1, <3>2 DEF ProcessRequest
  <2>2. CASE ResumeReady
    BY <2>2, ResumeEffect DEF Enters
  <2>3. CASE TakeRequests \/ RunPromiseJobs \/ CollectReady \/ EndOfTurn \/ ReturnFromEvaluate
    BY <2>3 DEF TakeRequests, RunPromiseJobs, CollectReady, EndOfTurn, ReturnFromEvaluate
  <2> QED
    BY <1>8, <2>1, <2>2, <2>3 DEF Evaluate
<1>9. CASE UNCHANGED vars
  BY <1>9 DEF vars
<1> QED
  BY <1>5, <1>6, <1>7, <1>8, <1>9 DEF Next, Step, Terminating

(* A call after the step is one of before, or enters its module.             *)
LEMMA NewCalls ==
    ASSUME IInv, Nested, [Next]_vars, NEW x, InProgress(x)'
    PROVE  InProgress(x) \/ Enters(x)
<1>1. PICK j \in 1 .. Len(stack') : stack'[j].mod = x
  BY DEF InProgress
<1>2. CASE ~Idle
  <2>1. /\ Len(stack) \in 1 .. Len(stack) /\ Top = stack[Len(stack)]
        /\ Len(stack) \in Nat \ {0}
    BY <1>2, OnTop
  <2>2. PICK n \in Nat \ {0} : n = Len(stack)
    BY <2>1
  <2>3. InProgress(Top.mod)
    BY <2>1 DEF InProgress
  <2>4. ASSUME SameBelow, j \in 1 .. n - 1 PROVE InProgress(x)
    <3>1. j \in 1 .. n
      BY <2>4
    <3> QED BY <1>1, <2>2, <2>4, <3>1 DEF SameBelow, InProgress
  <2>5. \A i \in 1 .. n + 1 : i \in 1 .. n - 1 \/ i = n \/ i = n + 1
    OBVIOUS
  <2>6. \A i \in 1 .. n : i \in 1 .. n - 1 \/ i = n
    OBVIOUS
  <2>7. CASE UNCHANGED stack
    BY <1>1, <2>7 DEF InProgress
  <2>8. CASE Len(stack') = 0
    BY <1>1, <2>8
  <2>9. CASE Returns
    BY <2>2, <2>4, <2>9 DEF Returns
  <2>10. CASE \E f \in Frames : Replaces(f) /\ f.mod = Top.mod
    BY <1>1, <2>2, <2>3, <2>4, <2>6, <2>10 DEF Replaces
  <2>11. CASE \E g, f \in Frames : Adds(g, f) /\ g.mod = Top.mod /\ Enters(f.mod)
    BY <1>1, <2>2, <2>3, <2>4, <2>5, <2>11 DEF Adds
  <2>12. Len(stack) # 0
    BY <2>1
  <2> QED
    BY <2>7, <2>8, <2>9, <2>10, <2>11, <2>12, Calling
<1>3. CASE Idle
  <2>1. Len(stack) = 0
    BY <1>3 DEF Idle
  <2>2. CASE UNCHANGED stack
    BY <1>1, <2>2 DEF InProgress
  <2>3. CASE Len(stack') = 1 /\ Enters(stack'[1].mod)
    <3>1. j = 1
      BY <2>3
    <3> QED BY <1>1, <2>3, <3>1
  <2>4. CASE Len(stack') = 0
    BY <1>1, <2>4
  <2> QED
    BY <1>3, <2>2, <2>3, <2>4, Calling
<1> QED
  BY <1>2, <1>3

(* An available parent stays so until it is started, or the run ends.         *)
LEMMA StillAvailable ==
    ASSUME IInv, Nested, [Next]_vars, phase' # "end",
           NEW i \in 1 .. Len(stack), NEW d \in stack[i].avail
    PROVE  runs'[d] > 0 \/ \E j \in 1 .. Len(stack') : d \in stack'[j].avail
<1>1. ~Idle
  BY DEF Idle
<1>2. /\ Len(stack) \in Nat \ {0} /\ Top = stack[Len(stack)]
  BY <1>1, OnTop
<1>3. PICK n \in Nat \ {0} : n = Len(stack)
  BY <1>2
<1>4. i \in 1 .. n - 1 \/ i = n
  BY <1>3
<1>5. ASSUME SameBelow, i \in 1 .. n - 1 PROVE d \in stack'[i].avail
  BY <1>3, <1>5 DEF SameBelow
<1>6. i = n => d \in Top.avail
  BY <1>2, <1>3
<1>7. i \in 1 .. n /\ (i \in 1 .. n - 1 => i \in 1 .. n + 1) /\ n \in 1 .. n /\ n \in 1 .. n + 1
  BY <1>3
<1>8. CASE UNCHANGED stack
  BY <1>8
<1>9. CASE Len(stack') = 0 /\ \A k \in 1 .. Len(stack) : stack[k].avail = {}
  BY <1>9
<1>10. CASE Returns /\ Top.avail = {}
  BY <1>3, <1>4, <1>5, <1>6, <1>10 DEF Returns
<1>11. CASE \E f \in Frames : Replaces(f) /\ Top.avail \subseteq f.avail
  BY <1>3, <1>4, <1>5, <1>6, <1>7, <1>11 DEF Replaces
<1>12. CASE \E g, f \in Frames :
              Adds(g, f) /\ \A p \in Top.avail : p \in g.avail \/ runs'[p] > 0
  BY <1>3, <1>4, <1>5, <1>6, <1>7, <1>12 DEF Adds
<1>13. Len(stack) # 0
  BY <1>2
<1> QED
  BY <1>8, <1>9, <1>10, <1>11, <1>12, <1>13, Calling

(* Which steps make a module asynchronous or register a parent; the others    *)
(* only drop the parents of modules that are evaluated or become available.  *)
Delisted(d) ==
    parents'[d] = {}
    /\ (status'[d] = "Evaluated" \/ \E i \in 1 .. Len(stack') : d \in stack'[i].avail)

LEMMA Marking ==
    ASSUME IInv, Nested, [Next]_vars
    PROVE  \/ WaitForDependencies \/ Suspend \/ JoinDependency
           \/ /\ UNCHANGED <<order, nextOrder>>
              /\ \A m \in Modules : status'[m] = "EvaluatingAsync" =>
                    status[m] = "EvaluatingAsync"
              /\ \A d \in Modules : parents'[d] = parents[d] \/ Delisted(d)
<1> DEFINE Quiet == /\ UNCHANGED <<order, nextOrder>>
                    /\ \A m \in Modules : status'[m] = "EvaluatingAsync" =>
                          status[m] = "EvaluatingAsync"
                    /\ \A d \in Modules : parents'[d] = parents[d] \/ Delisted(d)
<1>0. status \in [Modules -> Statuses]
  BY DEF IInv, TypeOK
<1>1. ASSUME UNCHANGED <<order, nextOrder, parents>>, UNCHANGED status
      PROVE  Quiet
  BY <1>1
<1>2. ASSUME UNCHANGED <<order, nextOrder, parents>>, NEW t \in Modules,
             NEW s \in {"Evaluating", "Errored"}, status' = [status EXCEPT ![t] = s]
      PROVE  Quiet
  BY <1>0, <1>2
<1>3. ASSUME ~Idle, Top.op \in {"inner", "body"},
             NEW kind \in {"exception", "fault", "linkError"}, Raise(kind)
      PROVE  Quiet
  <2>1. UNCHANGED <<order, nextOrder, parents>>
    BY <1>3, RaiseEffect
  <2>2. UNCHANGED status \/ \E t \in Modules : FailModule(t)
    BY <1>3, RaiseEffect
  <2> QED
    BY <1>1, <1>2, <2>1, <2>2 DEF FailModule
<1>4. ASSUME ~Idle, Top.op \in {"inner", "return"}, CompleteModule(Top.mod, Front(stack)),
             UNCHANGED <<order, nextOrder>>
      PROVE  Quiet
  <2>1. /\ Top.mod \in Modules
        /\ status' = [status EXCEPT ![Top.mod] = "Evaluated"]
    BY <1>4, CompleteEffect
  <2>2. PICK f \in Frames :
           /\ Replaces(f) /\ f.avail \subseteq Modules
           /\ parents' = [d \in Modules |-> IF d = Top.mod \/ d \in f.avail THEN {}
                                            ELSE parents[d]]
    BY <1>4, CompleteEffect
  <2>3. Len(stack) \in 1 .. Len(stack) /\ Len(stack') = Len(stack) /\ stack'[Len(stack)] = f
    BY <1>4, <2>2, OnTop DEF Replaces
  <2>4. \A m \in Modules : status'[m] = "EvaluatingAsync" => status[m] = "EvaluatingAsync"
    BY <1>0, <2>1
  <2>5. status'[Top.mod] = "Evaluated"
    BY <1>0, <2>1
  <2>6. \A d \in Modules : parents'[d] = parents[d] \/ Delisted(d)
    BY <2>2, <2>3, <2>5 DEF Delisted
  <2> QED BY <1>4, <2>4, <2>6
<1>5. CASE EvaluateDependency
  <2>1. ~Idle /\ Top.todo # <<>>
    BY <1>5, EvaluateEffect
  <2>2. Head(Top.todo) \in Modules
    BY <2>1, OnTop, HeadTailProperties DEF Frames
  <2>3. UNCHANGED <<order, nextOrder, parents>>
    BY <1>5, EvaluateEffect
  <2>4. UNCHANGED status \/ status' = [status EXCEPT ![Head(Top.todo)] = "Evaluating"]
    BY <1>5, EvaluateEffect
  <2> QED
    BY <1>1, <1>2, <2>2, <2>3, <2>4
<1>6. CASE StartModule
  <2>1. CASE StartJson(Top.mod, Front(stack))
    BY <1>4, <1>6, <2>1 DEF StartModule, Running, StartJson
  <2>2. CASE StartBody(Top.mod, Front(stack))
    BY <1>1, <2>2 DEF StartBody, graphVars
  <2> QED BY <1>6, <2>1, <2>2 DEF StartModule
<1>7. CASE DependencyErrored \/ Throw
  BY <1>3, <1>7 DEF DependencyErrored, Throw, Running
<1>8. CASE BodyCompleted
  BY <1>4, <1>8 DEF BodyCompleted, Running
<1>9. CASE SkipDependency \/ AsyncParents
  BY <1>1, <1>9, SkipEffect, StartAvailableEffect, LeaveEffect DEF AsyncParents, graphVars
<1>10. CASE ImportInBody \/ QueueJob \/ Return \/ RunJob
  BY <1>1, <1>10 DEF ImportInBody, QueueJob, Return, RunJob, graphVars
<1>11. CASE ProcessRequest
  <2>1. CASE SettleRequest(Head(batch))
    BY <1>1, <1>11, <2>1 DEF SettleRequest, ProcessRequest
  <2>2. CASE AwaitTarget(Head(batch))
    BY <1>1, <1>2, <1>11, <2>2, AwaitEffect
  <2> QED BY <1>11, <2>1, <2>2 DEF ProcessRequest
<1>12. CASE Evaluate
  BY <1>1, <1>11, <1>12
     DEF Evaluate, TakeRequests, RunPromiseJobs, CollectReady, ResumeReady, EndOfTurn,
         ReturnFromEvaluate, graphVars
<1>13. CASE UNCHANGED vars
  BY <1>1, <1>13 DEF vars, graphVars
<1> QED
  BY <1>5, <1>6, <1>7, <1>8, <1>9, <1>10, <1>12, <1>13
     DEF Next, Step, Terminating, InnerEvaluation, Body

(* A module that becomes asynchronous is the last one of all.                 *)
LEMMA NumberedMark ==
    ASSUME IInv, Numbered, NEW m \in Modules, status[m] \in {"Evaluating", "EvaluatingAsync"},
           MarkAsync(m), UNCHANGED parents
    PROVE  /\ Numbered'
           /\ \A d \in Modules : order[d] # NoOrder => order'[d] = order[d]
<1>1. /\ status \in [Modules -> Statuses] /\ order \in [Modules -> Nat \cup {NoOrder}]
      /\ nextOrder \in Nat /\ parents \in [Modules -> SUBSET Modules]
  BY DEF IInv, TypeOK
<1>2. status' = [status EXCEPT ![m] = "EvaluatingAsync"]
  BY DEF MarkAsync
<1>3. CASE order[m] = NoOrder
  <2>1. order' = [order EXCEPT ![m] = nextOrder] /\ nextOrder' = nextOrder + 1
    BY <1>3 DEF MarkAsync
  <2>2. \A d \in Modules : order[d] < nextOrder
    BY DEF Numbered
  <2>3. order'[m] = nextOrder /\ \A d \in Modules : d # m => order'[d] = order[d]
    BY <1>1, <2>1
  <2>4. \A d \in Modules : order'[d] < nextOrder'
    <3>1. \A d \in Modules : order[d] \in Int /\ order[d] < nextOrder
      BY <1>1, <2>2 DEF NoOrder
    <3> QED BY <1>1, <2>1, <2>3, <3>1
  <2>5. nextOrder # NoOrder
    BY <1>1 DEF NoOrder
  <2>6. ASSUME NEW d \in Modules, NEW x \in Modules, x \in parents'[d]
        PROVE  order'[d] # NoOrder /\ (order'[x] # NoOrder => order'[d] < order'[x])
    <3>1. order[d] # NoOrder /\ (order[x] # NoOrder => order[d] < order[x])
      BY <2>6 DEF Numbered
    <3>2. d # m
      BY <1>3, <3>1
    <3> QED BY <2>2, <2>3, <3>1, <3>2
  <2> QED
    BY <1>1, <1>2, <1>3, <2>3, <2>4, <2>5, <2>6 DEF Numbered
<1>4. CASE order[m] # NoOrder
  <2>1. UNCHANGED <<order, nextOrder>>
    BY <1>4 DEF MarkAsync
  <2> QED
    BY <1>1, <1>2, <1>4, <2>1 DEF Numbered
<1> QED
  BY <1>3, <1>4

LEMMA NumberedStep ==
    ASSUME IInv, Nested, Numbered, [Next]_vars
    PROVE  /\ Numbered'
           /\ \A d \in Modules : order[d] # NoOrder => order'[d] = order[d]
<1>0. parents \in [Modules -> SUBSET Modules]
  BY DEF IInv, TypeOK
<1>1. CASE WaitForDependencies \/ Suspend
  <2>1. /\ ~Idle /\ Top.op \in {"inner", "body"} /\ MarkAsync(Top.mod) /\ UNCHANGED parents
    BY <1>1, WaitEffect, SuspendEffect
  <2>2. Top.mod \in Modules /\ status[Top.mod] \in {"Evaluating", "EvaluatingAsync"}
    BY <2>1, OnTop DEF Frames, FrameOK
  <2> QED
    BY <2>1, <2>2, NumberedMark
<1>2. CASE JoinDependency
  <2>1. /\ ~Idle /\ Top.op = "join" /\ UNCHANGED <<status, order, nextOrder>>
        /\ Head(Top.todo) \in Modules
        /\ parents' = IF status[Head(Top.todo)] = "EvaluatingAsync"
                           THEN [parents EXCEPT ![Head(Top.todo)] = @ \cup {Top.mod}]
                           ELSE parents
    BY <1>2, JoinEffect
  <2>2. Top.mod \in Modules /\ status[Top.mod] = "Evaluating"
    BY <2>1, OnTop DEF Frames, FrameOK
  <2>3. order[Top.mod] = NoOrder
    BY <2>2 DEF Numbered
  <2>4. ASSUME NEW d \in Modules, NEW x \in Modules, x \in parents'[d]
        PROVE  order[d] # NoOrder /\ (order[x] # NoOrder => order[d] < order[x])
    <3>1. x \in parents[d] \/ (x = Top.mod /\ status[d] = "EvaluatingAsync")
      BY <1>0, <2>1, <2>4
    <3> QED BY <2>3, <3>1 DEF Numbered
  <2> QED
    BY <2>1, <2>4 DEF Numbered
<1>3. CASE /\ UNCHANGED <<order, nextOrder>>
           /\ \A m \in Modules : status'[m] = "EvaluatingAsync" =>
                 status[m] = "EvaluatingAsync"
           /\ \A d \in Modules : parents'[d] = parents[d] \/ Delisted(d)
  <2>1. \A m \in Modules : status'[m] \in {"Linked", "Evaluating"} =>
                           status[m] \in {"Linked", "Evaluating"}
    BY StatusStep DEF Advances
  <2>2. \A d \in Modules : parents'[d] \subseteq parents[d]
    BY <1>3 DEF Delisted
  <2> QED
    BY <1>3, <2>1, <2>2 DEF Numbered
<1> QED
  BY <1>1, <1>2, <1>3, Marking

-----------------------------------------------------------------------------
(* What is said of a dependency stays true.                                  *)

(* The graph never changes, and a body that was started stays so.             *)
LEMMA Kept ==
    ASSUME IInv, Nested, [Next]_vars
    PROVE  /\ deps' = deps
           /\ \A m \in Modules : runs[m] > 0 => runs'[m] > 0
           /\ Visiting' => Visiting \/ (Idle /\ UNCHANGED stack)
<1>0. runs \in [Modules -> Nat]
  BY DEF IInv, TypeOK
<1>1. ASSUME UNCHANGED runs PROVE \A m \in Modules : runs[m] > 0 => runs'[m] > 0
  BY <1>1
<1>2. ASSUME NEW p \in Modules, runs' = [runs EXCEPT ![p] = @ + 1]
      PROVE  \A m \in Modules : runs[m] > 0 => runs'[m] > 0
  <2>1. runs'[p] > 0 /\ \A m \in Modules : m # p => runs'[m] = runs[m]
    BY <1>2, Started
  <2> QED BY <2>1
<1>3. ASSUME ~Idle, NEW kind \in {"exception", "fault", "linkError"}, Raise(kind)
      PROVE  UNCHANGED <<deps, runs>> /\ (Visiting' => Visiting)
  BY <1>3 DEF Raise, history, Visiting, EndWith
<1>4. CASE StartModule
  <2>1. CASE StartJson(Top.mod, Front(stack))
    BY <1>1, <2>1 DEF StartJson, history, loopVars, Visiting
  <2>2. CASE ~StartJson(Top.mod, Front(stack))
    BY <1>2, <1>4, <2>2, StartEffect DEF graphVars, loopVars, Visiting
  <2> QED BY <2>1, <2>2
<1>5. CASE StartAvailable
  BY <1>2, <1>5, StartAvailableEffect DEF graphVars, loopVars, Visiting
<1>6. CASE DependencyErrored \/ Throw
  BY <1>1, <1>3, <1>6 DEF DependencyErrored, Throw, Running
<1>7. CASE SkipDependency \/ EvaluateDependency \/ JoinDependency \/ WaitForDependencies
  BY <1>1, <1>7
     DEF SkipDependency, EvaluateDependency, JoinDependency, WaitForDependencies,
         graphVars, loopVars, history, Visiting
<1>8. CASE ReturnFromComplete \/ ImportInBody \/ QueueJob \/ Suspend \/ Return
           \/ BodyCompleted \/ RunJob
  BY <1>1, <1>8
     DEF ReturnFromComplete, ImportInBody, QueueJob, Suspend, Return, BodyCompleted, RunJob,
         graphVars, loopVars, history, Visiting
<1>9. CASE Evaluate
  BY <1>1, <1>9
     DEF Evaluate, TakeRequests, ProcessRequest, RunPromiseJobs, CollectReady, ResumeReady,
         EndOfTurn, ReturnFromEvaluate, EndWith, graphVars, history, Visiting
<1>10. CASE UNCHANGED vars
  BY <1>1, <1>10 DEF vars, graphVars, loopVars, history, Visiting
<1> QED
  BY <1>4, <1>5, <1>6, <1>7, <1>8, <1>9, <1>10
     DEF Next, Step, Terminating, InnerEvaluation, AsyncParents, Body

(* Reachability follows one more edge, and starts at the module itself.       *)
LEMMA ReachesFurther ==
    ASSUME NEW m \in Modules, NEW n \in Modules, Reaches(m, n), NEW d \in ToSet(deps[n])
    PROVE  Reaches(m, d)
<1> SUFFICES ASSUME NEW S \in SUBSET Modules, m \in S, \A x \in S : ToSet(deps[x]) \subseteq S
             PROVE  d \in S
  BY DEF Reaches
<1>1. n \in S
  BY DEF Reaches
<1> QED
  BY <1>1

LEMMA ReachesItself ==
    ASSUME NEW m \in Modules
    PROVE  Reaches(m, m)
BY DEF Reaches

(* A dependency before m stays before it.                                    *)
LEMMA BeforeKept ==
    ASSUME IInv, Nested, [Next]_vars, NEW d \in Modules, NEW m \in Modules, Before(d, m)
    PROVE  Before(d, m)'
<1>0. Advances(d)
  BY StatusStep
<1>1. CASE runs[d] > 0
  BY <1>1, Kept DEF Before
<1>2. CASE status[d] = "Evaluated"
  BY <1>0, <1>2 DEF Before, Advances, Active
<1>3. CASE Reaches(d, m)
  <2>1. deps' = deps
    BY Kept
  <2>2. Reaches(d, m)'
    BY <1>3, <2>1 DEF Reaches
  <2> QED BY <2>2 DEF Before
<1>4. CASE Abandoned(d)
  <2>1. status[d] = "Evaluating" /\ ~InProgress(d)
    BY <1>4 DEF Abandoned, InProgress
  <2>2. status'[d] = "Evaluating"
    BY <1>0, <2>1 DEF Advances
  <2>3. ~InProgress(d)'
    BY <2>1, NewCalls DEF Enters
  <2>4. Abandoned(d)'
    BY <2>2, <2>3 DEF Abandoned, InProgress
  <2> QED BY <2>4 DEF Before
<1> QED
  BY <1>1, <1>2, <1>3, <1>4 DEF Before

(* A parent stays registered until its dependency is evaluated or about to be  *)
(* started.                                                                 *)
LEMMA ListedKept ==
    ASSUME IInv, Nested, [Next]_vars, NEW d \in Modules, NEW m \in Modules, m \in parents[d]
    PROVE  m \in parents'[d] \/ Delisted(d)
<1>0. parents \in [Modules -> SUBSET Modules]
  BY DEF IInv, TypeOK
<1>1. CASE JoinDependency
  <2>1. parents' = IF status[Head(Top.todo)] = "EvaluatingAsync"
                     THEN [parents EXCEPT ![Head(Top.todo)] = @ \cup {Top.mod}]
                     ELSE parents
    BY <1>1, JoinEffect
  <2> QED BY <1>0, <2>1
<1>2. CASE WaitForDependencies \/ Suspend
  BY <1>2, WaitEffect, SuspendEffect
<1> QED
  BY <1>1, <1>2, Marking

(* While the evaluator visits, none is about to be started.                  *)
LEMMA SettledKept ==
    ASSUME IInv, Nested, Nested', [Next]_vars, Visiting',
           NEW d \in Modules, NEW m \in Modules, Settled(d, m)
    PROVE  Settled(d, m)'
<1>1. CASE Before(d, m)
  BY <1>1, BeforeKept DEF Settled
<1>2. CASE m \in parents[d]
  <2>1. CASE Delisted(d)
    <3>1. \A i \in 1 .. Len(stack') : d \notin stack'[i].avail
      BY DEF Nested, VisitingCall
    <3> QED BY <2>1, <3>1 DEF Delisted, Settled, Before
  <2> QED BY <1>2, <2>1, ListedKept DEF Settled
<1> QED
  BY <1>1, <1>2 DEF Settled

(* A dependency on time for an asynchronous module stays so.                  *)
LEMMA DueKept ==
    ASSUME IInv, Nested, Numbered, [Next]_vars, phase' # "end",
           NEW d \in Modules, NEW m \in Modules, status[m] = "EvaluatingAsync", Due(d, m)
    PROVE  Due(d, m)'
<1>1. order[m] # NoOrder /\ order'[m] = order[m]
  BY NumberedStep DEF Numbered
<1>2. CASE Before(d, m)
  BY <1>2, BeforeKept DEF Due, Settled
<1>3. CASE m \in parents[d]
  <2>1. order[d] # NoOrder /\ order[d] < order[m]
    BY <1>1, <1>3 DEF Numbered
  <2>2. order'[d] < order'[m]
    BY <1>1, <2>1, NumberedStep
  <2> QED
    BY <1>3, <2>2, ListedKept DEF Due, Settled, Delisted, Before
<1>4. ASSUME NEW i \in 1 .. Len(stack), d \in stack[i].avail, order[d] < order[m]
      PROVE  Due(d, m)'
  <2>1. FrameOK(stack[i], status, pending, parents, runs)
    BY <1>4 DEF IInv, StackOK, CallsOK
  <2>2. status[d] = "EvaluatingAsync"
    BY <1>4, <2>1 DEF FrameOK
  <2>3. order[d] # NoOrder
    BY <2>2 DEF Numbered
  <2>4. order'[d] < order'[m]
    BY <1>1, <1>4, <2>3, NumberedStep
  <2>5. runs'[d] > 0 \/ \E j \in 1 .. Len(stack') : d \in stack'[j].avail
    BY <1>4, StillAvailable
  <2> QED BY <2>4, <2>5 DEF Due, Settled, Before
<1> QED
  BY <1>2, <1>3, <1>4 DEF Due, Settled

-----------------------------------------------------------------------------
(* A call is the call of a module.                                          *)
LEMMA CallModules ==
    ASSUME NEW s \in Seq(Frames), NEW i \in 1 .. Len(s)
    PROVE  s[i].mod \in Modules
<1>1. s[i] \in Frames
  BY ElementOfSeq
<1> QED
  BY <1>1 DEF Frames

(* The calls of a visit lead from one to the next.                           *)
LEMMA PathStep ==
    ASSUME IInv, IInv', Nested, [Next]_vars, Visiting', Visiting => Path,
           VisitsOf
    PROVE  Path'
<1>1. \A m, n \in Modules : Reaches(m, n)' <=> Reaches(m, n)
  BY Kept DEF Reaches
<1>2. \A i \in 1 .. Len(stack') : stack'[i].mod \in Modules
  BY CallModules DEF IInv, TypeOK
<1>3. \A i \in 1 .. Len(stack) : stack[i].mod \in Modules
  BY CallModules DEF IInv, TypeOK
<1> SUFFICES ASSUME NEW i \in 1 .. Len(stack'), NEW j \in 1 .. Len(stack'), i <= j
             PROVE  Reaches(stack'[i].mod, stack'[j].mod)
  BY <1>1, <1>2 DEF Path
<1>4. CASE Idle
  <2>1. Len(stack) = 0
    BY <1>4 DEF Idle
  <2>2. CASE Len(stack') = 1
    <3>1. i = 1 /\ j = 1
      BY <2>2
    <3> QED BY <1>2, <3>1, ReachesItself
  <2>3. CASE Len(stack') = 0
    BY <2>3
  <2> QED
    BY <1>4, <2>1, <2>2, <2>3, Calling
<1>5. CASE ~Idle
  <2>1. /\ Len(stack) \in Nat \ {0} /\ Top = stack[Len(stack)] /\ Top \in Frames
    BY <1>5, OnTop
  <2>2. PICK n \in Nat \ {0} : n = Len(stack)
    BY <2>1
  <2>3. Visiting
    BY <1>5, Kept
  <2>4. \A k, l \in 1 .. n : k <= l => Reaches(stack[k].mod, stack[l].mod)
    BY <2>2, <2>3 DEF Path
  <2>5. n \in 1 .. n /\ Top.mod = stack[n].mod
    BY <2>1, <2>2
  <2>6. \A k \in 1 .. n - 1 : k \in 1 .. n
    OBVIOUS
  <2>7. CASE UNCHANGED stack
    BY <2>2, <2>4, <2>7
  <2>8. CASE Len(stack') = 0
    BY <2>8
  <2>9. CASE Returns
    <3>1. \A k \in 1 .. n - 1 : stack'[k] = stack[k]
      BY <2>2, <2>9 DEF Returns, SameBelow
    <3>2. Len(stack') = n - 1
      BY <2>2, <2>9 DEF Returns
    <3> QED BY <2>4, <2>6, <3>1, <3>2
  <2>10. CASE \E f \in Frames : Replaces(f) /\ f.mod = Top.mod
    <3>1. Len(stack') = n /\ stack'[n].mod = stack[n].mod
          /\ \A k \in 1 .. n - 1 : stack'[k] = stack[k]
      BY <2>2, <2>5, <2>10 DEF Replaces, SameBelow
    <3>2. \A k \in 1 .. n : k \in 1 .. n - 1 \/ k = n
      OBVIOUS
    <3>3. \A k \in 1 .. n : stack'[k].mod = stack[k].mod
      BY <3>1, <3>2
    <3> QED BY <2>4, <3>1, <3>3
  <2>11. CASE \E g, f \in Frames :
                Adds(g, f) /\ g.mod = Top.mod /\ Top.op = "inner" /\ f.mod \in ToSet(Top.todo)
    <3>1. PICK g \in Frames, f \in Frames :
             Adds(g, f) /\ g.mod = Top.mod /\ Top.op = "inner" /\ f.mod \in ToSet(Top.todo)
      BY <2>11
    <3>2. /\ Len(stack') = n + 1 /\ stack'[n].mod = stack[n].mod /\ stack'[n + 1] = f
          /\ \A k \in 1 .. n - 1 : stack'[k] = stack[k]
      BY <2>2, <2>5, <3>1 DEF Adds, SameBelow
    <3>3. \A k \in 1 .. n : k \in 1 .. n - 1 \/ k = n
      OBVIOUS
    <3>4. \A k \in 1 .. n : stack'[k].mod = stack[k].mod
      BY <3>2, <3>3
    <3>5. Visits(Top)
      BY <2>1, <2>2, <2>5, <3>1 DEF VisitsOf
    <3>6. f.mod \in ToSet(deps[stack[n].mod])
      BY <2>5, <3>1, <3>5 DEF Visits
    <3>7. \A k \in 1 .. n : k <= n
      OBVIOUS
    <3>8. \A k \in 1 .. n : Reaches(stack[k].mod, f.mod)
      BY <1>3, <2>2, <2>4, <2>5, <3>6, <3>7, ReachesFurther
    <3>9. \A k \in 1 .. n + 1 : k \in 1 .. n \/ k = n + 1
      OBVIOUS
    <3>10. i \in 1 .. n + 1 /\ j \in 1 .. n + 1
      BY <3>2
    <3>11. CASE j = n + 1 /\ i = n + 1
      BY <3>1, <3>2, <3>11, ReachesItself DEF Frames
    <3>12. CASE j = n + 1 /\ i \in 1 .. n
      BY <3>2, <3>4, <3>8, <3>12
    <3>13. CASE j \in 1 .. n
      <4>1. i \in 1 .. n
        BY <3>13
      <4> QED BY <2>4, <3>4, <3>13, <4>1
    <3> QED BY <3>9, <3>10, <3>11, <3>12, <3>13
  <2>12. Len(stack) # 0
    BY <2>1
  <2> QED
    BY <2>7, <2>8, <2>9, <2>10, <2>11, <2>12, Calling
<1> QED
  BY <1>4, <1>5

-----------------------------------------------------------------------------
(* The dependencies the calls of a visit have seen.                          *)
LEMMA VisitsKept ==
    ASSUME IInv, Nested, Nested', [Next]_vars, Visiting', Len(stack') # 0,
           NEW f \in Frames, f.op \in {"inner", "join"}, Visits(f),
           f.op = "join" => f.todo # <<>>
    PROVE  Visits(f)'
<1>1. /\ ToSet(deps[f.mod]) \subseteq f.seen \cup ToSet(f.todo)
      /\ ToSet(f.todo) \subseteq ToSet(deps[f.mod])
      /\ \A d \in f.seen :
            Settled(d, f.mod) \/ (f.op = "join" /\ d = Head(f.todo))
      /\ f.op = "join" => status[Head(f.todo)] \notin {"Linked", "Errored"}
  BY DEF Visits
<1>2. f.mod \in Modules /\ f.seen \in SUBSET Modules
      /\ (f.op = "join" => Head(f.todo) \in Modules)
  BY HeadTailProperties DEF Frames
<1>3. deps' = deps
  BY Kept
<1>4. \A d \in f.seen : Settled(d, f.mod) => Settled(d, f.mod)'
  BY <1>2, SettledKept
<1>5. f.op = "join" => status'[Head(f.todo)] \notin {"Linked", "Errored"}
  <2> SUFFICES ASSUME f.op = "join" PROVE status'[Head(f.todo)] \notin {"Linked", "Errored"}
    OBVIOUS
  <2>1. Advances(Head(f.todo))
    BY <1>2, StatusStep
  <2> QED BY <1>1, <2>1 DEF Advances, Active
<1> QED
  BY <1>1, <1>3, <1>4, <1>5 DEF Visits

(* After a dependency that is evaluating the visit goes on: either it leads   *)
(* here, or its evaluation failed and left it behind.                        *)
LEMMA EvaluatingAgrees ==
    ASSUME IInv, Nested, ~Idle, Path, NEW d \in Modules, status[d] = "Evaluating"
    PROVE  Before(d, Top.mod)
<1>1. Top = stack[Len(stack)] /\ Len(stack) \in Nat \ {0}
  BY OnTop
<1>2. PICK n \in Nat \ {0} : n = Len(stack)
  BY <1>1
<1>3. CASE InProgress(d)
  <2>1. PICK i \in 1 .. n : stack[i].mod = d
    BY <1>2, <1>3 DEF InProgress
  <2>2. n \in 1 .. n /\ i <= n
    OBVIOUS
  <2>3. Reaches(stack[i].mod, stack[n].mod)
    BY <1>2, <2>2 DEF Path
  <2> QED
    BY <1>1, <1>2, <2>1, <2>3 DEF Before
<1>4. CASE ~InProgress(d)
  BY <1>4 DEF InProgress, Abandoned, Before
<1> QED
  BY <1>3, <1>4

(* The call that skips a request.                                           *)
LEMMA VisitsSkip ==
    ASSUME IInv, Nested, Nested', SkipDependency, [Next]_vars, Visits(Top),
           NEW f \in Frames, f.op = "inner", f.mod = Top.mod, f.seen = Top.seen,
           f.todo = Tail(Top.todo), Len(stack') # 0
    PROVE  Visits(f)'
<1>1. /\ ~Idle /\ Visiting /\ Visiting' /\ Top.op = "inner" /\ Top.todo # <<>>
      /\ Head(Top.todo) \in Top.seen /\ UNCHANGED <<graphVars, vmVars, loopVars, history>>
  BY SkipEffect DEF Visiting, loopVars
<1>2. Top \in Frames /\ Top.todo \in Seq(Modules)
  BY <1>1, OnTop DEF Frames
<1>3. ToSet(Top.todo) = ToSet(f.todo) \cup {Head(Top.todo)}
  BY <1>1, <1>2, Lines
<1>4. Visits(f)
  <2>1. \A d \in f.seen : Settled(d, f.mod)
    BY <1>1 DEF Visits
  <2> QED BY <1>1, <1>3, <2>1 DEF Visits
<1> QED
  BY <1>1, <1>4, VisitsKept

(* The call that waits for a dependency.                                     *)
LEMMA VisitsEvaluate ==
    ASSUME IInv, Nested, Nested', EvaluateDependency, [Next]_vars, Visits(Top),
           NEW g \in Frames, g.op = "join", g.mod = Top.mod, g.todo = Top.todo,
           g.seen = Top.seen \cup {Head(Top.todo)},
           status'[Head(Top.todo)] \notin {"Linked", "Errored"}
    PROVE  Visits(g)'
<1>1. ~Idle /\ Visiting /\ Visiting' /\ Top.op = "inner"
  BY EvaluateEffect DEF Visiting, loopVars
<1>2. Top \in Frames /\ Top.mod \in Modules /\ Top.seen \in SUBSET Modules
  BY <1>1, OnTop DEF Frames
<1>3. \A d \in g.seen : Settled(d, g.mod)' \/ d = Head(g.todo)
  <2> SUFFICES ASSUME NEW d \in g.seen, d # Head(g.todo) PROVE Settled(d, g.mod)'
    OBVIOUS
  <2>1. d \in Top.seen
    OBVIOUS
  <2>2. Settled(d, g.mod)
    BY <1>1, <2>1 DEF Visits
  <2> QED BY <1>1, <1>2, <2>1, <2>2, SettledKept
<1>4. /\ ToSet(deps[g.mod]) \subseteq g.seen \cup ToSet(g.todo)
      /\ ToSet(g.todo) \subseteq ToSet(deps[g.mod])
  BY DEF Visits
<1>5. deps' = deps
  BY Kept
<1> QED
  BY <1>3, <1>4, <1>5 DEF Visits

(* The call that goes on after a dependency.                                 *)
LEMMA VisitsJoin ==
    ASSUME IInv, Nested, Nested', Path, JoinDependency, [Next]_vars, Visits(Top),
           NEW f \in Frames, f.op = "inner", f.mod = Top.mod, f.seen = Top.seen,
           f.todo = Tail(Top.todo)
    PROVE  Visits(f)'
<1>1. /\ ~Idle /\ Visiting /\ Visiting' /\ Top.op = "join" /\ Top.todo # <<>>
      /\ Head(Top.todo) \in Modules
      /\ parents' = IF status[Head(Top.todo)] = "EvaluatingAsync"
                      THEN [parents EXCEPT ![Head(Top.todo)] = @ \cup {Top.mod}]
                      ELSE parents
  BY JoinEffect DEF Visiting, loopVars
<1>2. /\ Top \in Frames /\ Top.todo \in Seq(Modules) /\ Top.mod \in Modules
      /\ Top.seen \in SUBSET Modules /\ Head(Top.todo) \in Top.seen
  BY <1>1, OnTop DEF Frames, FrameOK
<1>3. ToSet(Top.todo) = ToSet(f.todo) \cup {Head(Top.todo)}
  BY <1>1, <1>2, Lines
<1>4. deps' = deps
  BY Kept
<1>5. PICK d \in Modules : d = Head(Top.todo)
  BY <1>1
<1>6. Settled(d, f.mod)'
  <2>1. status[d] \notin {"Linked", "Errored"} /\ status[d] \in Statuses
    BY <1>1, <1>5 DEF Visits, IInv, TypeOK
  <2>2. CASE status[d] = "EvaluatingAsync"
    <3>1. parents' = [parents EXCEPT ![d] = @ \cup {f.mod}]
      BY <1>1, <1>5, <2>2
    <3>2. parents \in [Modules -> SUBSET Modules]
      BY DEF IInv, TypeOK
    <3>3. f.mod \in parents'[d]
      BY <3>1, <3>2
    <3> QED BY <3>3 DEF Settled
  <2>3. CASE status[d] \in {"Evaluated", "Evaluating"}
    <3>1. Before(d, f.mod)
      BY <1>1, <2>3, EvaluatingAgrees DEF Before
    <3>2. Before(d, f.mod)'
      BY <1>2, <3>1, BeforeKept
    <3> QED BY <3>2 DEF Settled
  <2> QED BY <2>1, <2>2, <2>3 DEF Statuses
<1>7. \A x \in f.seen : Settled(x, f.mod)'
  <2> SUFFICES ASSUME NEW x \in f.seen, x # d PROVE Settled(x, f.mod)'
    BY <1>6
  <2>1. x \in Top.seen /\ x \in Modules
    BY <1>2
  <2>2. Settled(x, f.mod)
    BY <1>5, <2>1 DEF Visits
  <2> QED BY <1>1, <1>2, <2>1, <2>2, SettledKept
<1>8. /\ ToSet(deps[f.mod]) \subseteq f.seen \cup ToSet(f.todo)
      /\ ToSet(f.todo) \subseteq ToSet(deps[f.mod])
  BY <1>2, <1>3 DEF Visits
<1> QED
  BY <1>4, <1>7, <1>8 DEF Visits

(* What they have seen stays on time; a dependency that was evaluating leads  *)
(* here, or was left behind.                                                *)
LEMMA VisitsStep ==
    ASSUME IInv, IInv', Nested, Nested', [Next]_vars, Visiting => Path,
           phase # "end", VisitsOf
    PROVE  VisitsOf'
<1> SUFFICES ASSUME NEW i \in 1 .. Len(stack'), stack'[i].op \in {"inner", "join"}
             PROVE  Visits(stack[i])'
  BY DEF VisitsOf
<1>1. Visiting' /\ Len(stack') # 0
  <2>1. phase' \in Phases
    BY DEF IInv, TypeOK
  <2>2. Len(stack') # 0 /\ stack' # <<>>
    OBVIOUS
  <2> QED BY <2>1, <2>2 DEF Nested, ResumedCall, Visiting, Phases, Idle
<1>2. PICK f : f = stack'[i]
  OBVIOUS
<1>3. f \in Frames /\ f.op \in {"inner", "join"}
  BY <1>2, ElementOfSeq DEF IInv, TypeOK
<1> SUFFICES Visits(f)'
  BY <1>2 DEF Visits
<1>4. ASSUME NEW j \in 1 .. Len(stack), f = stack[j]
      PROVE  Visits(f)'
  <2>1. Visits(f)
    BY <1>3, <1>4 DEF VisitsOf
  <2>2. FrameOK(f, status, pending, parents, runs)
    BY <1>4 DEF IInv, StackOK, CallsOK
  <2> QED BY <1>1, <1>3, <2>1, <2>2, VisitsKept DEF FrameOK
<1>5. CASE UNCHANGED stack
  BY <1>2, <1>4, <1>5
<1>6. ASSUME ~Idle PROVE Visiting /\ Path
  BY <1>1, <1>6, Kept
<1>7. ASSUME ~Idle, SameBelow, i \in 1 .. Len(stack) - 1 PROVE Visits(f)'
  <2>1. PICK n \in Nat \ {0} : n = Len(stack)
    BY <1>7, OnTop
  <2>2. i \in 1 .. n
    BY <1>7, <2>1
  <2> QED BY <1>2, <1>4, <1>7, <2>1, <2>2 DEF SameBelow
<1>8. CASE ~Idle /\ Returns
  BY <1>7, <1>8 DEF Returns
<1>9. ASSUME ~Idle, NEW g \in Frames, Replaces(g), f = g => Visits(f)'
      PROVE  Visits(f)'
  <2>1. PICK n \in Nat \ {0} : n = Len(stack)
    BY <1>9, OnTop
  <2>2. i \in 1 .. n - 1 \/ i = n
    BY <1>9, <2>1 DEF Replaces
  <2> QED BY <1>2, <1>7, <1>9, <2>1, <2>2 DEF Replaces
<1>10. ASSUME ~Idle, Top.op \in {"inner", "join"} PROVE Visits(Top) /\ Top \in Frames
  BY <1>10, OnTop DEF VisitsOf
<1>11. CASE SkipDependency
  <2>1. ~Idle /\ Top.op = "inner"
    BY <1>11, SkipEffect
  <2>2. PICK g \in Frames :
           /\ Replaces(g) /\ g.op = "inner" /\ g.mod = Top.mod
           /\ g.seen = Top.seen /\ g.todo = Tail(Top.todo)
    BY <1>11, SkipEffect
  <2>3. Visits(g)'
    BY <1>1, <1>10, <1>11, <2>1, <2>2, VisitsSkip
  <2> QED BY <1>9, <2>1, <2>2, <2>3
<1>12. CASE JoinDependency
  <2>1. ~Idle /\ Top.op = "join"
    BY <1>12, JoinEffect
  <2>2. PICK g \in Frames :
           /\ Replaces(g) /\ g.op = "inner" /\ g.mod = Top.mod
           /\ g.seen = Top.seen /\ g.todo = Tail(Top.todo)
    BY <1>12, JoinEffect
  <2>3. Visits(g)'
    BY <1>6, <1>10, <1>12, <2>1, <2>2, VisitsJoin
  <2> QED BY <1>9, <2>1, <2>2, <2>3
<1>13. CASE EvaluateDependency
  <2>1. ~Idle /\ Top.op = "inner" /\ Top.todo # <<>>
    BY <1>13, EvaluateEffect
  <2>2. PICK d \in Modules : d = Head(Top.todo)
    BY <2>1, <1>10, HeadTailProperties DEF Frames
  <2>3. PICK g \in Frames :
           /\ g.op = "join" /\ g.mod = Top.mod /\ g.todo = Top.todo
           /\ g.seen = Top.seen \cup {d}
           /\ \/ /\ status[d] \in {"Evaluated", "Evaluating", "EvaluatingAsync"}
                 /\ UNCHANGED status /\ Replaces(g)
              \/ /\ status' = [status EXCEPT ![d] = "Evaluating"]
                 /\ Adds(g, Inner(d))
    BY <1>13, <2>2, EvaluateEffect
  <2>4. status'[d] \notin {"Linked", "Errored"}
    BY <2>3 DEF IInv, TypeOK
  <2>5. Visits(g)'
    BY <1>10, <1>13, <2>1, <2>2, <2>3, <2>4, VisitsEvaluate
  <2>6. CASE Replaces(g)
    BY <1>9, <2>1, <2>5, <2>6
  <2>7. CASE Adds(g, Inner(d))
    <3>1. PICK n \in Nat \ {0} : n = Len(stack)
      BY <2>1, OnTop
    <3>2. i \in 1 .. n - 1 \/ i = n \/ i = n + 1
      BY <2>7, <3>1 DEF Adds
    <3>3. stack'[n] = g /\ stack'[n + 1] = Inner(d) /\ SameBelow
      BY <2>7, <3>1 DEF Adds
    <3>4. CASE i \in 1 .. n - 1
      BY <1>7, <2>1, <3>1, <3>3, <3>4
    <3>5. CASE i = n
      BY <1>2, <2>5, <3>3, <3>5
    <3>6. CASE i = n + 1
      <4>1. f = Inner(d)
        BY <1>2, <3>3, <3>6
      <4>2. deps' = deps
        BY Kept
      <4>3. f.op = "inner" /\ f.mod = d /\ f.seen = {} /\ f.todo = deps[d]
        BY <4>1 DEF Inner, Frame
      <4> QED BY <4>2, <4>3 DEF Visits
    <3> QED BY <3>2, <3>4, <3>5, <3>6
  <2> QED BY <2>3, <2>6, <2>7
<1>14. CASE WaitForDependencies \/ Suspend \/ ReturnFromComplete
  BY <1>8, <1>14, WaitEffect, SuspendEffect, LeaveEffect
<1>15. ASSUME ~Idle, Top.op \in {"inner", "return"}, CompleteModule(Top.mod, Front(stack))
       PROVE  Visits(f)'
  <2>1. PICK g \in Frames : Replaces(g) /\ g.op = "complete"
    BY <1>15, CompleteEffect
  <2> QED BY <1>3, <1>9, <1>15, <2>1
<1>16. CASE StartModule
  <2>1. CASE StartJson(Top.mod, Front(stack))
    BY <1>15, <1>16, <2>1 DEF StartModule, Running, StartJson
  <2>2. CASE ~StartJson(Top.mod, Front(stack))
    <3>1. ~Idle /\ \E g \in Frames : Replaces(g) /\ g.op = "body"
      BY <1>16, <2>2, StartEffect
    <3> QED BY <1>3, <1>9, <3>1
  <2> QED BY <2>1, <2>2
<1>17. CASE BodyCompleted
  BY <1>15, <1>17 DEF BodyCompleted, Running
<1>18. CASE Return
  <2>1. ~Idle /\ \E g \in Frames : Replaces(g) /\ g.op = "return"
    BY <1>18, ReturnEffect
  <2> QED BY <1>3, <1>9, <2>1
<1>19. CASE DependencyErrored \/ Throw
  BY <1>1, <1>19, RaiseEffect DEF DependencyErrored, Throw, Running
<1>20. CASE StartAvailable
  BY <1>1, <1>20, StartAvailableEffect DEF Visiting, loopVars
<1>21. CASE ImportInBody \/ QueueJob \/ RunJob
  BY <1>5, <1>21 DEF ImportInBody, QueueJob, RunJob
<1>22. CASE ProcessRequest
  <2>1. CASE SettleRequest(Head(batch))
    BY <1>5, <2>1 DEF SettleRequest
  <2>2. CASE AwaitTarget(Head(batch))
    <3>1. PICK t \in Modules : t = to[Head(batch)]
      BY <1>22, <2>2, AwaitEffect
    <3>2. UNCHANGED stack \/ (Len(stack') = 1 /\ stack'[1] = Inner(t))
      BY <1>22, <2>2, <3>1, AwaitEffect
    <3>3. CASE Len(stack') = 1 /\ stack'[1] = Inner(t)
      <4>1. f = Inner(t)
        <5>1. i = 1
          BY <3>3
        <5> QED BY <1>2, <3>3, <5>1
      <4>2. deps' = deps
        BY Kept
      <4>3. f.op = "inner" /\ f.mod = t /\ f.seen = {} /\ f.todo = deps[t]
        BY <4>1 DEF Inner, Frame
      <4> QED BY <4>2, <4>3 DEF Visits
    <3> QED BY <1>5, <3>2, <3>3
  <2> QED BY <1>22, <2>1, <2>2 DEF ProcessRequest
<1>23. CASE ResumeReady
  BY <1>1, <1>23, ResumeEffect DEF Visiting
<1>24. CASE TakeRequests \/ RunPromiseJobs \/ CollectReady \/ EndOfTurn \/ ReturnFromEvaluate
  BY <1>5, <1>24 DEF TakeRequests, RunPromiseJobs, CollectReady, EndOfTurn, ReturnFromEvaluate
<1>25. CASE UNCHANGED vars
  BY <1>5, <1>25 DEF vars
<1> QED
  BY <1>11, <1>12, <1>13, <1>14, <1>16, <1>17, <1>18, <1>19, <1>20, <1>21, <1>22, <1>23,
     <1>24, <1>25
     DEF Next, Step, Terminating, InnerEvaluation, AsyncParents, Body, Evaluate

-----------------------------------------------------------------------------
(* The order of the bodies is kept by every step.                            *)

(* The evaluation ends once.                                                *)
LEMMA EndsOnce ==
    ASSUME Nested, [Next]_vars, phase = "end"
    PROVE  UNCHANGED vars
<1>1. Idle
  BY DEF Nested
<1>2. ~InnerEvaluation
  BY <1>1
     DEF InnerEvaluation, SkipDependency, EvaluateDependency, DependencyErrored,
         JoinDependency, WaitForDependencies, StartModule, Running
<1>3. ~AsyncParents
  BY <1>1 DEF AsyncParents, StartAvailable, ReturnFromComplete, Running
<1>4. ~Body
  BY <1>1
     DEF Body, ImportInBody, QueueJob, Suspend, Throw, Return, BodyCompleted, RunJob,
         Running, Draining
<1>5. ~Evaluate
  BY DEF Evaluate, TakeRequests, ProcessRequest, RunPromiseJobs, CollectReady, ResumeReady,
         EndOfTurn, ReturnFromEvaluate
<1> QED
  BY <1>2, <1>3, <1>4, <1>5 DEF Next, Step, Terminating

(* A module that becomes asynchronous before its body has started waits for   *)
(* dependencies, and has seen them all.                                     *)
LEMMA AwaitedStep ==
    ASSUME IInv, Nested, Nested', Numbered, [Next]_vars, phase # "end", phase' # "end",
           VisitsOf, Awaited
    PROVE  Awaited'
<1> SUFFICES ASSUME NEW m \in Modules, status'[m] = "EvaluatingAsync", runs'[m] = 0,
                    NEW d \in ToSet(deps[m])
             PROVE  Due(d, m)'
  <2>1. deps' = deps
    BY Kept
  <2> QED BY <2>1 DEF Awaited
<1>1. /\ deps \in [Modules -> Seq(Modules)] /\ status \in [Modules -> Statuses]
      /\ runs \in [Modules -> Nat]
  BY GraphsAssumption DEF IInv, TypeOK
<1>2. d \in Modules
  BY <1>1, Lines
<1>3. CASE status[m] = "EvaluatingAsync"
  <2>1. runs[m] = 0
    <3>1. ~(runs[m] > 0) /\ runs[m] \in Nat
      BY <1>1, Kept
    <3> QED BY <3>1
  <2>2. Due(d, m)
    BY <1>3, <2>1 DEF Awaited
  <2> QED
    BY <1>2, <1>3, <2>2, DueKept
<1>4. CASE status[m] # "EvaluatingAsync"
  <2>1. WaitForDependencies \/ Suspend
    <3>1. ~JoinDependency
      BY <1>4, JoinEffect
    <3> QED BY <1>4, <3>1, Marking
  <2>2. ~Idle /\ Top.op \in {"inner", "body"} /\ MarkAsync(Top.mod)
    BY <2>1, WaitEffect, SuspendEffect
  <2>3. m = Top.mod
    BY <1>1, <1>4, <2>2 DEF MarkAsync
  <2>4. ~Suspend
    <3> SUFFICES ASSUME Suspend PROVE FALSE
      OBVIOUS
    <3>1. Top.op = "body" /\ UNCHANGED runs
      BY SuspendEffect
    <3>2. runs[Top.mod] = 1
      BY <2>2, <3>1, OnTop DEF FrameOK
    <3> QED BY <2>3, <3>1, <3>2
  <2>5. Visiting' /\ Top.op = "inner" /\ Top.todo = <<>>
    BY <2>1, <2>4, WaitEffect DEF Visiting, loopVars
  <2>6. Visits(Top) /\ Top \in Frames
    BY <2>2, <2>5, OnTop DEF VisitsOf
  <2>7. ToSet(Top.todo) = {}
    BY <2>5, <2>6, Lines DEF Frames
  <2>8. Settled(d, m)
    BY <2>3, <2>5, <2>6, <2>7 DEF Visits
  <2>9. Settled(d, m)'
    BY <1>2, <2>5, <2>8, SettledKept
  <2> QED BY <2>9 DEF Due
<1> QED
  BY <1>3, <1>4

LEMMA OrderedStep ==
    ASSUME IInv, IInv', Nested, Nested', Ordered, [Next]_vars
    PROVE  Ordered'
<1>1. Numbered'
  BY NumberedStep DEF Ordered
<1>2. Visiting' => phase # "end"
  <2>1. phase = "end" => phase' = "end"
    BY EndsOnce DEF vars, loopVars
  <2> QED BY <2>1 DEF Visiting
<1>3. Visiting' => Path'
  BY <1>2, PathStep DEF Ordered
<1>4. phase' # "end" => phase # "end"
  BY EndsOnce DEF vars, loopVars
<1>5. phase' # "end" => VisitsOf'
  BY <1>4, VisitsStep DEF Ordered
<1>6. phase' # "end" => Awaited'
  BY <1>4, AwaitedStep DEF Ordered
<1> QED
  BY <1>1, <1>3, <1>5, <1>6 DEF Ordered

-----------------------------------------------------------------------------
(* What becomes of the modules that have not ended.                          *)

(* A call of m, or one that will start it.                                   *)
InCall(m) == \E i \in 1 .. Len(stack) : stack[i].mod = m \/ m \in stack[i].avail

CarriesOn(m) == (InProgress(m) => InProgress(m)') /\ (InCall(m) => InCall(m)')

(* A step leaves the calls below the top alone.                              *)
LEMMA CarriedOn ==
    ASSUME IInv, Nested, ~Idle, NEW m,
           \/ Returns /\ Top.avail = {} /\ m # Top.mod
           \/ \E f \in Frames : Replaces(f) /\ f.mod = Top.mod /\ Top.avail \subseteq f.avail
           \/ \E g, f \in Frames :
                 Adds(g, f) /\ g.mod = Top.mod /\ Top.avail \subseteq g.avail \cup {f.mod}
    PROVE  CarriesOn(m)
<1>1. Len(stack) \in Nat \ {0} /\ Top = stack[Len(stack)]
  BY OnTop
<1>2. PICK n \in Nat \ {0} : n = Len(stack)
  BY <1>1
<1>3. \A i \in 1 .. n : i \in 1 .. n - 1 \/ i = n
  OBVIOUS
<1>4. CASE Returns /\ Top.avail = {} /\ m # Top.mod
  <2>1. Len(stack') = n - 1 /\ \A i \in 1 .. n - 1 : stack'[i] = stack[i]
    BY <1>2, <1>4 DEF Returns, SameBelow
  <2> QED
    BY <1>1, <1>2, <1>3, <1>4, <2>1 DEF CarriesOn, InProgress, InCall
<1>5. CASE \E f \in Frames : Replaces(f) /\ f.mod = Top.mod /\ Top.avail \subseteq f.avail
  <2>1. PICK f \in Frames : Replaces(f) /\ f.mod = Top.mod /\ Top.avail \subseteq f.avail
    BY <1>5
  <2>2. Len(stack') = n /\ stack'[n] = f /\ \A i \in 1 .. n - 1 : stack'[i] = stack[i]
    BY <1>2, <2>1 DEF Replaces, SameBelow
  <2>3. \A i \in 1 .. n : stack'[i].mod = stack[i].mod /\ stack[i].avail \subseteq stack'[i].avail
    BY <1>1, <1>2, <1>3, <2>1, <2>2
  <2> QED
    BY <1>2, <2>2, <2>3 DEF CarriesOn, InProgress, InCall
<1>6. CASE \E g, f \in Frames :
              Adds(g, f) /\ g.mod = Top.mod /\ Top.avail \subseteq g.avail \cup {f.mod}
  <2>1. PICK g \in Frames, f \in Frames :
           Adds(g, f) /\ g.mod = Top.mod /\ Top.avail \subseteq g.avail \cup {f.mod}
    BY <1>6
  <2>2. /\ Len(stack') = n + 1 /\ stack'[n] = g /\ stack'[n + 1] = f
        /\ \A i \in 1 .. n - 1 : stack'[i] = stack[i]
    BY <1>2, <2>1 DEF Adds, SameBelow
  <2>3. \A i \in 1 .. n : i \in 1 .. n + 1
    OBVIOUS
  <2>4. n + 1 \in 1 .. n + 1
    OBVIOUS
  <2>5. \A i \in 1 .. n : stack'[i].mod = stack[i].mod
    BY <1>1, <1>2, <1>3, <2>1, <2>2
  <2>6. \A i \in 1 .. n : m \in stack[i].avail => m \in stack'[i].avail \/ m = f.mod
    BY <1>1, <1>2, <1>3, <2>1, <2>2
  <2> QED
    BY <1>2, <2>2, <2>3, <2>4, <2>5, <2>6 DEF CarriesOn, InProgress, InCall
<1> QED
  BY <1>4, <1>5, <1>6

(* A module that the step does not concern meets its fate as before.          *)
LEMMA FateKept ==
    ASSUME IInv, Nested, [Next]_vars, NEW m \in Modules, Fate(m), CarriesOn(m),
           status'[m] = status[m], suspended'[m] = suspended[m],
           pending[m] > 0 => pending'[m] > 0 \/ InHand(m)'
    PROVE  Fate(m)'
<1>1. Abandoned(m)' => LeftBehind(m)'
  <2> SUFFICES ASSUME Abandoned(m)' PROVE LeftBehind(m)'
    OBVIOUS
  <2>1. Abandoned(m)
    BY DEF Abandoned, CarriesOn, InProgress
  <2>2. PICK e \in Modules : status[e] = "Errored" /\ Reaches(e, m)
    BY <2>1 DEF Fate, LeftBehind
  <2>3. status'[e] = "Errored"
    BY <2>2, StatusStep DEF Advances, Active
  <2>4. Reaches(e, m)'
    BY <2>2, Kept DEF Reaches
  <2> QED BY <2>3, <2>4 DEF LeftBehind
<1>2. status'[m] = "EvaluatingAsync" => InHand(m)' \/ pending'[m] > 0
  <2> SUFFICES ASSUME status'[m] = "EvaluatingAsync" PROVE InHand(m)' \/ pending'[m] > 0
    OBVIOUS
  <2>1. InHand(m) \/ pending[m] > 0
    BY DEF Fate
  <2>2. InHand(m) => InHand(m)'
    BY DEF InHand, CarriesOn, InCall
  <2> QED BY <2>1, <2>2
<1> QED
  BY <1>1, <1>2 DEF Fate

(* A module in a call is in hand and is not abandoned.                        *)
LEMMA FateOfCall ==
    ASSUME NEW m, InProgress(m)'
    PROVE  Fate(m)'
BY DEF Fate, Abandoned, InHand, InProgress

(* A step that changes neither the modules nor the calls.                    *)
LEMMA FatesQuiet ==
    ASSUME IInv, Nested, [Next]_vars, \A m \in Modules : Fate(m),
           UNCHANGED <<status, suspended, pending, stack>>
    PROVE  \A m \in Modules : Fate(m)'
<1>1. \A m : CarriesOn(m)
  BY DEF CarriesOn, InProgress, InCall
<1> QED
  BY <1>1, FateKept

(* What the completion of a module releases is available, which has no call. *)
LEMMA ReleasedIsAvailable ==
    ASSUME TypeOK, NEW m \in Modules, NEW q \in Modules,
           Becomes(q, Available(m) \cup {m})
    PROVE  q \in Available(m)
<1> DEFINE Closed(S) == \A x \in Modules : Becomes(x, S \cup {m}) => x \in S
<1>1. Available(m) \subseteq Modules
  BY DEF Available
<1> SUFFICES ASSUME NEW S \in SUBSET Modules, Closed(S) PROVE q \in S
  BY DEF Available
<1>2. Available(m) \cup {m} \subseteq S \cup {m}
  BY DEF Available
<1>3. Released(q, Available(m) \cup {m}) <= Released(q, S \cup {m})
  BY <1>1, <1>2, ReleasedMonotonic
<1>4. Released(q, Available(m) \cup {m}) \in Nat /\ Released(q, S \cup {m}) \in Nat
  BY <1>1, ReleasedType
<1>5. pending[q] \in Nat
  BY DEF TypeOK
<1>6. Becomes(q, S \cup {m})
  BY <1>3, <1>4, <1>5 DEF Becomes
<1> QED
  BY <1>6

(* complete_module: the module ends, and a parent it leaves with nothing      *)
(* pending is in the list of the call.                                       *)
LEMMA FatesComplete ==
    ASSUME IInv, Nested, [Next]_vars, ~Idle, Top.op \in {"inner", "return"},
           CompleteModule(Top.mod, Front(stack)), UNCHANGED suspended,
           \A m \in Modules : Fate(m)
    PROVE  \A m \in Modules : Fate(m)'
<1>1. /\ status \in [Modules -> Statuses] /\ pending \in [Modules -> Nat] /\ TypeOK
  BY DEF IInv, TypeOK
<1>2. Top.mod \in Modules /\ status' = [status EXCEPT ![Top.mod] = "Evaluated"]
  BY CompleteEffect
<1>3. /\ Top \in Frames /\ FrameOK(Top, status, pending, parents, runs)
      /\ Len(stack) \in 1 .. Len(stack)
  BY OnTop
<1>4. Top.avail = {}
  BY <1>3 DEF FrameOK
<1>5. PICK f : f = [Frame("complete", Top.mod) EXCEPT !.avail = Available(Top.mod)]
  OBVIOUS
<1>6. Available(Top.mod) \subseteq Modules
  BY DEF Available
<1>7. f \in Frames /\ f.mod = Top.mod /\ f.avail = Available(Top.mod)
  BY <1>2, <1>5, <1>6, FrameType DEF Frame, Frames
<1>8. Replaces(f)
  BY <1>5, <1>7, Shapes DEF IInv, CompleteModule
<1>9. \A m \in Modules : CarriesOn(m)
  BY <1>4, <1>7, <1>8, CarriedOn
<1>10. CASE TRUE
  <2> TAKE m \in Modules
  <2>1. CASE m = Top.mod
    <3>1. status'[m] = "Evaluated"
      BY <1>1, <1>2, <2>1
    <3> QED BY <3>1 DEF Fate, Abandoned
  <2>2. CASE m # Top.mod /\ status[m] = "EvaluatingAsync"
    <3>1. status'[m] = status[m]
      BY <1>2, <2>2
    <3>2. CASE m \in Available(Top.mod)
      <4>1. stack'[Len(stack)] = f /\ Len(stack') = Len(stack)
        BY <1>8 DEF Replaces
      <4>2. InHand(m)'
        BY <1>3, <1>7, <3>2, <4>1 DEF InHand
      <4>3. ~Abandoned(m)'
        BY <2>2, <3>1 DEF Abandoned
      <4> QED BY <4>2, <4>3 DEF Fate
    <3>3. CASE m \notin Available(Top.mod)
      <4> DEFINE done == Available(Top.mod) \cup {Top.mod}
      <4>1. ~Becomes(m, done)
        BY <1>1, <1>2, <3>3, ReleasedIsAvailable
      <4>2. pending'[m] = IF Released(m, done) >= pending[m] THEN 0
                          ELSE pending[m] - Released(m, done)
        BY DEF CompleteModule, GatherAvailableAncestors
      <4>3. Released(m, done) \in Nat /\ pending[m] \in Nat
        BY <1>1, <1>6, <1>2, ReleasedType
      <4>4. pending[m] > 0 => pending'[m] > 0
        <5> SUFFICES ASSUME pending[m] > 0 PROVE pending'[m] > 0
          OBVIOUS
        <5>1. Released(m, done) = 0 \/ ~(Released(m, done) >= pending[m])
          BY <2>2, <4>1, <4>3 DEF Becomes
        <5> HIDE DEF done
        <5> QED BY <4>2, <4>3, <5>1
      <4> QED BY <1>9, <3>1, <4>4, FateKept
    <3> QED BY <3>2, <3>3
  <2>3. CASE m # Top.mod /\ status[m] # "EvaluatingAsync"
    <3>1. status'[m] = status[m]
      BY <1>2, <2>3
    <3>2. Abandoned(m)' => Abandoned(m)
      BY <1>9, <3>1 DEF Abandoned, CarriesOn, InProgress
    <3>3. Abandoned(m)' => LeftBehind(m)'
      <4> SUFFICES ASSUME Abandoned(m)' PROVE LeftBehind(m)'
        OBVIOUS
      <4>1. PICK e \in Modules : status[e] = "Errored" /\ Reaches(e, m)
        BY <3>2 DEF Fate, LeftBehind
      <4>2. status'[e] = "Errored"
        BY <4>1, StatusStep DEF Advances, Active
      <4>3. Reaches(e, m)'
        BY <4>1, Kept DEF Reaches
      <4> QED BY <4>2, <4>3 DEF LeftBehind
    <3> QED BY <2>3, <3>1, <3>3 DEF Fate
  <2> QED BY <2>1, <2>2, <2>3
<1> QED
  BY <1>10

(* An error that is caught: the module it fails reaches every call the error  *)
(* left, and no call was that of an asynchronous module but the one resumed.  *)
LEMMA FatesRaise ==
    ASSUME IInv, Nested, Ordered, [Next]_vars, ~Idle, Top.op \in {"inner", "body"},
           NEW kind \in {"exception", "fault", "linkError"}, Raise(kind),
           \A m \in Modules : Fate(m)
    PROVE  RunFailed' \/ \A m \in Modules : Fate(m)'
<1>1. /\ stack' = <<>>
      /\ UNCHANGED <<deps, pending, suspended>>
  BY DEF Raise
<1>2. CASE EndWith(kind)
  BY <1>2 DEF EndWith, RunFailed
<1>3. CASE \E t \in Catcher : FailModule(t) /\ (EndWith("exception") \/ UNCHANGED <<phase, outcome>>)
  <2>1. PICK t \in Catcher :
           FailModule(t) /\ (EndWith("exception") \/ UNCHANGED <<phase, outcome>>)
    BY <1>3
  <2>2. t = stack[1].mod /\ (phase = "imports" \/ (phase = "resume" /\ Len(stack) = 1))
    BY <2>1 DEF Catcher
  <2>3. PICK n \in Nat \ {0} : n = Len(stack)
    BY OnTop
  <2>4. 1 \in 1 .. n /\ \A i \in 1 .. n : 1 <= i
    OBVIOUS
  <2>5. t \in Modules
    BY <2>2, <2>3, <2>4, CallModules DEF IInv, TypeOK
  <2>6. /\ status \in [Modules -> Statuses]
        /\ status' = [status EXCEPT ![t] = "Errored"]
    BY <2>1 DEF FailModule, IInv, TypeOK
  <2>7. \A i \in 1 .. n : stack[i].avail = {}
    <3>1. CASE phase = "imports"
      BY <2>3, <3>1 DEF Nested, Visiting, VisitingCall
    <3>2. CASE n = 1
      <4>1. \A i \in 1 .. n : i = 1
        BY <3>2
      <4>2. Top = stack[1] /\ Top.avail = {}
        BY <2>3, <3>2, OnTop DEF FrameOK
      <4> QED BY <4>1, <4>2
    <3> QED BY <2>2, <2>3, <3>1, <3>2
  <2>8. ASSUME NEW m \in Modules, m # t, status[m] = "EvaluatingAsync"
        PROVE  \A i \in 1 .. n : stack[i].mod # m
    <3> SUFFICES ASSUME NEW i \in 1 .. n, stack[i].mod = m PROVE FALSE
      OBVIOUS
    <3>1. CASE phase = "imports"
      <4>1. VisitingCall(i)
        BY <2>3, <3>1 DEF Nested, Visiting
      <4>2. FrameOK(stack[i], status, pending, parents, runs) /\ stack[i] \in Frames
        BY <2>3, ElementOfSeq DEF IInv, StackOK, CallsOK, TypeOK
      <4> QED BY <2>8, <4>1, <4>2 DEF VisitingCall, FrameOK, Frames
    <3>2. CASE n = 1
      <4>1. i = 1
        BY <3>2
      <4> QED BY <2>2, <2>8, <4>1
    <3> QED BY <2>2, <2>3, <3>1, <3>2
  <2>9. ASSUME NEW m \in Modules, m # t, NEW i \in 1 .. n, stack[i].mod = m
        PROVE  Reaches(t, m)
    <3>1. CASE phase = "imports"
      <4>1. Path
        BY <3>1 DEF Ordered, Visiting
      <4> QED BY <2>2, <2>3, <2>4, <2>9, <4>1 DEF Path
    <3>2. CASE n = 1
      <4>1. i = 1
        BY <3>2
      <4> QED BY <2>2, <2>9, <4>1
    <3> QED BY <2>2, <2>3, <3>1, <3>2
  <2>10. \A m \in Modules : Fate(m)'
    <3> TAKE m \in Modules
    <3>1. CASE m = t
      <4>1. status'[m] = "Errored"
        BY <2>5, <2>6, <3>1
      <4> QED BY <4>1 DEF Fate, Abandoned
    <3>2. CASE m # t
      <4>1. status'[m] = status[m] /\ status'[t] = "Errored"
        BY <2>5, <2>6, <3>2
      <4>2. ASSUME Abandoned(m)' PROVE LeftBehind(m)'
        <5>1. status[m] = "Evaluating"
          BY <4>1, <4>2 DEF Abandoned
        <5>2. CASE InProgress(m)
          <6>1. Reaches(t, m)
            BY <2>3, <2>9, <3>2, <5>2 DEF InProgress
          <6>2. Reaches(t, m)'
            BY <1>1, <6>1 DEF Reaches
          <6> QED BY <2>5, <4>1, <4>2, <6>2 DEF LeftBehind
        <5>3. CASE ~InProgress(m)
          <6>1. PICK e \in Modules : status[e] = "Errored" /\ Reaches(e, m)
            BY <5>1, <5>3 DEF Abandoned, InProgress, Fate, LeftBehind
          <6>2. status'[e] = "Errored"
            BY <2>6, <6>1
          <6>3. Reaches(e, m)'
            BY <1>1, <6>1 DEF Reaches
          <6> QED BY <4>2, <6>2, <6>3 DEF LeftBehind
        <5> QED BY <5>2, <5>3
      <4>3. ASSUME status'[m] = "EvaluatingAsync" PROVE InHand(m)' \/ pending'[m] > 0
        <5>1. status[m] = "EvaluatingAsync"
          BY <4>1, <4>3
        <5>2. InHand(m) \/ pending[m] > 0
          BY <5>1 DEF Fate
        <5>3. InHand(m) => suspended[m].kind # "none"
          BY <2>3, <2>7, <2>8, <3>2, <5>1 DEF InHand
        <5>4. suspended[m].kind # "none" => InHand(m)'
          BY <1>1, <4>3 DEF InHand
        <5> QED BY <1>1, <5>2, <5>3, <5>4
      <4> QED BY <4>2, <4>3 DEF Fate
    <3> QED BY <3>1, <3>2
  <2> QED BY <2>10
<1> QED
  BY <1>2, <1>3 DEF Raise

(* Every action keeps the fates.                                             *)
LEMMA FatesStep ==
    ASSUME IInv, Nested, Ordered, [Next]_vars, \A m \in Modules : Fate(m)
    PROVE  RunFailed' \/ \A m \in Modules : Fate(m)'
<1> DEFINE Goal == RunFailed' \/ \A m \in Modules : Fate(m)'
<1>0. status \in [Modules -> Statuses] /\ suspended \in [Modules -> AwaitKinds]
      /\ pending \in [Modules -> Nat]
  BY DEF IInv, TypeOK
<1>1. ASSUME UNCHANGED <<status, suspended, pending, stack>> PROVE Goal
  BY <1>1, FatesQuiet
<1>2. ASSUME ~Idle, UNCHANGED <<status, suspended>>,
             \A m \in Modules : pending[m] > 0 => pending'[m] > 0,
             \/ Returns /\ Top.avail = {} /\ status[Top.mod] = "Evaluated"
             \/ \E f \in Frames : Replaces(f) /\ f.mod = Top.mod /\ Top.avail \subseteq f.avail
             \/ \E g, f \in Frames :
                   Adds(g, f) /\ g.mod = Top.mod /\ Top.avail \subseteq g.avail \cup {f.mod}
      PROVE  Goal
  <2> SUFFICES ASSUME NEW m \in Modules PROVE Fate(m)'
    OBVIOUS
  <2>1. CASE status[m] = "Evaluated"
    BY <1>2, <2>1 DEF Fate, Abandoned
  <2>2. CASE status[m] # "Evaluated"
    <3>1. CarriesOn(m)
      BY <1>2, <2>2, CarriedOn
    <3> QED BY <1>2, <3>1, FateKept
  <2> QED BY <2>1, <2>2
<1>3. ASSUME ~Idle PROVE Top \in Frames /\ Top.mod \in Modules
                         /\ (Top.op # "complete" => Top.avail = {})
                         /\ (Top.op = "complete" => status[Top.mod] = "Evaluated")
  BY <1>3, OnTop DEF FrameOK, Frames
<1>4. CASE SkipDependency
  <2>1. ~Idle /\ Top.op = "inner" /\ UNCHANGED <<status, suspended, pending>>
    BY <1>4, SkipEffect DEF graphVars, vmVars
  <2>2. \E f \in Frames : Replaces(f) /\ f.mod = Top.mod
    BY <1>4, SkipEffect
  <2> QED BY <1>2, <1>3, <2>1, <2>2
<1>5. CASE JoinDependency
  <2>1. ~Idle /\ Top.op = "join" /\ UNCHANGED <<status, suspended>>
    BY <1>5, JoinEffect DEF vmVars
  <2>2. \E f \in Frames : Replaces(f) /\ f.mod = Top.mod
    BY <1>5, JoinEffect
  <2>3. pending' = [pending EXCEPT ![Top.mod] = @ + 1] \/ pending' = pending
    BY <1>5 DEF JoinDependency
  <2>4. \A m \in Modules : pending[m] > 0 => pending'[m] > 0
    BY <1>0, <2>3
  <2> QED BY <1>2, <1>3, <2>1, <2>2, <2>4
<1>6. CASE Return
  <2>1. ~Idle /\ Top.op = "body" /\ UNCHANGED <<status, suspended, pending>>
    BY <1>6, ReturnEffect DEF graphVars, vmVars
  <2>2. \E f \in Frames : Replaces(f) /\ f.mod = Top.mod
    BY <1>6, ReturnEffect
  <2> QED BY <1>2, <1>3, <2>1, <2>2
<1>7. CASE ReturnFromComplete
  <2>1. /\ ~Idle /\ Top.op = "complete" /\ Top.avail = {} /\ Returns
        /\ UNCHANGED <<status, suspended, pending>>
    BY <1>7, LeaveEffect DEF graphVars, vmVars
  <2> QED BY <1>2, <1>3, <2>1
<1>8. CASE StartAvailable
  <2>1. ~Idle /\ UNCHANGED <<status, suspended, pending>>
    BY <1>8, StartAvailableEffect DEF graphVars, vmVars
  <2>2. PICK p \in Top.avail, g \in Frames, f \in Frames :
           g.mod = Top.mod /\ g.avail = Top.avail \ {p} /\ f.mod = p /\ Adds(g, f)
    BY <1>8, StartAvailableEffect
  <2> QED BY <1>2, <2>1, <2>2
<1>9. CASE StartModule
  <2>1. CASE StartJson(Top.mod, Front(stack))
    <3>1. ~Idle /\ Top.op = "inner" /\ UNCHANGED suspended
          /\ CompleteModule(Top.mod, Front(stack))
      BY <1>9, <2>1 DEF StartModule, Running, StartJson
    <3> QED BY <3>1, FatesComplete
  <2>2. CASE ~StartJson(Top.mod, Front(stack))
    <3>1. ~Idle /\ Top.op = "inner" /\ UNCHANGED <<status, suspended, pending>>
      BY <1>9, <2>2, StartEffect DEF graphVars, vmVars
    <3>2. \E f \in Frames : Replaces(f) /\ f.mod = Top.mod
      BY <1>9, <2>2, StartEffect
    <3> QED BY <1>2, <1>3, <3>1, <3>2
  <2> QED BY <2>1, <2>2
<1>10. CASE BodyCompleted
  <2>1. ~Idle /\ Top.op = "return" /\ UNCHANGED suspended
        /\ CompleteModule(Top.mod, Front(stack))
    BY <1>10 DEF BodyCompleted, Running
  <2> QED BY <2>1, FatesComplete
<1>11. CASE DependencyErrored \/ Throw
  <2>1. /\ ~Idle /\ Top.op \in {"inner", "body"}
        /\ \E kind \in {"exception", "fault", "linkError"} : Raise(kind)
    BY <1>11 DEF DependencyErrored, Throw, Running
  <2> QED BY <2>1, FatesRaise
<1>12. CASE EvaluateDependency
  <2>1. /\ ~Idle /\ Top.op = "inner" /\ Top.todo # <<>> /\ UNCHANGED <<suspended, pending>>
    BY <1>12, EvaluateEffect DEF vmVars
  <2>2. PICK d \in Modules : d = Head(Top.todo)
    BY <1>3, <2>1, HeadTailProperties DEF Frames
  <2>3. PICK g \in Frames :
           /\ g.mod = Top.mod
           /\ \/ UNCHANGED status /\ Replaces(g)
              \/ /\ status' = [status EXCEPT ![d] = "Evaluating"]
                 /\ Adds(g, Inner(d))
    BY <1>12, <2>2, EvaluateEffect
  <2>4. CASE UNCHANGED status /\ Replaces(g)
    BY <1>2, <1>3, <2>1, <2>3, <2>4
  <2>5. CASE status' = [status EXCEPT ![d] = "Evaluating"] /\ Adds(g, Inner(d))
    <3>1. PICK f \in Frames : f = Inner(d)
      BY <2>2, InnerType DEF IInv
    <3>2. f.mod = d
      BY <3>1 DEF Inner, Frame
    <3>3. \A m \in Modules : CarriesOn(m)
      BY <1>3, <2>1, <2>3, <2>5, <3>1, CarriedOn
    <3>4. InProgress(d)'
      <4>1. PICK n \in Nat \ {0} : n = Len(stack)
        BY <2>1, OnTop
      <4>2. n + 1 \in 1 .. n + 1 /\ Len(stack') = n + 1 /\ stack'[n + 1] = f
        BY <2>5, <3>1, <4>1 DEF Adds
      <4> QED BY <3>2, <4>2 DEF InProgress
    <3>5. ASSUME NEW m \in Modules, m # d PROVE Fate(m)'
      <4>1. status'[m] = status[m]
        BY <2>5, <3>5
      <4> QED BY <2>1, <3>3, <4>1, FateKept
    <3> QED BY <3>4, <3>5, FateOfCall
  <2> QED BY <2>3, <2>4, <2>5
<1>13. CASE WaitForDependencies
  <2>1. /\ ~Idle /\ Top.op = "inner" /\ Returns /\ MarkAsync(Top.mod)
        /\ UNCHANGED <<suspended, pending>> /\ pending[Top.mod] > 0
    BY <1>13, WaitEffect DEF vmVars, WaitForDependencies
  <2>2. status' = [status EXCEPT ![Top.mod] = "EvaluatingAsync"]
    BY <2>1 DEF MarkAsync
  <2>3. ASSUME NEW m \in Modules, m # Top.mod PROVE Fate(m)'
    <3>1. CarriesOn(m)
      BY <1>3, <2>1, <2>3, CarriedOn
    <3> QED BY <2>1, <2>2, <2>3, <3>1, FateKept
  <2>4. PICK t \in Modules : t = Top.mod
    BY <1>3, <2>1
  <2>5. Fate(t)'
    <3>1. status'[t] = "EvaluatingAsync" /\ pending'[t] > 0
      BY <1>0, <2>1, <2>2, <2>4
    <3> QED BY <3>1 DEF Fate, Abandoned
  <2> QED BY <2>3, <2>4, <2>5
<1>14. CASE Suspend
  <2>1. /\ ~Idle /\ Top.op = "body" /\ Returns /\ MarkAsync(Top.mod)
        /\ UNCHANGED pending
    BY <1>14, SuspendEffect
  <2>2. PICK a : a.kind # "none" /\ suspended' = [suspended EXCEPT ![Top.mod] = a]
    BY <1>14, SuspendEffect
  <2>3. status' = [status EXCEPT ![Top.mod] = "EvaluatingAsync"]
    BY <2>1 DEF MarkAsync
  <2>4. ASSUME NEW m \in Modules, m # Top.mod PROVE Fate(m)'
    <3>1. CarriesOn(m)
      BY <1>3, <2>1, <2>4, CarriedOn
    <3>2. status'[m] = status[m] /\ suspended'[m] = suspended[m]
      BY <2>2, <2>3, <2>4
    <3> QED BY <2>1, <3>1, <3>2, FateKept
  <2>5. PICK t \in Modules : t = Top.mod
    BY <1>3, <2>1
  <2>6. Fate(t)'
    <3>1. status'[t] = "EvaluatingAsync" /\ suspended'[t] = a
      BY <1>0, <2>2, <2>3, <2>5
    <3> QED BY <2>2, <3>1 DEF Fate, Abandoned, InHand
  <2> QED BY <2>4, <2>5, <2>6
<1>15. CASE ProcessRequest
  <2>1. CASE SettleRequest(Head(batch))
    BY <1>1, <1>15, <2>1 DEF SettleRequest, ProcessRequest
  <2>2. CASE AwaitTarget(Head(batch))
    <3>1. PICK t \in Modules : t = to[Head(batch)]
      BY <1>15, <2>2, AwaitEffect
    <3>2. /\ Len(stack) = 0 /\ UNCHANGED <<suspended, pending>>
          /\ \/ UNCHANGED <<status, stack>>
             \/ /\ status' = [status EXCEPT ![t] = "Evaluating"]
                /\ Len(stack') = 1 /\ stack'[1] = Inner(t)
      BY <1>15, <2>2, <3>1, AwaitEffect
    <3>3. CASE UNCHANGED <<status, stack>>
      BY <1>1, <3>2, <3>3
    <3>4. CASE /\ status' = [status EXCEPT ![t] = "Evaluating"]
               /\ Len(stack') = 1 /\ stack'[1] = Inner(t)
      <4>1. \A i \in 1 .. Len(stack) : FALSE
        BY <3>2
      <4>2. \A m \in Modules : CarriesOn(m)
        BY <4>1 DEF CarriesOn, InProgress, InCall
      <4>3. PICK f : f = Inner(t)
        OBVIOUS
      <4>4. f.mod = t
        BY <4>3 DEF Inner, Frame
      <4>5. 1 \in 1 .. Len(stack') /\ stack'[1].mod = t
        BY <3>4, <4>3, <4>4
      <4>6. InProgress(t)'
        BY <4>5 DEF InProgress
      <4>7. ASSUME NEW m \in Modules, m # t PROVE Fate(m)'
        <5>1. status'[m] = status[m]
          BY <3>4, <4>7
        <5> QED BY <3>2, <4>2, <5>1, FateKept
      <4> QED BY <4>6, <4>7, FateOfCall
    <3> QED BY <3>2, <3>3, <3>4
  <2> QED BY <1>15, <2>1, <2>2 DEF ProcessRequest
<1>16. CASE ResumeReady
  <2>1. Len(stack) = 0 /\ UNCHANGED <<status, pending>>
    BY <1>16, ResumeEffect DEF graphVars
  <2>2. CASE UNCHANGED <<suspended, stack>>
    BY <1>1, <2>1, <2>2
  <2>3. CASE \E x \in Modules, f \in Frames :
                /\ Len(stack') = 1 /\ stack'[1] = f /\ f.mod = x
                /\ suspended' = [suspended EXCEPT ![x] = NotSuspended]
    <3>1. PICK x \in Modules, f \in Frames :
             /\ Len(stack') = 1 /\ stack'[1] = f /\ f.mod = x
             /\ suspended' = [suspended EXCEPT ![x] = NotSuspended]
      BY <2>3
    <3>2. \A i \in 1 .. Len(stack) : FALSE
      BY <2>1
    <3>3. \A m \in Modules : CarriesOn(m)
      BY <3>2 DEF CarriesOn, InProgress, InCall
    <3>4. 1 \in 1 .. Len(stack') /\ stack'[1].mod = x
      BY <3>1
    <3>5. InProgress(x)'
      BY <3>4 DEF InProgress
    <3>6. ASSUME NEW m \in Modules, m # x PROVE Fate(m)'
      <4>1. suspended'[m] = suspended[m]
        BY <3>1, <3>6
      <4> QED BY <2>1, <3>3, <4>1, FateKept
    <3> QED BY <3>5, <3>6, FateOfCall
  <2> QED BY <1>16, <2>2, <2>3, ResumeEffect
<1>17. CASE ImportInBody \/ QueueJob \/ RunJob
  BY <1>1, <1>17 DEF ImportInBody, QueueJob, RunJob, graphVars
<1>18. CASE TakeRequests \/ RunPromiseJobs \/ CollectReady \/ EndOfTurn \/ ReturnFromEvaluate
  BY <1>1, <1>18
     DEF TakeRequests, RunPromiseJobs, CollectReady, EndOfTurn, ReturnFromEvaluate,
         graphVars, vmVars
<1>19. CASE UNCHANGED vars
  BY <1>1, <1>19 DEF vars, graphVars, vmVars
<1> QED
  BY <1>4, <1>5, <1>6, <1>7, <1>8, <1>9, <1>10, <1>11, <1>12, <1>13, <1>14, <1>15, <1>16,
     <1>17, <1>18, <1>19
     DEF Next, Step, Terminating, InnerEvaluation, AsyncParents, Body, Evaluate

(* The outcome is written where the loop ends.                               *)
LEMMA OutcomeStep ==
    ASSUME [Next]_vars
    PROVE  UNCHANGED outcome \/ phase' = "end"
<1>1. ASSUME NEW kind, Raise(kind) PROVE UNCHANGED outcome \/ phase' = "end"
  BY <1>1 DEF Raise, EndWith
<1>2. CASE DependencyErrored \/ Throw
  BY <1>1, <1>2 DEF DependencyErrored, Throw
<1>3. CASE SkipDependency \/ EvaluateDependency \/ JoinDependency \/ WaitForDependencies
  BY <1>3
     DEF SkipDependency, EvaluateDependency, JoinDependency, WaitForDependencies, loopVars
<1>4. CASE StartModule \/ AsyncParents
  BY <1>4
     DEF StartModule, StartBody, StartJson, AsyncParents, StartAvailable,
         ReturnFromComplete, loopVars
<1>5. CASE ImportInBody \/ QueueJob \/ Suspend \/ Return \/ BodyCompleted \/ RunJob
  BY <1>5
     DEF ImportInBody, QueueJob, Suspend, Return, BodyCompleted, RunJob, loopVars
<1>6. CASE Evaluate
  BY <1>6
     DEF Evaluate, TakeRequests, ProcessRequest, RunPromiseJobs, CollectReady, ResumeReady,
         EndOfTurn, ReturnFromEvaluate, EndWith
<1>7. CASE UNCHANGED vars
  BY <1>7 DEF vars, loopVars
<1> QED
  BY <1>2, <1>3, <1>4, <1>5, <1>6, <1>7 DEF Next, Step, Terminating, InnerEvaluation, Body

(* complete_module empties the list of the module it completes, and no parent  *)
(* is added to the list of one that has completed.                            *)
LEMMA CompletedParents ==
    ASSUME IInv, Nested, [Next]_vars, NEW m \in Modules, status'[m] = "Evaluated",
           status[m] = "Evaluated" => parents[m] = {}
    PROVE  parents'[m] = {}
<1>0. parents \in [Modules -> SUBSET Modules] /\ status \in [Modules -> Statuses]
  BY DEF IInv, TypeOK
<1>1. ASSUME ~Idle, Top.op \in {"inner", "return"}, CompleteModule(Top.mod, Front(stack))
      PROVE  parents'[m] = {}
  <2>1. PICK f \in Frames :
           parents' = [d \in Modules |-> IF d = Top.mod \/ d \in f.avail THEN {}
                                         ELSE parents[d]]
    BY <1>1, CompleteEffect
  <2>2. status' = [status EXCEPT ![Top.mod] = "Evaluated"]
    BY <1>1, CompleteEffect
  <2> QED BY <1>0, <2>1, <2>2
<1>2. ASSUME status'[m] = status[m], UNCHANGED parents PROVE parents'[m] = {}
  BY <1>2
<1>3. ASSUME UNCHANGED parents, NEW t, NEW s \in {"Evaluating", "EvaluatingAsync", "Errored"},
             status' = [status EXCEPT ![t] = s]
      PROVE  parents'[m] = {}
  BY <1>0, <1>3
<1>4. CASE StartModule
  <2>1. CASE StartJson(Top.mod, Front(stack))
    BY <1>1, <1>4, <2>1 DEF StartModule, Running, StartJson
  <2>2. CASE ~StartJson(Top.mod, Front(stack))
    BY <1>2, <1>4, <2>2, StartEffect DEF graphVars
  <2> QED BY <2>1, <2>2
<1>5. CASE BodyCompleted
  BY <1>1, <1>5 DEF BodyCompleted, Running
<1>6. CASE JoinDependency
  <2>1. /\ UNCHANGED status
        /\ parents' = IF status[Head(Top.todo)] = "EvaluatingAsync"
                        THEN [parents EXCEPT ![Head(Top.todo)] = @ \cup {Top.mod}]
                        ELSE parents
    BY <1>6, JoinEffect
  <2> QED BY <1>0, <2>1
<1>7. CASE EvaluateDependency
  BY <1>2, <1>3, <1>7, EvaluateEffect
<1>8. CASE WaitForDependencies \/ Suspend
  BY <1>3, <1>8, WaitEffect, SuspendEffect DEF MarkAsync
<1>9. CASE DependencyErrored \/ Throw
  <2>1. /\ ~Idle /\ Top.op \in {"inner", "body"}
        /\ \E kind \in {"exception", "fault", "linkError"} : Raise(kind)
    BY <1>9 DEF DependencyErrored, Throw, Running
  <2>2. UNCHANGED parents /\ (UNCHANGED status \/ \E t \in Modules : FailModule(t))
    BY <2>1, RaiseEffect
  <2> QED BY <1>2, <1>3, <2>2 DEF FailModule
<1>10. CASE SkipDependency \/ AsyncParents \/ Return
  BY <1>2, <1>10, SkipEffect, StartAvailableEffect, LeaveEffect, ReturnEffect
     DEF AsyncParents, graphVars
<1>11. CASE ImportInBody \/ QueueJob \/ RunJob
  BY <1>2, <1>11 DEF ImportInBody, QueueJob, RunJob, graphVars
<1>12. CASE ProcessRequest
  <2>1. CASE SettleRequest(Head(batch))
    BY <1>2, <1>12, <2>1 DEF SettleRequest, ProcessRequest
  <2>2. CASE AwaitTarget(Head(batch))
    BY <1>2, <1>3, <1>12, <2>2, AwaitEffect
  <2> QED BY <1>12, <2>1, <2>2 DEF ProcessRequest
<1>13. CASE Evaluate
  BY <1>2, <1>12, <1>13
     DEF Evaluate, TakeRequests, RunPromiseJobs, CollectReady, ResumeReady, EndOfTurn,
         ReturnFromEvaluate, graphVars
<1>14. CASE UNCHANGED vars
  BY <1>2, <1>14 DEF vars, graphVars
<1> QED
  BY <1>4, <1>5, <1>6, <1>7, <1>8, <1>9, <1>10, <1>11, <1>13, <1>14
     DEF Next, Step, Terminating, InnerEvaluation, Body

LEMMA AccountedStep ==
    ASSUME IInv, IInv', Nested, Ordered, Accounted, [Next]_vars
    PROVE  Accounted'
<1>1. \A m \in Modules : status'[m] = "Evaluated" => parents'[m] = {}
  BY CompletedParents DEF Accounted
<1>2. CASE phase = "end"
  <2>1. UNCHANGED vars
    BY <1>2, EndsOnce
  <2>2. UNCHANGED <<deps, status, pending, suspended, stack, outcome, phase>>
    BY <2>1 DEF vars, graphVars, vmVars, loopVars
  <2>3. RunFailed' = RunFailed /\ \A m \in Modules : Fate(m)' <=> Fate(m)
    BY <2>2 DEF RunFailed, Fate, Abandoned, LeftBehind, Reaches, InHand
  <2> QED BY <1>1, <2>2, <2>3 DEF Accounted
<1>3. CASE phase # "end"
  <2>1. ~RunFailed /\ \A m \in Modules : Fate(m)
    BY <1>3 DEF Accounted
  <2>2. RunFailed' => phase' = "end"
    BY <2>1, OutcomeStep DEF RunFailed
  <2>3. RunFailed' \/ \A m \in Modules : Fate(m)'
    BY <2>1, FatesStep
  <2> QED BY <1>1, <2>2, <2>3 DEF Accounted
<1> QED
  BY <1>2, <1>3

LEMMA LoopStep ==
    ASSUME LoopInv, [Next]_vars
    PROVE  LoopInv'
<1>1. IInv /\ Nested /\ HeldOnce /\ SettledImportAgrees /\ Turn /\ Ordered /\ Accounted
  BY DEF LoopInv
<1>2. IInv'
  BY <1>1, InvStep
<1>3. Nested'
  BY <1>1, NestedStep
<1>4. HeldOnce' /\ SettledImportAgrees'
  BY <1>1, HeldStep
<1>5. Turn'
  BY <1>1, TurnStep
<1>6. Ordered'
  BY <1>1, <1>2, <1>3, OrderedStep
<1>7. Accounted'
  BY <1>1, <1>2, AccountedStep
<1> QED
  BY <1>2, <1>3, <1>4, <1>5, <1>6, <1>7 DEF LoopInv

(* The evaluator starts with the call of its entry.                          *)
LEMMA LoopInit ==
    ASSUME Init, IInv
    PROVE  LoopInv
<1>1. PICK f : f = Inner(Entry)
  OBVIOUS
<1>2. f.op = "inner" /\ f.mod = Entry /\ f.avail = {} /\ f.seen = {} /\ f.todo = deps[Entry]
  BY <1>1 DEF Inner, Frame
<1>3. stack = <<f>>
  BY <1>1 DEF Init
<1>4. Len(stack) = 1 /\ stack[1] = f
  BY <1>3
<1>5. \A i \in 1 .. Len(stack) : i = 1
  BY <1>4
<1>6. /\ \A m \in Modules : parents[m] = {} /\ waiters[m] = {} /\ order[m] = NoOrder
      /\ \A m \in Modules : status[m] \in {"Linked", "Evaluating"}
      /\ \A p \in Promises : promise[p] = "unused"
      /\ requests = <<>> /\ batch = <<>> /\ phase = "entry" /\ outcome = "running"
      /\ nextOrder = 0
  BY DEF Init
<1>7. Nested
  <2>1. \A i \in 1 .. Len(stack) : VisitingCall(i)
    BY <1>2, <1>4, <1>5 DEF VisitingCall
  <2> QED BY <1>6, <2>1 DEF Nested, Visiting
<1>8. HeldOnce
  <2>1. ToSet(requests) = {} /\ ToSet(batch) = {}
    BY <1>6, Lines DEF IInv, TypeOK
  <2>2. Once(requests) /\ Once(batch)
    BY <1>6 DEF Once
  <2> QED BY <1>6, <2>1, <2>2 DEF HeldOnce, InLine
<1>9. SettledImportAgrees
  BY <1>6 DEF SettledImportAgrees
<1>10. Turn
  BY <1>6 DEF Turn
<1>11. Ordered
  <2>1. Numbered
    <3>1. \A m \in Modules : order[m] < nextOrder
      BY <1>6 DEF NoOrder
    <3> QED BY <1>6, <3>1 DEF Numbered
  <2>2. Path
    <3>1. Reaches(Entry, Entry)
      BY ModulesAssumption, ReachesItself
    <3> QED BY <1>2, <1>4, <1>5, <3>1 DEF Path
  <2>3. VisitsOf
    BY <1>2, <1>4, <1>5 DEF VisitsOf, Visits
  <2>4. Awaited
    BY <1>6 DEF Awaited
  <2> QED BY <2>1, <2>2, <2>3, <2>4 DEF Ordered
<1>12. Accounted
  <2>1. ~RunFailed /\ \A m \in Modules : status[m] # "EvaluatingAsync"
    BY <1>6 DEF RunFailed
  <2>2. \A m \in Modules : ~Abandoned(m)
    <3>1. \A m \in Modules : status[m] = "Evaluating" => m = Entry
      BY DEF Init
    <3>2. 1 \in 1 .. Len(stack) /\ stack[1].mod = Entry
      BY <1>2, <1>4
    <3> QED BY <3>1, <3>2 DEF Abandoned
  <2> QED BY <1>6, <2>1, <2>2 DEF Accounted, Fate
<1> QED
  BY <1>7, <1>8, <1>9, <1>10, <1>11, <1>12 DEF LoopInv

(* A body starts in two places only.                                        *)
LEMMA StartsBody ==
    ASSUME IInv, Nested, [Next]_vars, NEW m \in Modules, runs'[m] # runs[m]
    PROVE  StartAvailable \/ (StartModule /\ ~StartJson(Top.mod, Front(stack)))
<1>1. ~UNCHANGED runs
  OBVIOUS
<1>2. ASSUME NEW kind \in {"exception", "fault", "linkError"} PROVE ~Raise(kind)
  BY <1>1 DEF Raise, history
<1>3. ~DependencyErrored /\ ~Throw
  BY <1>2 DEF DependencyErrored, Throw
<1>4. ~StartJson(Top.mod, Front(stack))
  BY <1>1 DEF StartJson, history
<1>5. ~SkipDependency /\ ~EvaluateDependency /\ ~JoinDependency /\ ~WaitForDependencies
  BY <1>1
     DEF SkipDependency, EvaluateDependency, JoinDependency, WaitForDependencies, history
<1>6. ~ReturnFromComplete /\ ~ImportInBody /\ ~QueueJob /\ ~Suspend /\ ~Return
      /\ ~BodyCompleted /\ ~RunJob
  BY <1>1
     DEF ReturnFromComplete, ImportInBody, QueueJob, Suspend, Return, BodyCompleted, RunJob,
         history
<1>7. ~Evaluate
  BY <1>1
     DEF Evaluate, TakeRequests, ProcessRequest, RunPromiseJobs, CollectReady, ResumeReady,
         EndOfTurn, ReturnFromEvaluate, history
<1>8. ~UNCHANGED vars
  BY <1>1 DEF vars, history
<1> QED
  BY <1>3, <1>4, <1>5, <1>6, <1>7, <1>8
     DEF Next, Step, Terminating, InnerEvaluation, AsyncParents, Body

(* The dependencies of a body that is started are before it.                 *)
LEMMA StartsInOrder ==
    ASSUME LoopInv, [Next]_vars, NEW m \in Modules, runs'[m] # runs[m],
           NEW d \in ToSet(deps[m])
    PROVE  Before(d, m)
<1>1. IInv /\ Nested /\ Ordered
  BY DEF LoopInv
<1>2. /\ deps \in [Modules -> Seq(Modules)] /\ status \in [Modules -> Statuses]
      /\ order \in [Modules -> Nat \cup {NoOrder}] /\ parents \in [Modules -> SUBSET Modules]
  BY <1>1, GraphsAssumption DEF IInv, TypeOK
<1>3. d \in Modules
  BY <1>2, Lines
<1>4. ASSUME pending[m] = 0 PROVE m \notin parents[d]
  <2>1. Cardinality({x \in Modules : m \in parents[x]}) = 0
    BY <1>1, <1>4 DEF IInv, PendingCountsParents
  <2>2. IsFiniteSet({x \in Modules : m \in parents[x]})
    BY ModulesAssumption, FS_Subset
  <2>3. {x \in Modules : m \in parents[x]} = {}
    BY <2>1, <2>2, FS_EmptySet
  <2> QED BY <1>3, <2>3
<1>5. ~Idle => phase # "end"
  BY <1>1 DEF Nested
<1>6. CASE StartModule /\ ~StartJson(Top.mod, Front(stack))
  <2>1. /\ ~Idle /\ Top.op = "inner" /\ Top.todo = <<>> /\ pending[Top.mod] = 0
        /\ Top.mod \in Modules /\ runs' = [runs EXCEPT ![Top.mod] = @ + 1]
    BY <1>1, <1>6, StartEffect
  <2>2. m = Top.mod
    BY <1>1, <2>1, Started
  <2>3. Visits(Top) /\ Top \in Frames
    BY <1>1, <1>5, <2>1, OnTop DEF Ordered, VisitsOf
  <2>4. ToSet(Top.todo) = {}
    BY <2>1, <2>3, Lines DEF Frames
  <2>5. Settled(d, m)
    BY <2>1, <2>2, <2>3, <2>4 DEF Visits
  <2> QED BY <1>4, <2>1, <2>2, <2>5 DEF Settled
<1>7. CASE StartAvailable
  <2>1. ~Idle /\ Len(stack) = 1
    BY <1>1, <1>7, StartAvailableEffect
  <2>2. PICK p \in Top.avail :
           /\ FirstByOrder(p, Top.avail) /\ p \in Modules
           /\ status[p] = "EvaluatingAsync" /\ pending[p] = 0 /\ runs[p] = 0
           /\ runs' = [runs EXCEPT ![p] = @ + 1]
    BY <1>1, <1>7, StartAvailableEffect
  <2>3. m = p
    BY <1>1, <2>2, Started
  <2>4. Due(d, m)
    BY <1>1, <1>5, <2>1, <2>2, <2>3 DEF Ordered, Awaited
  <2>5. ASSUME NEW i \in 1 .. Len(stack), d \in stack[i].avail, order[d] < order[m]
        PROVE  FALSE
    <3>1. i = 1
      BY <2>1, <2>5
    <3>2. Top = stack[1]
      BY <1>1, <2>1, OnTop
    <3>3. order[m] <= order[d]
      BY <2>2, <2>3, <2>5, <3>1, <3>2 DEF FirstByOrder
    <3>4. order[m] \in Int /\ order[d] \in Int
      BY <1>2, <1>3 DEF NoOrder
    <3> QED BY <2>5, <3>3, <3>4
  <2> QED BY <1>4, <2>2, <2>3, <2>4, <2>5 DEF Due, Settled
<1> QED
  BY <1>1, <1>6, <1>7, StartsBody

-----------------------------------------------------------------------------
(* The results.                                                            *)

(* In every state the calls in progress are those the loop of `evaluate` can  *)
(* have made, each pending import() promise is in one place, a turn that made *)
(* no progress has left nothing to do, and dependencies are on time.          *)
THEOREM LoopInductive == Spec => []LoopInv
<1>1. Init /\ IInv => LoopInv
  BY LoopInit
<1>2. LoopInv /\ [Next]_vars => LoopInv'
  BY LoopStep
<1> QED
  BY <1>1, <1>2, Invariance, PTL DEF Spec

(* A module that waits for dependencies ends with them, unless one of them,   *)
(* or one they wait for, has failed: the dependencies it is registered with    *)
(* became asynchronous before it did, so that the first module for which it    *)
(* were otherwise has none.                                                 *)
LEMMA WaitingEnds ==
    ASSUME LoopInv, ~RunFailed, NEW m \in Modules, status[m] = "EvaluatingAsync"
    PROVE  CanEnd(m) \/ WaitsForFailed(m)
<1>1. /\ status \in [Modules -> Statuses] /\ order \in [Modules -> Nat \cup {NoOrder}]
      /\ parents \in [Modules -> SUBSET Modules]
  BY DEF LoopInv, IInv, TypeOK
<1> SUFFICES ASSUME NEW S \in SUBSET Modules,
                    \A x \in Modules :
                        \/ InHand(x)
                        \/ /\ status[x] = "EvaluatingAsync"
                           /\ \E d \in Modules : x \in parents[d]
                           /\ \A d \in Modules : x \in parents[d] => d \in S
                        => x \in S,
                    m \notin S, ~WaitsForFailed(m)
             PROVE  FALSE
  BY DEF CanEnd
<1> DEFINE Lost(x) == status[x] = "EvaluatingAsync" /\ x \notin S /\ ~WaitsForFailed(x)
           T == {order[x] : x \in {y \in Modules : Lost(y)}}
<1>2. \A x \in Modules : Lost(x) => order[x] \in Nat
  BY <1>1 DEF LoopInv, Ordered, Numbered
<1>3. T \subseteq Nat /\ order[m] \in T
  BY <1>2
<1>4. PICK o \in T : \A u \in T : <<u, o>> \notin OpToRel(<, Nat)
  <2> HIDE DEF T
  <2>1. T # {}
    BY <1>3
  <2> QED BY <1>3, <2>1, NatLessThanWellFounded, WFMin
<1>5. PICK x \in Modules : Lost(x) /\ order[x] = o
  OBVIOUS
<1>6. \A y \in Modules : Lost(y) => ~(order[y] < order[x])
  <2> SUFFICES ASSUME NEW y \in Modules, Lost(y), order[y] < order[x] PROVE FALSE
    OBVIOUS
  <2>1. order[y] \in T /\ order[y] \in Nat /\ o \in Nat
    BY <1>2, <1>5
  <2>2. <<order[y], o>> \in OpToRel(<, Nat)
    BY <1>5, <2>1 DEF OpToRel
  <2> QED BY <1>4, <2>1, <2>2
<1>7. ~InHand(x) /\ pending[x] > 0
  BY <1>5 DEF LoopInv, Accounted, Fate
<1>8. ASSUME NEW d \in Modules, x \in parents[d] PROVE d \in S
  <2>1. status[d] \in {"EvaluatingAsync", "Errored"}
    BY <1>1, <1>8 DEF LoopInv, Accounted, Nested, Statuses
  <2>2. WaitsForFailed(d) \/ status[d] = "Errored" => WaitsForFailed(x)
    BY <1>5, <1>8 DEF WaitsForFailed
  <2>3. ~WaitsForFailed(d) /\ status[d] = "EvaluatingAsync"
    BY <1>5, <2>1, <2>2
  <2>4. order[x] # NoOrder /\ order[d] < order[x]
    BY <1>5, <1>8 DEF LoopInv, Ordered, Numbered
  <2> QED BY <1>6, <2>3, <2>4
<1>9. \E d \in Modules : x \in parents[d]
  <2>1. pending[x] = Cardinality({d \in Modules : x \in parents[d]})
    BY DEF LoopInv, IInv, PendingCountsParents
  <2>2. {d \in Modules : x \in parents[d]} # {}
    BY <1>7, <2>1, FS_EmptySet
  <2> QED BY <2>2
<1> QED
  BY <1>5, <1>8, <1>9

(* A pending import() is never forgotten: process_dynamic_imports registers   *)
(* it with its target before it evaluates it, and complete_module and         *)
(* fail_module settle all that are registered when the target ends.  The      *)
(* target can still end, except in the two cases fail_module leaves open: a    *)
(* module that was Evaluating when the error left its call, and a module that  *)
(* waits for the failed one.                                                *)
THEOREM ImportHeld == Spec => []PendingImportIsHeld
<1>1. LoopInv => PendingImportIsHeld
  <2> SUFFICES ASSUME LoopInv, NEW p \in Promises, promise[p] = "pending", p \notin InLine
               PROVE  /\ p \in waiters[to[p]]
                      /\ \/ CanEnd(to[p]) \/ LeftBehind(to[p])
                         \/ WaitsForFailed(to[p]) \/ RunFailed
    BY DEF PendingImportIsHeld, InLine
  <2>1. to[p] \in Modules /\ p \in waiters[to[p]]
    BY DEF LoopInv, HeldOnce
  <2>2. PICK t \in Modules : t = to[p]
    BY <2>1
  <2>3. status[t] \in {"Evaluating", "EvaluatingAsync"}
    BY <2>1, <2>2 DEF LoopInv, HeldOnce, Waiting
  <2>4. CASE ~RunFailed /\ status[t] = "Evaluating"
    <3>1. CASE Abandoned(t)
      BY <2>1, <2>2, <2>4, <3>1 DEF LoopInv, Accounted, Fate
    <3>2. CASE ~Abandoned(t)
      <4>1. InHand(t)
        BY <2>4, <3>2 DEF Abandoned, InHand
      <4>2. CanEnd(t)
        BY <4>1 DEF CanEnd
      <4> QED BY <2>1, <2>2, <4>2
    <3> QED BY <3>1, <3>2
  <2>5. CASE ~RunFailed /\ status[t] = "EvaluatingAsync"
    BY <2>1, <2>2, <2>5, WaitingEnds
  <2> QED BY <2>1, <2>3, <2>4, <2>5
<1> QED
  BY <1>1, LoopInductive, PTL

(* What import() was told stays true: no module leaves Evaluated or Errored,  *)
(* the two states SettleRequest, complete_module and fail_module answer from. *)
THEOREM ImportTruthful == Spec => []SettledImportAgrees
<1>1. LoopInv => SettledImportAgrees
  BY DEF LoopInv
<1> QED
  BY <1>1, LoopInductive, PTL

(* `evaluate` reports a pending top-level await only after a turn that drained *)
(* the queues and found every suspended module waiting.                      *)
THEOREM StuckIsIdle == Spec => []StuckMeansNothingRunnable
<1>1. LoopInv => StuckMeansNothingRunnable
  BY DEF LoopInv, Turn, Runnable, StuckMeansNothingRunnable
<1> QED
  BY <1>1, LoopInductive, PTL

(* inner_evaluation starts a body after it has visited all dependencies, and  *)
(* complete_module starts those it released by async_evaluation_order: a body  *)
(* never starts before that of a dependency outside its cycle, unless a        *)
(* failed import() left the dependency behind.                               *)
THEOREM DependenciesFirst == Spec => StartOrder
<1> DEFINE Step1 == \A m \in Modules : runs'[m] # runs[m] =>
                      \A d \in ToSet(deps[m]) :
                          \/ runs[d] > 0 \/ status[d] = "Evaluated"
                          \/ Reaches(d, m)
                          \/ Abandoned(d)
<1>1. LoopInv /\ [Next]_vars => [Step1]_vars
  BY StartsInOrder DEF Before
<1> QED
  BY <1>1, LoopInductive, PTL DEF Spec, StartOrder
=============================================================================
