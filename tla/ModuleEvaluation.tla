--------------------------- MODULE ModuleEvaluation ---------------------------
(***************************************************************************)
(* Evaluation of a linked module graph: ModuleEvaluator of                 *)
(* crates/js-engine/src/pipeline.rs and the part of the interpreter that   *)
(* starts, suspends and resumes module bodies (crates/js-vm/src/interp.rs).*)
(*                                                                         *)
(* The evaluator is one thread of recursive Rust calls.  Its call stack is *)
(* the variable "stack", and one action is one step of one call; phase     *)
(* says where the event loop of `evaluate` stands when the stack is empty. *)
(* What a module body does is the environment's choice: it may call        *)
(* import(), register a promise job, suspend at a top-level await, throw,  *)
(* or return.                                                              *)
(*                                                                         *)
(* Error propagation by `?` is the operator Raise: it discards the whole   *)
(* stack, down to the only two places that catch an error.                 *)
(***************************************************************************)
EXTENDS Integers, Sequences, FiniteSets, SequencesExt

CONSTANTS
    Modules,      \* the records of the ModuleGraph
    Entry,        \* the module passed to run_module
    Graphs,       \* the dependency graphs considered, [Modules -> Seq(Modules)]
    Json,         \* synthetic JSON modules, which never run bytecode
    MayAwait,     \* modules whose body contains a top-level await
    MayThrow,     \* modules whose body may throw
    MayImport,    \* modules whose body may call import()
    Importable,   \* what an import() may name: modules or Unresolved
    Unresolved,   \* DynamicResolution::Unresolved
    MaxImports,   \* bound: import() calls in a run
    MaxAwaits,    \* bound: suspensions of one module body
    MaxJobs       \* bound: promise jobs queued by bodies

ASSUME ModulesAssumption ==
    /\ IsFiniteSet(Modules)
    /\ Entry \in Modules
    /\ Unresolved \notin Modules
    /\ Importable \subseteq Modules \cup {Unresolved}
    /\ Json \subseteq Modules /\ MayAwait \subseteq Modules
    /\ MayThrow \subseteq Modules /\ MayImport \subseteq Modules

ASSUME GraphsAssumption == Graphs \subseteq [Modules -> Seq(Modules)]

ASSUME BoundsAssumption ==
    MaxImports \in Nat /\ MaxAwaits \in Nat /\ MaxJobs \in Nat

VARIABLES
    deps,         \* Eval-phase requests of each module, resolved, in order
    status,       \* RuntimeModule::status
    pending,      \* RuntimeModule::pending_async_dependencies
    parents,      \* RuntimeModule::async_parent_modules
    order,        \* RuntimeModule::async_evaluation_order, NoOrder for None
    nextOrder,    \* ModuleEvaluator::next_async_order
    waiters,      \* RuntimeModule::dynamic_import_waiters
    suspended,    \* Interpreter::suspended_modules and the promise awaited
    requests,     \* Interpreter::dynamic_import_requests
    jobs,         \* length of Interpreter::jobs
    to,           \* DynamicImportRequest::resolution of each import() promise
    promise,      \* state of each import() promise
    stack,        \* the calls in progress
    phase,        \* position in the loop of `evaluate`
    batch,        \* the requests process_dynamic_imports drained
    ready,        \* the modules the loop found ready to resume
    progressed,   \* the local `progressed` of the loop
    outcome,      \* what `evaluate` returned
    runs,         \* history: how often each body was started
    awaits        \* history: how often each body was suspended

graphVars == <<deps, status, pending, parents, order, nextOrder, waiters>>
vmVars    == <<suspended, requests, jobs, to, promise>>
loopVars  == <<phase, batch, ready, progressed, outcome>>
history   == <<runs, awaits>>
vars      == <<graphVars, vmVars, stack, loopVars, history>>

-----------------------------------------------------------------------------
Promises == 1 .. MaxImports
NoOrder  == -1
Statuses == {"Linked", "Evaluating", "EvaluatingAsync", "Evaluated", "Errored"}
Phases   == {"entry", "imports", "jobs", "resume", "check", "end"}
Outcomes == {"running", "ok", "exception", "fault", "linkError",
             "stuck"}

(* "inner" is inner_evaluation between two dependencies and "join" is the  *)
(* same call when the evaluation of Head(todo) has returned; "body" is the *)
(* interpreter running module code, "return" its Return opcode draining    *)
(* the promise jobs; "complete" is complete_module starting the available  *)
(* async parents.                                                          *)
Frames == [op    : {"inner", "join", "body", "return", "complete"},
           mod   : Modules,
           todo  : Seq(Modules),
           seen  : SUBSET Modules,
           avail : SUBSET Modules]

Frame(op, m) == [op |-> op, mod |-> m, todo |-> <<>>, seen |-> {}, avail |-> {}]
Inner(m)     == [Frame("inner", m) EXCEPT !.todo = deps[m]]

Top        == Last(stack)
Idle       == stack = <<>>
Push(f)    == stack' = Append(stack, f)
Pop        == stack' = Front(stack)
SetTop(f)  == stack' = Append(Front(stack), f)
Running(op) == ~Idle /\ Top.op = op

NotSuspended == [kind |-> "none", on |-> 0]
AwaitKinds   == [kind : {"none", "soon", "never", "import"}, on : 0 .. MaxImports]

(* A module awaits the promise of an import() made so far, a promise the    *)
(* queued jobs settle ("soon"), or one that nothing will ever settle.       *)
Awaitable == {[kind |-> "soon", on |-> 0], [kind |-> "never", on |-> 0]}
             \cup {[kind |-> "import", on |-> p] :
                      p \in {q \in Promises : promise[q] # "unused"}}

IsReady(m) ==
    \/ suspended[m].kind = "soon"
    \/ /\ suspended[m].kind = "import"
       /\ promise[suspended[m].on] \in {"fulfilled", "rejected"}

-----------------------------------------------------------------------------
(* Calls.  Each operator below is one Rust function, or the part of it up  *)
(* to the next call that has to be on the stack.                           *)

(* A settled promise queues the reactions hooked to it: any number of the   *)
(* promises in ps had a reaction.                                          *)
Settle(ps, as) ==
    /\ promise' = [p \in Promises |-> IF p \in ps THEN as ELSE promise[p]]
    /\ jobs' \in jobs .. jobs + Cardinality(ps)

(* mark_async                                                              *)
MarkAsync(m) ==
    /\ status' = [status EXCEPT ![m] = "EvaluatingAsync"]
    /\ IF order[m] = NoOrder
         THEN /\ order' = [order EXCEPT ![m] = nextOrder]
              /\ nextOrder' = nextOrder + 1
         ELSE UNCHANGED <<order, nextOrder>>

(* gather_available_ancestors: completing the modules in done releases one  *)
(* pending dependency of a parent for each of them that lists the parent;  *)
(* a parent that reaches zero is available and releases its own parents in *)
(* the same recursion, before its body has run.                            *)
Released(p, done) == Cardinality({d \in done : p \in parents[d]})

Becomes(p, done) ==
    /\ status[p] = "EvaluatingAsync"
    /\ Released(p, done) > 0
    /\ Released(p, done) >= pending[p]

Available(m) ==
    {p \in Modules : \A S \in SUBSET Modules :
        (\A q \in Modules : Becomes(q, S \cup {m}) => q \in S) => p \in S}

(* Mutant: the count of a parent is decremented without saturating and for   *)
(* every module that completes.                                             *)
GatherUnregistered(m) ==
    LET done == Available(m) \cup {m}
    IN  /\ parents' = [d \in Modules |-> IF d \in done THEN {} ELSE parents[d]]
        /\ pending' = [p \in Modules |-> pending[p] - Cardinality(done)]

GatherAvailableAncestors(m) ==
    LET done == Available(m) \cup {m}
    IN  /\ parents' = [d \in Modules |-> IF d \in done THEN {} ELSE parents[d]]
        /\ pending' = [p \in Modules |->
                          IF Released(p, done) >= pending[p] THEN 0
                          ELSE pending[p] - Released(p, done)]

(* complete_module up to its loop over the available parents, which its     *)
(* frame keeps.  No namespace is a thenable here, so resolving a waiter     *)
(* fulfils it.                                                             *)
CompleteModule(m, below) ==
    /\ status' = [status EXCEPT ![m] = "Evaluated"]
    /\ Settle(waiters[m], "fulfilled")
    /\ waiters' = [waiters EXCEPT ![m] = {}]
    /\ GatherAvailableAncestors(m)
    /\ stack' = Append(below, [Frame("complete", m) EXCEPT !.avail = Available(m)])

(* Err(kind) leaves the function on top of the stack.  The caller that      *)
(* catches it is process_dynamic_imports around the evaluation of its       *)
(* target, and `evaluate` around the body it resumes itself; both hand it  *)
(* to fail_module, which passes on what is not a JavaScript exception, and *)
(* the exception of a module nobody is importing dynamically.              *)
Catcher == IF phase = "imports" \/ (phase = "resume" /\ Len(stack) = 1)
             THEN {stack[1].mod} ELSE {}

FailModule(t) ==
    /\ status' = [status EXCEPT ![t] = "Errored"]
    /\ Settle(waiters[t], "rejected")
    /\ waiters' = [waiters EXCEPT ![t] = {}]

EndWith(result) == phase' = "end" /\ outcome' = result

Raise(kind) ==
    /\ stack' = <<>>
    /\ \/ /\ kind = "exception" /\ Catcher # {}
          /\ \E t \in Catcher :
                /\ FailModule(t)
                /\ IF waiters[t] = {} THEN EndWith("exception")
                                      ELSE UNCHANGED <<phase, outcome>>
       \/ /\ kind # "exception" \/ Catcher = {}
          /\ EndWith(kind)
          /\ UNCHANGED <<status, waiters, promise, jobs>>
    /\ UNCHANGED <<deps, pending, parents, order, nextOrder, suspended,
                   requests, to, batch, ready, progressed, history>>

(* Mutant: a module that is waiting for its dependencies is entered again.  *)
EnterWaiting(m, return) ==
    \/ /\ status[m] \in {"Evaluated", "Evaluating"}
       /\ stack' = return
       /\ UNCHANGED status
    \/ /\ status[m] \in {"Linked", "EvaluatingAsync"}
       /\ status' = [status EXCEPT ![m] = "Evaluating"]
       /\ stack' = Append(return, Inner(m))

(* inner_evaluation(m): the early returns, or the status change and a new   *)
(* call frame.                                                             *)
Enter(m, return) ==
    \/ /\ status[m] \in {"Evaluated", "Evaluating", "EvaluatingAsync"}
       /\ stack' = return
       /\ UNCHANGED status
    \/ /\ status[m] = "Linked"
       /\ status' = [status EXCEPT ![m] = "Evaluating"]
       /\ stack' = Append(return, Inner(m))

-----------------------------------------------------------------------------
(* inner_evaluation                                                        *)

(* A request whose module an earlier request named is filtered out.        *)
SkipDependency ==
    /\ Running("inner") /\ Top.todo # <<>>
    /\ Head(Top.todo) \in Top.seen
    /\ SetTop([Top EXCEPT !.todo = Tail(@)])
    /\ UNCHANGED <<graphVars, vmVars, loopVars, history>>

(* Mutant: the requests of a module are not made unique.                     *)
EvaluateEachRequest ==
    /\ Running("inner") /\ Top.todo # <<>>
    /\ LET d == Head(Top.todo) IN
         Enter(d, Append(Front(stack), [Top EXCEPT !.op = "join",
                                                   !.seen = @ \cup {d}]))
    /\ UNCHANGED <<deps, pending, parents, order, nextOrder, waiters, vmVars,
                   loopVars, history>>

EvaluateDependency ==
    /\ Running("inner") /\ Top.todo # <<>>
    /\ LET d == Head(Top.todo) IN
         /\ d \notin Top.seen
         /\ Enter(d, Append(Front(stack), [Top EXCEPT !.op = "join",
                                                      !.seen = @ \cup {d}]))
    /\ UNCHANGED <<deps, pending, parents, order, nextOrder, waiters, vmVars,
                   loopVars, history>>

(* A dependency that failed earlier: the link error no caller recovers from. *)
DependencyErrored ==
    /\ Running("inner") /\ Top.todo # <<>>
    /\ Head(Top.todo) \notin Top.seen
    /\ status[Head(Top.todo)] = "Errored"
    /\ Raise("linkError")

(* Mutant: the parent counts the dependency, which does not record it.       *)
JoinUnrecorded ==
    /\ Running("join") /\ Top.todo # <<>>
    /\ IF status[Head(Top.todo)] = "EvaluatingAsync"
         THEN pending' = [pending EXCEPT ![Top.mod] = @ + 1]
         ELSE UNCHANGED pending
    /\ SetTop([Top EXCEPT !.op = "inner", !.todo = Tail(@)])
    /\ UNCHANGED <<deps, status, parents, order, nextOrder, waiters, vmVars,
                   loopVars, history>>

JoinDependency ==
    /\ Running("join") /\ Top.todo # <<>>
    /\ LET m == Top.mod
           d == Head(Top.todo)
       IN  /\ IF status[d] = "EvaluatingAsync"
                THEN /\ pending' = [pending EXCEPT ![m] = @ + 1]
                     /\ parents' = [parents EXCEPT ![d] = @ \cup {m}]
                ELSE UNCHANGED <<pending, parents>>
           /\ SetTop([Top EXCEPT !.op = "inner", !.todo = Tail(@)])
    /\ UNCHANGED <<deps, status, order, nextOrder, waiters, vmVars, loopVars,
                   history>>

WaitForDependencies ==
    /\ Running("inner") /\ Top.todo = <<>> /\ pending[Top.mod] > 0
    /\ MarkAsync(Top.mod)
    /\ Pop
    /\ UNCHANGED <<deps, pending, parents, waiters, vmVars, loopVars, history>>

(* start_module: a synthetic JSON module has no bytecode to run and         *)
(* completes at once; the body of any other module gets the stack.         *)
StartBody(m, below) ==
    /\ m \notin Json
    /\ stack' = Append(below, Frame("body", m))
    /\ runs' = [runs EXCEPT ![m] = @ + 1]
    /\ UNCHANGED <<graphVars, vmVars, loopVars, awaits>>

StartJson(m, below) ==
    /\ m \in Json
    /\ CompleteModule(m, below)
    /\ UNCHANGED <<deps, order, nextOrder, suspended, requests, to, loopVars,
                   history>>

StartModule ==
    /\ Running("inner") /\ Top.todo = <<>> /\ pending[Top.mod] = 0
    /\ \/ StartBody(Top.mod, Front(stack))
       \/ StartJson(Top.mod, Front(stack))

-----------------------------------------------------------------------------
(* complete_module: the loop over the available parents, in the order in    *)
(* which they became asynchronous.                                         *)
(* Mutant: the sort is descending.                                           *)
LastByOrder(p, S) == \A q \in S : order[p] >= order[q]

FirstByOrder(p, S) == \A q \in S : order[p] <= order[q]

StartAvailable ==
    /\ Running("complete")
    /\ \E p \in Top.avail :
         LET below == Append(Front(stack), [Top EXCEPT !.avail = @ \ {p}]) IN
         /\ FirstByOrder(p, Top.avail)
         /\ IF status[p] = "EvaluatingAsync" /\ pending[p] = 0
              THEN StartBody(p, below)
              ELSE /\ stack' = below
                   /\ UNCHANGED <<graphVars, vmVars, loopVars, history>>

ReturnFromComplete ==
    /\ Running("complete") /\ Top.avail = {}
    /\ Pop
    /\ UNCHANGED <<graphVars, vmVars, loopVars, history>>

-----------------------------------------------------------------------------
(* A module body, and the promise jobs.                                    *)

Used(p) == promise[p] # "unused"

(* The DynamicImport opcode.                                               *)
Import(target) ==
    /\ \E p \in Promises :
          /\ ~Used(p) /\ \A q \in 1 .. p - 1 : Used(q)
          /\ promise' = [promise EXCEPT ![p] = "pending"]
          /\ to' = [to EXCEPT ![p] = target]
          /\ requests' = Append(requests, p)

ImportInBody ==
    /\ Running("body") /\ Top.mod \in MayImport
    /\ \E target \in Importable : Import(target)
    /\ UNCHANGED <<graphVars, suspended, jobs, stack, loopVars, history>>

QueueJob ==
    /\ Running("body") /\ Top.mod \in MayImport
    /\ jobs < MaxJobs
    /\ jobs' = jobs + 1
    /\ UNCHANGED <<graphVars, suspended, requests, to, promise, stack, loopVars,
                   history>>

(* The Await opcode in the outermost frame of a module suspends it, whether *)
(* or not the awaited promise is settled already.                          *)
Suspend ==
    /\ Running("body")
    /\ LET m == Top.mod IN
         /\ m \in MayAwait /\ awaits[m] < MaxAwaits
         /\ \E a \in Awaitable : suspended' = [suspended EXCEPT ![m] = a]
         /\ awaits' = [awaits EXCEPT ![m] = @ + 1]
         /\ MarkAsync(m)
    /\ Pop
    /\ UNCHANGED <<deps, pending, parents, waiters, requests, jobs, to, promise,
                   loopVars, runs>>

(* An uncaught exception, or a fault of the interpreter (its step limit).  *)
Throw ==
    /\ Running("body") /\ Top.mod \in MayThrow
    /\ \E kind \in {"exception", "fault"} : Raise(kind)

(* The Return opcode drains the promise jobs before it pops the frame.     *)
Return ==
    /\ Running("body")
    /\ SetTop(Frame("return", Top.mod))
    /\ UNCHANGED <<graphVars, vmVars, loopVars, history>>

BodyCompleted ==
    /\ Running("return") /\ jobs = 0
    /\ CompleteModule(Top.mod, Front(stack))
    /\ UNCHANGED <<deps, order, nextOrder, suspended, requests, to, loopVars,
                   history>>

(* drain_jobs takes the first job; a job may call import().                *)
Draining == Running("return") \/ (Idle /\ phase = "jobs")

RunJob ==
    /\ Draining /\ jobs > 0
    /\ jobs' = jobs - 1
    /\ \/ UNCHANGED <<requests, to, promise>>
       \/ \E target \in Importable : Import(target)
    /\ UNCHANGED <<graphVars, suspended, stack, loopVars, history>>

-----------------------------------------------------------------------------
(* The event loop of `evaluate`.                                           *)

(* The entry is evaluated and nothing that could run or be waited for is    *)
(* left.                                                                   *)
Finished ==
    /\ status[Entry] = "Evaluated"
    /\ requests = <<>>
    /\ jobs = 0
    /\ \A m \in Modules : waiters[m] = {}

(* process_dynamic_imports drains the queue: what the bodies it evaluates   *)
(* import is left for the next turn.                                       *)
TakeRequests ==
    /\ Idle
    /\ phase = "entry" \/ (phase = "check" /\ ~Finished /\ progressed)
    /\ phase' = "imports"
    /\ batch' = requests
    /\ requests' = <<>>
    /\ progressed' = (requests # <<>>)
    /\ UNCHANGED <<graphVars, suspended, jobs, to, promise, stack, ready,
                   outcome, history>>

(* One request: settle it from the state of its target, or wait for the     *)
(* target and evaluate it if nobody has.                                   *)
(* Mutant: a module that is still evaluating has its namespace handed out.   *)
SettleRequestEarly(p) ==
    /\ \/ to[p] = Unresolved /\ Settle({p}, "rejected")
       \/ to[p] # Unresolved /\ status[to[p]] = "Errored" /\ Settle({p}, "rejected")
       \/ /\ to[p] # Unresolved
          /\ status[to[p]] \in {"Evaluated", "Evaluating", "EvaluatingAsync"}
          /\ Settle({p}, "fulfilled")
    /\ UNCHANGED <<status, waiters, stack>>

SettleRequest(p) ==
    /\ \/ to[p] = Unresolved /\ Settle({p}, "rejected")
       \/ to[p] # Unresolved /\ status[to[p]] = "Errored" /\ Settle({p}, "rejected")
       \/ to[p] # Unresolved /\ status[to[p]] = "Evaluated" /\ Settle({p}, "fulfilled")
    /\ UNCHANGED <<status, waiters, stack>>

AwaitTarget(p) ==
    /\ to[p] # Unresolved
    /\ status[to[p]] \notin {"Errored", "Evaluated"}
    /\ waiters' = [waiters EXCEPT ![to[p]] = @ \cup {p}]
    /\ Enter(to[p], stack)
    /\ UNCHANGED <<promise, jobs>>

ProcessRequest ==
    /\ Idle /\ phase = "imports" /\ batch # <<>>
    /\ batch' = Tail(batch)
    /\ SettleRequest(Head(batch)) \/ AwaitTarget(Head(batch))
    /\ UNCHANGED <<deps, pending, parents, order, nextOrder, suspended, requests,
                   to, phase, ready, progressed, outcome, history>>

(* Mutants: the jobs of a turn do not count as progress; every turn does.    *)
RunJobsUncounted ==
    /\ Idle /\ phase = "imports" /\ batch = <<>>
    /\ phase' = "jobs"
    /\ UNCHANGED <<graphVars, vmVars, stack, batch, ready, progressed, outcome,
                   history>>

RunJobsAlwaysProgress ==
    /\ Idle /\ phase = "imports" /\ batch = <<>>
    /\ phase' = "jobs"
    /\ progressed' = TRUE
    /\ UNCHANGED <<graphVars, vmVars, stack, batch, ready, outcome, history>>

RunPromiseJobs ==
    /\ Idle /\ phase = "imports" /\ batch = <<>>
    /\ phase' = "jobs"
    /\ progressed' = (progressed \/ jobs > 0)
    /\ UNCHANGED <<graphVars, vmVars, stack, batch, ready, outcome, history>>

(* The list of ready modules is computed once, before any is resumed.      *)
CollectReady ==
    /\ Idle /\ phase = "jobs" /\ jobs = 0
    /\ phase' = "resume"
    /\ ready' = {m \in Modules : status[m] = "EvaluatingAsync" /\ IsReady(m)}
    /\ UNCHANGED <<graphVars, vmVars, stack, batch, progressed, outcome, history>>

(* resume_module_in_graph; the status and the promise are looked at again,  *)
(* the modules resumed before may have changed them.                       *)
ResumeReady ==
    /\ Idle /\ phase = "resume"
    /\ \E m \in ready :
         /\ FirstByOrder(m, ready)
         /\ ready' = ready \ {m}
         /\ IF status[m] = "EvaluatingAsync" /\ IsReady(m)
              THEN /\ progressed' = TRUE
                   /\ suspended' = [suspended EXCEPT ![m] = NotSuspended]
                   /\ Push(Frame("body", m))
              ELSE UNCHANGED <<progressed, suspended, stack>>
    /\ UNCHANGED <<graphVars, requests, jobs, to, promise, phase, batch, outcome,
                   history>>

EndOfTurn ==
    /\ Idle /\ phase = "resume" /\ ready = {}
    /\ phase' = "check"
    /\ UNCHANGED <<graphVars, vmVars, stack, batch, ready, progressed, outcome,
                   history>>

(* The two ways out of the loop.                                           *)
ReturnFromEvaluate ==
    /\ Idle /\ phase = "check"
    /\ \/ Finished /\ EndWith("ok")
       \/ ~Finished /\ ~progressed /\ EndWith("stuck")
    /\ UNCHANGED <<graphVars, vmVars, stack, batch, ready, progressed, history>>

Terminating == phase = "end" /\ UNCHANGED vars

-----------------------------------------------------------------------------
Init ==
    /\ deps \in Graphs
    /\ status = [m \in Modules |-> IF m = Entry THEN "Evaluating" ELSE "Linked"]
    /\ pending = [m \in Modules |-> 0]
    /\ parents = [m \in Modules |-> {}]
    /\ order = [m \in Modules |-> NoOrder]
    /\ nextOrder = 0
    /\ waiters = [m \in Modules |-> {}]
    /\ suspended = [m \in Modules |-> NotSuspended]
    /\ requests = <<>>
    /\ jobs = 0
    /\ to = [p \in Promises |-> Unresolved]
    /\ promise = [p \in Promises |-> "unused"]
    /\ stack = <<Inner(Entry)>>
    /\ phase = "entry"
    /\ batch = <<>>
    /\ ready = {}
    /\ progressed = FALSE
    /\ outcome = "running"
    /\ runs = [m \in Modules |-> 0]
    /\ awaits = [m \in Modules |-> 0]

InnerEvaluation ==
    \/ SkipDependency \/ EvaluateDependency \/ DependencyErrored
    \/ JoinDependency \/ WaitForDependencies \/ StartModule

AsyncParents == StartAvailable \/ ReturnFromComplete

Body ==
    \/ ImportInBody \/ QueueJob \/ Suspend \/ Throw \/ Return
    \/ BodyCompleted \/ RunJob

Evaluate ==
    \/ TakeRequests \/ ProcessRequest \/ RunPromiseJobs \/ CollectReady
    \/ ResumeReady \/ EndOfTurn \/ ReturnFromEvaluate

Step == InnerEvaluation \/ AsyncParents \/ Body \/ Evaluate

Next == Step \/ Terminating

(* The evaluator is an ordinary thread that is never preempted: it takes a  *)
(* step whenever it has one.                                               *)
Spec == Init /\ [][Next]_vars /\ WF_vars(Step)

-----------------------------------------------------------------------------
(* Properties.                                                             *)

TypeOK ==
    /\ deps \in Graphs
    /\ status \in [Modules -> Statuses]
    /\ pending \in [Modules -> Nat]
    /\ parents \in [Modules -> SUBSET Modules]
    /\ order \in [Modules -> Nat \cup {NoOrder}]
    /\ nextOrder \in Nat
    /\ waiters \in [Modules -> SUBSET Promises]
    /\ suspended \in [Modules -> AwaitKinds]
    /\ requests \in Seq(Promises)
    /\ jobs \in Nat
    /\ to \in [Promises -> Modules \cup {Unresolved}]
    /\ promise \in [Promises -> {"unused", "pending", "fulfilled", "rejected"}]
    /\ stack \in Seq(Frames)
    /\ phase \in Phases
    /\ batch \in Seq(Promises)
    /\ ready \in SUBSET Modules
    /\ progressed \in BOOLEAN
    /\ outcome \in Outcomes
    /\ runs \in [Modules -> Nat]
    /\ awaits \in [Modules -> Nat]

(* A module's pending count is the number of modules that will release it:  *)
(* a count that is too high never reaches zero and the module never runs,   *)
(* one that is too low starts it before its dependencies.                  *)
PendingCountsParents ==
    \A m \in Modules :
        pending[m] = Cardinality({d \in Modules : m \in parents[d]})

(* However often a module is imported, statically, by import(), in cycles    *)
(* and through asynchronous parents, its body is started at most once.      *)
BodyOnce == \A m \in Modules : runs[m] <= 1

(* Reachability over the static dependencies.                              *)
Reaches(m, n) ==
    \A S \in SUBSET Modules :
        /\ m \in S
        /\ \A x \in S : ToSet(deps[x]) \subseteq S
        => n \in S

(* An evaluation that failed left m behind in the state Evaluating.         *)
Abandoned(m) ==
    status[m] = "Evaluating" /\ \A i \in 1 .. Len(stack) : stack[i].mod # m

(* Somebody has m in hand: a call in progress, the list of the available       *)
(* parents of one, or the await m is suspended at (whether m goes on from     *)
(* there is up to the program: it may await what is never settled).          *)
InHand(m) ==
    \/ \E i \in 1 .. Len(stack) : stack[i].mod = m \/ m \in stack[i].avail
    \/ status[m] = "EvaluatingAsync" /\ suspended[m].kind # "none"

(* m is in hand, or waits for dependencies that can all end themselves.      *)
CanEnd(m) ==
    \A S \in SUBSET Modules :
        (\A x \in Modules :
            \/ InHand(x)
            \/ /\ status[x] = "EvaluatingAsync"
               /\ \E d \in Modules : x \in parents[d]
               /\ \A d \in Modules : x \in parents[d] => d \in S
            => x \in S)
        => m \in S

(* The evaluation of a module that imports m failed while m was Evaluating.  *)
LeftBehind(m) ==
    Abandoned(m) /\ \E e \in Modules : status[e] = "Errored" /\ Reaches(e, m)

(* m waits for a module that failed, which will not release it.              *)
WaitsForFailed(m) ==
    /\ status[m] = "EvaluatingAsync"
    /\ \E e \in Modules :
        /\ status[e] = "Errored"
        /\ \A S \in SUBSET Modules :
              e \in S /\ (\A x \in S : parents[x] \subseteq S) => m \in S

(* An error nobody caught ended the run.                                     *)
RunFailed == outcome \in {"exception", "fault", "linkError"}

(* An import() promise that is still pending will be settled, unless one of   *)
(* two failures has lost it: it is queued, drained, or registered with its     *)
(* target, and the target can still end.  The two are those of fail_module,   *)
(* which tells nobody but the waiters of the module it fails: a module the     *)
(* failed evaluation left Evaluating, and one that waits for the failed one.  *)
(* An error that ends the whole run answers no promise.                      *)
PendingImportIsHeld ==
    \A p \in Promises : promise[p] = "pending" =>
        \/ p \in ToSet(requests)
        \/ p \in ToSet(batch)
        \/ /\ p \in waiters[to[p]]
           /\ \/ CanEnd(to[p])
              \/ LeftBehind(to[p]) \/ WaitsForFailed(to[p])
              \/ RunFailed

(* What import() was told stays true: a namespace is handed out only for a   *)
(* module that is evaluated, for ever; a rejection means a failed one.       *)
SettledImportAgrees ==
    \A p \in Promises :
        /\ promise[p] = "fulfilled" =>
              to[p] # Unresolved /\ status[to[p]] = "Evaluated"
        /\ promise[p] = "rejected" =>
              to[p] = Unresolved \/ status[to[p]] = "Errored"

(* The run is reported as waiting on a top-level await only when nothing is   *)
(* left that the loop could have done.                                       *)
StuckMeansNothingRunnable ==
    outcome = "stuck" =>
        /\ requests = <<>> /\ batch = <<>> /\ jobs = 0
        /\ \A m \in Modules : status[m] = "EvaluatingAsync" => ~IsReady(m)

(* Bodies start in dependency order: a module's body starts after the body of *)
(* every dependency has started, unless the two are in a cycle or a failed   *)
(* import() left the dependency behind.                                      *)
StartOrder ==
    [][\A m \in Modules : runs'[m] # runs[m] =>
          \A d \in ToSet(deps[m]) :
              \/ runs[d] > 0 \/ status[d] = "Evaluated"
              \/ Reaches(d, m)
              \/ Abandoned(d)]_vars

(* Evaluation is dependency-ordered: when a module's body starts, its       *)
(* dependencies outside its own cycle have been evaluated.                  *)
DependencyOrder ==
    [][\A m \in Modules : runs'[m] # runs[m] =>
          \A d \in ToSet(deps[m]) : status[d] = "Evaluated" \/ Reaches(d, m)]_vars

(* The loop cannot spin: every evaluation ends, with a result or an error,   *)
(* also when a module waits for a promise nobody settles.                    *)
Termination == <>(phase = "end")

(* A run that ends with "top-level await is pending with no runnable          *)
(* PromiseJobs" has a module suspended at a top-level await.                 *)
StuckOnAwait ==
    outcome = "stuck" =>
        \E m \in Modules : status[m] = "EvaluatingAsync" /\ suspended[m] # NotSuspended
=============================================================================
