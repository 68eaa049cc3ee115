----------------------------- MODULE PromiseJobs -----------------------------
(***************************************************************************)
(* Promises, their reactions, the job queue and async functions: the       *)
(* promise natives of crates/js-vm/src/builtins.rs, and Await, Return,      *)
(* handle_exception, drain_jobs and resume_async_continuation of            *)
(* crates/js-vm/src/interp.rs, for the program of one module.               *)
(*                                                                         *)
(* The code that runs is the environment: main, async functions, handlers,  *)
(* executors and the "then" of thenables may call any promise operation on  *)
(* any promise, at most MaxOps times in all.  A value is a promise, a       *)
(* thenable or plain; a settled promise only ever holds a plain value       *)
(* (settle_promise is called with nothing else), so none is kept.           *)
(* Executors and thenables' "then" are bytecode; handlers may be natives.   *)
(***************************************************************************)
EXTENDS Integers, Sequences, FiniteSets, SequencesExt

CONSTANTS
    MaxPromises,  \* bound: promises the program may create
    MaxOps,       \* bound: operations its code may perform
    Handlers      \* the pairs <<onFulfilled, onRejected>> given to then()

Ids    == 1 .. MaxPromises
Plain    == 0
Thenable == -1
Values   == {Plain, Thenable} \cup Ids

(* A handler that is called: bytecode, or a native that returns or fails.   *)
HandlerKinds == {"none", "code", "native", "failing"}

ASSUME PromisesAssumption ==
    /\ MaxPromises \in Nat \ {0}
    /\ MaxOps \in Nat
    /\ Handlers \subseteq HandlerKinds \X HandlerKinds

VARIABLES
    heap,         \* the promises and Interpreter::jobs
    suspended,    \* Interpreter::suspended_async: await ids and the promise of
                  \* the async function whose frame is saved
    stack,        \* call frames, and drain_jobs loops between them
    pendingErr,   \* Interpreter::pending_err holds an exception
    awaits,       \* next_async_continuation - 1
    awaited,      \* the promise main is suspended on, 0 if it is not
    outcome,      \* how the run ended
    ops           \* operations performed so far

vars == <<heap, suspended, stack, pendingErr, awaits, awaited, outcome, ops>>

-----------------------------------------------------------------------------
States == {"none", "pending", "fulfilled", "rejected"}

Outcomes == {"running", "completed", "threw", "stuck", "fault"}

(* PromiseReaction: handlers and result, or the await id of a continuation. *)
(* An adopted promise is followed by a reaction without handlers.           *)
(* History: "nth" numbers the registrations of a run, whatever registered;  *)
(* the code has no such field and no step reads it.                        *)
ThenReactions == [kind : {"then"}, onFulfilled : HandlerKinds,
                  onRejected : HandlerKinds, result : Ids, nth : Nat]
AwaitReactions == [kind : {"await"}, id : 1 .. MaxOps, nth : Nat]
Reactions == ThenReactions \cup AwaitReactions

Follow(p) == [kind |-> "then", onFulfilled |-> "none", onRejected |-> "none",
              result |-> p, nth |-> 0]
Continue(id) == [kind |-> "await", id |-> id, nth |-> 0]

(* PromiseJob.  "from" names the promise that was settled; the code has no  *)
(* such field.                                                             *)
Jobs == [kind : {"reaction"}, reaction : Reactions, rejected : BOOLEAN, from : Ids]
        \cup [kind : {"thenable"}, promise : Ids]

(* CallFrame, by what its Return does.  "returning" is the frame whose      *)
(* Return opcode is draining the queue.                                    *)
CodeFrames == {"main", "async", "reaction", "executor", "thenable"}
Frames == [op : CodeFrames \cup {"drain", "returning"}, promise : Ids \cup {0},
           value : Values]

Frame(op, p) == [op |-> op, promise |-> p, value |-> Plain]
Drain == Frame("drain", 0)
Main  == Frame("main", 0)

Idle        == stack = <<>>
Top         == Last(stack)
Running(op) == ~Idle /\ Top.op = op

-----------------------------------------------------------------------------
(* Operations on the heap, as functions from heap to heap.  "made" counts    *)
(* the promises, "known" are those the program can name, "held" those whose *)
(* resolving functions it has, and "orphans" those that Promise.all gave    *)
(* for a pending element: nothing ever settles them.  "registered" counts   *)
(* the reactions registered so far (history).                              *)
Heaps == [made : 0 .. MaxPromises, state : [Ids -> States],
          reactions : [Ids -> Seq(Reactions)], jobs : Seq(Jobs),
          known : SUBSET Ids, held : SUBSET Ids, orphans : SUBSET Ids,
          registered : Nat]

Fresh == heap.made < MaxPromises
NewId(h) == h.made + 1

New(h, state) == [h EXCEPT !.made = @ + 1, !.state[h.made + 1] = state]

(* The program gets to see p, or gets its resolving functions.              *)
Show(h, p) == [h EXCEPT !.known = @ \cup {p}]
Hold(h, p) == [h EXCEPT !.held = @ \cup {p}]

Enqueue(h, job) == [h EXCEPT !.jobs = Append(@, job)]

ReactionJob(reaction, rejected, p) ==
    [kind |-> "reaction", reaction |-> reaction, rejected |-> rejected, from |-> p]

(* Mutants of settle_promise: a settled promise is settled again; the        *)
(* reactions are queued from the last to the first.                         *)
SettleAgain(h, p, rejected) ==
    [h EXCEPT !.state[p] = IF rejected THEN "rejected" ELSE "fulfilled",
              !.reactions[p] = <<>>,
              !.jobs = @ \o [i \in DOMAIN h.reactions[p] |->
                                ReactionJob(h.reactions[p][i], rejected, p)]]

SettleReversed(h, p, rejected) ==
    IF h.state[p] # "pending" THEN h
    ELSE [SettleAgain(h, p, rejected) EXCEPT
             !.jobs = h.jobs \o [i \in DOMAIN h.reactions[p] |->
                 ReactionJob(Reverse(h.reactions[p])[i], rejected, p)]]

(* settle_promise: only a pending promise; its reactions become jobs.       *)
Settle(h, p, rejected) ==
    IF h.state[p] # "pending" THEN h
    ELSE [h EXCEPT !.state[p] = IF rejected THEN "rejected" ELSE "fulfilled",
                   !.reactions[p] = <<>>,
                   !.jobs = @ \o [i \in DOMAIN h.reactions[p] |->
                                     ReactionJob(h.reactions[p][i], rejected, p)]]

Numbered(h, reaction) == [reaction EXCEPT !.nth = h.registered + 1]
Counted(h) == [h EXCEPT !.registered = @ + 1]

(* Mutant: a reaction is kept and queued as well.                            *)
RegisterTwice(h, p, reaction) ==
    Enqueue([Counted(h) EXCEPT !.reactions[p] = Append(@, Numbered(h, reaction))],
            ReactionJob(Numbered(h, reaction), h.state[p] = "rejected", p))

(* The reaction is kept by a pending promise, and queued for a settled one. *)
Register(h, p, reaction) ==
    LET r == Numbered(h, reaction)
    IN  IF h.state[p] = "pending"
          THEN [Counted(h) EXCEPT !.reactions[p] = Append(@, r)]
          ELSE Enqueue(Counted(h), ReactionJob(r, h.state[p] = "rejected", p))

(* Mutant: only a pending promise is followed.                               *)
ResolvePending(h, p, v) ==
    IF v = p THEN Settle(h, p, TRUE)
    ELSE IF v \in Ids
      THEN IF h.state[v] = "pending" THEN Register(h, v, Follow(p)) ELSE h
    ELSE IF v = Thenable THEN Enqueue(h, [kind |-> "thenable", promise |-> p])
    ELSE Settle(h, p, FALSE)

(* resolve_promise                                                         *)
Resolve(h, p, v) ==
    IF v = p THEN Settle(h, p, TRUE)
    ELSE IF v \in Ids THEN Register(h, v, Follow(p))
    ELSE IF v = Thenable THEN Enqueue(h, [kind |-> "thenable", promise |-> p])
    ELSE Settle(h, p, FALSE)

(* promise_resolved: the value itself if it is a promise, else a new one    *)
(* resolved with it.                                                       *)
Wraps(v)      == v \notin Ids
Wrapped(h, v) == IF Wraps(v) THEN Resolve(New(h, "pending"), NewId(h), v) ELSE h
WrappedId(h, v) == IF Wraps(v) THEN NewId(h) ELSE v

-----------------------------------------------------------------------------
(* The code that runs.  An exception in pending_err is raised by the next    *)
(* step, whichever frame makes it.                                         *)
CodeRuns  == ~Idle /\ Top.op \in CodeFrames /\ ~pendingErr
Operation == CodeRuns /\ ops < MaxOps /\ ops' = ops + 1
Local     == UNCHANGED <<suspended, pendingErr, awaits, awaited, outcome>>
InPlace   == Local /\ UNCHANGED stack

Nameable == {Plain, Thenable} \cup heap.known

(* new Promise(executor)                                                   *)
PromiseConstructor ==
    /\ Operation /\ Fresh
    /\ heap' = Hold(New(heap, "pending"), NewId(heap))
    /\ stack' = Append(stack, Frame("executor", NewId(heap)))
    /\ Local

CallResolvingFunction ==
    /\ Operation
    /\ \E p \in heap.held :
          \/ heap' = Settle(heap, p, TRUE)
          \/ \E v \in Nameable : heap' = Resolve(heap, p, v)
    /\ InPlace

(* promise.then(f, r), and promise.catch(r)                                *)
PromiseThen ==
    /\ Operation /\ Fresh
    /\ \E p \in heap.known : \E h \in Handlers :
          heap' = Show(Register(New(heap, "pending"), p,
                                [Follow(NewId(heap)) EXCEPT !.onFulfilled = h[1],
                                                            !.onRejected = h[2]]),
                       NewId(heap))
    /\ InPlace

PromiseResolve ==
    /\ Operation /\ Fresh
    /\ \E v \in {Plain, Thenable} :
          heap' = Show(Wrapped(heap, v), NewId(heap))
    /\ InPlace

PromiseReject ==
    /\ Operation /\ Fresh
    /\ heap' = Show(New(heap, "rejected"), NewId(heap))
    /\ InPlace

(* Promise.all looks at its elements at once; the first that is not          *)
(* fulfilled decides.                                                      *)
PromiseAll ==
    /\ Operation /\ Fresh
    /\ \E p, q \in heap.known :
          LET decides == IF heap.state[p] = "fulfilled" THEN q ELSE p
              made    == Show(New(heap, heap.state[decides]), NewId(heap))
          IN  heap' = IF heap.state[decides] = "pending"
                        THEN [made EXCEPT !.orphans = @ \cup {NewId(heap)}]
                        ELSE made
    /\ InPlace

(* invoke of an async function: its promise is the caller's result once the *)
(* frame is gone for the first time.                                       *)
CallAsync ==
    /\ Operation /\ Fresh
    /\ heap' = New(heap, "pending")
    /\ stack' = Append(stack, Frame("async", NewId(heap)))
    /\ Local

(* The new promise that the frame's creator returns to the program.         *)
Reveal(h, f) == IF f.op \in {"async", "returning", "executor"} /\ f.promise # 0
                  THEN Show(h, f.promise) ELSE h

(* Mutant: continuations are numbered from zero.                             *)
NumberFromZero == awaits

NextContinuation == awaits + 1

(* Await in an async function: the frame is saved.                         *)
Await ==
    /\ Operation /\ Top.op = "async"
    /\ \E v \in Nameable :
          /\ Wraps(v) => Fresh
          /\ heap' = Reveal(Register(Wrapped(heap, v), WrappedId(heap, v),
                                     Continue(NextContinuation)), Top)
    /\ suspended' = suspended \cup {[id |-> NextContinuation, promise |-> Top.promise]}
    /\ awaits' = awaits + 1
    /\ stack' = Front(stack)
    /\ UNCHANGED <<pendingErr, awaited, outcome>>

(* Await in main: run_module gets the frames, and the promise to watch.     *)
AwaitInMain ==
    /\ Operation /\ Top.op = "main"
    /\ \E v \in Nameable :
          /\ Wraps(v) => Fresh
          /\ heap' = Wrapped(heap, v)
          /\ awaited' = WrappedId(heap, v)
    /\ stack' = <<>>
    /\ UNCHANGED <<suspended, pendingErr, awaits, outcome>>

(* What the creator of a frame does with its return value.                 *)
Returned(h, f) == Reveal(IF f.promise # 0 /\ f.op \in {"async", "returning", "reaction"}
                           THEN Resolve(h, f.promise, f.value) ELSE h, f)

(* Return with a single call frame drains the queue before the frame is     *)
(* popped.  A handler called from run_promise_jobs has a host frame below.   *)
(* Mutant: whatever frames are below.                                       *)
AnyCallFrame == Top.op \in {"main", "async"}

OnlyCallFrame ==
    /\ Top.op \in {"main", "async"}
    /\ \A i \in 1 .. Len(stack) - 1 : stack[i].op = "drain"

(* Mutant: main returns without draining the queue.                          *)
ReturnAtOnce(f) ==
    /\ stack' = IF f.op = "main" THEN Append(Front(stack), [f EXCEPT !.op = "returning"])
                ELSE Front(stack)
    /\ heap' = Returned(heap, f)

ReturnFrom(f) ==
    IF OnlyCallFrame
      THEN /\ stack' = Front(stack) \o <<[f EXCEPT !.op = "returning"], Drain>>
           /\ UNCHANGED heap
      ELSE /\ stack' = Front(stack)
           /\ heap' = Returned(heap, f)

(* The value returned by main, an executor or a "then" is not used.         *)
Return ==
    /\ CodeRuns
    /\ \E v \in IF Top.op \in {"async", "reaction"} THEN Nameable ELSE {Plain} :
          ReturnFrom([Top EXCEPT !.value = v])
    /\ Local /\ UNCHANGED ops

CompleteReturn ==
    /\ Running("returning")
    /\ stack' = Front(stack)
    /\ heap' = Returned(heap, Top)
    /\ outcome' = IF Top.promise = 0 THEN "completed" ELSE outcome
    /\ UNCHANGED <<suspended, pendingErr, awaits, awaited, ops>>

(* An exception no handler of the frame catches.                           *)
Unwind ==
    /\ stack' = Front(stack)
    /\ IF Top.op = "main"
         THEN outcome' = "threw" /\ UNCHANGED heap
         ELSE /\ heap' = Reveal(Settle(heap, Top.promise, TRUE), Top)
              /\ UNCHANGED outcome

Throw ==
    /\ CodeRuns /\ Unwind
    /\ UNCHANGED <<suspended, pendingErr, awaits, awaited, ops>>

(* The pending exception, caught by the frame that runs or not.            *)
RaisePendingErr ==
    /\ ~Idle /\ Top.op \in CodeFrames /\ pendingErr
    /\ pendingErr' = FALSE
    /\ Unwind \/ UNCHANGED <<stack, heap, outcome>>
    /\ UNCHANGED <<suspended, awaits, awaited, ops>>

-----------------------------------------------------------------------------
(* drain_jobs                                                              *)

NextJob == Head(heap.jobs)
Popped  == [heap EXCEPT !.jobs = Tail(@)]

(* resume_async_continuation: a rejection is raised in the saved frame.     *)
ResumeAsync ==
    /\ NextJob.kind = "reaction" /\ NextJob.reaction.kind = "await"
    /\ \/ \E s \in suspended :
             /\ s.id = NextJob.reaction.id
             /\ suspended' = suspended \ {s}
             /\ \/ /\ heap' = Popped
                   /\ stack' = Append(stack, Frame("async", s.promise))
                \/ /\ NextJob.rejected
                   /\ heap' = Settle(Popped, s.promise, TRUE)
                   /\ UNCHANGED stack
             /\ UNCHANGED outcome
       \/ /\ \A s \in suspended : s.id # NextJob.reaction.id
          /\ heap' = Popped /\ stack' = <<>> /\ outcome' = "fault"
          /\ UNCHANGED suspended
    /\ UNCHANGED pendingErr

(* A native handler pushes its result or sets pending_err; call_value pops a *)
(* value either way.                                                       *)
RunReaction ==
    /\ NextJob.kind = "reaction" /\ NextJob.reaction.kind = "then"
    /\ LET r       == NextJob.reaction
           handler == IF NextJob.rejected THEN r.onRejected ELSE r.onFulfilled
       IN  \/ /\ handler = "code"
              /\ heap' = Popped
              /\ stack' = Append(stack, Frame("reaction", r.result))
              /\ UNCHANGED pendingErr
           \/ /\ handler # "code"
              /\ heap' = Settle(Popped, r.result, handler = "none" /\ NextJob.rejected)
              /\ pendingErr' = (pendingErr \/ handler = "failing")
              /\ UNCHANGED stack
    /\ UNCHANGED <<suspended, outcome>>

(* Mutant: the promise is resolved with the thenable once more.              *)
ThenableAgain ==
    /\ NextJob.kind = "thenable"
    /\ heap' = Resolve(Popped, NextJob.promise, Thenable)
    /\ UNCHANGED <<stack, suspended, pendingErr, outcome>>

(* The thenable's "then" gets resolving functions of the promise.          *)
RunThenable ==
    /\ NextJob.kind = "thenable"
    /\ heap' = Hold(Popped, NextJob.promise)
    /\ stack' = Append(stack, Frame("thenable", NextJob.promise))
    /\ UNCHANGED <<suspended, pendingErr, outcome>>

RunJob ==
    /\ Running("drain") /\ heap.jobs # <<>>
    /\ ResumeAsync \/ RunReaction \/ RunThenable
    /\ UNCHANGED <<awaits, awaited, ops>>

EndDrain ==
    /\ Running("drain") /\ heap.jobs = <<>>
    /\ stack' = Front(stack)
    /\ UNCHANGED <<heap, ops>> /\ Local

-----------------------------------------------------------------------------
(* The host: the event loop of ModuleEvaluator::evaluate, for one module.   *)

Waiting == Idle /\ outcome = "running"

RunPromiseJobs ==
    /\ Waiting /\ heap.jobs # <<>>
    /\ stack' = <<Drain>>
    /\ UNCHANGED <<heap, ops>> /\ Local

(* resume_module_in_graph                                                  *)
ResumeMain ==
    /\ Waiting /\ heap.jobs = <<>> /\ heap.state[awaited] # "pending"
    /\ awaited' = 0
    /\ \/ stack' = <<Main>> /\ UNCHANGED outcome
       \/ /\ heap.state[awaited] = "rejected"
          /\ outcome' = "threw" /\ UNCHANGED stack
    /\ UNCHANGED <<heap, suspended, pendingErr, awaits, ops>>

NoProgress ==
    /\ Waiting /\ heap.jobs = <<>> /\ heap.state[awaited] = "pending"
    /\ outcome' = "stuck"
    /\ UNCHANGED <<heap, suspended, stack, pendingErr, awaits, awaited, ops>>

-----------------------------------------------------------------------------
Init ==
    /\ heap = [made |-> 0, state |-> [p \in Ids |-> "none"],
               reactions |-> [p \in Ids |-> <<>>], jobs |-> <<>>,
               known |-> {}, held |-> {}, orphans |-> {}, registered |-> 0]
    /\ suspended = {}
    /\ stack = <<Main>>
    /\ pendingErr = FALSE
    /\ awaits = 0
    /\ awaited = 0
    /\ outcome = "running"
    /\ ops = 0

Code == \/ PromiseConstructor \/ CallResolvingFunction \/ PromiseThen \/ PromiseResolve
        \/ PromiseReject \/ PromiseAll \/ CallAsync \/ Await \/ AwaitInMain
        \/ Return \/ CompleteReturn \/ Throw \/ RaisePendingErr

Loop == RunJob \/ EndDrain \/ RunPromiseJobs \/ ResumeMain \/ NoProgress

Step == Code \/ Loop
Terminating == outcome # "running" /\ UNCHANGED vars
Next == Step \/ Terminating

(* One thread, which nothing preempts.                                     *)
Spec == Init /\ [][Next]_vars /\ WF_vars(Step)

-----------------------------------------------------------------------------
(* Properties.                                                             *)

TypeOK ==
    /\ heap \in Heaps
    /\ suspended \subseteq [id : 1 .. MaxOps, promise : Ids]
    /\ stack \in Seq(Frames)
    /\ pendingErr \in BOOLEAN
    /\ awaits \in 0 .. MaxOps
    /\ awaited \in Ids \cup {0}
    /\ outcome \in Outcomes
    /\ ops \in 0 .. MaxOps

Positions == UNION {{<<p, i>> : i \in DOMAIN heap.reactions[p]} : p \in Ids}
Kept(x)   == heap.reactions[x[1]][x[2]]
Queued    == {i \in DOMAIN heap.jobs : heap.jobs[i].kind = "reaction"}

(* The number of things that will settle p without the program's help.      *)
Holders(p) ==
    Cardinality({i \in DOMAIN stack : stack[i].promise = p
                                      /\ stack[i].op \in {"async", "returning", "reaction"}})
    + Cardinality({s \in suspended : s.promise = p})
    + Cardinality({x \in Positions : Kept(x).kind = "then" /\ Kept(x).result = p})
    + Cardinality({i \in Queued : heap.jobs[i].reaction.kind = "then"
                                  /\ heap.jobs[i].reaction.result = p})
    + Cardinality({i \in DOMAIN heap.jobs \ Queued : heap.jobs[i].promise = p})

(* A pending promise whose resolving functions the program does not have is  *)
(* in the hands of exactly one frame, continuation, reaction or job: it is  *)
(* neither forgotten nor settled by two.                                    *)
PendingIsOwned ==
    \A p \in 1 .. heap.made :
        heap.state[p] = "pending" /\ p \notin heap.held \cup heap.orphans => Holders(p) = 1

(* A suspended async function is resumed by exactly one reaction, kept by a   *)
(* pending promise or queued; no reaction resumes anything else, and a      *)
(* settled promise keeps none.                                              *)
ContinuationHeld ==
    /\ \A s \in suspended :
          Cardinality({x \in Positions : Kept(x).kind = "await" /\ Kept(x).id = s.id})
          + Cardinality({i \in Queued : heap.jobs[i].reaction.kind = "await"
                                        /\ heap.jobs[i].reaction.id = s.id}) = 1
    /\ \A r \in {Kept(x) : x \in Positions} \cup {heap.jobs[i].reaction : i \in Queued} :
          r.kind = "await" => \E s \in suspended : s.id = r.id
    /\ \A x \in Positions : heap.state[x[1]] = "pending"
    /\ outcome # "fault"

Before(r, s) == r.nth < s.nth

(* The reactions to one promise are queued and run in the order in which     *)
(* then(), await and adoptions registered them, whichever of the three each *)
(* came from, before or after it was settled.                              *)
ReactionOrder ==
    /\ \A p \in Ids : \A i, j \in DOMAIN heap.reactions[p] :
          i < j => Before(heap.reactions[p][i], heap.reactions[p][j])
    /\ \A i, j \in Queued :
          i < j /\ heap.jobs[i].from = heap.jobs[j].from
          => Before(heap.jobs[i].reaction, heap.jobs[j].reaction)

(* When main has completed or can never be resumed, no job is left, and what *)
(* is still suspended waits for a promise that is pending.                  *)
NothingLeft ==
    outcome \in {"completed", "stuck"} =>
        /\ heap.jobs = <<>>
        /\ \A s \in suspended :
              \E x \in Positions : Kept(x).kind = "await" /\ Kept(x).id = s.id

(* The queue is drained inside a job only while an async function that the   *)
(* host's drain resumed returns, and never more deeply.                     *)
DrainDepth ==
    \A i \in DOMAIN stack : stack[i].op = "drain" /\ i > 1 =>
        \/ i = 2 /\ stack[1].op = "returning" /\ stack[1].promise = 0
        \/ i = 3 /\ stack[1].op = "drain" /\ stack[2].op = "returning"

(* A settled promise never changes, whatever code still has its resolving    *)
(* functions and whatever it was following.                                 *)
SettledForever ==
    [][\A p \in Ids : heap.state[p] \in {"fulfilled", "rejected"} =>
          heap'.state[p] = heap.state[p]]_vars

(* A reaction whose handler throws rejects its result promise.              *)
HandlerErrorRejects ==
    [][pendingErr' /\ ~pendingErr =>
          heap'.state[NextJob.reaction.result] = "rejected"]_vars

(* The program ends, and so does every drain of the queue.                  *)
Termination == <>(outcome # "running")
=============================================================================
