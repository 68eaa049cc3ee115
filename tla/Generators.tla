----------------------------- MODULE Generators -----------------------------
(***************************************************************************)
(* Generators and async generators (js-vm::interp): next, return and throw, *)
(* the request queue, yield, yield* and await, and the drains of the job   *)
(* queue that awaiting inside an instruction starts.                       *)
(*                                                                         *)
(* Main, the bodies and the callbacks are the environment: each may do     *)
(* anything the language lets it, at most MaxOps times in all.  Values and *)
(* the delegates of yield* are the host's; a body's locals are only there  *)
(* or lost.                                                                *)
(***************************************************************************)
EXTENDS Naturals, Sequences, SequencesExt, FiniteSets

CONSTANTS Sync, Async,   \* the generator objects
          NoGenerator,
          MaxOps         \* operations of the program's code

ASSUME GeneratorsAssumption ==
    /\ Sync \cap Async = {}
    /\ NoGenerator \notin Sync \cup Async
    /\ MaxOps \in Nat

VARIABLES heap,      \* gens, requests, jobs, asleep, waiting: what outlives a frame
          frames,    \* the call stack, with the loops of drain_jobs in it
          thrown,    \* an exception is leaving the top frame
          result,    \* how the run ended
          ops

vars == <<heap, frames, thrown, result, ops>>

Generators == Sync \cup Async
Kinds == {"next", "return", "throw"}

-----------------------------------------------------------------------------
\* GeneratorState.  A generator's locals are moved out while it runs; its pc
\* is at a yield* (which it replays) or at an instruction to go on from.
NewGenerator ==
    [done |-> FALSE, started |-> FALSE, executing |-> FALSE, queue |-> <<>>, delegate |-> FALSE,
     at |-> "code", tries |-> <<>>, pending |-> FALSE, locals |-> TRUE]

\* CallFrame.  r is the request an async generator's frame is to answer;
\* resume the completion it is resumed with; star what a yield* does next.
\* A drain is the loop of drain_jobs, and `then` what its caller goes on with.
Frame(k) ==
    [k |-> k, g |-> NoGenerator, r |-> 0, resume |-> "none", at |-> "code", tries |-> <<>>,
     pending |-> FALSE, locals |-> TRUE, star |-> "", kind |-> "next", then |-> ""]
Drain(then, g, r) == [Frame("drain") EXCEPT !.then = then, !.g = g, !.r = r]

Top      == Last(frames)
Under(f) == Append(Front(frames), f)
G        == heap.gens[Top.g]
Runs     == result = "running" /\ ~ thrown
Draining == Runs /\ Top.k = "drain"
InBody   == Runs /\ Top.k = "body"
\* The step prologue hands a plain yield its completion; a yield* takes its own,
\* and is recognised by the delegate.
Resuming == InBody /\ Top.resume # "none" /\ ~ G.delegate
AtStar   == InBody /\ ~ Resuming /\ Top.at = "star"
\* Code that may perform any operation.
BodyCode == InBody /\ ~ Resuming /\ Top.at = "code"
InCode   == (Runs /\ Top.k \in {"main", "callback"}) \/ BodyCode
Operation == ops < MaxOps /\ ops' = ops + 1

-----------------------------------------------------------------------------
\* Requests and their promises.
Settle(h, r, answer) == [h EXCEPT !.requests[r].answer = answer]
Answer(h, f, answer) == IF f.r = 0 THEN h ELSE Settle(h, f.r, answer)
ByKind(kind) == IF kind = "throw" THEN "error" ELSE "done"

RequestJob(g, r)    == [k |-> "request", g |-> g, r |-> r]
ResumeJob(g, err)   == [k |-> "resume", g |-> g, r |-> IF err THEN 1 ELSE 0]
CallbackJob         == [k |-> "callback", g |-> NoGenerator, r |-> 0]
Enqueue(h, job)     == [h EXCEPT !.jobs = Append(@, job)]

\* Mutants: the generator is free while the next request is only queued; the
\* last request is taken first.
FinishFree(h, g) ==
    LET q == h.gens[g].queue IN
    IF q = <<>> THEN [h EXCEPT !.gens[g].executing = FALSE]
    ELSE Enqueue([h EXCEPT !.gens[g].queue = Tail(q), !.gens[g].executing = FALSE], RequestJob(g, Head(q)))
FinishLast(h, g) ==
    LET q == h.gens[g].queue IN
    IF q = <<>> THEN [h EXCEPT !.gens[g].executing = FALSE]
    ELSE Enqueue([h EXCEPT !.gens[g].queue = Front(q)], RequestJob(g, Last(q)))
\* The next request in the queue becomes a job, and keeps the generator busy.
Finish(h, g) ==
    LET q == h.gens[g].queue IN
    IF q = <<>> THEN [h EXCEPT !.gens[g].executing = FALSE]
    ELSE Enqueue([h EXCEPT !.gens[g].queue = Tail(q)], RequestJob(g, Head(q)))
Finished(h, f) == IF f.r = 0 THEN h ELSE Finish(h, f.g)

Close(h, g) == [h EXCEPT !.gens[g].done = TRUE, !.gens[g].delegate = FALSE]

\* Mutant: the frame is not told which promise it answers.
CheckedOutAlone(g, kind, r) ==
    [Frame("body") EXCEPT !.g = g, !.resume = IF heap.gens[g].started THEN kind ELSE "none",
        !.at = heap.gens[g].at, !.tries = heap.gens[g].tries, !.pending = heap.gens[g].pending,
        !.locals = heap.gens[g].locals]
\* The frame a generator is resumed in; the first time, with no completion.
CheckedOut(g, kind, r) ==
    LET s == heap.gens[g] IN
    [Frame("body") EXCEPT !.g = g, !.r = r, !.resume = IF s.started THEN kind ELSE "none",
        !.at = s.at, !.tries = s.tries, !.pending = s.pending, !.locals = s.locals]
Checkout(fs, h, g, kind, r) ==
    /\ frames' = Append(fs, CheckedOut(g, kind, r))
    /\ heap' = [h EXCEPT !.gens[g].started = TRUE, !.gens[g].tries = <<>>,
                         !.gens[g].pending = FALSE, !.gens[g].locals = FALSE]

-----------------------------------------------------------------------------
\* g.next(), g.return(v), g.throw(e).  Nothing keeps a running generator from
\* being resumed again, except that an async one is busy.
Ask(g, kind) ==
    LET s    == heap.gens[g]
        r    == Len(heap.requests) + 1
        over == s.done \/ (kind # "next" /\ ~ s.started)
        asked(answer) == [heap EXCEPT !.requests = Append(@, [g |-> g, kind |-> kind, answer |-> answer])]
    IN CASE g \in Sync /\ over ->
              /\ thrown' = (kind = "throw")
              /\ heap' = [heap EXCEPT !.gens[g].done = TRUE]
              /\ UNCHANGED frames
         [] g \in Sync /\ ~ over -> Checkout(frames, heap, g, kind, 0) /\ UNCHANGED thrown
         [] g \in Async /\ over ->
              /\ heap' = [asked(ByKind(kind)) EXCEPT !.gens[g].done = TRUE]
              /\ UNCHANGED <<frames, thrown>>
         [] g \in Async /\ ~ over /\ s.executing ->
              /\ heap' = [asked("none") EXCEPT !.gens[g].queue = Append(@, r)]
              /\ UNCHANGED <<frames, thrown>>
         [] g \in Async /\ ~ over /\ ~ s.executing ->
              Checkout(frames, [asked("none") EXCEPT !.gens[g].executing = TRUE], g, kind, r)
              /\ UNCHANGED thrown
Call == /\ InCode /\ Operation
        /\ \E g \in Generators, kind \in Kinds : Ask(g, kind)
        /\ UNCHANGED result

\* A callback is queued, or the promise an async generator awaits is settled.
Defer == /\ InCode /\ Operation
         /\ heap' = Enqueue(heap, CallbackJob)
         /\ UNCHANGED <<frames, thrown, result>>
SettleAwaited ==
    /\ InCode /\ Operation
    /\ \E g \in heap.waiting, err \in BOOLEAN :
        heap' = Enqueue([heap EXCEPT !.waiting = @ \ {g}], ResumeJob(g, err))
    /\ UNCHANGED <<frames, thrown, result>>

-----------------------------------------------------------------------------
\* The current frame's generator completes: its frame goes and its caller gets
\* the result, or its promise is settled.
Complete(h, answer) ==
    /\ heap' = Finished(Answer(h, Top, answer), Top)
    /\ frames' = Front(frames)
    /\ thrown' = FALSE
    /\ UNCHANGED <<result, ops>>

\* return() at a plain yield ends the body there and then: its handlers are
\* not run.
PlainResume ==
    /\ Resuming
    /\ CASE Top.resume = "return" -> Complete(Close(heap, Top.g), "done")
         [] Top.resume # "return" ->
              /\ frames' = Under([Top EXCEPT !.resume = "none"])
              /\ thrown' = (Top.resume = "throw")
              /\ UNCHANGED <<heap, result, ops>>

ReturnFromBody == BodyCode /\ Complete([heap EXCEPT !.gens[Top.g].done = TRUE], "done")

\* The frame is stored.  An async generator then awaits the value, which runs
\* every queued job, while the generator is still busy.
Suspend(at) ==
    /\ heap' = [heap EXCEPT !.gens[Top.g] = [@ EXCEPT
                  !.at = at, !.tries = Top.tries, !.pending = Top.pending,
                  !.locals = Top.locals, !.done = FALSE]]
    /\ frames' = IF Top.r = 0 THEN Front(frames) ELSE Under(Drain("answer", Top.g, Top.r))
    /\ UNCHANGED <<thrown, result>>
Yield == BodyCode /\ Operation /\ Suspend("code")

\* The frame waits for the promise, settled already or some day.
Await ==
    /\ BodyCode /\ Top.g \in Async /\ Operation
    /\ LET h == [heap EXCEPT !.asleep[Top.g] = Top] IN
       \/ heap' = [h EXCEPT !.waiting = @ \cup {Top.g}]
       \/ \E err \in BOOLEAN : heap' = Enqueue(h, ResumeJob(Top.g, err))
    /\ frames' = Front(frames)
    /\ UNCHANGED <<thrown, result>>

Try ==
    /\ BodyCode /\ Operation /\ Top.tries = <<>>
    /\ \E handler \in {"catch", "finally"} : frames' = Under([Top EXCEPT !.tries = <<handler>>])
    /\ UNCHANGED <<heap, thrown, result>>
EndTry ==
    /\ BodyCode /\ Top.tries # <<>>
    /\ frames' = Under([Top EXCEPT !.tries = <<>>])
    /\ UNCHANGED <<heap, thrown, result, ops>>
EndFinally ==
    /\ BodyCode /\ Top.pending
    /\ frames' = Under([Top EXCEPT !.pending = FALSE])
    /\ thrown' = TRUE
    /\ UNCHANGED <<heap, result, ops>>
Throw ==
    /\ BodyCode /\ Operation
    /\ thrown' = TRUE
    /\ UNCHANGED <<heap, frames, result>>

\* A frame resumed while its generator was running has no locals to use.
UseLostLocal ==
    /\ BodyCode /\ ~ Top.locals
    /\ result' = "panic"
    /\ UNCHANGED <<heap, frames, thrown, ops>>

-----------------------------------------------------------------------------
\* yield*.
Delegate ==
    /\ BodyCode /\ Operation
    /\ frames' = Under([Top EXCEPT !.at = "star"])
    /\ UNCHANGED <<heap, thrown, result>>

AcquireDelegate ==
    /\ AtStar /\ ~ G.delegate
    /\ \/ heap' = [heap EXCEPT !.gens[Top.g].delegate = TRUE] /\ UNCHANGED thrown
       \/ thrown' = TRUE /\ UNCHANGED heap
    /\ UNCHANGED <<frames, result, ops>>

\* The completion is consumed.  The value given to return() is awaited first.
TakeCompletion ==
    /\ AtStar /\ G.delegate /\ Top.star = ""
    /\ LET kind == IF Top.resume = "none" THEN "next" ELSE Top.resume
           f    == [Top EXCEPT !.resume = "none", !.kind = kind, !.star = "call"]
       IN frames' = IF Top.g \in Async /\ kind = "return"
                    THEN Append(Under(f), Drain("go on", Top.g, Top.r)) ELSE Under(f)
    /\ UNCHANGED <<heap, thrown, result, ops>>

\* The delegate's method answers, throws, or does not exist.  It stays the
\* delegate when it throws.
CallDelegate ==
    /\ AtStar /\ Top.star = "call"
    /\ \/ /\ thrown' = TRUE
          /\ UNCHANGED <<heap, frames, result, ops>>
       \/ /\ Top.kind = "throw" /\ Top.g \in Async
          /\ frames' = Append(frames, Drain("refuse", Top.g, Top.r))
          /\ UNCHANGED <<heap, thrown, result, ops>>
       \/ Top.kind = "return" /\ Complete(Close(heap, Top.g), "done")
       \/ \E o \in {"value", "done"} :
          /\ frames' = LET fs == Under([Top EXCEPT !.star = o]) IN
                       IF Top.g \in Async THEN Append(fs, Drain("go on", Top.g, Top.r)) ELSE fs
          /\ UNCHANGED <<heap, thrown, result, ops>>

EndDelegation ==
    /\ AtStar /\ Top.star = "done"
    /\ IF Top.kind = "return" THEN Complete(Close(heap, Top.g), "done")
       ELSE /\ heap' = [heap EXCEPT !.gens[Top.g].delegate = FALSE]
            /\ frames' = Under([Top EXCEPT !.at = "code", !.star = ""])
            /\ UNCHANGED <<thrown, result, ops>>
YieldDelegated == AtStar /\ Top.star = "value" /\ Suspend("star") /\ UNCHANGED ops

-----------------------------------------------------------------------------
\* An exception goes to the frame's handler, or fails the frame.
Unwind ==
    /\ result = "running" /\ thrown
    /\ LET unhandled == Top.tries = <<>> IN
       \/ /\ Top.k = "main" /\ result' = "throw" /\ UNCHANGED <<heap, frames, thrown, ops>>
       \/ /\ Top.k = "main" /\ thrown' = FALSE /\ UNCHANGED <<heap, frames, result, ops>>
       \/ /\ Top.k = "callback"
          /\ frames' = Front(frames)
          /\ thrown' = FALSE
          /\ UNCHANGED <<heap, result, ops>>
       \/ /\ Top.k = "body" /\ ~ unhandled
          /\ frames' = Under([Top EXCEPT !.tries = <<>>, !.pending = (Last(Top.tries) = "finally"),
                                         !.at = "code", !.star = ""])
          /\ thrown' = FALSE
          /\ UNCHANGED <<heap, result, ops>>
       \/ /\ Top.k = "body" /\ unhandled /\ Top.r # 0
          /\ Complete(Close(heap, Top.g), "error")
       \/ /\ Top.k = "body" /\ unhandled /\ Top.r = 0
          /\ heap' = Close(heap, Top.g)
          /\ frames' = Front(frames)
          /\ UNCHANGED <<thrown, result, ops>>

-----------------------------------------------------------------------------
\* drain_jobs.
\* Mutant: a finished generator answers one request and forgets the others.
AnswerClosedOnce(h, j) == Settle(h, j.r, ByKind(h.requests[j.r].kind))
AnswerClosed(h, j) == Finish(Settle(h, j.r, ByKind(h.requests[j.r].kind)), j.g)
RunJob ==
    /\ Draining /\ heap.jobs # <<>>
    /\ LET j == Head(heap.jobs)
           h == [heap EXCEPT !.jobs = Tail(@)]
       IN CASE j.k = "callback" ->
                 /\ frames' = Append(frames, Frame("callback"))
                 /\ heap' = h
                 /\ UNCHANGED thrown
            [] j.k = "resume" ->
                 /\ frames' = Append(frames, h.asleep[j.g])
                 /\ heap' = [h EXCEPT !.asleep[j.g] = Frame("none")]
                 /\ thrown' = (j.r = 1)
            [] j.k = "request" /\ h.gens[j.g].done -> heap' = AnswerClosed(h, j) /\ UNCHANGED <<frames, thrown>>
            [] j.k = "request" /\ ~ h.gens[j.g].done ->
                 Checkout(frames, h, j.g, h.requests[j.r].kind, j.r) /\ UNCHANGED thrown
    /\ UNCHANGED <<result, ops>>

\* The queue is empty: the promise awaited has been settled by now, or never
\* will be as far as the instruction can tell.
EndDrain ==
    /\ Draining /\ heap.jobs = <<>>
    /\ LET done == Front(frames) IN
       \/ /\ Top.then = "end"
          /\ result' = "done" /\ frames' = done
          /\ UNCHANGED <<heap, thrown, ops>>
       \/ /\ Top.then # "end"
          /\ result' = "internal"
          /\ UNCHANGED <<heap, frames, thrown, ops>>
       \/ /\ Top.then = "answer"
          /\ \/ heap' = Finish(Settle(heap, Top.r, "value"), Top.g)
             \/ heap' = Finish(Settle(Close(heap, Top.g), Top.r, "error"), Top.g)
          /\ frames' = done
          /\ UNCHANGED <<thrown, result, ops>>
       \/ /\ Top.then \in {"go on", "refuse"}
          /\ thrown' \in {Top.then = "refuse", TRUE}
          /\ frames' = done
          /\ UNCHANGED <<heap, result, ops>>

\* Main's Return drains the queue before its frame goes.
EndMain ==
    /\ Runs /\ Top.k = "main"
    /\ frames' = <<Drain("end", NoGenerator, 0)>>
    /\ UNCHANGED <<heap, thrown, result, ops>>
EndCallback ==
    /\ Runs /\ Top.k = "callback"
    /\ frames' = Front(frames)
    /\ UNCHANGED <<heap, thrown, result, ops>>

-----------------------------------------------------------------------------
Init ==
    /\ heap = [gens |-> [g \in Generators |-> NewGenerator], requests |-> <<>>, jobs |-> <<>>,
               asleep |-> [g \in Async |-> Frame("none")], waiting |-> {}]
    /\ frames = <<Frame("main")>>
    /\ thrown = FALSE
    /\ result = "running"
    /\ ops = 0

Ended == result # "running" /\ UNCHANGED vars
Next ==
    \/ Call \/ Defer \/ SettleAwaited \/ PlainResume \/ ReturnFromBody \/ Yield \/ Await
    \/ Try \/ EndTry \/ EndFinally \/ Throw \/ UseLostLocal
    \/ Delegate \/ AcquireDelegate \/ TakeCompletion \/ CallDelegate \/ EndDelegation \/ YieldDelegated
    \/ Unwind \/ RunJob \/ EndDrain \/ EndMain \/ EndCallback \/ Ended
Spec == Init /\ [][Next]_vars
=============================================================================
