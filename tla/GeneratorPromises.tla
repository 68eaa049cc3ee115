-------------------------- MODULE GeneratorPromises --------------------------
(***************************************************************************)
(* What generators promise: the properties of Generators, and the request   *)
(* queue it implements.                                                    *)
(***************************************************************************)
EXTENDS Generators

Requests == DOMAIN heap.requests
Bodies(g) == {i \in DOMAIN frames : frames[i].k = "body" /\ frames[i].g = g}
Answering(g) == {i \in DOMAIN frames : frames[i].then = "answer" /\ frames[i].g = g}
Queued(g) == {i \in DOMAIN heap.jobs : heap.jobs[i].k = "request" /\ heap.jobs[i].g = g}

\* The values of every variable, and whose promise each frame answers: a body
\* resumed for a request has that request's promise (async_generator_promise),
\* which drain_jobs sets only after checkout_generator has pushed the frame.
TypeOK ==
    /\ \A g \in Generators :
         /\ {heap.gens[g].done, heap.gens[g].started, heap.gens[g].executing,
             heap.gens[g].delegate, heap.gens[g].locals} \subseteq BOOLEAN
         /\ heap.gens[g].at \in {"code", "star"}
         /\ ToSet(heap.gens[g].queue) \subseteq Requests
    /\ \A r \in Requests : heap.requests[r].answer \in {"none", "value", "done", "error"}
    /\ heap.waiting \subseteq Async
    /\ \A i \in DOMAIN frames :
         frames[i].k = "body" => IF frames[i].g \in Async THEN frames[i].r \in Requests ELSE frames[i].r = 0
    /\ thrown \in BOOLEAN /\ ops \in 0..MaxOps
    /\ result \in {"running", "done", "throw", "internal", "panic"}

\* async_executing guards the whole life of a request: an async generator is
\* busy exactly while one frame of its body is on the stack, or asleep at an
\* await, or being answered after a yield, or a queued request of it is a job;
\* never two of them.  begin_async_generator_request relies on it to keep a
\* body from being checked out twice, and a generator that is done has no body.
BusyOnce ==
    \A g \in Async :
        LET lives == Cardinality(Bodies(g)) + Cardinality(Answering(g)) + Cardinality(Queued(g))
                     + (IF heap.asleep[g].k = "body" THEN 1 ELSE 0)
        IN /\ lives = IF heap.gens[g].executing THEN 1 ELSE 0
           /\ heap.gens[g].done => Bodies(g) = {} /\ heap.asleep[g].k # "body"
           /\ heap.gens[g].queue # <<>> => heap.gens[g].executing

\* Once the program has ended and its jobs are drained, a promise returned by
\* next(), return() or throw() is still pending only if the generator's body
\* is asleep on a promise nobody settled: finish_async_generator_request hands
\* the queue on, however a request ended.
NoneForgotten ==
    result = "done" =>
        \A r \in Requests : heap.requests[r].answer = "none" => heap.requests[r].g \in heap.waiting

\* The requests of an async generator that wait for their answer, the one being
\* worked on first.
Holder(g) ==
    {frames[i].r : i \in Bodies(g) \cup Answering(g)} \cup {heap.jobs[i].r : i \in Queued(g)}
    \cup (IF heap.asleep[g].k = "body" THEN {heap.asleep[g].r} ELSE {})
Line(g) == SetToSeq(Holder(g)) \o heap.gens[g].queue
Phase(g) == IF heap.gens[g].done THEN "closed" ELSE IF heap.gens[g].started THEN "open" ELSE "fresh"

Queue == INSTANCE RequestQueue WITH
    Generators <- Async, requests <- heap.requests,
    phase <- [g \in Async |-> Phase(g)], line <- [g \in Async |-> Line(g)]

\* Refinement: whatever the interleaving of bodies, awaits, drains and calls,
\* requests that join the line are answered once each and in order, and a
\* closed generator answers the rest of its line by their kind.
RequestsInLine == Queue!Spec
=============================================================================
