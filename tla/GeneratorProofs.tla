-------------------------- MODULE GeneratorProofs --------------------------
(*****************************************************************************)
(* Every step of GeneratorPromises keeps its inductive invariant and is a    *)
(* step or a stutter of the abstract queue of requests.                      *)
(*                                                                           *)
(* The invariant says more than the properties do. An async generator whose  *)
(* executing flag is up has exactly one life, and that life has in hand the  *)
(* oldest unanswered request of the generator; the others are in its queue.  *)
(*                                                                           *)
(* The first part has the invariant and the lemmas about its parts: which    *)
(* frames of a stack and which jobs of a queue are a life of an async        *)
(* generator, what is left of them when a frame or a job is added or taken,  *)
(* and what the heap operators of Generators change. In the second part the  *)
(* actions are taken in groups: those that touch no life (Quiet), those that *)
(* end one (FinishStep), those that give one another form (MovedStep), and   *)
(* those that add a request (AskedStep). Each group has a lemma with the     *)
(* argument, and each action a lemma that shows the group's hypotheses.      *)
(*****************************************************************************)
EXTENDS GeneratorPromises, SequenceTheorems, FiniteSetTheorems, TLAPS

\* A frame, or a job, that belongs to generator g; where such frames and jobs are
\* in a stack or a job queue, and the requests they hold.
IsBody(f, g)      == f.k = "body" /\ f.g = g
IsAnswering(f, g) == f.then = "answer" /\ f.g = g
BodiesIn(s, g)    == {i \in DOMAIN s : IsBody(s[i], g)}
AnsweringIn(s, g) == {i \in DOMAIN s : IsAnswering(s[i], g)}
HeldIn(s, g)      == {s[i].r : i \in BodiesIn(s, g) \cup AnsweringIn(s, g)}
IsJob(j, k, g)    == j.k = k /\ j.g = g
JobsIn(js, k, g)  == {i \in DOMAIN js : IsJob(js[i], k, g)}
PromisedIn(js, g) == {js[i].r : i \in JobsIn(js, "request", g)}

\* There is exactly one.
One(S) == \E x \in S : S = {x}

\* A value appended to a sequence is its last, and the others stay.
LEMMA Pushed ==
    ASSUME NEW S, NEW s \in Seq(S), NEW f \in S
    PROVE  /\ Append(s, f) \in Seq(S) /\ Append(s, f) # <<>> /\ Len(Append(s, f)) = Len(s) + 1
           /\ Len(s) \in Nat /\ DOMAIN s = 1..Len(s) /\ DOMAIN Append(s, f) = 1..(Len(s) + 1)
           /\ Append(s, f)[Len(s) + 1] = f
           /\ \A i \in DOMAIN s : Append(s, f)[i] = s[i]
  OBVIOUS

\* The last value of a sequence is taken: the others stay in place.
LEMMA Popped ==
    ASSUME NEW S, NEW s \in Seq(S), s # <<>>
    PROVE  /\ Front(s) \in Seq(S) /\ Len(Front(s)) = Len(s) - 1
           /\ Len(s) \in Nat \ {0} /\ DOMAIN s = 1..Len(s) /\ DOMAIN Front(s) = 1..(Len(s) - 1)
           /\ Last(s) = s[Len(s)] /\ Last(s) \in S
           /\ \A i \in DOMAIN Front(s) : Front(s)[i] = s[i]
  <1>1. Len(s) \in Nat \ {0} /\ DOMAIN s = 1..Len(s)
    BY EmptySeq
  <1>2. \A i \in 1..(Len(s) - 1) : s[i] \in S
    BY <1>1
  <1>3. /\ SubSeq(s, 1, Len(s) - 1) \in Seq(S)
        /\ Len(SubSeq(s, 1, Len(s) - 1)) = Len(s) - 1
        /\ \A i \in 1..(Len(s) - 1) : SubSeq(s, 1, Len(s) - 1)[i] = s[i]
    BY <1>1, <1>2, SubSeqProperties
  <1> QED BY <1>1, <1>3 DEF Front, Last

\* The first value of a sequence is taken: the others move down by one.
LEMMA Behead ==
    ASSUME NEW S, NEW s \in Seq(S), s # <<>>
    PROVE  /\ Tail(s) \in Seq(S) /\ Len(Tail(s)) = Len(s) - 1
           /\ Len(s) \in Nat \ {0} /\ DOMAIN s = 1..Len(s) /\ DOMAIN Tail(s) = 1..(Len(s) - 1)
           /\ Head(s) = s[1] /\ Head(s) \in S
           /\ \A i \in DOMAIN Tail(s) : Tail(s)[i] = s[i + 1]
  BY HeadTailProperties, EmptySeq

\* The line of a generator that has nothing in hand is its queue.
LEMMA EmptyLine == SetToSeq({}) = <<>>
  <1>1. Cardinality({}) = 0
    BY FS_EmptySet
  <1>2. 1..0 = {}
    OBVIOUS
  <1>3. <<>> \in [1..0 -> {}] /\ IsInjective(<<>>)
    BY <1>2 DEF IsInjective
  <1>4. \A f \in [1..0 -> {}] : f = <<>>
    BY <1>2
  <1> QED BY <1>1, <1>3, <1>4 DEF SetToSeq

\* The line of a generator that has one request in hand starts with it.
LEMMA SingleLine == ASSUME NEW r PROVE SetToSeq({r}) = <<r>>
  <1>1. Cardinality({r}) = 1
    BY FS_Singleton
  <1>2. <<r>> \in [1..1 -> {r}] /\ IsInjective(<<r>>)
    BY DEF IsInjective
  <1>3. \A f \in [1..1 -> {r}] : f = <<r>>
    OBVIOUS
  <1> QED BY <1>1, <1>2, <1>3 DEF SetToSeq

\* A frame pushed that is no life of g leaves g's lives as they are.
LEMMA PushedOther ==
    ASSUME NEW S, NEW s \in Seq(S), NEW f \in S, NEW g, ~ IsBody(f, g), ~ IsAnswering(f, g)
    PROVE  /\ BodiesIn(Append(s, f), g) = BodiesIn(s, g) /\ AnsweringIn(Append(s, f), g) = AnsweringIn(s, g)
           /\ HeldIn(Append(s, f), g) = HeldIn(s, g)
  <1> DEFINE t == Append(s, f)
  <1>1. /\ Len(s) \in Nat /\ DOMAIN s = 1..Len(s) /\ DOMAIN t = 1..(Len(s) + 1)
        /\ t[Len(s) + 1] = f /\ \A i \in DOMAIN s : t[i] = s[i]
    BY Pushed
  <1> HIDE DEF t
  <1>2. BodiesIn(t, g) = BodiesIn(s, g) /\ AnsweringIn(t, g) = AnsweringIn(s, g)
    BY <1>1 DEF BodiesIn, AnsweringIn
  <1>3. BodiesIn(s, g) \cup AnsweringIn(s, g) \subseteq DOMAIN s
    BY DEF BodiesIn, AnsweringIn
  <1>4. HeldIn(t, g) = HeldIn(s, g)
    BY <1>1, <1>2, <1>3 DEF HeldIn
  <1> QED BY <1>2, <1>4 DEF t

\* A body of g pushed when g has no life is g's only life.
LEMMA PushedBody ==
    ASSUME NEW S, NEW s \in Seq(S), NEW f \in S, NEW g, IsBody(f, g), ~ IsAnswering(f, g),
           BodiesIn(s, g) = {}, AnsweringIn(s, g) = {}
    PROVE  /\ One(BodiesIn(Append(s, f), g)) /\ AnsweringIn(Append(s, f), g) = {}
           /\ HeldIn(Append(s, f), g) = {f.r}
  <1> DEFINE t == Append(s, f)
             n == Len(s) + 1
  <1>1. /\ Len(s) \in Nat /\ DOMAIN s = 1..Len(s) /\ DOMAIN t = 1..n
        /\ t[n] = f /\ \A i \in DOMAIN s : t[i] = s[i]
    BY Pushed
  <1> HIDE DEF t
  <1>2. BodiesIn(t, g) = {n} /\ AnsweringIn(t, g) = {}
    BY <1>1 DEF BodiesIn, AnsweringIn
  <1> HIDE DEF n
  <1>3. HeldIn(t, g) = {f.r}
    BY <1>1, <1>2 DEF HeldIn
  <1> QED BY <1>2, <1>3 DEF t, One

\* An answering drain of g pushed when g has no life is g's only life.
LEMMA PushedAnswering ==
    ASSUME NEW S, NEW s \in Seq(S), NEW f \in S, NEW g, ~ IsBody(f, g), IsAnswering(f, g),
           BodiesIn(s, g) = {}, AnsweringIn(s, g) = {}
    PROVE  /\ BodiesIn(Append(s, f), g) = {} /\ One(AnsweringIn(Append(s, f), g))
           /\ HeldIn(Append(s, f), g) = {f.r}
  <1> DEFINE t == Append(s, f)
             n == Len(s) + 1
  <1>1. /\ Len(s) \in Nat /\ DOMAIN s = 1..Len(s) /\ DOMAIN t = 1..n
        /\ t[n] = f /\ \A i \in DOMAIN s : t[i] = s[i]
    BY Pushed
  <1> HIDE DEF t
  <1>2. BodiesIn(t, g) = {} /\ AnsweringIn(t, g) = {n}
    BY <1>1 DEF BodiesIn, AnsweringIn
  <1> HIDE DEF n
  <1>3. HeldIn(t, g) = {f.r}
    BY <1>1, <1>2 DEF HeldIn
  <1> QED BY <1>2, <1>3 DEF t, One

\* A frame popped that is no life of g leaves g's lives as they are.
LEMMA PoppedOther ==
    ASSUME NEW S, NEW s \in Seq(S), s # <<>>, NEW g, ~ IsBody(Last(s), g), ~ IsAnswering(Last(s), g)
    PROVE  /\ BodiesIn(Front(s), g) = BodiesIn(s, g) /\ AnsweringIn(Front(s), g) = AnsweringIn(s, g)
           /\ HeldIn(Front(s), g) = HeldIn(s, g)
  <1> DEFINE t == Front(s)
             f == Last(s)
  <1>1. /\ Len(s) \in Nat \ {0} /\ DOMAIN s = 1..Len(s) /\ DOMAIN t = 1..(Len(s) - 1)
        /\ f = s[Len(s)] /\ \A i \in DOMAIN t : t[i] = s[i]
    BY Popped
  <1>2. ~ IsBody(f, g) /\ ~ IsAnswering(f, g)
    OBVIOUS
  <1> HIDE DEF t, f
  <1>3. BodiesIn(t, g) = BodiesIn(s, g) /\ AnsweringIn(t, g) = AnsweringIn(s, g)
    BY <1>1, <1>2 DEF BodiesIn, AnsweringIn
  <1>4. BodiesIn(t, g) \cup AnsweringIn(t, g) \subseteq DOMAIN t
    BY DEF BodiesIn, AnsweringIn
  <1>5. HeldIn(t, g) = HeldIn(s, g)
    BY <1>1, <1>3, <1>4 DEF HeldIn
  <1> QED BY <1>3, <1>5 DEF t

\* When g's only life is popped, none is left.
LEMMA PoppedLife ==
    ASSUME NEW S, NEW s \in Seq(S), s # <<>>, NEW g
    PROVE  /\ IsBody(Last(s), g) => /\ BodiesIn(s, g) # {}
                                    /\ One(BodiesIn(s, g)) => /\ BodiesIn(Front(s), g) = {}
                                                              /\ BodiesIn(s, g) = {Len(s)}
           /\ IsAnswering(Last(s), g) => /\ AnsweringIn(s, g) # {}
                                         /\ One(AnsweringIn(s, g)) => /\ AnsweringIn(Front(s), g) = {}
                                                                      /\ AnsweringIn(s, g) = {Len(s)}
           /\ BodiesIn(Front(s), g) \subseteq BodiesIn(s, g)
           /\ AnsweringIn(Front(s), g) \subseteq AnsweringIn(s, g)
           /\ Last(s) = s[Len(s)]
  <1> DEFINE t == Front(s)
             f == Last(s)
  <1>1. /\ Len(s) \in Nat \ {0} /\ DOMAIN s = 1..Len(s) /\ DOMAIN t = 1..(Len(s) - 1)
        /\ f = s[Len(s)] /\ \A i \in DOMAIN t : t[i] = s[i]
    BY Popped
  <1> HIDE DEF t, f
  <1>2. BodiesIn(t, g) \subseteq BodiesIn(s, g) /\ AnsweringIn(t, g) \subseteq AnsweringIn(s, g)
    BY <1>1 DEF BodiesIn, AnsweringIn
  <1>3. Len(s) \notin BodiesIn(t, g) /\ Len(s) \notin AnsweringIn(t, g)
    BY <1>1 DEF BodiesIn, AnsweringIn
  <1>4. (IsBody(f, g) => Len(s) \in BodiesIn(s, g)) /\ (IsAnswering(f, g) => Len(s) \in AnsweringIn(s, g))
    BY <1>1 DEF BodiesIn, AnsweringIn
  <1> QED BY <1>1, <1>2, <1>3, <1>4 DEF t, f, One

\* A job that joins the queue is one more of its kind for its generator.
LEMMA QueuedJobs ==
    ASSUME NEW S, NEW js \in Seq(S), NEW j \in S, NEW g
    PROVE  /\ \A k : ~ IsJob(j, k, g) => JobsIn(Append(js, j), k, g) = JobsIn(js, k, g)
           /\ \A k : IsJob(j, k, g) => JobsIn(Append(js, j), k, g) = JobsIn(js, k, g) \cup {Len(js) + 1}
           /\ ~ IsJob(j, "request", g) => PromisedIn(Append(js, j), g) = PromisedIn(js, g)
           /\ IsJob(j, "request", g) => PromisedIn(Append(js, j), g) = PromisedIn(js, g) \cup {j.r}
  <1> DEFINE t == Append(js, j)
  <1>1. /\ Len(js) \in Nat /\ DOMAIN js = 1..Len(js) /\ DOMAIN t = 1..(Len(js) + 1)
        /\ t[Len(js) + 1] = j /\ \A i \in DOMAIN js : t[i] = js[i]
    BY Pushed
  <1> HIDE DEF t
  <1>2. ASSUME NEW k, ~ IsJob(j, k, g) PROVE JobsIn(t, k, g) = JobsIn(js, k, g)
    BY <1>1, <1>2 DEF JobsIn
  <1>3. ASSUME NEW k, IsJob(j, k, g) PROVE JobsIn(t, k, g) = JobsIn(js, k, g) \cup {Len(js) + 1}
    BY <1>1, <1>3 DEF JobsIn
  <1>4. JobsIn(js, "request", g) \subseteq DOMAIN js
    BY DEF JobsIn
  <1>5. ASSUME ~ IsJob(j, "request", g) PROVE PromisedIn(t, g) = PromisedIn(js, g)
    BY <1>1, <1>2, <1>4, <1>5 DEF PromisedIn
  <1>6. ASSUME IsJob(j, "request", g) PROVE PromisedIn(t, g) = PromisedIn(js, g) \cup {j.r}
    <2>1. JobsIn(t, "request", g) = JobsIn(js, "request", g) \cup {Len(js) + 1}
      BY <1>3, <1>6
    <2> QED BY <1>1, <1>4, <2>1 DEF PromisedIn
  <1> QED BY <1>2, <1>3, <1>5, <1>6 DEF t

\* The first job is taken: the others keep their kind and their number.
LEMMA TakenJob ==
    ASSUME NEW S, NEW js \in Seq(S), js # <<>>, NEW g, NEW k
    PROVE  /\ IsJob(Head(js), k, g) =>
                JobsIn(js, k, g) # {} /\ (One(JobsIn(js, k, g)) => JobsIn(Tail(js), k, g) = {} /\ JobsIn(js, k, g) = {1})
           /\ ~ IsJob(Head(js), k, g) =>
                /\ JobsIn(Tail(js), k, g) = {} <=> JobsIn(js, k, g) = {}
                /\ One(JobsIn(js, k, g)) => One(JobsIn(Tail(js), k, g))
  <1> DEFINE t == Tail(js)
             j == Head(js)
             A == JobsIn(js, k, g)
             B == JobsIn(t, k, g)
  <1>1. /\ Len(js) \in Nat \ {0} /\ DOMAIN js = 1..Len(js) /\ DOMAIN t = 1..(Len(js) - 1)
        /\ j = js[1] /\ \A i \in DOMAIN t : t[i] = js[i + 1]
    BY Behead
  <1> HIDE DEF t, j
  <1>2. /\ \A i : i \in B => i \in Nat /\ i + 1 \in A /\ i # 0
        /\ \A i : i \in A => i = 1 \/ (i \in Nat /\ i - 1 \in Nat /\ i - 1 \in B)
        /\ 1 \in A <=> IsJob(j, k, g)
    BY <1>1 DEF JobsIn
  <1> HIDE DEF A, B
  <1>3. ASSUME IsJob(j, k, g) PROVE A # {} /\ (One(A) => B = {} /\ A = {1})
    BY <1>2, <1>3 DEF One
  <1>4. ASSUME ~ IsJob(j, k, g) PROVE B = {} <=> A = {}
    BY <1>2, <1>4
  <1>5. ASSUME ~ IsJob(j, k, g), One(A) PROVE One(B)
    <2>1. PICK x \in A : A = {x}
      BY <1>5 DEF One
    <2>2. B = {x - 1}
      BY <1>2, <1>5, <2>1
    <2> QED BY <2>2 DEF One
  <1> QED BY <1>3, <1>4, <1>5 DEF A, B, t, j

\* A job taken that is no request of g leaves g's requests in the queue.
LEMMA TakenPromise ==
    ASSUME NEW S, NEW js \in Seq(S), js # <<>>, NEW g, ~ IsJob(Head(js), "request", g)
    PROVE  PromisedIn(Tail(js), g) = PromisedIn(js, g)
  <1> DEFINE t == Tail(js)
             j == Head(js)
  <1>1. /\ Len(js) \in Nat \ {0} /\ DOMAIN js = 1..Len(js) /\ DOMAIN t = 1..(Len(js) - 1)
        /\ j = js[1] /\ \A i \in DOMAIN t : t[i] = js[i + 1]
    BY Behead
  <1>2. ~ IsJob(j, "request", g)
    OBVIOUS
  <1> HIDE DEF t, j
  <1>3. ASSUME NEW i \in JobsIn(t, "request", g)
        PROVE  t[i] = js[i + 1] /\ i + 1 \in JobsIn(js, "request", g)
    BY <1>1 DEF JobsIn
  <1>4. ASSUME NEW i \in JobsIn(js, "request", g)
        PROVE  i - 1 \in JobsIn(t, "request", g) /\ t[i - 1] = js[i]
    <2>1. i # 1
      BY <1>1, <1>2 DEF JobsIn
    <2> QED BY <1>1, <2>1 DEF JobsIn
  <1>5. PromisedIn(t, g) \subseteq PromisedIn(js, g)
    BY <1>3 DEF PromisedIn
  <1>6. ASSUME NEW r \in PromisedIn(js, g) PROVE r \in PromisedIn(t, g)
    <2>1. PICK i \in JobsIn(js, "request", g) : r = js[i].r
      BY DEF PromisedIn
    <2> QED BY <2>1, <1>4 DEF PromisedIn
  <1> QED BY <1>5, <1>6 DEF t

-----------------------------------------------------------------------------
\* The types of the interpreter's records: what GeneratorState, CallFrame,
\* AsyncGeneratorRequest and the jobs of Interpreter::jobs can hold.
GenType ==
    [done : BOOLEAN, started : BOOLEAN, executing : BOOLEAN, queue : Seq(Nat), delegate : BOOLEAN,
     at : {"code", "star"}, tries : Seq({"catch", "finally"}), pending : BOOLEAN, locals : BOOLEAN]
FrameType ==
    [k : {"main", "callback", "body", "drain", "none"}, g : Generators \cup {NoGenerator}, r : Nat,
     resume : Kinds \cup {"none"}, at : {"code", "star"}, tries : Seq({"catch", "finally"}),
     pending : BOOLEAN, locals : BOOLEAN, star : {"", "call", "value", "done"}, kind : Kinds,
     then : {"", "answer", "go on", "refuse", "end"}]
RequestType == [g : Async, kind : Kinds, answer : {"none", "value", "done", "error"}]
JobType == [k : {"request", "resume", "callback"}, g : Async \cup {NoGenerator}, r : Nat]
HeapType ==
    [gens : [Generators -> GenType], requests : Seq(RequestType), jobs : Seq(JobType),
     asleep : [Async -> FrameType], waiting : SUBSET Async]

\* The fields of a heap have their types.
LEMMA HeapFields ==
    ASSUME NEW h \in HeapType
    PROVE  /\ h.gens \in [Generators -> GenType] /\ h.requests \in Seq(RequestType) /\ h.jobs \in Seq(JobType)
           /\ h.asleep \in [Async -> FrameType] /\ h.waiting \subseteq Async
  BY DEF HeapType

\* The fields of a generator's record have their types.
LEMMA GenFields ==
    ASSUME NEW h \in HeapType, NEW g \in Generators
    PROVE  /\ h.gens[g] \in GenType
           /\ h.gens[g].done \in BOOLEAN /\ h.gens[g].started \in BOOLEAN /\ h.gens[g].executing \in BOOLEAN
           /\ h.gens[g].queue \in Seq(Nat) /\ h.gens[g].delegate \in BOOLEAN
           /\ h.gens[g].at \in {"code", "star"} /\ h.gens[g].tries \in Seq({"catch", "finally"})
           /\ h.gens[g].pending \in BOOLEAN /\ h.gens[g].locals \in BOOLEAN
  <1>1. h.gens[g] \in GenType
    BY HeapFields
  <1> QED BY <1>1 DEF GenType

\* A generator's record is replaced in the heap, and nothing else.
LEMMA GenReplaced ==
    ASSUME NEW h \in HeapType, NEW g \in Generators, NEW x \in GenType
    PROVE  /\ [h EXCEPT !.gens[g] = x] \in HeapType
           /\ [h EXCEPT !.gens[g] = x].gens = [h.gens EXCEPT ![g] = x]
           /\ [h EXCEPT !.gens[g] = x].gens[g] = x
           /\ \A o \in Generators \ {g} : [h EXCEPT !.gens[g] = x].gens[o] = h.gens[o]
           /\ [h EXCEPT !.gens[g] = x].requests = h.requests
           /\ [h EXCEPT !.gens[g] = x].jobs = h.jobs
           /\ [h EXCEPT !.gens[g] = x].asleep = h.asleep
           /\ [h EXCEPT !.gens[g] = x].waiting = h.waiting
  BY DEF HeapType

\* enqueue_promise_job adds one job, and changes nothing else.
LEMMA Enqueued ==
    ASSUME NEW h \in HeapType, NEW j \in JobType
    PROVE  /\ Enqueue(h, j) \in HeapType /\ Enqueue(h, j).jobs = Append(h.jobs, j)
           /\ Enqueue(h, j).gens = h.gens /\ Enqueue(h, j).requests = h.requests
           /\ Enqueue(h, j).asleep = h.asleep /\ Enqueue(h, j).waiting = h.waiting
  <1> DEFINE js == Append(h.jobs, j)
  <1>1. js \in Seq(JobType)
    BY HeapFields, Pushed
  <1>2. Enqueue(h, j) = [h EXCEPT !.jobs = js]
    BY DEF Enqueue
  <1> HIDE DEF js
  <1>3. /\ Enqueue(h, j) \in HeapType /\ Enqueue(h, j).jobs = js
        /\ Enqueue(h, j).gens = h.gens /\ Enqueue(h, j).requests = h.requests
        /\ Enqueue(h, j).asleep = h.asleep /\ Enqueue(h, j).waiting = h.waiting
    BY <1>1, <1>2 DEF HeapType
  <1> QED BY <1>3 DEF js

\* The requests once one is answered.
Answered(rs, r, answer) == [rs EXCEPT ![r].answer = answer]

\* settle_promise answers one request, and changes nothing else.
LEMMA Settled ==
    ASSUME NEW h \in HeapType, NEW r \in DOMAIN h.requests, NEW answer \in {"none", "value", "done", "error"}
    PROVE  /\ Settle(h, r, answer) \in HeapType
           /\ Settle(h, r, answer).requests = Answered(h.requests, r, answer)
           /\ DOMAIN Settle(h, r, answer).requests = DOMAIN h.requests
           /\ Len(Settle(h, r, answer).requests) = Len(h.requests)
           /\ Settle(h, r, answer).requests[r].answer = answer
           /\ Settle(h, r, answer).requests[r].g = h.requests[r].g
           /\ \A o \in DOMAIN h.requests : o # r => Settle(h, r, answer).requests[o] = h.requests[o]
           /\ Settle(h, r, answer).gens = h.gens /\ Settle(h, r, answer).jobs = h.jobs
           /\ Settle(h, r, answer).asleep = h.asleep /\ Settle(h, r, answer).waiting = h.waiting
  <1> DEFINE new == [h.requests[r] EXCEPT !.answer = answer]
             rs  == [h.requests EXCEPT ![r] = new]
  <1>1. h.requests \in Seq(RequestType) /\ h.requests[r] \in RequestType
    BY HeapFields
  <1>2. new \in RequestType /\ new.answer = answer /\ new.g = h.requests[r].g
    BY <1>1 DEF RequestType
  <1>3. rs = Answered(h.requests, r, answer)
    BY DEF Answered
  <1>4. Settle(h, r, answer) = [h EXCEPT !.requests = rs]
    BY DEF Settle
  <1> HIDE DEF new
  <1>5. /\ rs \in Seq(RequestType) /\ DOMAIN rs = DOMAIN h.requests /\ Len(rs) = Len(h.requests)
        /\ rs[r] = new /\ \A o \in DOMAIN h.requests : o # r => rs[o] = h.requests[o]
    BY <1>1, <1>2
  <1> HIDE DEF rs
  <1>6. Settle(h, r, answer) \in HeapType /\ Settle(h, r, answer).requests = rs
    BY <1>4, <1>5 DEF HeapType
  <1>7. /\ Settle(h, r, answer).gens = h.gens /\ Settle(h, r, answer).jobs = h.jobs
        /\ Settle(h, r, answer).asleep = h.asleep /\ Settle(h, r, answer).waiting = h.waiting
    BY <1>4 DEF HeapType
  <1> QED BY <1>2, <1>3, <1>5, <1>6, <1>7 DEF new

\* finish_async_generator_request makes a job of the oldest queued request, or
\* lowers the executing flag when there is none.
LEMMA FinishedParts ==
    ASSUME NEW h \in HeapType, NEW g \in Async
    PROVE  /\ Finish(h, g) \in HeapType
           /\ Finish(h, g).requests = h.requests
           /\ Finish(h, g).asleep = h.asleep /\ Finish(h, g).waiting = h.waiting
           /\ \A o \in Generators \ {g} : Finish(h, g).gens[o] = h.gens[o]
           /\ Finish(h, g).gens[g].done = h.gens[g].done /\ Finish(h, g).gens[g].started = h.gens[g].started
           /\ IF h.gens[g].queue = <<>>
              THEN /\ ~ Finish(h, g).gens[g].executing /\ Finish(h, g).gens[g].queue = <<>>
                   /\ Finish(h, g).jobs = h.jobs
              ELSE /\ Finish(h, g).gens[g].executing = h.gens[g].executing
                   /\ Finish(h, g).gens[g].queue = Tail(h.gens[g].queue)
                   /\ Finish(h, g).jobs = Append(h.jobs, RequestJob(g, Head(h.gens[g].queue)))
  <1> DEFINE x == h.gens[g]
             q == x.queue
  <1>1. g \in Generators /\ x \in GenType /\ q \in Seq(Nat) /\ h.gens \in [Generators -> GenType]
    BY HeapFields, GenFields DEF Generators
  <1>2. CASE q = <<>>
    <2> DEFINE y == [x EXCEPT !.executing = FALSE]
    <2>1. y \in GenType /\ ~ y.executing /\ y.queue = q /\ y.done = x.done /\ y.started = x.started
      BY <1>1 DEF GenType
    <2>2. Finish(h, g) = [h EXCEPT !.gens[g] = y]
      BY <1>2 DEF Finish
    <2> HIDE DEF y
    <2> QED BY <1>1, <1>2, <2>1, <2>2, GenReplaced
  <1>3. CASE q # <<>>
    <2> DEFINE y == [x EXCEPT !.queue = Tail(q)]
               k == [h EXCEPT !.gens[g] = y]
               j == RequestJob(g, Head(q))
    <2>1. Tail(q) \in Seq(Nat) /\ Head(q) \in Nat
      BY <1>1, <1>3, Behead
    <2>2. /\ y \in GenType /\ y.executing = x.executing /\ y.queue = Tail(q)
          /\ y.done = x.done /\ y.started = x.started
      BY <1>1, <2>1 DEF GenType
    <2>3. j \in JobType
      BY <2>1 DEF RequestJob, JobType
    <2>4. Finish(h, g) = Enqueue(k, j)
      BY <1>3 DEF Finish
    <2> HIDE DEF y
    <2>5. /\ k \in HeapType /\ k.gens[g] = y /\ \A o \in Generators \ {g} : k.gens[o] = h.gens[o]
          /\ k.requests = h.requests /\ k.jobs = h.jobs /\ k.asleep = h.asleep /\ k.waiting = h.waiting
      BY <1>1, <2>2, GenReplaced
    <2> HIDE DEF k, j
    <2>6. /\ Enqueue(k, j) \in HeapType /\ Enqueue(k, j).jobs = Append(h.jobs, j)
          /\ Enqueue(k, j).gens = k.gens /\ Enqueue(k, j).requests = h.requests
          /\ Enqueue(k, j).asleep = h.asleep /\ Enqueue(k, j).waiting = h.waiting
      BY <2>3, <2>5, Enqueued
    <2> QED BY <1>3, <2>2, <2>4, <2>5, <2>6 DEF j
  <1> QED BY <1>2, <1>3

\* A generator is closed; perhaps with its delegate, perhaps without.
LEMMA ClosedParts ==
    ASSUME NEW h \in HeapType, NEW g \in Generators, NEW c,
           c = Close(h, g) \/ c = [h EXCEPT !.gens[g].done = TRUE]
    PROVE  /\ c \in HeapType /\ c.gens[g].done
           /\ c.gens[g].started = h.gens[g].started /\ c.gens[g].executing = h.gens[g].executing
           /\ c.gens[g].queue = h.gens[g].queue
           /\ \A o \in Generators \ {g} : c.gens[o] = h.gens[o]
           /\ c.requests = h.requests /\ c.jobs = h.jobs /\ c.asleep = h.asleep /\ c.waiting = h.waiting
  <1> DEFINE x == h.gens[g]
  <1>1. x \in GenType
    BY GenFields
  <1>2. CASE c = Close(h, g)
    <2> DEFINE y == [x EXCEPT !.done = TRUE, !.delegate = FALSE]
    <2>1. y \in GenType /\ y.done /\ y.started = x.started /\ y.executing = x.executing /\ y.queue = x.queue
      BY <1>1 DEF GenType
    <2>2. c = [h EXCEPT !.gens[g] = y]
      BY <1>2 DEF Close, HeapType
    <2> HIDE DEF y
    <2> QED BY <2>1, <2>2, GenReplaced
  <1>3. CASE c = [h EXCEPT !.gens[g].done = TRUE]
    <2> DEFINE y == [x EXCEPT !.done = TRUE]
    <2>1. y \in GenType /\ y.done /\ y.started = x.started /\ y.executing = x.executing /\ y.queue = x.queue
      BY <1>1 DEF GenType
    <2>2. c = [h EXCEPT !.gens[g] = y]
      BY <1>3 DEF HeapType
    <2> HIDE DEF y
    <2> QED BY <2>1, <2>2, GenReplaced
  <1> QED BY <1>2, <1>3

\* A frame that is not a drain with something left to do.
Plain(f) == f.then = ""

\* checkout_generator moves a generator's state into a frame on the stack.
LEMMA CheckoutParts ==
    ASSUME heap \in HeapType, NEW h \in HeapType, NEW g \in Generators, NEW kind \in Kinds, NEW r \in Nat,
           Checkout(frames, h, g, kind, r)
    PROVE  /\ heap' \in HeapType /\ heap'.gens[g].started
           /\ heap'.gens[g].done = h.gens[g].done /\ heap'.gens[g].executing = h.gens[g].executing
           /\ heap'.gens[g].queue = h.gens[g].queue
           /\ \A o \in Generators \ {g} : heap'.gens[o] = h.gens[o]
           /\ heap'.requests = h.requests /\ heap'.jobs = h.jobs
           /\ heap'.asleep = h.asleep /\ heap'.waiting = h.waiting
           /\ frames' = Append(frames, CheckedOut(g, kind, r)) /\ CheckedOut(g, kind, r) \in FrameType
           /\ IsBody(CheckedOut(g, kind, r), g) /\ Plain(CheckedOut(g, kind, r)) /\ CheckedOut(g, kind, r).r = r
  <1> DEFINE x == h.gens[g]
             y == [x EXCEPT !.started = TRUE, !.tries = <<>>, !.pending = FALSE, !.locals = FALSE]
  <1>1. x \in GenType
    BY GenFields
  <1>2. <<>> \in Seq({"catch", "finally"})
    OBVIOUS
  <1> HIDE DEF x
  <1>3. /\ y \in GenType /\ y.done = x.done /\ y.started /\ y.executing = x.executing /\ y.queue = x.queue
    BY <1>1, <1>2 DEF GenType
  <1> USE DEF x
  <1>4. heap' = [h EXCEPT !.gens[g] = y]
    BY DEF Checkout, HeapType
  <1> HIDE DEF y
  <1>5. /\ heap' \in HeapType /\ heap'.gens[g] = y
        /\ \A o \in Generators \ {g} : heap'.gens[o] = h.gens[o]
        /\ heap'.requests = h.requests /\ heap'.jobs = h.jobs
        /\ heap'.asleep = h.asleep /\ heap'.waiting = h.waiting
    BY <1>3, <1>4, GenReplaced
  <1>6. /\ CheckedOut(g, kind, r) \in FrameType
        /\ IsBody(CheckedOut(g, kind, r), g) /\ Plain(CheckedOut(g, kind, r)) /\ CheckedOut(g, kind, r).r = r
    BY GenFields DEF IsBody, Plain, CheckedOut, Frame, FrameType, Kinds
  <1> QED BY <1>3, <1>5, <1>6 DEF Checkout, x

-----------------------------------------------------------------------------
\* Where the work of an async generator is. Idle: nothing is under way. Busy: its
\* executing flag is set for exactly one life, which is a body on the stack, an
\* answer that waits for the jobs it has to run first, a job that will resume it,
\* or a frame asleep at an await.
Asleep(g) == heap.asleep[g].k = "body"
Idle(g) ==
    /\ ~ heap.gens[g].executing /\ heap.gens[g].queue = <<>>
    /\ Bodies(g) = {} /\ Answering(g) = {} /\ Queued(g) = {} /\ ~ Asleep(g)
Busy(g) ==
    /\ heap.gens[g].executing /\ heap.gens[g].started
    /\ \/ ~ heap.gens[g].done /\ One(Bodies(g)) /\ Answering(g) = {} /\ Queued(g) = {} /\ ~ Asleep(g)
       \/ ~ heap.gens[g].done /\ Bodies(g) = {} /\ One(Answering(g)) /\ Queued(g) = {} /\ ~ Asleep(g)
       \/ Bodies(g) = {} /\ Answering(g) = {} /\ One(Queued(g)) /\ ~ Asleep(g)
       \/ ~ heap.gens[g].done /\ Bodies(g) = {} /\ Answering(g) = {} /\ Queued(g) = {} /\ Asleep(g)
Life(g) == Idle(g) \/ Busy(g)

\* A frame asleep is woken by one job, queued already or queued when the promise
\* it awaits is settled; no job resumes a generator that is not asleep.
Resumes(g) == JobsIn(heap.jobs, "resume", g)
Woken(g) ==
    IF Asleep(g)
    THEN \/ g \in heap.waiting /\ Resumes(g) = {}
         \/ g \notin heap.waiting /\ One(Resumes(g))
    ELSE g \notin heap.waiting /\ Resumes(g) = {}

\* The frames of a stack: a body of an async generator works on a request that was
\* made, an answer is given by a drain of the job queue, and only the bottom
\* of the stack is the program or the last drain.
Shape(f, n) ==
    /\ f.k = "body" => /\ f.then = "" /\ f.g \in Generators
                       /\ f.g \in Async => f.r \in 1..n
                       /\ f.g \in Sync => f.r = 0
    /\ f.then = "answer" => f.k = "drain" /\ f.g \in Async /\ f.r \in 1..n
    /\ f.then = "end" => f.k = "drain"
IsBottom(f) == f.k = "main" \/ f.then = "end"
Stacked(s, n) == \A i \in DOMAIN s : Shape(s[i], n) /\ (IsBottom(s[i]) => i = 1)
Grounded(s) == s # <<>> /\ IsBottom(s[1])

\* What a generator keeps, and what a job names, are requests that were made.
Kept(g) ==
    /\ Asleep(g) => heap.asleep[g].g = g /\ Shape(heap.asleep[g], Len(heap.requests))
    /\ ToSet(heap.gens[g].queue) \subseteq Requests
JobOwned(j, n) ==
    /\ j.k # "callback" => j.g \in Async
    /\ j.k = "request" => j.r \in 1..n
JobsOwned(js, n) == \A i \in DOMAIN js : JobOwned(js[i], n)

\* No unanswered request is lost: its generator has it in hand or in its queue.
Remembered ==
    \A r \in Requests : heap.requests[r].answer = "none" =>
        LET g == heap.requests[r].g IN r \in Holder(g) \cup ToSet(heap.gens[g].queue)

\* The run ends with nothing on the stack and no job.
Over == result = "done" => frames = <<>> /\ heap.jobs = <<>>

\* Every variable has its type.
Typed ==
    /\ heap \in HeapType /\ frames \in Seq(FrameType)
    /\ thrown \in BOOLEAN /\ ops \in 0..MaxOps
    /\ result \in {"running", "done", "throw", "internal", "panic"}

\* The inductive invariant. BusyOnce counts the lives of a generator but not what
\* they hold, so it is not inductive: a frame that wakes up must not meet another
\* life (Woken), a life must hold the request it answers (Shape, Kept), and a body
\* must not be taken for the bottom of the stack (Grounded).
Inv ==
    /\ Typed
    /\ \A g \in Async : Life(g) /\ Woken(g) /\ Kept(g)
    /\ \A g \in Sync : heap.gens[g].queue = <<>>
    /\ Stacked(frames, Len(heap.requests))
    /\ result = "running" => Grounded(frames)
    /\ JobsOwned(heap.jobs, Len(heap.requests)) /\ Remembered /\ Over

\* A frame stays well shaped when requests are added.
LEMMA MoreRequests ==
    ASSUME NEW f, NEW m \in Nat, NEW n \in Nat, m <= n, Shape(f, m)
    PROVE  Shape(f, n)
  <1>1. \A i : i \in 1..m => i \in 1..n
    OBVIOUS
  <1> QED BY <1>1, Zenon DEF Shape

\* A stack stays well shaped when requests are added.
LEMMA MoreStacked ==
    ASSUME NEW s, NEW m \in Nat, NEW n \in Nat, m <= n, Stacked(s, m)
    PROVE  Stacked(s, n)
  BY MoreRequests DEF Stacked

\* A frame that is no bottom keeps a stack well shaped.
LEMMA PushedStack ==
    ASSUME NEW s \in Seq(FrameType), NEW f \in FrameType, NEW n \in Nat,
           Stacked(s, n), Shape(f, n), IsBottom(f) => s = <<>>
    PROVE  Stacked(Append(s, f), n) /\ (Grounded(s) => Grounded(Append(s, f)))
  <1> DEFINE t == Append(s, f)
  <1>1. /\ Len(s) \in Nat /\ DOMAIN s = 1..Len(s) /\ DOMAIN t = 1..(Len(s) + 1) /\ t # <<>>
        /\ t[Len(s) + 1] = f /\ \A i \in DOMAIN s : t[i] = s[i]
    BY Pushed
  <1>2. s = <<>> => Len(s) = 0
    OBVIOUS
  <1>3. s # <<>> => 1 \in DOMAIN s
    BY <1>1, EmptySeq
  <1> HIDE DEF t
  <1>4. Stacked(t, n)
    BY <1>1, <1>2 DEF Stacked
  <1>5. Grounded(s) => Grounded(t)
    BY <1>1, <1>3 DEF Grounded
  <1> QED BY <1>4, <1>5 DEF t

\* A stack stays well shaped when its top is popped, and is empty after its bottom.
LEMMA PoppedStack ==
    ASSUME NEW s \in Seq(FrameType), s # <<>>, NEW n \in Nat, Stacked(s, n)
    PROVE  /\ Front(s) \in Seq(FrameType) /\ Stacked(Front(s), n)
           /\ Last(s) \in FrameType /\ Shape(Last(s), n)
           /\ Grounded(s) /\ ~ IsBottom(Last(s)) => Grounded(Front(s))
           /\ IsBottom(Last(s)) => Front(s) = <<>>
  <1> DEFINE t == Front(s)
             f == Last(s)
  <1>1. /\ t \in Seq(FrameType) /\ Len(t) = Len(s) - 1
        /\ Len(s) \in Nat \ {0} /\ DOMAIN s = 1..Len(s) /\ DOMAIN t = 1..(Len(s) - 1)
        /\ f = s[Len(s)] /\ f \in FrameType /\ \A i \in DOMAIN t : t[i] = s[i]
    BY Popped
  <1> HIDE DEF t, f
  <1>2. Stacked(t, n) /\ Shape(f, n)
    BY <1>1 DEF Stacked
  <1>3. ASSUME Grounded(s), ~ IsBottom(f) PROVE Grounded(t)
    <2>1. Len(s) # 1
      BY <1>1, <1>3 DEF Grounded
    <2>2. 1 \in DOMAIN t /\ t[1] = s[1] /\ t # <<>>
      BY <1>1, <2>1
    <2> QED BY <2>2, <1>3 DEF Grounded
  <1>4. ASSUME IsBottom(f) PROVE t = <<>>
    <2>1. Len(s) = 1
      BY <1>1, <1>4 DEF Stacked
    <2> QED BY <1>1, <2>1, EmptySeq
  <1> QED BY <1>1, <1>2, <1>3, <1>4 DEF t, f

-----------------------------------------------------------------------------
\* What a step leaves as it is to a generator.
SameStack(s, t, g) ==
    /\ BodiesIn(t, g) = BodiesIn(s, g) /\ AnsweringIn(t, g) = AnsweringIn(s, g)
    /\ HeldIn(t, g) = HeldIn(s, g)
SameQueued(js, ks, g) ==
    /\ JobsIn(ks, "request", g) = {} <=> JobsIn(js, "request", g) = {}
    /\ One(JobsIn(js, "request", g)) => One(JobsIn(ks, "request", g))
    /\ PromisedIn(ks, g) = PromisedIn(js, g)
SameResumes(js, ks, g) ==
    /\ JobsIn(ks, "resume", g) = {} <=> JobsIn(js, "resume", g) = {}
    /\ One(JobsIn(js, "resume", g)) => One(JobsIn(ks, "resume", g))
SameSleep(g) == heap'.asleep[g] = heap.asleep[g] /\ (g \in heap'.waiting <=> g \in heap.waiting)
SameLine(g) ==
    /\ heap'.gens[g].done = heap.gens[g].done /\ heap'.gens[g].started = heap.gens[g].started
    /\ heap'.gens[g].executing = heap.gens[g].executing /\ heap'.gens[g].queue = heap.gens[g].queue
Same(g) ==
    /\ SameStack(frames, frames', g) /\ SameSleep(g) /\ SameLine(g)
    /\ SameQueued(heap.jobs, heap'.jobs, g) /\ SameResumes(heap.jobs, heap'.jobs, g)

\* A job that is not g's changes nothing for g.
LEMMA QueuedOther ==
    ASSUME NEW js \in Seq(JobType), NEW j \in JobType, NEW g,
           ~ IsJob(j, "request", g), ~ IsJob(j, "resume", g)
    PROVE  SameQueued(js, Append(js, j), g) /\ SameResumes(js, Append(js, j), g)
  <1>1. /\ JobsIn(Append(js, j), "request", g) = JobsIn(js, "request", g)
        /\ JobsIn(Append(js, j), "resume", g) = JobsIn(js, "resume", g)
        /\ PromisedIn(Append(js, j), g) = PromisedIn(js, g)
    BY QueuedJobs
  <1> QED BY <1>1 DEF SameQueued, SameResumes

\* A request of g queued when there was none is g's only request in the queue.
LEMMA QueuedRequest ==
    ASSUME NEW js \in Seq(JobType), NEW j \in JobType, NEW g,
           IsJob(j, "request", g), JobsIn(js, "request", g) = {}
    PROVE  /\ One(JobsIn(Append(js, j), "request", g)) /\ PromisedIn(Append(js, j), g) = {j.r}
           /\ SameResumes(js, Append(js, j), g)
  <1>1. ~ IsJob(j, "resume", g) /\ PromisedIn(js, g) = {}
    BY DEF IsJob, PromisedIn
  <1>2. /\ JobsIn(Append(js, j), "request", g) = {Len(js) + 1}
        /\ JobsIn(Append(js, j), "resume", g) = JobsIn(js, "resume", g)
        /\ PromisedIn(Append(js, j), g) = {j.r}
    BY <1>1, QueuedJobs
  <1> QED BY <1>2 DEF SameResumes, One

\* A job that resumes g queued when there was none is the only one.
LEMMA QueuedResume ==
    ASSUME NEW js \in Seq(JobType), NEW j \in JobType, NEW g,
           IsJob(j, "resume", g), JobsIn(js, "resume", g) = {}
    PROVE  One(JobsIn(Append(js, j), "resume", g)) /\ SameQueued(js, Append(js, j), g)
  <1>1. ~ IsJob(j, "request", g)
    BY DEF IsJob
  <1>2. /\ JobsIn(Append(js, j), "resume", g) = {Len(js) + 1}
        /\ JobsIn(Append(js, j), "request", g) = JobsIn(js, "request", g)
        /\ PromisedIn(Append(js, j), g) = PromisedIn(js, g)
    BY <1>1, QueuedJobs
  <1> QED BY <1>2 DEF SameQueued, One

\* Holder of GeneratorPromises, as a function of a stack and a heap.
HolderOf(fs, h, g) ==
    HeldIn(fs, g) \cup PromisedIn(h.jobs, g) \cup (IF h.asleep[g].k = "body" THEN {h.asleep[g].r} ELSE {})

\* Holder, Bodies, Answering and Queued before and after a step.
LEMMA Holders ==
    ASSUME NEW g
    PROVE  /\ Holder(g) = HolderOf(frames, heap, g)
           /\ Bodies(g) = BodiesIn(frames, g) /\ Answering(g) = AnsweringIn(frames, g)
           /\ Queued(g) = JobsIn(heap.jobs, "request", g)
           /\ Holder(g)' = HolderOf(frames', heap', g)
           /\ Bodies(g)' = BodiesIn(frames', g) /\ Answering(g)' = AnsweringIn(frames', g)
           /\ Queued(g)' = JobsIn(heap'.jobs, "request", g)
  <1>1. /\ Bodies(g) = BodiesIn(frames, g) /\ Answering(g) = AnsweringIn(frames, g)
        /\ Queued(g) = JobsIn(heap.jobs, "request", g)
    BY DEF Bodies, Answering, Queued, BodiesIn, AnsweringIn, JobsIn, IsBody, IsAnswering, IsJob
  <1>2. /\ Bodies(g)' = BodiesIn(frames', g) /\ Answering(g)' = AnsweringIn(frames', g)
        /\ Queued(g)' = JobsIn(heap'.jobs, "request", g)
    BY DEF Bodies, Answering, Queued, BodiesIn, AnsweringIn, JobsIn, IsBody, IsAnswering, IsJob
  <1>3. Holder(g) = HolderOf(frames, heap, g)
    BY <1>1, Zenon DEF Holder, HolderOf, HeldIn, PromisedIn
  <1>4. Holder(g)' = HolderOf(frames', heap', g)
    BY <1>2, Zenon DEF Holder, HolderOf, HeldIn, PromisedIn
  <1> QED BY <1>1, <1>2, <1>3, <1>4

\* A step that leaves what g is made of leaves its life, its phase and its line.
LEMMA SameLife ==
    ASSUME NEW g \in Async, Life(g), Woken(g), Same(g)
    PROVE  Life(g)' /\ Woken(g)' /\ Holder(g)' = Holder(g) /\ Phase(g)' = Phase(g) /\ Line(g)' = Line(g)
  <1>1. Life(g)'
    BY Holders DEF Life, Idle, Busy, Asleep, Same, SameStack, SameQueued, SameSleep, SameLine
  <1>2. Woken(g)'
    BY DEF Woken, Asleep, Resumes, Same, SameResumes, SameSleep
  <1>3. Holder(g)' = Holder(g)
    BY Holders DEF HolderOf, Same, SameStack, SameQueued, SameSleep
  <1>4. Phase(g)' = Phase(g)
    BY DEF Phase, Same, SameLine
  <1>5. Line(g)' = Line(g)
    BY <1>3 DEF Line, Same, SameLine
  <1> QED BY <1>1, <1>2, <1>3, <1>4, <1>5

\* A generator's line is what is in hand, then its queue.
LEMMA LineOf ==
    ASSUME NEW g, heap.gens[g].queue \in Seq(Nat)
    PROVE  /\ Holder(g) = {} => Line(g) = heap.gens[g].queue
           /\ \A r : Holder(g) = {r} => Line(g) = <<r>> \o heap.gens[g].queue
  BY EmptyLine, SingleLine, ConcatEmptySeq DEF Line

\* A generator's only life holds its only request in hand.
LEMMA LivesHeld ==
    ASSUME heap \in HeapType, NEW g \in Async
    PROVE  /\ Idle(g) => Holder(g) = {}
           /\ Busy(g) => \E r : Holder(g) = {r}
           /\ \A i : Bodies(g) = {i} /\ Busy(g) => Holder(g) = {frames[i].r}
           /\ \A i : Answering(g) = {i} /\ Busy(g) => Holder(g) = {frames[i].r}
           /\ \A i : Queued(g) = {i} /\ Busy(g) => Holder(g) = {heap.jobs[i].r}
           /\ Asleep(g) /\ Busy(g) => Holder(g) = {heap.asleep[g].r}
  <1>1. Holder(g) = {frames[i].r : i \in Bodies(g) \cup Answering(g)} \cup {heap.jobs[i].r : i \in Queued(g)}
            \cup (IF Asleep(g) THEN {heap.asleep[g].r} ELSE {})
    BY Zenon DEF Holder, Asleep
  <1>2. Idle(g) => Holder(g) = {}
    BY <1>1 DEF Idle
  <1>3. \A i : Bodies(g) = {i} /\ Busy(g) => Holder(g) = {frames[i].r}
    BY <1>1 DEF Busy, One
  <1>4. \A i : Answering(g) = {i} /\ Busy(g) => Holder(g) = {frames[i].r}
    BY <1>1 DEF Busy, One
  <1>5. \A i : Queued(g) = {i} /\ Busy(g) => Holder(g) = {heap.jobs[i].r}
    BY <1>1 DEF Busy, One
  <1>6. Asleep(g) /\ Busy(g) => Holder(g) = {heap.asleep[g].r}
    BY <1>1 DEF Busy
  <1>7. Busy(g) => \E r : Holder(g) = {r}
    BY <1>3, <1>4, <1>5, <1>6 DEF Busy, One
  <1> QED BY <1>2, <1>3, <1>4, <1>5, <1>6, <1>7

-----------------------------------------------------------------------------
\* Without lives nothing is held.
LEMMA NoneHeld ==
    ASSUME NEW g
    PROVE  /\ \A s : BodiesIn(s, g) = {} /\ AnsweringIn(s, g) = {} => HeldIn(s, g) = {}
           /\ \A js : JobsIn(js, "request", g) = {} => PromisedIn(js, g) = {}
  BY DEF HeldIn, PromisedIn

\* The jobs name requests that were made, when one is added and when one is taken.
LEMMA OwnedJobs ==
    ASSUME NEW js \in Seq(JobType), NEW n \in Nat, JobsOwned(js, n)
    PROVE  /\ \A j \in JobType : JobOwned(j, n) => JobsOwned(Append(js, j), n)
           /\ js # <<>> => JobsOwned(Tail(js), n) /\ JobOwned(Head(js), n) /\ Head(js) \in JobType
           /\ \A m \in Nat : n <= m => JobsOwned(js, m)
  <1>1. ASSUME NEW j \in JobType, JobOwned(j, n) PROVE JobsOwned(Append(js, j), n)
    <2> DEFINE t == Append(js, j)
    <2>1. /\ Len(js) \in Nat /\ DOMAIN js = 1..Len(js) /\ DOMAIN t = 1..(Len(js) + 1)
          /\ t[Len(js) + 1] = j /\ \A i \in DOMAIN js : t[i] = js[i]
      BY Pushed
    <2> HIDE DEF t
    <2>2. JobsOwned(t, n)
      BY <1>1, <2>1 DEF JobsOwned
    <2> QED BY <2>2 DEF t
  <1>2. ASSUME js # <<>> PROVE JobsOwned(Tail(js), n) /\ JobOwned(Head(js), n) /\ Head(js) \in JobType
    <2> DEFINE t == Tail(js)
    <2>1. /\ Len(js) \in Nat \ {0} /\ DOMAIN js = 1..Len(js) /\ DOMAIN t = 1..(Len(js) - 1)
          /\ Head(js) = js[1] /\ Head(js) \in JobType /\ \A i \in DOMAIN t : t[i] = js[i + 1]
      BY <1>2, Behead
    <2> HIDE DEF t
    <2>2. JobsOwned(t, n) /\ JobOwned(Head(js), n)
      BY <2>1 DEF JobsOwned
    <2> QED BY <2>1, <2>2 DEF t
  <1>3. ASSUME NEW m \in Nat, n <= m PROVE JobsOwned(js, m)
    <2>1. \A i : i \in 1..n => i \in 1..m
      BY <1>3
    <2> QED BY <2>1, Zenon DEF JobsOwned, JobOwned
  <1> QED BY <1>1, <1>2, <1>3

\* Nothing in hand before a queue.
LEMMA LineOfNone ==
    ASSUME NEW q \in Seq(Nat)
    PROVE  SetToSeq({}) \o q = q
  BY EmptyLine, ConcatEmptySeq

\* One request in hand before a queue.
LEMMA LineOfOne ==
    ASSUME NEW q, NEW r
    PROVE  SetToSeq({r}) \o q = <<r>> \o q
  BY SingleLine

\* Head and tail of a queue with one request put before it.
LEMMA ConsParts ==
    ASSUME NEW q \in Seq(Nat), NEW r \in Nat
    PROVE /\ <<r>> \o q \in Seq(Nat) /\ <<r>> \o q # <<>>
          /\ Head(<<r>> \o q) = r /\ Tail(<<r>> \o q) = q
  <1> DEFINE t == <<r>> \o q
  <1>1. <<r>> \in Seq(Nat) /\ Len(<<r>>) = 1 /\ <<r>>[1] = r
    OBVIOUS
  <1>2. /\ t \in Seq(Nat) /\ Len(t) = 1 + Len(q)
        /\ \A i \in 1..(1 + Len(q)) : t[i] = IF i <= 1 THEN r ELSE q[i - 1]
    BY <1>1, ConcatProperties
  <1>3. Len(q) \in Nat
    OBVIOUS
  <1> HIDE DEF t
  <1>4. t # <<>> /\ Head(t) = r
    BY <1>2, <1>3, Behead, EmptySeq
  <1>5. /\ Tail(t) \in Seq(Nat) /\ Len(Tail(t)) = Len(q)
        /\ \A i \in 1..Len(q) : Tail(t)[i] = q[i]
    BY <1>2, <1>3, <1>4, Behead
  <1>6. Tail(t) = q
    BY <1>5, SeqEqual
  <1> QED BY <1>2, <1>4, <1>6 DEF t

\* A queue is its head before its tail.
LEMMA ConsOfParts ==
    ASSUME NEW q \in Seq(Nat), q # <<>>
    PROVE  <<Head(q)>> \o Tail(q) = q
  <1> DEFINE r == Head(q)
             t == Tail(q)
  <1>1. /\ t \in Seq(Nat) /\ Len(t) = Len(q) - 1 /\ Len(q) \in Nat \ {0}
        /\ r = q[1] /\ r \in Nat /\ \A i \in 1..(Len(q) - 1) : t[i] = q[i + 1]
    BY Behead
  <1>2. <<r>> \in Seq(Nat) /\ Len(<<r>>) = 1 /\ <<r>>[1] = r
    BY <1>1
  <1> HIDE DEF r, t
  <1>3. /\ <<r>> \o t \in Seq(Nat) /\ Len(<<r>> \o t) = Len(q)
        /\ \A i \in 1..Len(q) : (<<r>> \o t)[i] = IF i <= 1 THEN r ELSE t[i - 1]
    BY <1>1, <1>2, ConcatProperties
  <1>4. \A i \in 1..Len(q) : (<<r>> \o t)[i] = q[i]
    BY <1>1, <1>3
  <1>5. <<r>> \o t = q
    BY <1>3, <1>4, SeqEqual
  <1> QED BY <1>5 DEF r, t

\* A request appended behind the one in hand is appended to the line.
LEMMA ConsAppend ==
    ASSUME NEW q \in Seq(Nat), NEW a \in Nat, NEW r \in Nat
    PROVE  <<a>> \o Append(q, r) = Append(<<a>> \o q, r)
  OBVIOUS

\* What a queue holds once a request is appended.
LEMMA AppendedSet ==
    ASSUME NEW q \in Seq(Nat), NEW r \in Nat
    PROVE  ToSet(Append(q, r)) = ToSet(q) \cup {r}
  <1> DEFINE t == Append(q, r)
  <1>1. /\ Len(q) \in Nat /\ DOMAIN q = 1..Len(q) /\ DOMAIN t = 1..(Len(q) + 1)
        /\ t[Len(q) + 1] = r /\ \A i \in DOMAIN q : t[i] = q[i]
    BY Pushed
  <1> HIDE DEF t
  <1>2. ToSet(t) = ToSet(q) \cup {r}
    BY <1>1 DEF ToSet
  <1> QED BY <1>2 DEF t

\* What a queue holds is its first request and the others.
LEMMA BeheadedSet ==
    ASSUME NEW q \in Seq(Nat), q # <<>>
    PROVE  ToSet(q) = {Head(q)} \cup ToSet(Tail(q))
  <1> DEFINE t == Tail(q)
  <1>1. /\ Len(q) \in Nat \ {0} /\ DOMAIN q = 1..Len(q) /\ DOMAIN t = 1..(Len(q) - 1)
        /\ Head(q) = q[1] /\ \A i \in DOMAIN t : t[i] = q[i + 1]
    BY Behead
  <1> HIDE DEF t
  <1>2. ToSet(t) \subseteq ToSet(q) /\ Head(q) \in ToSet(q)
    BY <1>1 DEF ToSet
  <1>3. ASSUME NEW x \in ToSet(q) PROVE x = Head(q) \/ x \in ToSet(t)
    <2>1. PICK i \in DOMAIN q : x = q[i]
      BY DEF ToSet
    <2>2. i # 1 => i - 1 \in DOMAIN t /\ t[i - 1] = x
      BY <1>1, <2>1
    <2> QED BY <1>1, <2>1, <2>2 DEF ToSet
  <1> QED BY <1>2, <1>3 DEF t

\* An empty queue holds nothing.
LEMMA NothingQueued == ToSet(<<>>) = {}
  BY DEF ToSet

-----------------------------------------------------------------------------

\* A step that leaves every phase, line and request leaves the abstract queue.
LEMMA QueueStutters ==
    ASSUME \A g \in Async : Phase(g)' = Phase(g) /\ Line(g)' = Line(g), heap'.requests = heap.requests
    PROVE  UNCHANGED Queue!vars
  BY DEF Queue!vars

\* A step that answers the first of a line is an Answer of the abstract queue.
LEMMA QueueAnswers ==
    ASSUME NEW g \in Async, NEW r \in Nat, NEW q \in Seq(Nat), NEW answer \in {"value", "done", "error"},
           Line(g) = <<r>> \o q, Line(g)' = q,
           heap'.requests = Answered(heap.requests, r, answer),
           Phase(g) = "closed" => answer = ByKind(heap.requests[r].kind),
           Phase(g)' = IF answer = "value" THEN Phase(g) ELSE "closed",
           \A o \in Async \ {g} : Phase(o)' = Phase(o) /\ Line(o)' = Line(o)
    PROVE  Queue!Answer(g)
  <1>1. Line(g) # <<>> /\ Head(Line(g)) = r /\ Tail(Line(g)) = q
    BY ConsParts
  <1>2. [o \in Async |-> Line(o)]' = [[o \in Async |-> Line(o)] EXCEPT ![g] = Tail(@)]
    BY <1>1
  <1>3. [o \in Async |-> Phase(o)]' =
          [[o \in Async |-> Phase(o)] EXCEPT ![g] = IF answer = "value" THEN @ ELSE "closed"]
    OBVIOUS
  <1>4. Phase(g) = "closed" => answer = Queue!Closing(heap.requests[r].kind)
    BY DEF ByKind, Queue!Closing
  <1>5. answer \in Queue!Answers \ {"none"}
    BY DEF Queue!Answers
  <1> QED BY <1>1, <1>2, <1>3, <1>4, <1>5 DEF Queue!Answer, Answered

\* What Inv says of a generator and a heap, apart.
LEMMA InvParts ==
    ASSUME Inv
    PROVE  /\ Typed /\ heap \in HeapType /\ frames \in Seq(FrameType)
           /\ heap.requests \in Seq(RequestType) /\ Len(heap.requests) \in Nat
           /\ DOMAIN heap.requests = 1..Len(heap.requests) /\ Requests = 1..Len(heap.requests)
           /\ heap.jobs \in Seq(JobType)
           /\ \A g \in Async : /\ g \in Generators /\ Life(g) /\ Woken(g) /\ Kept(g)
                               /\ heap.gens[g].queue \in Seq(Nat) /\ heap.gens[g].executing \in BOOLEAN
                               /\ heap.gens[g].done \in BOOLEAN /\ heap.gens[g].started \in BOOLEAN
           /\ Stacked(frames, Len(heap.requests)) /\ JobsOwned(heap.jobs, Len(heap.requests))
           /\ Remembered /\ Over
  <1>1. heap \in HeapType /\ heap.requests \in Seq(RequestType) /\ heap.jobs \in Seq(JobType)
    BY HeapFields DEF Inv, Typed
  <1>2. Len(heap.requests) \in Nat /\ DOMAIN heap.requests = 1..Len(heap.requests)
    BY <1>1
  <1>3. \A g \in Async : /\ g \in Generators
                         /\ heap.gens[g].queue \in Seq(Nat) /\ heap.gens[g].executing \in BOOLEAN
                         /\ heap.gens[g].done \in BOOLEAN /\ heap.gens[g].started \in BOOLEAN
    BY <1>1, GenFields DEF Generators
  <1> QED BY <1>1, <1>2, <1>3 DEF Inv, Typed, Requests

\* Requests that are in hand or queued stay so, and none is forgotten.
LEMMA StillRemembered ==
    ASSUME Inv, heap'.requests = heap.requests,
           \A g \in Async : Holder(g) \cup ToSet(heap.gens[g].queue)
                              \subseteq Holder(g)' \cup ToSet(heap'.gens[g].queue)
    PROVE  Remembered'
  <1>1. heap.requests \in Seq(RequestType) /\ Remembered
    BY InvParts
  <1>2. ASSUME NEW r \in DOMAIN heap.requests PROVE heap.requests[r].g \in Async
    <2>1. heap.requests[r] \in RequestType
      BY <1>1
    <2> QED BY <2>1 DEF RequestType
  <1> QED BY <1>1, <1>2 DEF Remembered, Requests

\* What a generator keeps stays good when its own state stays.
LEMMA SameKept ==
    ASSUME Inv, NEW g \in Async, SameSleep(g), SameLine(g),
           Len(heap'.requests) \in Nat, Len(heap.requests) <= Len(heap'.requests),
           DOMAIN heap'.requests = 1..Len(heap'.requests)
    PROVE  Kept(g)'
  <1>1. Kept(g) /\ Len(heap.requests) \in Nat /\ Requests = 1..Len(heap.requests)
    BY InvParts
  <1>2. \A i : i \in 1..Len(heap.requests) => i \in 1..Len(heap'.requests)
    BY <1>1
  <1>3. Requests \subseteq Requests'
    BY <1>1, <1>2 DEF Requests
  <1>4. \A f : Shape(f, Len(heap.requests)) => Shape(f, Len(heap'.requests))
    BY <1>1, MoreRequests
  <1> QED BY <1>1, <1>3, <1>4 DEF Kept, Asleep, SameSleep, SameLine

-----------------------------------------------------------------------------
\* finish_async_generator_request: the request in hand is answered, after the
\* stack and the jobs have lost the life that held it.
Released(g, h) ==
    /\ BodiesIn(frames', g) = {} /\ AnsweringIn(frames', g) = {}
    /\ JobsIn(h.jobs, "request", g) = {} /\ JobsIn(h.jobs, "resume", g) = {}
    /\ \A o \in Async \ {g} : SameStack(frames, frames', o) /\ SameQueued(heap.jobs, h.jobs, o) /\ SameResumes(heap.jobs, h.jobs, o)
ToFinish(g, r, answer, h) ==
    /\ h.requests = heap.requests /\ h.asleep = heap.asleep /\ h.waiting = heap.waiting
    /\ h.gens[g].executing /\ h.gens[g].started /\ h.gens[g].queue = heap.gens[g].queue
    /\ heap.gens[g].done => answer = ByKind(heap.requests[r].kind) /\ h.gens[g].done
    /\ IF answer = "value" THEN ~ h.gens[g].done ELSE h.gens[g].done
    /\ \A o \in Generators \ {g} : h.gens[o] = heap.gens[o]
    /\ JobsOwned(h.jobs, Len(heap.requests))
StackKept ==
    /\ frames' \in Seq(FrameType) /\ Stacked(frames', Len(heap.requests)) /\ Grounded(frames')
    /\ result' = "running" /\ thrown' \in BOOLEAN /\ ops' \in 0..MaxOps

\* Answering the request in hand and finishing with it keeps Inv and is an Answer
\* of the abstract queue.
LEMMA FinishStep ==
    ASSUME Inv, NEW g \in Async, NEW r \in Requests, NEW answer \in {"value", "done", "error"}, NEW h \in HeapType,
           Busy(g), Holder(g) = {r}, ~ Asleep(g),
           Released(g, h), ToFinish(g, r, answer, h), StackKept,
           heap' = Finish(Settle(h, r, answer), g)
    PROVE  Inv' /\ Queue!Answer(g)
  <1> DEFINE q == heap.gens[g].queue
             k == Settle(h, r, answer)
             n == Len(heap.requests)
             j == RequestJob(g, Head(q))
             done == h.gens[g].done
  <1>1. /\ g \in Generators /\ q \in Seq(Nat) /\ n \in Nat /\ r \in 1..n /\ r \in Nat /\ r \in DOMAIN heap.requests
        /\ Kept(g) /\ Woken(g) /\ DOMAIN heap.requests = 1..n /\ Requests = 1..n
        /\ heap.gens[g].done \in BOOLEAN /\ heap.gens[g].started \in BOOLEAN
    BY InvParts DEF Requests
  <1>2. /\ h.requests = heap.requests /\ h.asleep = heap.asleep /\ h.waiting = heap.waiting
        /\ h.gens[g].executing /\ h.gens[g].started /\ h.gens[g].queue = q
        /\ \A o \in Generators \ {g} : h.gens[o] = heap.gens[o]
        /\ JobsOwned(h.jobs, n)
    BY DEF ToFinish
  <1>3. /\ BodiesIn(frames', g) = {} /\ AnsweringIn(frames', g) = {}
        /\ JobsIn(h.jobs, "request", g) = {} /\ JobsIn(h.jobs, "resume", g) = {}
        /\ PromisedIn(h.jobs, g) = {} /\ HeldIn(frames', g) = {}
    BY NoneHeld DEF Released
  <1>4. h.jobs \in Seq(JobType)
    BY HeapFields
  <1>5. /\ k \in HeapType /\ k.gens = h.gens /\ k.jobs = h.jobs /\ k.asleep = h.asleep /\ k.waiting = h.waiting
        /\ k.requests = Answered(heap.requests, r, answer)
        /\ DOMAIN k.requests = 1..n /\ Len(k.requests) = n
        /\ k.requests[r].answer = answer /\ k.requests[r].g = heap.requests[r].g
        /\ \A o \in DOMAIN heap.requests : o # r => k.requests[o] = heap.requests[o]
    <2>1. r \in DOMAIN h.requests /\ answer \in {"none", "value", "done", "error"}
      BY <1>1, <1>2
    <2>2. /\ k \in HeapType /\ k.requests = Answered(h.requests, r, answer)
          /\ DOMAIN k.requests = DOMAIN h.requests /\ Len(k.requests) = Len(h.requests)
          /\ k.requests[r].answer = answer /\ k.requests[r].g = h.requests[r].g
          /\ \A o \in DOMAIN h.requests : o # r => k.requests[o] = h.requests[o]
          /\ k.gens = h.gens /\ k.jobs = h.jobs /\ k.asleep = h.asleep /\ k.waiting = h.waiting
      BY <2>1, Settled
    <2> HIDE DEF k
    <2> QED BY <1>1, <1>2, <2>2
  <1>6. heap' = Finish(k, g)
    OBVIOUS
  <1> HIDE DEF k
  <1>7. /\ heap' \in HeapType /\ heap'.requests = k.requests /\ heap'.asleep = k.asleep
        /\ heap'.waiting = k.waiting /\ \A o \in Generators \ {g} : heap'.gens[o] = k.gens[o]
        /\ heap'.gens[g].done = k.gens[g].done /\ heap'.gens[g].started = k.gens[g].started
        /\ IF k.gens[g].queue = <<>>
           THEN ~ heap'.gens[g].executing /\ heap'.gens[g].queue = <<>> /\ heap'.jobs = k.jobs
           ELSE /\ heap'.gens[g].executing = k.gens[g].executing
                /\ heap'.gens[g].queue = Tail(k.gens[g].queue)
                /\ heap'.jobs = Append(k.jobs, RequestJob(g, Head(k.gens[g].queue)))
    <2>1. k \in HeapType
      BY <1>5
    <2> QED BY <2>1, <1>6, FinishedParts
  <1> HIDE DEF q, n, j, done
  <1>8. /\ heap' \in HeapType /\ heap'.requests = k.requests /\ heap'.asleep = heap.asleep
        /\ heap'.waiting = heap.waiting /\ \A o \in Generators \ {g} : heap'.gens[o] = heap.gens[o]
        /\ heap'.gens[g].done = done /\ heap'.gens[g].started
        /\ q = <<>> => ~ heap'.gens[g].executing /\ heap'.gens[g].queue = <<>> /\ heap'.jobs = h.jobs
        /\ q # <<>> => heap'.gens[g].executing /\ heap'.gens[g].queue = Tail(q) /\ heap'.jobs = Append(h.jobs, j)
    <2>1. k.gens = h.gens /\ k.gens[g].queue = q /\ k.jobs = h.jobs /\ k.asleep = heap.asleep /\ k.waiting = heap.waiting
      BY <1>2, <1>5
    <2>2. h.gens[g].executing /\ h.gens[g].started /\ \A o \in Generators \ {g} : h.gens[o] = heap.gens[o]
      BY <1>2
    <2>3. q = <<>> => ~ heap'.gens[g].executing /\ heap'.gens[g].queue = <<>> /\ heap'.jobs = h.jobs
      BY <2>1, <1>7
    <2>4. q # <<>> => heap'.gens[g].executing /\ heap'.gens[g].queue = Tail(q) /\ heap'.jobs = Append(h.jobs, j)
      BY <2>1, <2>2, <1>7 DEF j
    <2> QED BY <2>1, <2>2, <2>3, <2>4, <1>7 DEF done
  <1>9. ASSUME q # <<>>
        PROVE  /\ Head(q) \in 1..n /\ Head(q) \in Nat /\ j \in JobType /\ JobOwned(j, n)
               /\ j.k = "request" /\ j.g = g /\ j.r = Head(q)
               /\ ToSet(Tail(q)) \subseteq 1..n /\ Tail(q) \in Seq(Nat)
               /\ <<Head(q)>> \o Tail(q) = q /\ ToSet(q) = {Head(q)} \cup ToSet(Tail(q))
    <2>1. ToSet(q) \subseteq 1..n
      BY <1>1 DEF Kept, q
    <2>2. ToSet(q) = {Head(q)} \cup ToSet(Tail(q)) /\ <<Head(q)>> \o Tail(q) = q
      BY <1>1, <1>9, BeheadedSet, ConsOfParts
    <2>3. Tail(q) \in Seq(Nat) /\ Head(q) \in Nat
      BY <1>1, <1>9, Behead
    <2>4. Head(q) \in 1..n /\ ToSet(Tail(q)) \subseteq 1..n
      BY <2>1, <2>2
    <2> QED BY <2>2, <2>3, <2>4 DEF RequestJob, JobType, JobOwned, j
  <1>10. /\ q # <<>> => /\ One(JobsIn(heap'.jobs, "request", g)) /\ JobsIn(heap'.jobs, "resume", g) = {}
                        /\ PromisedIn(heap'.jobs, g) = {Head(q)}
         /\ q = <<>> => /\ JobsIn(heap'.jobs, "request", g) = {} /\ JobsIn(heap'.jobs, "resume", g) = {}
                        /\ PromisedIn(heap'.jobs, g) = {}
    <2>1. CASE q = <<>>
      BY <1>3, <1>8, <2>1
    <2>2. CASE q # <<>>
      <3>1. IsJob(j, "request", g) /\ ~ IsJob(j, "resume", g) /\ j \in JobType /\ j.r = Head(q)
        BY <1>9, <2>2 DEF IsJob
      <3>2. /\ One(JobsIn(Append(h.jobs, j), "request", g)) /\ PromisedIn(Append(h.jobs, j), g) = {j.r}
            /\ SameResumes(h.jobs, Append(h.jobs, j), g)
        BY <1>3, <1>4, <3>1, QueuedRequest
      <3> QED BY <1>3, <1>8, <2>2, <3>1, <3>2 DEF SameResumes
    <2> QED BY <2>1, <2>2
  <1>11. ASSUME NEW o \in Async \ {g} PROVE Same(o)
    <2>1. SameStack(frames, frames', o) /\ SameQueued(heap.jobs, h.jobs, o) /\ SameResumes(heap.jobs, h.jobs, o)
      BY DEF Released
    <2>2. SameSleep(o) /\ SameLine(o)
      BY <1>8 DEF SameSleep, SameLine, Generators
    <2>3. SameQueued(h.jobs, heap'.jobs, o) /\ SameResumes(h.jobs, heap'.jobs, o)
      <3>1. CASE q = <<>>
        BY <1>8, <3>1 DEF SameQueued, SameResumes
      <3>2. CASE q # <<>>
        <4>1. j \in JobType /\ ~ IsJob(j, "request", o) /\ ~ IsJob(j, "resume", o)
          BY <1>9, <3>2 DEF IsJob
        <4> QED BY <1>4, <1>8, <3>2, <4>1, QueuedOther
      <3> QED BY <3>1, <3>2
    <2> QED BY <2>1, <2>2, <2>3 DEF Same, SameQueued, SameResumes
  <1>12. ~ Asleep(g)' /\ g \notin heap'.waiting /\ heap'.asleep[g].k # "body"
    BY <1>1, <1>8 DEF Asleep, Woken
  <1>13. Holder(g)' = IF q = <<>> THEN {} ELSE {Head(q)}
    BY <1>3, <1>10, <1>12, Holders DEF HolderOf
  <1>14. Woken(g)'
    BY <1>10, <1>12 DEF Woken, Resumes
  <1>15. Life(g)'
    <2>1. /\ Bodies(g)' = {} /\ Answering(g)' = {} /\ Queued(g)' = JobsIn(heap'.jobs, "request", g)
      BY <1>3, Holders
    <2> QED BY <2>1, <1>8, <1>10, <1>12 DEF Life, Idle, Busy
  <1>16. Line(g) = <<r>> \o q
    BY LineOfOne DEF Line, q
  <1>17. Line(g)' = q
    <2>1. CASE q = <<>>
      BY <2>1, <1>1, <1>8, <1>13, LineOfNone DEF Line
    <2>2. CASE q # <<>>
      <3>1. Holder(g)' = {Head(q)} /\ heap'.gens[g].queue = Tail(q)
        BY <2>2, <1>8, <1>13
      <3>2. SetToSeq({Head(q)}) \o Tail(q) = q
        BY <2>2, <1>9, LineOfOne
      <3> QED BY <3>1, <3>2 DEF Line
    <2> QED BY <2>1, <2>2
  <1>18. ASSUME NEW o \in Async \ {g}
         PROVE  Life(o)' /\ Woken(o)' /\ Holder(o)' = Holder(o) /\ Phase(o)' = Phase(o) /\ Line(o)' = Line(o)
    <2>1. Life(o) /\ Woken(o)
      BY InvParts
    <2> QED BY <1>11, <2>1, SameLife
  <1>19. ASSUME NEW o \in Async PROVE Kept(o)'
    <2>1. CASE o # g
      <3>1. Len(heap'.requests) = n /\ DOMAIN heap'.requests = 1..n
        BY <1>5, <1>8
      <3> QED BY <3>1, <2>1, <1>1, <1>11, SameKept DEF Same, n
    <2>2. CASE o = g
      <3>1. Requests' = 1..n
        BY <1>5, <1>8 DEF Requests
      <3>2. ToSet(heap'.gens[g].queue) \subseteq 1..n
        BY <1>8, <1>9, NothingQueued
      <3> QED BY <2>2, <3>1, <3>2, <1>12 DEF Kept
    <2> QED BY <2>1, <2>2
  <1>20. ASSUME NEW x \in 1..n, heap'.requests[x].answer = "none"
         PROVE  \E o \in Async : /\ o = heap'.requests[x].g
                                 /\ x \in (Holder(o)' \cup ToSet(heap'.gens[o].queue))
    <2>1. x # r
      BY <1>5, <1>8, <1>20
    <2>2. heap'.requests[x] = heap.requests[x] /\ x \in Requests /\ heap.requests[x].answer = "none"
      BY <1>1, <1>5, <1>8, <1>20, <2>1
    <2>3. heap.requests[x].g \in Async
      <3>1. heap.requests[x] \in RequestType
        BY <1>1, InvParts
      <3> QED BY <3>1 DEF RequestType
    <2>4. PICK o \in Async : o = heap.requests[x].g
      BY <2>3
    <2>5. x \in Holder(o) \cup ToSet(heap.gens[o].queue)
      BY <2>2, <2>4, InvParts DEF Remembered
    <2>6. CASE o # g
      <3>1. Holder(o)' = Holder(o) /\ heap'.gens[o].queue = heap.gens[o].queue
        BY <2>6, <1>8, <1>18 DEF Generators
      <3> QED BY <3>1, <2>2, <2>4, <2>5
    <2>7. CASE o = g
      <3>1. x \in ToSet(q)
        BY <2>1, <2>5, <2>7 DEF q
      <3>2. q # <<>>
        BY <3>1, NothingQueued
      <3>3. x = Head(q) \/ x \in ToSet(Tail(q))
        BY <3>1, <3>2, <1>9
      <3>4. x \in (Holder(g)' \cup ToSet(heap'.gens[g].queue))
        BY <3>2, <3>3, <1>8, <1>13
      <3> QED BY <3>4, <2>2, <2>4, <2>7
    <2> QED BY <2>6, <2>7
  <1>21. Remembered'
    <2>1. Requests' = 1..n
      BY <1>5, <1>8 DEF Requests
    <2> SUFFICES ASSUME NEW x \in 1..n, heap'.requests[x].answer = "none"
                 PROVE  (x \in Holder(heap.requests[x].g) \cup ToSet(heap.gens[heap.requests[x].g].queue))'
      BY <2>1 DEF Remembered
    <2>2. PICK o \in Async : /\ o = heap'.requests[x].g
                             /\ x \in (Holder(o)' \cup ToSet(heap'.gens[o].queue))
      BY <1>20
    <2>3. Holder(o)' = (Holder(heap.requests[x].g))'
      BY <2>2 DEF Holder, Bodies, Answering, Queued
    <2> QED BY <2>2, <2>3
  <1>22. JobsOwned(heap'.jobs, n)
    <2>1. CASE q = <<>>
      BY <2>1, <1>2, <1>8
    <2>2. CASE q # <<>>
      <3>1. JobsOwned(Append(h.jobs, j), n)
        BY <2>2, <1>1, <1>2, <1>4, <1>9, OwnedJobs
      <3> QED BY <2>2, <3>1, <1>8
    <2> QED BY <2>1, <2>2
  <1>23. \A o \in Sync : heap'.gens[o].queue = <<>>
    BY <1>8, GeneratorsAssumption DEF Inv, Generators
  <1>24. Inv'
    <2>1. Typed'
      BY <1>8 DEF Typed, StackKept
    <2>2. \A o \in Async : Life(o)' /\ Woken(o)' /\ Kept(o)'
      BY <1>14, <1>15, <1>18, <1>19
    <2>3. Len(heap'.requests) = n
      BY <1>5, <1>8
    <2> QED BY <2>1, <2>2, <2>3, <1>21, <1>22, <1>23 DEF Inv, Over, StackKept, n
  <1>25. Phase(g) = "closed" => answer = ByKind(heap.requests[r].kind)
    BY <1>1 DEF Phase, ToFinish
  <1>26. Phase(g)' = IF answer = "value" THEN Phase(g) ELSE "closed"
    BY <1>1, <1>8 DEF Phase, ToFinish, Busy, done
  <1>27. heap'.requests = Answered(heap.requests, r, answer)
    BY <1>5, <1>8
  <1> QED BY <1>1, <1>16, <1>17, <1>18, <1>24, <1>25, <1>26, <1>27, QueueAnswers

-----------------------------------------------------------------------------
\* A step that leaves every async generator's life as it is keeps Inv and
\* stutters in the abstract queue.
LEMMA AllSame ==
    ASSUME Inv, \A g \in Async : Same(g), heap' \in HeapType, heap'.requests = heap.requests,
           \A g \in Sync : heap'.gens[g].queue = <<>>,
           frames' \in Seq(FrameType), Stacked(frames', Len(heap.requests)),
           result' = "running" => Grounded(frames'),
           JobsOwned(heap'.jobs, Len(heap.requests)), Over',
           thrown' \in BOOLEAN, ops' \in 0..MaxOps, result' \in {"running", "done", "throw", "internal", "panic"}
    PROVE  Inv' /\ UNCHANGED Queue!vars
  <1>1. ASSUME NEW g \in Async
        PROVE  Life(g)' /\ Woken(g)' /\ Holder(g)' = Holder(g) /\ Phase(g)' = Phase(g) /\ Line(g)' = Line(g)
    <2>1. Life(g) /\ Woken(g) /\ Same(g)
      BY InvParts
    <2> QED BY <2>1, SameLife
  <1>2. ASSUME NEW g \in Async PROVE Kept(g)'
    <2>1. SameSleep(g) /\ SameLine(g)
      BY DEF Same
    <2>2. /\ Len(heap'.requests) \in Nat /\ Len(heap.requests) <= Len(heap'.requests)
          /\ DOMAIN heap'.requests = 1..Len(heap'.requests)
      BY InvParts
    <2> QED BY <2>1, <2>2, SameKept
  <1>3. Remembered'
    <2>1. \A g \in Async : Holder(g) \cup ToSet(heap.gens[g].queue) \subseteq Holder(g)' \cup ToSet(heap'.gens[g].queue)
      BY <1>1 DEF Same, SameLine
    <2> QED BY <2>1, StillRemembered
  <1>4. Inv'
    BY <1>1, <1>2, <1>3 DEF Inv, Typed
  <1> QED BY <1>1, <1>4, QueueStutters

\* The top frame is replaced by the same life.
LEMMA ReplacedTop ==
    ASSUME NEW S, NEW s \in Seq(S), s # <<>>, NEW f \in S, NEW g,
           IsBody(f, g) <=> IsBody(Last(s), g), IsAnswering(f, g) <=> IsAnswering(Last(s), g), f.r = Last(s).r
    PROVE  SameStack(s, Append(Front(s), f), g)
  <1> DEFINE t == Append(Front(s), f)
             n == Len(s)
  <1>1. /\ n \in Nat \ {0} /\ DOMAIN s = 1..n /\ Front(s) \in Seq(S) /\ Len(Front(s)) = n - 1
        /\ DOMAIN Front(s) = 1..(n - 1) /\ Last(s) = s[n] /\ \A i \in DOMAIN Front(s) : Front(s)[i] = s[i]
    BY Popped
  <1>2. /\ DOMAIN t = 1..n /\ t[n] = f /\ \A i \in 1..(n - 1) : t[i] = s[i]
    <2> DEFINE u == Front(s)
    <2>1. u \in Seq(S) /\ Len(u) = n - 1 /\ DOMAIN u = 1..(n - 1) /\ \A i \in 1..(n - 1) : u[i] = s[i]
      BY <1>1
    <2>2. t = Append(u, f) /\ n \in Nat
      BY <1>1
    <2> HIDE DEF u, t, n
    <2>3. /\ DOMAIN Append(u, f) = 1..(Len(u) + 1) /\ Append(u, f)[Len(u) + 1] = f
          /\ \A i \in DOMAIN u : Append(u, f)[i] = u[i]
      BY <2>1, Pushed
    <2>4. Len(u) + 1 = n
      BY <2>1, <2>2
    <2> QED BY <2>1, <2>2, <2>3, <2>4
  <1> HIDE DEF t, n
  <1>3. BodiesIn(t, g) = BodiesIn(s, g) /\ AnsweringIn(t, g) = AnsweringIn(s, g)
    <2>1. \A i \in 1..n : (IsBody(t[i], g) <=> IsBody(s[i], g)) /\ (IsAnswering(t[i], g) <=> IsAnswering(s[i], g))
      BY <1>1, <1>2
    <2> QED BY <2>1, <1>1, <1>2 DEF BodiesIn, AnsweringIn
  <1>4. \A i \in 1..n : t[i].r = s[i].r
    BY <1>1, <1>2
  <1>5. BodiesIn(s, g) \cup AnsweringIn(s, g) \subseteq 1..n
    BY <1>1 DEF BodiesIn, AnsweringIn
  <1>6. HeldIn(t, g) = HeldIn(s, g)
    BY <1>3, <1>4, <1>5 DEF HeldIn
  <1> QED BY <1>3, <1>6 DEF t, SameStack

\* What the stack is while the program runs.
LEMMA CurrentFrame ==
    ASSUME Inv, result = "running"
    PROVE  /\ frames \in Seq(FrameType) /\ frames # <<>> /\ Top \in FrameType /\ Top = Last(frames)
           /\ Shape(Top, Len(heap.requests)) /\ Len(heap.requests) \in Nat
           /\ Front(frames) \in Seq(FrameType) /\ Stacked(Front(frames), Len(heap.requests))
           /\ ~ IsBottom(Top) => Grounded(Front(frames))
           /\ IsBottom(Top) => Front(frames) = <<>>
           /\ Grounded(frames) /\ Stacked(frames, Len(heap.requests))
           /\ Top.k = "body" => ~ IsBottom(Top)
  <1>1. frames \in Seq(FrameType) /\ Len(heap.requests) \in Nat /\ Stacked(frames, Len(heap.requests))
    BY InvParts
  <1>2. Grounded(frames) /\ frames # <<>>
    BY DEF Inv, Grounded
  <1>3. Top.k = "body" /\ Shape(Top, Len(heap.requests)) => ~ IsBottom(Top)
    BY DEF Shape, IsBottom
  <1> QED BY <1>1, <1>2, <1>3, PoppedStack DEF Top

\* The frame of a body on top of the stack is its generator's only life.
LEMMA BodyLife ==
    ASSUME Inv, result = "running", Top.k = "body", NEW g \in Async, g = Top.g
    PROVE  /\ Busy(g) /\ ~ Asleep(g) /\ Holder(g) = {Top.r} /\ Top.r \in Requests
           /\ ~ heap.gens[g].done /\ heap.gens[g].executing /\ heap.gens[g].started
           /\ JobsIn(heap.jobs, "request", g) = {} /\ JobsIn(heap.jobs, "resume", g) = {}
           /\ g \notin heap.waiting
           /\ BodiesIn(Front(frames), g) = {} /\ AnsweringIn(Front(frames), g) = {}
           /\ \A o \in Async \ {g} : SameStack(frames, Front(frames), o)
  <1>1. /\ frames \in Seq(FrameType) /\ frames # <<>> /\ Shape(Top, Len(heap.requests)) /\ Top = Last(frames)
    BY CurrentFrame
  <1>2. Top.then = "" /\ Top.r \in Requests
    BY <1>1, InvParts DEF Shape
  <1>3. IsBody(Last(frames), g) /\ \A o : o # g => ~ IsBody(Last(frames), o) /\ ~ IsAnswering(Last(frames), o)
    BY <1>1, <1>2 DEF IsBody, IsAnswering
  <1>4. BodiesIn(frames, g) # {} /\ (One(BodiesIn(frames, g)) => BodiesIn(Front(frames), g) = {}
        /\ BodiesIn(frames, g) = {Len(frames)}) /\ AnsweringIn(Front(frames), g) \subseteq AnsweringIn(frames, g)
    BY <1>1, <1>3, PoppedLife
  <1>5. Bodies(g) = BodiesIn(frames, g) /\ Answering(g) = AnsweringIn(frames, g) /\ Queued(g) = JobsIn(heap.jobs, "request", g)
    BY Holders
  <1>6. Life(g) /\ Woken(g) /\ heap \in HeapType
    BY InvParts
  <1>7. /\ Busy(g) /\ ~ Asleep(g) /\ ~ heap.gens[g].done /\ heap.gens[g].executing /\ heap.gens[g].started
        /\ One(Bodies(g)) /\ Answering(g) = {} /\ Queued(g) = {}
    BY <1>4, <1>5, <1>6 DEF Life, Idle, Busy, One
  <1>8. Holder(g) = {Top.r}
    <2>1. Bodies(g) = {Len(frames)}
      BY <1>4, <1>5, <1>7
    <2>2. Holder(g) = {frames[Len(frames)].r}
      BY <1>6, <1>7, <2>1, LivesHeld
    <2> QED BY <2>2 DEF Top, Last
  <1>9. g \notin heap.waiting /\ JobsIn(heap.jobs, "resume", g) = {}
    BY <1>6, <1>7 DEF Woken, Resumes
  <1>10. \A o \in Async \ {g} : SameStack(frames, Front(frames), o)
    BY <1>1, <1>3, PoppedOther DEF SameStack
  <1>11. /\ BodiesIn(Front(frames), g) = {} /\ AnsweringIn(Front(frames), g) = {}
         /\ JobsIn(heap.jobs, "request", g) = {}
    BY <1>4, <1>5, <1>7
  <1> QED BY <1>2, <1>7, <1>8, <1>9, <1>10, <1>11

\* So is a drain that is to answer what its generator yielded.
LEMMA AnsweringLife ==
    ASSUME Inv, result = "running", Top.then = "answer", NEW g \in Async, g = Top.g
    PROVE  /\ Busy(g) /\ ~ Asleep(g) /\ Holder(g) = {Top.r} /\ Top.r \in Requests
           /\ ~ heap.gens[g].done /\ heap.gens[g].executing /\ heap.gens[g].started
           /\ JobsIn(heap.jobs, "request", g) = {} /\ JobsIn(heap.jobs, "resume", g) = {}
           /\ g \notin heap.waiting
           /\ BodiesIn(Front(frames), g) = {} /\ AnsweringIn(Front(frames), g) = {}
           /\ \A o \in Async \ {g} : SameStack(frames, Front(frames), o)
  <1>1. /\ frames \in Seq(FrameType) /\ frames # <<>> /\ Shape(Top, Len(heap.requests)) /\ Top = Last(frames)
    BY CurrentFrame
  <1>2. Top.k = "drain" /\ Top.r \in Requests
    BY <1>1, InvParts DEF Shape
  <1>3. IsAnswering(Last(frames), g) /\ \A o : o # g => ~ IsBody(Last(frames), o) /\ ~ IsAnswering(Last(frames), o)
    BY <1>1, <1>2 DEF IsBody, IsAnswering
  <1>4. AnsweringIn(frames, g) # {} /\ (One(AnsweringIn(frames, g)) => AnsweringIn(Front(frames), g) = {}
        /\ AnsweringIn(frames, g) = {Len(frames)}) /\ BodiesIn(Front(frames), g) \subseteq BodiesIn(frames, g)
    BY <1>1, <1>3, PoppedLife
  <1>5. Bodies(g) = BodiesIn(frames, g) /\ Answering(g) = AnsweringIn(frames, g) /\ Queued(g) = JobsIn(heap.jobs, "request", g)
    BY Holders
  <1>6. Life(g) /\ Woken(g) /\ heap \in HeapType
    BY InvParts
  <1>7. /\ Busy(g) /\ ~ Asleep(g) /\ ~ heap.gens[g].done /\ heap.gens[g].executing /\ heap.gens[g].started
        /\ One(Answering(g)) /\ Bodies(g) = {} /\ Queued(g) = {}
    BY <1>4, <1>5, <1>6 DEF Life, Idle, Busy, One
  <1>8. Holder(g) = {Top.r}
    <2>1. Answering(g) = {Len(frames)}
      BY <1>4, <1>5, <1>7
    <2>2. Holder(g) = {frames[Len(frames)].r}
      BY <1>6, <1>7, <2>1, LivesHeld
    <2> QED BY <2>2 DEF Top, Last
  <1>9. g \notin heap.waiting /\ JobsIn(heap.jobs, "resume", g) = {}
    BY <1>6, <1>7 DEF Woken, Resumes
  <1>10. \A o \in Async \ {g} : SameStack(frames, Front(frames), o)
    BY <1>1, <1>3, PoppedOther DEF SameStack
  <1>11. /\ BodiesIn(Front(frames), g) = {} /\ AnsweringIn(Front(frames), g) = {}
         /\ JobsIn(heap.jobs, "request", g) = {}
    BY <1>4, <1>5, <1>7
  <1> QED BY <1>2, <1>7, <1>8, <1>9, <1>10, <1>11

-----------------------------------------------------------------------------
\* Steps that touch no life: the heap stays, but for a delegate.
Delegated(h, g, d) == [h EXCEPT !.gens[g].delegate = d]
Quiet ==
    /\ heap' = heap \/ \E g \in Generators, d \in BOOLEAN : heap' = Delegated(heap, g, d)
    /\ \A g \in Async : SameStack(frames, frames', g)
    /\ frames' \in Seq(FrameType) /\ Stacked(frames', Len(heap.requests))
    /\ result' = "running" => Grounded(frames')
    /\ result' = "done" => frames' = <<>> /\ heap.jobs = <<>>
    /\ thrown' \in BOOLEAN /\ ops' \in 0..MaxOps
    /\ result' \in {"running", "done", "throw", "internal", "panic"}

\* A delegate changes nothing else of its generator.
LEMMA DelegateParts ==
    ASSUME NEW h \in HeapType, NEW g \in Generators, NEW d \in BOOLEAN, NEW c, c = Delegated(h, g, d)
    PROVE  /\ c \in HeapType
           /\ c.gens[g].started = h.gens[g].started /\ c.gens[g].executing = h.gens[g].executing
           /\ c.gens[g].done = h.gens[g].done /\ c.gens[g].queue = h.gens[g].queue
           /\ \A o \in Generators \ {g} : c.gens[o] = h.gens[o]
           /\ c.requests = h.requests /\ c.jobs = h.jobs /\ c.asleep = h.asleep /\ c.waiting = h.waiting
  <1> DEFINE x == h.gens[g]
             y == [x EXCEPT !.delegate = d]
  <1>1. x \in GenType
    BY GenFields
  <1>2. y \in GenType /\ y.done = x.done /\ y.started = x.started /\ y.executing = x.executing /\ y.queue = x.queue
    BY <1>1 DEF GenType
  <1>3. c = [h EXCEPT !.gens[g] = y]
    BY DEF HeapType, Delegated
  <1> HIDE DEF y
  <1>4. /\ c \in HeapType /\ c.gens[g] = y /\ \A o \in Generators \ {g} : c.gens[o] = h.gens[o]
        /\ c.requests = h.requests /\ c.jobs = h.jobs /\ c.asleep = h.asleep /\ c.waiting = h.waiting
    BY <1>2, <1>3, GenReplaced
  <1> QED BY <1>2, <1>4

\* A quiet step keeps Inv and stutters in the abstract queue.
LEMMA QuietStep ==
    ASSUME Inv, Quiet
    PROVE  Inv' /\ UNCHANGED Queue!vars
  <1>1. /\ heap' \in HeapType /\ heap'.requests = heap.requests /\ heap'.jobs = heap.jobs
        /\ heap'.asleep = heap.asleep /\ heap'.waiting = heap.waiting
        /\ \A g \in Generators : /\ heap'.gens[g].done = heap.gens[g].done
                                 /\ heap'.gens[g].started = heap.gens[g].started
                                 /\ heap'.gens[g].executing = heap.gens[g].executing
                                 /\ heap'.gens[g].queue = heap.gens[g].queue
    <2>1. heap \in HeapType
      BY InvParts
    <2>2. CASE heap' = heap
      BY <2>1, <2>2
    <2>3. CASE \E g \in Generators, d \in BOOLEAN : heap' = Delegated(heap, g, d)
      <3>1. PICK g \in Generators, d \in BOOLEAN : heap' = Delegated(heap, g, d)
        BY <2>3
      <3>2. /\ heap' \in HeapType
            /\ heap'.gens[g].started = heap.gens[g].started /\ heap'.gens[g].executing = heap.gens[g].executing
            /\ heap'.gens[g].done = heap.gens[g].done /\ heap'.gens[g].queue = heap.gens[g].queue
            /\ \A o \in Generators \ {g} : heap'.gens[o] = heap.gens[o]
            /\ heap'.requests = heap.requests /\ heap'.jobs = heap.jobs /\ heap'.asleep = heap.asleep
            /\ heap'.waiting = heap.waiting
        BY <2>1, <3>1, DelegateParts
      <3> QED BY <3>2
    <2> QED BY <2>2, <2>3 DEF Quiet
  <1>2. ASSUME NEW g \in Async PROVE Same(g)
    <2>1. SameSleep(g) /\ SameLine(g)
      BY <1>1 DEF SameSleep, SameLine, Generators
    <2>2. SameQueued(heap.jobs, heap'.jobs, g) /\ SameResumes(heap.jobs, heap'.jobs, g)
      BY <1>1 DEF SameQueued, SameResumes
    <2> QED BY <2>1, <2>2 DEF Same, Quiet
  <1>3. \A g \in Sync : heap'.gens[g].queue = <<>>
    BY <1>1 DEF Inv, Generators
  <1>4. Over'
    BY <1>1 DEF Quiet, Over
  <1>5. JobsOwned(heap'.jobs, Len(heap.requests))
    BY <1>1, InvParts
  <1> QED BY <1>1, <1>2, <1>3, <1>4, <1>5, AllSame DEF Quiet

\* The frame on top goes on as the same body.
LEMMA UnderBody ==
    ASSUME Inv, result = "running", Top.k = "body",
           NEW f \in FrameType, f.k = "body", f.g = Top.g, f.r = Top.r, f.then = ""
    PROVE  /\ Under(f) \in Seq(FrameType) /\ Stacked(Under(f), Len(heap.requests)) /\ Grounded(Under(f))
           /\ \A g \in Async : SameStack(frames, Under(f), g)
  <1> DEFINE n == Len(heap.requests)
  <1>1. /\ frames \in Seq(FrameType) /\ frames # <<>> /\ Top \in FrameType /\ Top = Last(frames)
        /\ Shape(Top, n) /\ n \in Nat /\ Front(frames) \in Seq(FrameType)
        /\ Stacked(Front(frames), n) /\ Grounded(Front(frames))
    BY CurrentFrame
  <1>2. Shape(f, n) /\ ~ IsBottom(f) /\ Top.then = ""
    BY <1>1 DEF Shape, IsBottom
  <1>3. Under(f) = Append(Front(frames), f)
    BY DEF Under
  <1>4. Under(f) \in Seq(FrameType)
    <2>1. Append(Front(frames), f) \in Seq(FrameType)
      BY <1>1, AppendProperties
    <2> QED BY <1>3, <2>1
  <1>5. Stacked(Under(f), n) /\ Grounded(Under(f))
    BY <1>1, <1>2, <1>3, PushedStack
  <1>6. ASSUME NEW g \in Async PROVE SameStack(frames, Under(f), g)
    <2>1. (IsBody(f, g) <=> IsBody(Last(frames), g)) /\ (IsAnswering(f, g) <=> IsAnswering(Last(frames), g))
          /\ f.r = Last(frames).r
      BY <1>1, <1>2 DEF IsBody, IsAnswering
    <2> QED BY <1>1, <1>3, <2>1, ReplacedTop
  <1> QED BY <1>4, <1>5, <1>6

\* A frame that is no generator's life: a callback or a drain that answers nothing.
Lifeless(f) == f.k \in {"drain", "callback"} /\ f.then \in {"", "go on", "refuse"}

\* A lifeless frame is pushed: the lives stay.
LEMMA PushedQuietly ==
    ASSUME NEW s \in Seq(FrameType), NEW n \in Nat, Stacked(s, n), Grounded(s),
           NEW f \in FrameType, Lifeless(f)
    PROVE  /\ Append(s, f) \in Seq(FrameType) /\ Stacked(Append(s, f), n) /\ Grounded(Append(s, f))
           /\ \A g : SameStack(s, Append(s, f), g)
  <1>1. Shape(f, n) /\ ~ IsBottom(f)
    BY DEF Lifeless, Shape, IsBottom
  <1>2. \A g : ~ IsBody(f, g) /\ ~ IsAnswering(f, g)
    BY DEF Lifeless, IsBody, IsAnswering
  <1>3. \A g : SameStack(s, Append(s, f), g)
    BY <1>2, PushedOther DEF SameStack
  <1> QED BY <1>1, <1>3, PushedStack, Pushed

\* A lifeless frame is popped: the lives stay.
LEMMA PoppedQuietly ==
    ASSUME Inv, result = "running", Lifeless(Top)
    PROVE  /\ Front(frames) \in Seq(FrameType) /\ Stacked(Front(frames), Len(heap.requests))
           /\ Grounded(Front(frames)) /\ \A g \in Async : SameStack(frames, Front(frames), g)
  <1>1. ~ IsBottom(Top) /\ \A g : ~ IsBody(Top, g) /\ ~ IsAnswering(Top, g)
    BY DEF Lifeless, IsBottom, IsBody, IsAnswering
  <1>2. /\ frames \in Seq(FrameType) /\ frames # <<>> /\ Top = Last(frames)
        /\ Front(frames) \in Seq(FrameType) /\ Stacked(Front(frames), Len(heap.requests)) /\ Grounded(Front(frames))
    BY <1>1, CurrentFrame
  <1>3. \A g \in Async : SameStack(frames, Front(frames), g)
    BY <1>1, <1>2, PoppedOther DEF SameStack
  <1> QED BY <1>2, <1>3

\* A stack that stays leaves every life.
LEMMA SameStays == \A s, g : SameStack(s, s, g)
  BY DEF SameStack

\* What the parts of a frame are.
LEMMA FrameFields ==
    ASSUME NEW f \in FrameType
    PROVE  /\ f.k \in {"main", "callback", "body", "drain", "none"} /\ f.g \in Generators \cup {NoGenerator} /\ f.r \in Nat
           /\ f.resume \in Kinds \cup {"none"} /\ f.at \in {"code", "star"}
           /\ f.tries \in Seq({"catch", "finally"}) /\ f.pending \in BOOLEAN /\ f.locals \in BOOLEAN
           /\ f.star \in {"", "call", "value", "done"} /\ f.kind \in Kinds
           /\ f.then \in {"", "answer", "go on", "refuse", "end"}
  BY DEF FrameType

\* The same body, further on in its code.
SameBody(f, e) == e \in FrameType /\ e.k = f.k /\ e.g = f.g /\ e.r = f.r /\ e.then = f.then

\* What the actions change of a body's frame leaves it the same body.
LEMMA FrameChanges ==
    ASSUME NEW f \in FrameType
    PROVE  /\ SameBody(f, [f EXCEPT !.resume = "none"])
           /\ \A handler \in {"catch", "finally"} : SameBody(f, [f EXCEPT !.tries = <<handler>>])
           /\ SameBody(f, [f EXCEPT !.tries = <<>>])
           /\ SameBody(f, [f EXCEPT !.pending = FALSE])
           /\ SameBody(f, [f EXCEPT !.at = "star"])
           /\ \A kind \in Kinds : SameBody(f, [f EXCEPT !.resume = "none", !.kind = kind, !.star = "call"])
           /\ \A o \in {"value", "done"} : SameBody(f, [f EXCEPT !.star = o])
           /\ SameBody(f, [f EXCEPT !.at = "code", !.star = ""])
           /\ \A p \in BOOLEAN : SameBody(f, [f EXCEPT !.tries = <<>>, !.pending = p, !.at = "code", !.star = ""])
  <1>1. /\ <<>> \in Seq({"catch", "finally"})
        /\ \A handler \in {"catch", "finally"} : <<handler>> \in Seq({"catch", "finally"})
    OBVIOUS
  <1>2. SameBody(f, [f EXCEPT !.resume = "none"])
    BY DEF FrameType, SameBody
  <1>3. ASSUME NEW handler \in {"catch", "finally"} PROVE SameBody(f, [f EXCEPT !.tries = <<handler>>])
    BY <1>1 DEF FrameType, SameBody
  <1>4. SameBody(f, [f EXCEPT !.tries = <<>>])
    BY <1>1 DEF FrameType, SameBody
  <1>5. SameBody(f, [f EXCEPT !.pending = FALSE]) /\ SameBody(f, [f EXCEPT !.at = "star"])
    BY DEF FrameType, SameBody
  <1>6. ASSUME NEW kind \in Kinds PROVE SameBody(f, [f EXCEPT !.resume = "none", !.kind = kind, !.star = "call"])
    BY DEF FrameType, SameBody
  <1>7. ASSUME NEW o \in {"value", "done"} PROVE SameBody(f, [f EXCEPT !.star = o])
    BY DEF FrameType, SameBody
  <1>8. SameBody(f, [f EXCEPT !.at = "code", !.star = ""])
    BY DEF FrameType, SameBody
  <1>9. ASSUME NEW p \in BOOLEAN
        PROVE  SameBody(f, [f EXCEPT !.tries = <<>>, !.pending = p, !.at = "code", !.star = ""])
    BY <1>1 DEF FrameType, SameBody
  <1> QED BY <1>2, <1>3, <1>4, <1>5, <1>6, <1>7, <1>8, <1>9

\* A new frame has its type and is plain.
LEMMA PlainFrame ==
    ASSUME NEW k \in {"main", "callback", "body", "drain", "none"}
    PROVE  Frame(k) \in FrameType /\ Frame(k).k = k /\ Frame(k).then = ""
  BY DEF Frame, FrameType, Kinds

\* The drain that answers a request of g.
LEMMA AnsweringDrain ==
    ASSUME NEW g \in Generators, NEW r \in Nat
    PROVE  /\ Drain("answer", g, r) \in FrameType
           /\ Drain("answer", g, r).k = "drain" /\ Drain("answer", g, r).then = "answer"
           /\ Drain("answer", g, r).g = g /\ Drain("answer", g, r).r = r
  <1> DEFINE f == Frame("drain")
  <1>1. f \in FrameType /\ f.k = "drain"
    BY PlainFrame
  <1>2. Drain("answer", g, r) = [f EXCEPT !.then = "answer", !.g = g, !.r = r]
    BY DEF Drain
  <1> HIDE DEF f
  <1> QED BY <1>1, <1>2 DEF FrameType

\* The drains that answer nothing.
LEMMA LifelessDrain ==
    ASSUME NEW then \in {"go on", "refuse"}, NEW g \in Generators, NEW r \in Nat
    PROVE  Drain(then, g, r) \in FrameType /\ Lifeless(Drain(then, g, r))
  <1> DEFINE f == Frame("drain")
  <1>1. f \in FrameType /\ f.k = "drain"
    BY PlainFrame
  <1>2. Drain(then, g, r) = [f EXCEPT !.then = then, !.g = g, !.r = r]
    BY DEF Drain
  <1> HIDE DEF f
  <1> QED BY <1>1, <1>2 DEF FrameType, Lifeless

\* The drain main is followed by.
LEMMA LastDrain ==
    /\ Drain("end", NoGenerator, 0) \in FrameType
    /\ Drain("end", NoGenerator, 0).k = "drain" /\ Drain("end", NoGenerator, 0).then = "end"
  <1> DEFINE f == Frame("drain")
  <1>1. f \in FrameType /\ f.k = "drain"
    BY PlainFrame
  <1>2. Drain("end", NoGenerator, 0) = [f EXCEPT !.then = "end", !.g = NoGenerator, !.r = 0]
    BY DEF Drain
  <1> HIDE DEF f
  <1>3. [f EXCEPT !.then = "end", !.g = NoGenerator, !.r = 0] \in FrameType
    BY <1>1 DEF FrameType
  <1>4. /\ [f EXCEPT !.then = "end", !.g = NoGenerator, !.r = 0].k = "drain"
        /\ [f EXCEPT !.then = "end", !.g = NoGenerator, !.r = 0].then = "end"
    BY <1>1 DEF FrameType
  <1> QED BY <1>2, <1>3, <1>4

-----------------------------------------------------------------------------
\* The heap stays, but for a delegate; the other variables keep their types.
HeapQuiet == heap' = heap \/ \E g \in Generators, d \in BOOLEAN : heap' = Delegated(heap, g, d)
ScalarsTyped ==
    thrown' \in BOOLEAN /\ ops' \in 0..MaxOps /\ result' \in {"running", "throw", "internal", "panic"}

\* The scalars keep their types over an operation.
LEMMA Counted ==
    ASSUME Inv
    PROVE  /\ thrown \in BOOLEAN /\ ops \in 0..MaxOps /\ (Operation => ops' \in 0..MaxOps)
  <1>1. thrown \in BOOLEAN /\ ops \in 0..MaxOps
    BY DEF Inv, Typed
  <1> QED BY <1>1, GeneratorsAssumption DEF Operation

\* A body that goes on in its code is a quiet step.
LEMMA BodyQuiet ==
    ASSUME Inv, result = "running", Top.k = "body", NEW f, SameBody(Top, f),
           frames' = Under(f), HeapQuiet, ScalarsTyped
    PROVE  Quiet
  <1>1. Shape(Top, Len(heap.requests))
    BY CurrentFrame
  <1>2. f \in FrameType /\ f.k = "body" /\ f.g = Top.g /\ f.r = Top.r /\ f.then = ""
    BY <1>1 DEF SameBody, Shape
  <1>3. /\ Under(f) \in Seq(FrameType) /\ Stacked(Under(f), Len(heap.requests)) /\ Grounded(Under(f))
        /\ \A g \in Async : SameStack(frames, Under(f), g)
    BY <1>2, UnderBody
  <1> QED BY <1>3 DEF Quiet, HeapQuiet, ScalarsTyped

\* A step that leaves the stack is a quiet step.
LEMMA StillQuiet ==
    ASSUME Inv, result = "running", frames' = frames, HeapQuiet, ScalarsTyped
    PROVE  Quiet
  <1>1. frames \in Seq(FrameType) /\ Grounded(frames) /\ Stacked(frames, Len(heap.requests))
    BY CurrentFrame
  <1> QED BY <1>1, SameStays DEF Quiet, HeapQuiet, ScalarsTyped

\* A lifeless frame pushed above a body that goes on is a quiet step.
LEMMA PushedOnBodyQuiet ==
    ASSUME Inv, result = "running", Top.k = "body", NEW f, SameBody(Top, f), NEW d \in FrameType, Lifeless(d),
           frames' = Append(Under(f), d), HeapQuiet, ScalarsTyped
    PROVE  Quiet
  <1>1. Shape(Top, Len(heap.requests)) /\ Len(heap.requests) \in Nat
    BY CurrentFrame
  <1>2. f \in FrameType /\ f.k = "body" /\ f.g = Top.g /\ f.r = Top.r /\ f.then = ""
    BY <1>1 DEF SameBody, Shape
  <1>3. /\ Under(f) \in Seq(FrameType) /\ Stacked(Under(f), Len(heap.requests)) /\ Grounded(Under(f))
        /\ \A g \in Async : SameStack(frames, Under(f), g)
    BY <1>2, UnderBody
  <1>4. /\ frames' \in Seq(FrameType) /\ Stacked(frames', Len(heap.requests)) /\ Grounded(frames')
        /\ \A g : SameStack(Under(f), frames', g)
    BY <1>1, <1>3, PushedQuietly
  <1>5. \A g \in Async : SameStack(frames, frames', g)
    BY <1>3, <1>4 DEF SameStack
  <1> QED BY <1>4, <1>5 DEF Quiet, HeapQuiet, ScalarsTyped

\* A lifeless frame pushed is a quiet step.
LEMMA PushedQuiet ==
    ASSUME Inv, result = "running", NEW d \in FrameType, Lifeless(d),
           frames' = Append(frames, d), HeapQuiet, ScalarsTyped
    PROVE  Quiet
  <1>1. /\ frames \in Seq(FrameType) /\ Grounded(frames) /\ Stacked(frames, Len(heap.requests))
        /\ Len(heap.requests) \in Nat
    BY CurrentFrame
  <1> QED BY <1>1, PushedQuietly DEF Quiet, HeapQuiet, ScalarsTyped

\* A lifeless frame popped is a quiet step.
LEMMA PoppedQuiet ==
    ASSUME Inv, result = "running", Lifeless(Top), frames' = Front(frames), HeapQuiet, ScalarsTyped
    PROVE  Quiet
  BY PoppedQuietly DEF Quiet, HeapQuiet, ScalarsTyped

\* What the parts of the body on top are.
LEMMA TopChanges ==
    ASSUME Inv, result = "running", Top.k = "body"
    PROVE  /\ Top \in FrameType /\ Top.g \in Generators /\ Top.r \in Nat /\ Top.tries \in Seq({"catch", "finally"})
           /\ Top.resume \in Kinds \cup {"none"} /\ Top.kind \in Kinds
           /\ Top.g \in Async => Top.r \in Requests
           /\ Top.g \in Sync => Top.r = 0
  <1>1. Top \in FrameType /\ Shape(Top, Len(heap.requests))
    BY CurrentFrame
  <1> QED BY <1>1, FrameFields, InvParts DEF Shape

-----------------------------------------------------------------------------
\* The instructions of a body that change no life (TryBegin, TryEnd, FinallyEnd,
\* throw, the delegate of yield*, the return of a callback).
LEMMA TryQuiet == ASSUME Inv, Try PROVE Quiet
  <1>1. result = "running" /\ Top.k = "body" /\ HeapQuiet /\ ScalarsTyped
    BY Counted DEF Try, BodyCode, InBody, Runs, HeapQuiet, ScalarsTyped
  <1>2. PICK handler \in {"catch", "finally"} : frames' = Under([Top EXCEPT !.tries = <<handler>>])
    BY DEF Try
  <1>3. SameBody(Top, [Top EXCEPT !.tries = <<handler>>])
    BY <1>1, TopChanges, FrameChanges
  <1> QED BY <1>1, <1>2, <1>3, BodyQuiet

LEMMA EndTryQuiet == ASSUME Inv, EndTry PROVE Quiet
  <1>1. result = "running" /\ Top.k = "body" /\ HeapQuiet /\ ScalarsTyped
    BY Counted DEF EndTry, BodyCode, InBody, Runs, HeapQuiet, ScalarsTyped
  <1>2. SameBody(Top, [Top EXCEPT !.tries = <<>>])
    BY <1>1, TopChanges, FrameChanges
  <1> QED BY <1>1, <1>2, BodyQuiet DEF EndTry

LEMMA EndFinallyQuiet == ASSUME Inv, EndFinally PROVE Quiet
  <1>1. result = "running" /\ Top.k = "body" /\ HeapQuiet /\ ScalarsTyped
    BY Counted DEF EndFinally, BodyCode, InBody, Runs, HeapQuiet, ScalarsTyped
  <1>2. SameBody(Top, [Top EXCEPT !.pending = FALSE])
    BY <1>1, TopChanges, FrameChanges
  <1> QED BY <1>1, <1>2, BodyQuiet DEF EndFinally

LEMMA ThrowQuiet == ASSUME Inv, Throw PROVE Quiet
  BY Counted, StillQuiet DEF Throw, BodyCode, InBody, Runs, HeapQuiet, ScalarsTyped

LEMMA UseLostLocalQuiet == ASSUME Inv, UseLostLocal PROVE Quiet
  BY Counted, StillQuiet DEF UseLostLocal, BodyCode, InBody, Runs, HeapQuiet, ScalarsTyped

LEMMA DelegateQuiet == ASSUME Inv, Delegate PROVE Quiet
  <1>1. result = "running" /\ Top.k = "body" /\ HeapQuiet /\ ScalarsTyped
    BY Counted DEF Delegate, BodyCode, InBody, Runs, HeapQuiet, ScalarsTyped
  <1>2. SameBody(Top, [Top EXCEPT !.at = "star"])
    BY <1>1, TopChanges, FrameChanges
  <1> QED BY <1>1, <1>2, BodyQuiet DEF Delegate

LEMMA AcquireDelegateQuiet == ASSUME Inv, AcquireDelegate PROVE Quiet
  <1>1. result = "running" /\ Top.k = "body" /\ ScalarsTyped /\ frames' = frames
    BY Counted DEF AcquireDelegate, AtStar, InBody, Runs, ScalarsTyped
  <1>2. HeapQuiet
    <2>1. Top.g \in Generators
      BY <1>1, TopChanges
    <2> QED BY <2>1 DEF AcquireDelegate, HeapQuiet, Delegated
  <1> QED BY <1>1, <1>2, StillQuiet

LEMMA TakeCompletionQuiet == ASSUME Inv, TakeCompletion PROVE Quiet
  <1> DEFINE kind == IF Top.resume = "none" THEN "next" ELSE Top.resume
             f    == [Top EXCEPT !.resume = "none", !.kind = kind, !.star = "call"]
             d    == Drain("go on", Top.g, Top.r)
  <1>1. result = "running" /\ Top.k = "body" /\ HeapQuiet /\ ScalarsTyped
    BY Counted DEF TakeCompletion, AtStar, InBody, Runs, HeapQuiet, ScalarsTyped
  <1>2. SameBody(Top, f)
    <2>1. kind \in Kinds /\ Top \in FrameType
      BY <1>1, TopChanges DEF Kinds
    <2> HIDE DEF kind
    <2> QED BY <2>1, FrameChanges
  <1>3. d \in FrameType /\ Lifeless(d)
    BY <1>1, TopChanges, LifelessDrain
  <1>4. frames' = Under(f) \/ frames' = Append(Under(f), d)
    BY DEF TakeCompletion
  <1> HIDE DEF f, d
  <1> QED BY <1>1, <1>2, <1>3, <1>4, BodyQuiet, PushedOnBodyQuiet

LEMMA EndCallbackQuiet == ASSUME Inv, EndCallback PROVE Quiet
  <1>1. result = "running" /\ Top.k = "callback" /\ HeapQuiet /\ ScalarsTyped /\ frames' = Front(frames)
    BY Counted DEF EndCallback, Runs, HeapQuiet, ScalarsTyped
  <1>2. Lifeless(Top)
    <2>1. Shape(Top, Len(heap.requests)) /\ Top \in FrameType
      BY <1>1, CurrentFrame
    <2>2. Top.then \in {"", "answer", "go on", "refuse", "end"}
      BY <2>1, FrameFields
    <2> QED BY <1>1, <2>1, <2>2 DEF Lifeless, Shape
  <1> QED BY <1>1, <1>2, PoppedQuiet

\* Main becomes the drain of the jobs it has left.
LEMMA EndMainQuiet == ASSUME Inv, EndMain PROVE Quiet
  <1> DEFINE d == Drain("end", NoGenerator, 0)
             n == Len(heap.requests)
  <1>1. /\ result = "running" /\ Top.k = "main" /\ HeapQuiet /\ ScalarsTyped /\ result' = "running"
        /\ frames' = <<d>>
    BY Counted DEF EndMain, Runs, HeapQuiet, ScalarsTyped
  <1>2. d \in FrameType /\ d.k = "drain" /\ d.then = "end"
    BY LastDrain
  <1>3. /\ frames \in Seq(FrameType) /\ frames # <<>> /\ Top = Last(frames) /\ Shape(Top, n) /\ n \in Nat
        /\ Front(frames) = <<>> /\ Stacked(Front(frames), n)
    BY <1>1, CurrentFrame DEF IsBottom
  <1> HIDE DEF d, n
  <1>4. frames' = Append(<<>>, d) /\ <<>> \in Seq(FrameType)
    BY <1>1
  <1>5. Shape(d, n) /\ IsBottom(d)
    BY <1>2 DEF Shape, IsBottom
  <1>6. frames' \in Seq(FrameType) /\ Stacked(frames', n)
    BY <1>2, <1>3, <1>4, <1>5, PushedStack, Pushed
  <1>7. Grounded(frames')
    BY <1>1, <1>5 DEF Grounded
  <1>8. ASSUME NEW g \in Async PROVE SameStack(frames, frames', g)
    <2>1. ~ IsBody(Last(frames), g) /\ ~ IsAnswering(Last(frames), g) /\ ~ IsBody(d, g) /\ ~ IsAnswering(d, g)
      BY <1>1, <1>2, <1>3 DEF Shape, IsBody, IsAnswering
    <2>2. SameStack(frames, <<>>, g)
      BY <1>3, <2>1, PoppedOther DEF SameStack
    <2>3. SameStack(<<>>, frames', g)
      BY <1>2, <1>4, <2>1, PushedOther DEF SameStack
    <2> QED BY <2>2, <2>3 DEF SameStack
  <1> QED BY <1>1, <1>6, <1>7, <1>8 DEF Quiet, HeapQuiet, ScalarsTyped, n

-----------------------------------------------------------------------------
\* A step of the system, seen from the queue of requests.
QueueStep == [Queue!Next]_(Queue!vars)

\* A quiet step, seen from the abstract queue.
LEMMA QuietQueue == ASSUME Inv, Quiet PROVE Inv' /\ QueueStep
  BY QuietStep DEF QueueStep

\* An Answer of the abstract queue is one of its steps.
LEMMA AnswerIsStep == ASSUME NEW g \in Async, Queue!Answer(g) PROVE QueueStep
  BY DEF QueueStep, Queue!Next

\* The body of a generator that is not async goes; its state may have changed.
LEMMA SyncPops ==
    ASSUME Inv, result = "running", Top.k = "body", NEW g \in Sync, g = Top.g,
           heap' \in HeapType, \A o \in Generators \ {g} : heap'.gens[o] = heap.gens[o],
           heap'.gens[g].queue = heap.gens[g].queue, heap'.requests = heap.requests,
           heap'.jobs = heap.jobs, heap'.asleep = heap.asleep, heap'.waiting = heap.waiting,
           frames' = Front(frames), ScalarsTyped
    PROVE  Inv' /\ QueueStep
  <1>1. /\ frames \in Seq(FrameType) /\ frames # <<>> /\ Shape(Top, Len(heap.requests)) /\ Top = Last(frames)
        /\ Front(frames) \in Seq(FrameType) /\ Stacked(Front(frames), Len(heap.requests)) /\ Grounded(Front(frames))
    BY CurrentFrame
  <1>2. ASSUME NEW o \in Async PROVE Same(o)
    <2>1. o # g
      BY GeneratorsAssumption
    <2>2. ~ IsBody(Last(frames), o) /\ ~ IsAnswering(Last(frames), o)
      BY <1>1, <2>1 DEF IsBody, IsAnswering, Shape
    <2>3. SameStack(frames, frames', o)
      BY <1>1, <2>2, PoppedOther DEF SameStack
    <2>4. SameSleep(o) /\ SameLine(o)
      BY <2>1 DEF SameSleep, SameLine, Generators
    <2>5. SameQueued(heap.jobs, heap'.jobs, o) /\ SameResumes(heap.jobs, heap'.jobs, o)
      BY DEF SameQueued, SameResumes
    <2> QED BY <2>3, <2>4, <2>5 DEF Same
  <1>3. \A o \in Sync : heap'.gens[o].queue = <<>>
    BY DEF Inv, Generators
  <1>4. JobsOwned(heap'.jobs, Len(heap.requests)) /\ Over'
    BY InvParts DEF Over, ScalarsTyped
  <1>5. thrown' \in BOOLEAN /\ ops' \in 0..MaxOps /\ result' \in {"running", "done", "throw", "internal", "panic"}
    BY DEF ScalarsTyped
  <1>6. Inv' /\ UNCHANGED Queue!vars
    BY <1>1, <1>2, <1>3, <1>4, <1>5, AllSame
  <1> QED BY <1>6 DEF QueueStep

\* The heap in which the generator on top is closed, its delegate dropped or not.
Closed(h) == h = Close(heap, Top.g) \/ h = [heap EXCEPT !.gens[Top.g].done = TRUE]

\* A body completes: its generator is closed and its request answered
\* (finish_async_generator_request), or the caller goes on for a sync one.
LEMMA CompleteStep ==
    ASSUME Inv, result = "running", Top.k = "body", NEW h, Closed(h),
           NEW answer \in {"done", "error"}, Complete(h, answer)
    PROVE  Inv' /\ QueueStep
  <1>1. /\ Top.g \in Generators /\ heap \in HeapType
        /\ Top.g \in Async => Top.r \in Requests
        /\ Top.g \in Sync => Top.r = 0
    BY TopChanges, InvParts
  <1>2. PICK g \in Generators : g = Top.g
    BY <1>1
  <1>3. h = Close(heap, g) \/ h = [heap EXCEPT !.gens[g].done = TRUE]
    BY <1>2 DEF Closed
  <1>4. /\ h \in HeapType /\ h.gens[g].done
        /\ h.gens[g].started = heap.gens[g].started /\ h.gens[g].executing = heap.gens[g].executing
        /\ h.gens[g].queue = heap.gens[g].queue
        /\ \A o \in Generators \ {g} : h.gens[o] = heap.gens[o]
        /\ h.requests = heap.requests /\ h.jobs = heap.jobs /\ h.asleep = heap.asleep /\ h.waiting = heap.waiting
    BY <1>1, <1>3, ClosedParts
  <1>5. /\ heap' = Finished(Answer(h, Top, answer), Top)
        /\ frames' = Front(frames) /\ thrown' = FALSE /\ result' = "running" /\ ops' \in 0..MaxOps
    BY Counted DEF Complete
  <1>6. CASE g \in Sync
    <2>1. heap' = h
      BY <1>1, <1>2, <1>5, <1>6 DEF Finished, Answer
    <2>2. ScalarsTyped
      BY <1>5 DEF ScalarsTyped
    <2> QED BY <1>2, <1>4, <1>5, <1>6, <2>1, <2>2, SyncPops
  <1>7. CASE g \in Async
    <2>1. PICK r \in Requests : r = Top.r
      BY <1>1, <1>2, <1>7
    <2>2. r # 0
      BY <2>1, InvParts
    <2>3. heap' = Finish(Settle(h, r, answer), g)
      BY <1>2, <1>5, <2>1, <2>2 DEF Finished, Answer
    <2>4. /\ Busy(g) /\ ~ Asleep(g) /\ Holder(g) = {r} /\ ~ heap.gens[g].done
          /\ heap.gens[g].executing /\ heap.gens[g].started
          /\ JobsIn(heap.jobs, "request", g) = {} /\ JobsIn(heap.jobs, "resume", g) = {}
          /\ BodiesIn(Front(frames), g) = {} /\ AnsweringIn(Front(frames), g) = {}
          /\ \A o \in Async \ {g} : SameStack(frames, Front(frames), o)
      BY <1>2, <1>7, <2>1, BodyLife
    <2>5. Released(g, h)
      BY <1>4, <1>5, <2>4 DEF Released, SameQueued, SameResumes
    <2>6. ToFinish(g, r, answer, h)
      BY <1>4, <2>4, InvParts DEF ToFinish
    <2>7. StackKept
      BY <1>5, CurrentFrame DEF StackKept
    <2>8. answer \in {"value", "done", "error"}
      OBVIOUS
    <2>9. Inv' /\ Queue!Answer(g)
      BY <1>4, <1>7, <2>3, <2>4, <2>5, <2>6, <2>7, <2>8, FinishStep
    <2> QED BY <1>7, <2>9, AnswerIsStep
  <1> QED BY <1>6, <1>7 DEF Generators

-----------------------------------------------------------------------------
\* A body is resumed by return or throw outside a delegate.
LEMMA PlainResumeStep == ASSUME Inv, PlainResume PROVE Inv' /\ QueueStep
  <1>1. result = "running" /\ Top.k = "body"
    BY DEF PlainResume, Resuming, InBody, Runs
  <1>2. CASE Top.resume = "return"
    <2>1. Complete(Close(heap, Top.g), "done")
      BY <1>2 DEF PlainResume
    <2> QED BY <1>1, <2>1, CompleteStep DEF Closed
  <1>3. CASE Top.resume # "return"
    <2>1. frames' = Under([Top EXCEPT !.resume = "none"]) /\ thrown' \in BOOLEAN /\ UNCHANGED <<heap, result, ops>>
      BY <1>3 DEF PlainResume
    <2>2. HeapQuiet /\ ScalarsTyped
      BY <1>1, <2>1, Counted DEF HeapQuiet, ScalarsTyped
    <2>3. SameBody(Top, [Top EXCEPT !.resume = "none"])
      BY <1>1, TopChanges, FrameChanges
    <2> QED BY <1>1, <2>1, <2>2, <2>3, BodyQuiet, QuietQueue
  <1> QED BY <1>2, <1>3

\* A body returns.
LEMMA ReturnFromBodyStep == ASSUME Inv, ReturnFromBody PROVE Inv' /\ QueueStep
  <1>1. result = "running" /\ Top.k = "body" /\ Complete([heap EXCEPT !.gens[Top.g].done = TRUE], "done")
    BY DEF ReturnFromBody, BodyCode, InBody, Runs
  <1> QED BY <1>1, CompleteStep DEF Closed

\* A body calls its delegate, which may be missing the method it is called by.
LEMMA CallDelegateStep == ASSUME Inv, CallDelegate PROVE Inv' /\ QueueStep
  <1>1. result = "running" /\ Top.k = "body" /\ Top \in FrameType /\ Top.g \in Generators /\ Top.r \in Nat
    BY TopChanges DEF CallDelegate, AtStar, InBody, Runs
  <1>2. CASE thrown' = TRUE /\ UNCHANGED <<heap, frames, result, ops>>
    BY <1>1, <1>2, Counted, StillQuiet, QuietQueue DEF HeapQuiet, ScalarsTyped
  <1>3. CASE frames' = Append(frames, Drain("refuse", Top.g, Top.r)) /\ UNCHANGED <<heap, thrown, result, ops>>
    <2>1. HeapQuiet /\ ScalarsTyped
      BY <1>1, <1>3, Counted DEF HeapQuiet, ScalarsTyped
    <2>2. Drain("refuse", Top.g, Top.r) \in FrameType /\ Lifeless(Drain("refuse", Top.g, Top.r))
      BY <1>1, LifelessDrain
    <2> QED BY <1>1, <1>3, <2>1, <2>2, PushedQuiet, QuietQueue
  <1>4. CASE Complete(Close(heap, Top.g), "done")
    BY <1>1, <1>4, CompleteStep DEF Closed
  <1>5. ASSUME NEW o \in {"value", "done"}, UNCHANGED <<heap, thrown, result, ops>>,
               frames' = LET fs == Under([Top EXCEPT !.star = o]) IN
                         IF Top.g \in Async THEN Append(fs, Drain("go on", Top.g, Top.r)) ELSE fs
        PROVE  Inv' /\ QueueStep
    <2> DEFINE f == [Top EXCEPT !.star = o]
               d == Drain("go on", Top.g, Top.r)
    <2>1. HeapQuiet /\ ScalarsTyped
      BY <1>1, <1>5, Counted DEF HeapQuiet, ScalarsTyped
    <2>2. d \in FrameType /\ Lifeless(d)
      BY <1>1, LifelessDrain
    <2>3. SameBody(Top, f)
      BY <1>1, FrameChanges
    <2>4. frames' = Under(f) \/ frames' = Append(Under(f), d)
      BY <1>5
    <2> HIDE DEF f, d
    <2> QED BY <1>1, <2>1, <2>2, <2>3, <2>4, BodyQuiet, PushedOnBodyQuiet, QuietQueue
  <1> QED BY <1>2, <1>3, <1>4, <1>5 DEF CallDelegate

\* A delegation ends and the body goes on or completes.
LEMMA EndDelegationStep == ASSUME Inv, EndDelegation PROVE Inv' /\ QueueStep
  <1>1. result = "running" /\ Top.k = "body" /\ Top \in FrameType /\ Top.g \in Generators
    BY TopChanges DEF EndDelegation, AtStar, InBody, Runs
  <1>2. CASE Top.kind = "return"
    <2>1. Complete(Close(heap, Top.g), "done")
      BY <1>2 DEF EndDelegation
    <2> QED BY <1>1, <2>1, CompleteStep DEF Closed
  <1>3. CASE Top.kind # "return"
    <2>1. /\ heap' = Delegated(heap, Top.g, FALSE) /\ UNCHANGED <<thrown, result, ops>>
          /\ frames' = Under([Top EXCEPT !.at = "code", !.star = ""])
      BY <1>3 DEF EndDelegation, Delegated
    <2>2. HeapQuiet /\ ScalarsTyped
      BY <1>1, <2>1, Counted DEF HeapQuiet, ScalarsTyped
    <2>3. SameBody(Top, [Top EXCEPT !.at = "code", !.star = ""])
      BY <1>1, FrameChanges
    <2> QED BY <1>1, <2>1, <2>2, <2>3, BodyQuiet, QuietQueue
  <1> QED BY <1>2, <1>3

-----------------------------------------------------------------------------
\* A step in which the life of one generator takes another form.
HeldOn(g) ==
    /\ heap'.gens[g].done = heap.gens[g].done /\ heap'.gens[g].started = heap.gens[g].started
    /\ heap'.gens[g].queue = heap.gens[g].queue

\* A step in which one generator's life takes another form, its request still in
\* hand, keeps Inv and stutters in the abstract queue.
LEMMA MovedStep ==
    ASSUME Inv, NEW g \in Async, \A o \in Async \ {g} : Same(o),
           Life(g)', Woken(g)', Kept(g)', Holder(g)' = Holder(g), HeldOn(g),
           heap' \in HeapType, heap'.requests = heap.requests, \A o \in Sync : heap'.gens[o].queue = <<>>,
           JobsOwned(heap'.jobs, Len(heap.requests)), StackKept
    PROVE  Inv' /\ QueueStep
  <1>1. ASSUME NEW o \in Async \ {g}
        PROVE  Life(o)' /\ Woken(o)' /\ Holder(o)' = Holder(o) /\ Phase(o)' = Phase(o) /\ Line(o)' = Line(o)
    <2>1. Life(o) /\ Woken(o) /\ Same(o)
      BY InvParts
    <2> QED BY <2>1, SameLife
  <1>2. Phase(g)' = Phase(g) /\ Line(g)' = Line(g)
    BY DEF HeldOn, Phase, Line
  <1>3. ASSUME NEW o \in Async \ {g} PROVE Kept(o)'
    <2>1. SameSleep(o) /\ SameLine(o)
      BY DEF Same
    <2>2. /\ Len(heap'.requests) \in Nat /\ Len(heap.requests) <= Len(heap'.requests)
          /\ DOMAIN heap'.requests = 1..Len(heap'.requests)
      BY InvParts
    <2> QED BY <2>1, <2>2, SameKept
  <1>4. Remembered'
    <2>1. ASSUME NEW o \in Async
          PROVE  Holder(o) \cup ToSet(heap.gens[o].queue) \subseteq Holder(o)' \cup ToSet(heap'.gens[o].queue)
      <3>1. CASE o = g
        BY <3>1 DEF HeldOn
      <3>2. CASE o # g
        BY <3>2, <1>1 DEF Same, SameLine
      <3> QED BY <3>1, <3>2
    <2> QED BY <2>1, StillRemembered
  <1>5. \A o \in Async : Life(o)' /\ Woken(o)' /\ Kept(o)'
    BY <1>1, <1>3
  <1>6. Inv'
    BY <1>4, <1>5 DEF Inv, Typed, StackKept, Over
  <1>7. UNCHANGED Queue!vars
    BY <1>1, <1>2, QueueStutters
  <1> QED BY <1>6, <1>7 DEF QueueStep

\* A callback is no generator's life.
LEMMA CallbackLifeless ==
    ASSUME Inv, result = "running", Top.k = "callback"
    PROVE  Lifeless(Top)
  <1>1. Shape(Top, Len(heap.requests)) /\ Top \in FrameType
    BY CurrentFrame
  <1>2. Top.then \in {"", "answer", "go on", "refuse", "end"}
    BY <1>1, FrameFields
  <1> QED BY <1>1, <1>2 DEF Lifeless, Shape

\* An exception unwinds a body, a callback or the program.
LEMMA UnwindStep == ASSUME Inv, Unwind PROVE Inv' /\ QueueStep
  <1>1. result = "running"
    BY DEF Unwind
  <1>2. CASE Top.k = "main" /\ result' = "throw" /\ UNCHANGED <<heap, frames, thrown, ops>>
    BY <1>1, <1>2, Counted, StillQuiet, QuietQueue DEF HeapQuiet, ScalarsTyped
  <1>3. CASE Top.k = "main" /\ thrown' = FALSE /\ UNCHANGED <<heap, frames, result, ops>>
    BY <1>1, <1>3, Counted, StillQuiet, QuietQueue DEF HeapQuiet, ScalarsTyped
  <1>4. CASE Top.k = "callback" /\ frames' = Front(frames) /\ thrown' = FALSE /\ UNCHANGED <<heap, result, ops>>
    BY <1>1, <1>4, Counted, CallbackLifeless, PoppedQuiet, QuietQueue DEF HeapQuiet, ScalarsTyped
  <1>5. ASSUME Top.k = "body", thrown' = FALSE, UNCHANGED <<heap, result, ops>>,
               frames' = Under([Top EXCEPT !.tries = <<>>, !.pending = (Last(Top.tries) = "finally"),
                                           !.at = "code", !.star = ""])
        PROVE  Inv' /\ QueueStep
    <2> DEFINE p == Last(Top.tries) = "finally"
               f == [Top EXCEPT !.tries = <<>>, !.pending = p, !.at = "code", !.star = ""]
    <2>1. p \in BOOLEAN /\ frames' = Under(f)
      BY <1>5
    <2> HIDE DEF p
    <2>2. HeapQuiet /\ ScalarsTyped
      BY <1>1, <1>5, Counted DEF HeapQuiet, ScalarsTyped
    <2>3. SameBody(Top, f)
      BY <1>1, <1>5, <2>1, TopChanges, FrameChanges
    <2> HIDE DEF f
    <2> QED BY <1>1, <1>5, <2>1, <2>2, <2>3, BodyQuiet, QuietQueue
  <1>6. CASE Top.k = "body" /\ Complete(Close(heap, Top.g), "error")
    BY <1>1, <1>6, CompleteStep DEF Closed
  <1>7. CASE Top.k = "body" /\ Top.r = 0 /\ heap' = Close(heap, Top.g) /\ frames' = Front(frames)
             /\ UNCHANGED <<thrown, result, ops>>
    <2>1. Top.g \in Generators /\ Top.g \in Sync /\ heap \in HeapType
      BY <1>1, <1>7, TopChanges, InvParts DEF Generators
    <2>2. PICK g \in Sync : g = Top.g
      BY <2>1
    <2>3. g \in Generators
      BY DEF Generators
    <2>4. /\ heap' \in HeapType /\ heap'.gens[g].queue = heap.gens[g].queue
          /\ \A o \in Generators \ {g} : heap'.gens[o] = heap.gens[o]
          /\ heap'.requests = heap.requests /\ heap'.jobs = heap.jobs
          /\ heap'.asleep = heap.asleep /\ heap'.waiting = heap.waiting
      BY <1>7, <2>1, <2>2, <2>3, ClosedParts
    <2>5. ScalarsTyped
      BY <1>1, <1>7, Counted DEF ScalarsTyped
    <2> QED BY <1>1, <1>7, <2>2, <2>4, <2>5, SyncPops
  <1> QED BY <1>2, <1>3, <1>4, <1>5, <1>6, <1>7 DEF Unwind

-----------------------------------------------------------------------------
\* The drain of main ends the run.
LEMMA EndQuiet ==
    ASSUME Inv, result = "running", Top.k = "drain", Top.then = "end", heap.jobs = <<>>,
           result' = "done", frames' = Front(frames), UNCHANGED <<heap, thrown, ops>>
    PROVE  Quiet
  <1>1. /\ frames \in Seq(FrameType) /\ frames # <<>> /\ Top = Last(frames)
        /\ Front(frames) \in Seq(FrameType) /\ Stacked(Front(frames), Len(heap.requests)) /\ Front(frames) = <<>>
    BY CurrentFrame DEF IsBottom
  <1>2. ASSUME NEW g \in Async PROVE SameStack(frames, frames', g)
    <2>1. ~ IsBody(Last(frames), g) /\ ~ IsAnswering(Last(frames), g)
      BY <1>1 DEF IsBody, IsAnswering
    <2> QED BY <1>1, <2>1, PoppedOther DEF SameStack
  <1> QED BY <1>1, <1>2, Counted DEF Quiet

\* A drain that has run its jobs answers the request that was yielded.
LEMMA YieldedStep ==
    ASSUME Inv, result = "running", Top.k = "drain", Top.then = "answer",
           \/ heap' = Finish(Settle(heap, Top.r, "value"), Top.g)
           \/ heap' = Finish(Settle(Close(heap, Top.g), Top.r, "error"), Top.g),
           frames' = Front(frames), UNCHANGED <<thrown, result, ops>>
    PROVE  Inv' /\ QueueStep
  <1>1. Shape(Top, Len(heap.requests))
    BY CurrentFrame
  <1>2. PICK g \in Async : g = Top.g
    BY <1>1 DEF Shape
  <1>3. PICK r \in Requests : r = Top.r
    BY <1>1, InvParts DEF Shape
  <1>4. /\ Busy(g) /\ ~ Asleep(g) /\ Holder(g) = {r} /\ ~ heap.gens[g].done
        /\ heap.gens[g].executing /\ heap.gens[g].started
        /\ JobsIn(heap.jobs, "request", g) = {} /\ JobsIn(heap.jobs, "resume", g) = {}
        /\ BodiesIn(Front(frames), g) = {} /\ AnsweringIn(Front(frames), g) = {}
        /\ \A o \in Async \ {g} : SameStack(frames, Front(frames), o)
    BY <1>2, <1>3, AnsweringLife
  <1>5. StackKept
    <2>1. ~ IsBottom(Top)
      BY DEF IsBottom
    <2> QED BY <2>1, CurrentFrame, Counted DEF StackKept
  <1>6. heap \in HeapType /\ g \in Generators /\ JobsOwned(heap.jobs, Len(heap.requests))
    BY InvParts
  <1>7. CASE heap' = Finish(Settle(heap, Top.r, "value"), Top.g)
    <2>1. heap' = Finish(Settle(heap, r, "value"), g)
      BY <1>2, <1>3, <1>7
    <2>2. Released(g, heap)
      BY <1>4 DEF Released, SameQueued, SameResumes
    <2>3. ToFinish(g, r, "value", heap)
      BY <1>4, <1>6 DEF ToFinish
    <2>4. "value" \in {"value", "done", "error"}
      OBVIOUS
    <2>5. Inv' /\ Queue!Answer(g)
      BY <1>4, <1>5, <1>6, <2>1, <2>2, <2>3, <2>4, FinishStep
    <2> QED BY <2>5, AnswerIsStep
  <1>8. CASE heap' = Finish(Settle(Close(heap, Top.g), Top.r, "error"), Top.g)
    <2> DEFINE h == Close(heap, g)
    <2>1. heap' = Finish(Settle(h, r, "error"), g)
      BY <1>2, <1>3, <1>8
    <2>2. /\ h \in HeapType /\ h.gens[g].done
          /\ h.gens[g].started = heap.gens[g].started /\ h.gens[g].executing = heap.gens[g].executing
          /\ h.gens[g].queue = heap.gens[g].queue
          /\ \A o \in Generators \ {g} : h.gens[o] = heap.gens[o]
          /\ h.requests = heap.requests /\ h.jobs = heap.jobs /\ h.asleep = heap.asleep /\ h.waiting = heap.waiting
      BY <1>6, ClosedParts
    <2> HIDE DEF h
    <2>3. Released(g, h)
      BY <1>4, <2>2 DEF Released, SameQueued, SameResumes
    <2>4. ToFinish(g, r, "error", h)
      BY <1>4, <1>6, <2>2 DEF ToFinish
    <2>5. "error" \in {"value", "done", "error"}
      OBVIOUS
    <2>6. Inv' /\ Queue!Answer(g)
      BY <1>4, <1>5, <2>1, <2>2, <2>3, <2>4, <2>5, FinishStep
    <2> QED BY <2>6, AnswerIsStep
  <1> QED BY <1>7, <1>8

\* A drain of the job queue is over: what it was for is done.
LEMMA EndDrainStep == ASSUME Inv, EndDrain PROVE Inv' /\ QueueStep
  <1>1. result = "running" /\ Top.k = "drain" /\ heap.jobs = <<>>
    BY DEF EndDrain, Draining, Runs
  <1>2. CASE Top.then = "end" /\ result' = "done" /\ frames' = Front(frames) /\ UNCHANGED <<heap, thrown, ops>>
    BY <1>1, <1>2, EndQuiet, QuietQueue
  <1>3. CASE result' = "internal" /\ UNCHANGED <<heap, frames, thrown, ops>>
    BY <1>1, <1>3, Counted, StillQuiet, QuietQueue DEF HeapQuiet, ScalarsTyped
  <1>4. CASE /\ Top.then = "answer" /\ frames' = Front(frames) /\ UNCHANGED <<thrown, result, ops>>
             /\ \/ heap' = Finish(Settle(heap, Top.r, "value"), Top.g)
                \/ heap' = Finish(Settle(Close(heap, Top.g), Top.r, "error"), Top.g)
    BY <1>1, <1>4, YieldedStep
  <1>5. CASE /\ Top.then \in {"go on", "refuse"} /\ thrown' \in {Top.then = "refuse", TRUE}
             /\ frames' = Front(frames) /\ UNCHANGED <<heap, result, ops>>
    <2>1. HeapQuiet /\ ScalarsTyped
      BY <1>1, <1>5, Counted DEF HeapQuiet, ScalarsTyped
    <2>2. Lifeless(Top)
      BY <1>1, <1>5 DEF Lifeless
    <2> QED BY <1>1, <1>5, <2>1, <2>2, PoppedQuiet, QuietQueue
  <1> QED BY <1>2, <1>3, <1>4, <1>5 DEF EndDrain

-----------------------------------------------------------------------------
\* The heap with one of its fields replaced.
WithAsleep(h, g, f) == [h EXCEPT !.asleep[g] = f]
WithWaiting(h, w)   == [h EXCEPT !.waiting = w]
WithJobs(h, js)     == [h EXCEPT !.jobs = js]
WithRequests(h, rs) == [h EXCEPT !.requests = rs]

\* Replacing one field of a heap leaves the others.
LEMMA HeapChanges ==
    ASSUME NEW h \in HeapType
    PROVE  /\ \A g \in Async, f \in FrameType :
                /\ WithAsleep(h, g, f) \in HeapType /\ WithAsleep(h, g, f).asleep[g] = f
                /\ \A o \in Async \ {g} : WithAsleep(h, g, f).asleep[o] = h.asleep[o]
                /\ WithAsleep(h, g, f).gens = h.gens /\ WithAsleep(h, g, f).requests = h.requests
                /\ WithAsleep(h, g, f).jobs = h.jobs /\ WithAsleep(h, g, f).waiting = h.waiting
           /\ \A w \in SUBSET Async :
                /\ WithWaiting(h, w) \in HeapType /\ WithWaiting(h, w).waiting = w
                /\ WithWaiting(h, w).gens = h.gens /\ WithWaiting(h, w).requests = h.requests
                /\ WithWaiting(h, w).jobs = h.jobs /\ WithWaiting(h, w).asleep = h.asleep
           /\ \A js \in Seq(JobType) :
                /\ WithJobs(h, js) \in HeapType /\ WithJobs(h, js).jobs = js
                /\ WithJobs(h, js).gens = h.gens /\ WithJobs(h, js).requests = h.requests
                /\ WithJobs(h, js).asleep = h.asleep /\ WithJobs(h, js).waiting = h.waiting
           /\ \A rs \in Seq(RequestType) :
                /\ WithRequests(h, rs) \in HeapType /\ WithRequests(h, rs).requests = rs
                /\ WithRequests(h, rs).gens = h.gens /\ WithRequests(h, rs).jobs = h.jobs
                /\ WithRequests(h, rs).asleep = h.asleep /\ WithRequests(h, rs).waiting = h.waiting
  <1>1. ASSUME NEW g \in Async, NEW f \in FrameType
        PROVE  /\ WithAsleep(h, g, f) \in HeapType /\ WithAsleep(h, g, f).asleep[g] = f
               /\ \A o \in Async \ {g} : WithAsleep(h, g, f).asleep[o] = h.asleep[o]
               /\ WithAsleep(h, g, f).gens = h.gens /\ WithAsleep(h, g, f).requests = h.requests
               /\ WithAsleep(h, g, f).jobs = h.jobs /\ WithAsleep(h, g, f).waiting = h.waiting
    BY DEF HeapType, WithAsleep
  <1>2. ASSUME NEW w \in SUBSET Async
        PROVE  /\ WithWaiting(h, w) \in HeapType /\ WithWaiting(h, w).waiting = w
               /\ WithWaiting(h, w).gens = h.gens /\ WithWaiting(h, w).requests = h.requests
               /\ WithWaiting(h, w).jobs = h.jobs /\ WithWaiting(h, w).asleep = h.asleep
    BY DEF HeapType, WithWaiting
  <1>3. ASSUME NEW js \in Seq(JobType)
        PROVE  /\ WithJobs(h, js) \in HeapType /\ WithJobs(h, js).jobs = js
               /\ WithJobs(h, js).gens = h.gens /\ WithJobs(h, js).requests = h.requests
               /\ WithJobs(h, js).asleep = h.asleep /\ WithJobs(h, js).waiting = h.waiting
    BY DEF HeapType, WithJobs
  <1>4. ASSUME NEW rs \in Seq(RequestType)
        PROVE  /\ WithRequests(h, rs) \in HeapType /\ WithRequests(h, rs).requests = rs
               /\ WithRequests(h, rs).gens = h.gens /\ WithRequests(h, rs).jobs = h.jobs
               /\ WithRequests(h, rs).asleep = h.asleep /\ WithRequests(h, rs).waiting = h.waiting
    BY DEF HeapType, WithRequests
  <1> QED BY <1>1, <1>2, <1>3, <1>4

\* The generator a suspended frame is stored in (suspend_generator).
Stored(x, at, f) ==
    [x EXCEPT !.at = at, !.tries = f.tries, !.pending = f.pending, !.locals = f.locals, !.done = FALSE]

\* A generator that is stored keeps its queue and its flags.
LEMMA StoredParts ==
    ASSUME NEW x \in GenType, NEW f \in FrameType, NEW at \in {"code", "star"}
    PROVE  /\ Stored(x, at, f) \in GenType /\ ~ Stored(x, at, f).done
           /\ Stored(x, at, f).started = x.started /\ Stored(x, at, f).executing = x.executing
           /\ Stored(x, at, f).queue = x.queue
  <1>1. /\ f.tries \in Seq({"catch", "finally"}) /\ f.pending \in BOOLEAN /\ f.locals \in BOOLEAN
    BY FrameFields
  <1> QED BY <1>1 DEF GenType, Stored

\* A body yields: it is stored, and an async one is to be answered.
LEMMA SuspendStep ==
    ASSUME Inv, result = "running", Top.k = "body", NEW at \in {"code", "star"}, Suspend(at), ops' \in 0..MaxOps
    PROVE  Inv' /\ QueueStep
  <1>1. /\ Top \in FrameType /\ Top.g \in Generators /\ heap \in HeapType
        /\ Top.g \in Async => Top.r \in Requests
        /\ Top.g \in Sync => Top.r = 0
    BY TopChanges, InvParts
  <1>2. PICK g \in Generators : g = Top.g
    BY <1>1
  <1> DEFINE y == Stored(heap.gens[g], at, Top)
  <1>3. /\ y \in GenType /\ ~ y.done /\ y.started = heap.gens[g].started
        /\ y.executing = heap.gens[g].executing /\ y.queue = heap.gens[g].queue
    BY <1>1, GenFields, StoredParts
  <1>4. heap' = [heap EXCEPT !.gens[g] = y]
    BY <1>2 DEF Suspend, Stored, HeapType
  <1> HIDE DEF y
  <1>5. /\ heap' \in HeapType /\ heap'.gens[g] = y /\ \A o \in Generators \ {g} : heap'.gens[o] = heap.gens[o]
        /\ heap'.requests = heap.requests /\ heap'.jobs = heap.jobs
        /\ heap'.asleep = heap.asleep /\ heap'.waiting = heap.waiting
    BY <1>1, <1>3, <1>4, GenReplaced
  <1>6. thrown' \in BOOLEAN /\ result' = "running"
    BY Counted DEF Suspend
  <1>7. CASE g \in Sync
    <2>1. frames' = Front(frames)
      BY <1>1, <1>2, <1>7 DEF Suspend
    <2>2. ScalarsTyped
      BY <1>6 DEF ScalarsTyped
    <2> QED BY <1>2, <1>3, <1>5, <1>7, <2>1, <2>2, SyncPops
  <1>8. CASE g \in Async
    <2>1. PICK r \in Requests : r = Top.r
      BY <1>1, <1>2, <1>8
    <2> DEFINE d == Drain("answer", g, r)
               s == Front(frames)
               n == Len(heap.requests)
    <2>2. r # 0 /\ r \in 1..n /\ r \in Nat
      BY <2>1, InvParts
    <2>3. frames' = Append(s, d)
      BY <1>2, <2>1, <2>2 DEF Suspend, Under
    <2>4. /\ Busy(g) /\ ~ Asleep(g) /\ Holder(g) = {r} /\ ~ heap.gens[g].done
          /\ heap.gens[g].executing /\ heap.gens[g].started
          /\ JobsIn(heap.jobs, "request", g) = {} /\ JobsIn(heap.jobs, "resume", g) = {}
          /\ g \notin heap.waiting /\ BodiesIn(s, g) = {} /\ AnsweringIn(s, g) = {}
          /\ \A o \in Async \ {g} : SameStack(frames, s, o)
      BY <1>2, <1>8, <2>1, BodyLife
    <2>5. /\ s \in Seq(FrameType) /\ Stacked(s, n) /\ Grounded(s) /\ n \in Nat
      BY CurrentFrame
    <2>6. d \in FrameType /\ d.k = "drain" /\ d.then = "answer" /\ d.g = g /\ d.r = r
      BY <2>2, AnsweringDrain
    <2> HIDE DEF d, s, n
    <2>7. Shape(d, n) /\ ~ IsBottom(d)
      BY <1>8, <2>2, <2>6 DEF Shape, IsBottom
    <2>8. ~ IsBody(d, g) /\ IsAnswering(d, g) /\ \A o : o # g => ~ IsBody(d, o) /\ ~ IsAnswering(d, o)
      BY <2>6 DEF IsBody, IsAnswering
    <2>9. BodiesIn(frames', g) = {} /\ One(AnsweringIn(frames', g)) /\ HeldIn(frames', g) = {r}
      BY <2>3, <2>4, <2>5, <2>6, <2>8, PushedAnswering
    <2>10. StackKept
      BY <1>6, <2>3, <2>5, <2>6, <2>7, PushedStack, Pushed DEF StackKept, n
    <2>11. ASSUME NEW o \in Async \ {g} PROVE Same(o)
      <3>1. SameStack(s, frames', o)
        BY <2>3, <2>5, <2>6, <2>8, PushedOther DEF SameStack
      <3>2. SameStack(frames, frames', o)
        BY <2>4, <3>1 DEF SameStack
      <3>3. SameSleep(o) /\ SameLine(o)
        BY <1>5 DEF SameSleep, SameLine, Generators
      <3>4. SameQueued(heap.jobs, heap'.jobs, o) /\ SameResumes(heap.jobs, heap'.jobs, o)
        BY <1>5 DEF SameQueued, SameResumes
      <3> QED BY <3>2, <3>3, <3>4 DEF Same
    <2>12. ~ Asleep(g)' /\ heap'.asleep[g].k # "body"
      BY <1>5, <2>4 DEF Asleep
    <2>13. Life(g)'
      BY <1>3, <1>5, <2>4, <2>9, <2>12, Holders DEF Life, Busy
    <2>14. Woken(g)'
      BY <1>5, <2>4, <2>12 DEF Woken, Resumes
    <2>15. Holder(g)' = Holder(g)
      <3>1. PromisedIn(heap'.jobs, g) = {}
        BY <1>5, <2>4, NoneHeld
      <3> QED BY <3>1, <2>4, <2>9, <2>12, Holders DEF HolderOf
    <2>16. HeldOn(g)
      <3>1. heap'.gens[g].done = y.done /\ heap'.gens[g].started = y.started /\ heap'.gens[g].queue = y.queue
        BY <1>5
      <3>2. y.done \in BOOLEAN /\ heap.gens[g].done \in BOOLEAN /\ y.done = heap.gens[g].done
        <4>1. y.done \in BOOLEAN
          BY <1>3 DEF GenType
        <4>2. heap.gens[g].done \in BOOLEAN
          BY <1>8, InvParts
        <4> QED BY <4>1, <4>2, <1>3, <2>4
      <3> QED BY <3>1, <3>2, <1>3 DEF HeldOn
    <2>17. Kept(g)'
      <3>1. ToSet(heap.gens[g].queue) \subseteq Requests
        BY <1>8, InvParts DEF Kept
      <3> QED BY <3>1, <1>3, <1>5, <2>12 DEF Kept, Requests
    <2>18. JobsOwned(heap'.jobs, Len(heap.requests))
      BY <1>5, InvParts
    <2>19. \A o \in Sync : heap'.gens[o].queue = <<>>
      BY <1>5, <1>8, GeneratorsAssumption DEF Inv, Generators
    <2> QED BY <1>5, <1>8, <2>10, <2>11, <2>13, <2>14, <2>15, <2>16, <2>17, <2>18, <2>19, MovedStep
  <1> QED BY <1>7, <1>8 DEF Generators

\* A yield.
LEMMA YieldStep == ASSUME Inv, Yield PROVE Inv' /\ QueueStep
  <1>1. result = "running" /\ Top.k = "body" /\ Suspend("code") /\ Operation
    BY DEF Yield, BodyCode, InBody, Runs
  <1> QED BY <1>1, Counted, SuspendStep

\* A yield of what the delegate yielded.
LEMMA YieldDelegatedStep == ASSUME Inv, YieldDelegated PROVE Inv' /\ QueueStep
  <1>1. result = "running" /\ Top.k = "body" /\ Suspend("star") /\ ops' = ops
    BY DEF YieldDelegated, AtStar, InBody, Runs
  <1> QED BY <1>1, Counted, SuspendStep

-----------------------------------------------------------------------------
\* The job that resumes g belongs to g and to no other.
LEMMA ResumeJobParts ==
    ASSUME NEW g \in Async, NEW err \in BOOLEAN, NEW n
    PROVE  /\ ResumeJob(g, err) \in JobType /\ JobOwned(ResumeJob(g, err), n)
           /\ ~ IsJob(ResumeJob(g, err), "request", g) /\ IsJob(ResumeJob(g, err), "resume", g)
           /\ \A o : o # g => ~ IsJob(ResumeJob(g, err), "request", o) /\ ~ IsJob(ResumeJob(g, err), "resume", o)
  BY DEF ResumeJob, JobType, JobOwned, IsJob

\* A body falls asleep at an await, to be woken by a job that is queued already or
\* when somebody settles the promise.
LEMMA AwaitStep == ASSUME Inv, Await PROVE Inv' /\ QueueStep
  <1>1. /\ result = "running" /\ Top.k = "body" /\ Top.g \in Async /\ Operation
        /\ frames' = Front(frames) /\ UNCHANGED <<thrown, result>>
    BY DEF Await, BodyCode, InBody, Runs
  <1>2. PICK g \in Async : g = Top.g
    BY <1>1
  <1>3. PICK f \in FrameType : f = Top
    BY <1>1, TopChanges
  <1> DEFINE n == Len(heap.requests)
             h == WithAsleep(heap, g, f)
  <1>4. /\ heap \in HeapType /\ n \in Nat /\ JobsOwned(heap.jobs, n) /\ heap.jobs \in Seq(JobType)
        /\ heap.waiting \subseteq Async /\ g \in Generators
    BY InvParts, HeapFields
  <1>5. /\ h \in HeapType /\ h.asleep[g] = f /\ \A o \in Async \ {g} : h.asleep[o] = heap.asleep[o]
        /\ h.gens = heap.gens /\ h.requests = heap.requests /\ h.jobs = heap.jobs /\ h.waiting = heap.waiting
    BY <1>4, HeapChanges
  <1>6. \/ heap' = WithWaiting(h, h.waiting \cup {g})
        \/ \E err \in BOOLEAN : heap' = Enqueue(h, ResumeJob(g, err))
    BY <1>2, <1>3 DEF Await, WithAsleep, WithWaiting
  <1>7. /\ Busy(g) /\ ~ Asleep(g) /\ Holder(g) = {f.r} /\ ~ heap.gens[g].done
        /\ heap.gens[g].executing /\ heap.gens[g].started
        /\ JobsIn(heap.jobs, "request", g) = {} /\ JobsIn(heap.jobs, "resume", g) = {}
        /\ g \notin heap.waiting /\ BodiesIn(frames', g) = {} /\ AnsweringIn(frames', g) = {}
        /\ \A o \in Async \ {g} : SameStack(frames, frames', o)
    BY <1>1, <1>2, <1>3, BodyLife
  <1>8. Shape(f, n) /\ f.k = "body" /\ f.g = g
    BY <1>1, <1>2, <1>3, CurrentFrame
  <1>9. StackKept
    BY <1>1, CurrentFrame, Counted DEF StackKept
  <1> HIDE DEF h, n
  \* Whichever way it is to be woken.
  <1>10. /\ heap' \in HeapType /\ heap'.asleep = h.asleep /\ heap'.gens = heap.gens
         /\ heap'.requests = heap.requests /\ JobsOwned(heap'.jobs, n)
         /\ JobsIn(heap'.jobs, "request", g) = {}
         /\ \/ g \in heap'.waiting /\ JobsIn(heap'.jobs, "resume", g) = {}
            \/ g \notin heap'.waiting /\ One(JobsIn(heap'.jobs, "resume", g))
         /\ \A o \in Async \ {g} : /\ o \in heap'.waiting <=> o \in heap.waiting
                                   /\ SameQueued(heap.jobs, heap'.jobs, o)
                                   /\ SameResumes(heap.jobs, heap'.jobs, o)
    <2>1. CASE heap' = WithWaiting(h, h.waiting \cup {g})
      <3> DEFINE w == h.waiting \cup {g}
      <3>1. w \in SUBSET Async
        BY <1>4, <1>5
      <3>2. /\ heap' \in HeapType /\ heap'.waiting = w /\ heap'.gens = h.gens
            /\ heap'.requests = h.requests /\ heap'.jobs = h.jobs /\ heap'.asleep = h.asleep
        BY <1>5, <2>1, <3>1, HeapChanges
      <3>3. \A o : SameQueued(heap.jobs, heap'.jobs, o) /\ SameResumes(heap.jobs, heap'.jobs, o)
        BY <1>5, <3>2 DEF SameQueued, SameResumes
      <3> QED BY <1>4, <1>5, <1>7, <3>2, <3>3 DEF n
    <2>2. CASE \E err \in BOOLEAN : heap' = Enqueue(h, ResumeJob(g, err))
      <3>1. PICK err \in BOOLEAN : heap' = Enqueue(h, ResumeJob(g, err))
        BY <2>2
      <3>2. PICK j \in JobType : j = ResumeJob(g, err)
        BY ResumeJobParts
      <3>3. /\ JobOwned(j, n) /\ ~ IsJob(j, "request", g) /\ IsJob(j, "resume", g)
            /\ \A o : o # g => ~ IsJob(j, "request", o) /\ ~ IsJob(j, "resume", o)
        BY <3>2, ResumeJobParts
      <3>4. /\ heap' \in HeapType /\ heap'.jobs = Append(heap.jobs, j) /\ heap'.gens = h.gens
            /\ heap'.requests = h.requests /\ heap'.asleep = h.asleep /\ heap'.waiting = h.waiting
        BY <1>5, <3>1, <3>2, Enqueued
      <3>5. One(JobsIn(heap'.jobs, "resume", g)) /\ JobsIn(heap'.jobs, "request", g) = {}
        BY <1>4, <1>7, <3>3, <3>4, QueuedResume DEF SameQueued
      <3>6. JobsOwned(heap'.jobs, n)
        BY <1>4, <3>3, <3>4, OwnedJobs DEF n
      <3>7. \A o \in Async \ {g} : SameQueued(heap.jobs, heap'.jobs, o) /\ SameResumes(heap.jobs, heap'.jobs, o)
        BY <1>4, <3>3, <3>4, QueuedOther
      <3> QED BY <1>5, <1>7, <3>4, <3>5, <3>6, <3>7
    <2> QED BY <1>6, <2>1, <2>2
  <1>11. ASSUME NEW o \in Async \ {g} PROVE Same(o)
    <2>1. SameSleep(o) /\ SameLine(o)
      BY <1>5, <1>10 DEF SameSleep, SameLine
    <2> QED BY <2>1, <1>7, <1>10 DEF Same
  <1>12. Asleep(g)' /\ heap'.asleep[g] = f /\ heap'.asleep[g].k = "body"
    BY <1>5, <1>8, <1>10 DEF Asleep
  <1>13. Life(g)'
    BY <1>7, <1>10, <1>12, Holders DEF Life, Busy
  <1>14. Woken(g)'
    BY <1>10, <1>12 DEF Woken, Resumes
  <1>15. Holder(g)' = Holder(g)
    <2>1. PromisedIn(heap'.jobs, g) = {} /\ HeldIn(frames', g) = {}
      BY <1>7, <1>10, NoneHeld
    <2> QED BY <2>1, <1>7, <1>12, Holders DEF HolderOf
  <1>16. HeldOn(g)
    BY <1>10 DEF HeldOn
  <1>17. Kept(g)'
    <2>1. ToSet(heap.gens[g].queue) \subseteq Requests
      BY InvParts DEF Kept
    <2> QED BY <2>1, <1>8, <1>10, <1>12 DEF Kept, Requests, n
  <1>18. \A o \in Sync : heap'.gens[o].queue = <<>>
    BY <1>10 DEF Inv
  <1> QED BY <1>9, <1>10, <1>11, <1>13, <1>14, <1>15, <1>16, <1>17, <1>18, MovedStep DEF n

-----------------------------------------------------------------------------
\* The job of a callback belongs to no generator.
LEMMA CallbackJobParts ==
    /\ CallbackJob \in JobType /\ CallbackJob.k = "callback"
    /\ \A n : JobOwned(CallbackJob, n)
    /\ \A o : ~ IsJob(CallbackJob, "request", o) /\ ~ IsJob(CallbackJob, "resume", o)
  BY DEF CallbackJob, JobType, JobOwned, IsJob

\* A callback is queued.
LEMMA DeferStep == ASSUME Inv, Defer PROVE Inv' /\ QueueStep
  <1> DEFINE n == Len(heap.requests)
  <1>1. /\ result = "running" /\ Operation /\ heap' = Enqueue(heap, CallbackJob)
        /\ UNCHANGED <<frames, thrown, result>>
    BY DEF Defer, InCode, BodyCode, InBody, Runs
  <1>2. heap \in HeapType /\ n \in Nat /\ JobsOwned(heap.jobs, n) /\ heap.jobs \in Seq(JobType)
    BY InvParts
  <1>3. PICK j \in JobType : j = CallbackJob
    BY CallbackJobParts
  <1>4. /\ heap' \in HeapType /\ heap'.jobs = Append(heap.jobs, j) /\ heap'.gens = heap.gens
        /\ heap'.requests = heap.requests /\ heap'.asleep = heap.asleep /\ heap'.waiting = heap.waiting
    BY <1>1, <1>2, <1>3, Enqueued
  <1>5. JobsOwned(heap'.jobs, n)
    BY <1>2, <1>3, <1>4, CallbackJobParts, OwnedJobs
  <1>6. ASSUME NEW o \in Async PROVE Same(o)
    <2>1. SameQueued(heap.jobs, heap'.jobs, o) /\ SameResumes(heap.jobs, heap'.jobs, o)
      BY <1>2, <1>3, <1>4, CallbackJobParts, QueuedOther
    <2>2. SameSleep(o) /\ SameLine(o) /\ SameStack(frames, frames', o)
      BY <1>1, <1>4 DEF SameSleep, SameLine, SameStack
    <2> QED BY <2>1, <2>2 DEF Same
  <1>7. \A o \in Sync : heap'.gens[o].queue = <<>>
    BY <1>4 DEF Inv
  <1>8. frames' \in Seq(FrameType) /\ Stacked(frames', n) /\ Grounded(frames')
    BY <1>1, CurrentFrame
  <1>9. Over' /\ thrown' \in BOOLEAN /\ ops' \in 0..MaxOps /\ result' \in {"running", "done", "throw", "internal", "panic"}
    BY <1>1, Counted DEF Over
  <1>10. Inv' /\ UNCHANGED Queue!vars
    BY <1>4, <1>5, <1>6, <1>7, <1>8, <1>9, AllSame
  <1> QED BY <1>10 DEF QueueStep

\* A promise awaited is settled: the generator asleep on it is woken by a job.
LEMMA SettleAwaitedStep == ASSUME Inv, SettleAwaited PROVE Inv' /\ QueueStep
  <1> DEFINE n == Len(heap.requests)
  <1>1. /\ result = "running" /\ Operation /\ UNCHANGED <<frames, thrown, result>>
    BY DEF SettleAwaited, InCode, BodyCode, InBody, Runs
  <1>2. heap \in HeapType /\ n \in Nat /\ JobsOwned(heap.jobs, n) /\ heap.jobs \in Seq(JobType)
        /\ heap.waiting \subseteq Async
    BY InvParts, HeapFields
  <1>3. PICK g \in heap.waiting, err \in BOOLEAN :
          heap' = Enqueue(WithWaiting(heap, heap.waiting \ {g}), ResumeJob(g, err))
    BY DEF SettleAwaited, WithWaiting
  <1>4. g \in Async /\ g \in Generators
    BY <1>2 DEF Generators
  <1>5. PICK j \in JobType : j = ResumeJob(g, err)
    BY <1>4, ResumeJobParts
  <1>6. /\ JobOwned(j, n) /\ ~ IsJob(j, "request", g) /\ IsJob(j, "resume", g)
        /\ \A o : o # g => ~ IsJob(j, "request", o) /\ ~ IsJob(j, "resume", o)
    BY <1>4, <1>5, ResumeJobParts
  <1> DEFINE w == heap.waiting \ {g}
             h == WithWaiting(heap, w)
  <1>7. /\ h \in HeapType /\ h.waiting = w /\ h.gens = heap.gens
        /\ h.requests = heap.requests /\ h.jobs = heap.jobs /\ h.asleep = heap.asleep
    BY <1>2, HeapChanges
  <1> HIDE DEF h, w
  <1>8. /\ heap' \in HeapType /\ heap'.jobs = Append(heap.jobs, j) /\ heap'.gens = heap.gens
        /\ heap'.requests = heap.requests /\ heap'.asleep = heap.asleep /\ heap'.waiting = w
    BY <1>3, <1>5, <1>7, Enqueued DEF h, w
  <1>9. Asleep(g) /\ JobsIn(heap.jobs, "resume", g) = {} /\ Life(g) /\ Kept(g)
    BY <1>3, <1>4, InvParts DEF Woken, Resumes
  <1>10. One(JobsIn(heap'.jobs, "resume", g)) /\ SameQueued(heap.jobs, heap'.jobs, g)
    BY <1>2, <1>6, <1>8, <1>9, QueuedResume
  <1>11. SameStack(frames, frames', g) /\ SameLine(g)
    BY <1>1, <1>8 DEF SameStack, SameLine
  <1>12. heap'.asleep[g] = heap.asleep[g] /\ Asleep(g)' /\ g \notin heap'.waiting
    BY <1>8, <1>9 DEF Asleep, w
  <1>13. Life(g)'
    BY <1>9, <1>10, <1>11, <1>12, Holders DEF Life, Idle, Busy, SameStack, SameLine, SameQueued
  <1>14. Woken(g)'
    BY <1>10, <1>12 DEF Woken, Resumes
  <1>15. Holder(g)' = Holder(g)
    BY <1>10, <1>11, <1>12, Holders DEF HolderOf, SameStack, SameQueued
  <1>16. Kept(g)'
    BY <1>8, <1>9 DEF Kept, Asleep, Requests
  <1>17. ASSUME NEW o \in Async \ {g} PROVE Same(o)
    <2>1. SameQueued(heap.jobs, heap'.jobs, o) /\ SameResumes(heap.jobs, heap'.jobs, o)
      BY <1>2, <1>6, <1>8, QueuedOther
    <2>2. SameSleep(o) /\ SameLine(o) /\ SameStack(frames, frames', o)
      BY <1>1, <1>8 DEF SameSleep, SameLine, SameStack, w
    <2> QED BY <2>1, <2>2 DEF Same
  <1>18. HeldOn(g) /\ \A o \in Sync : heap'.gens[o].queue = <<>>
    BY <1>8 DEF HeldOn, Inv
  <1>19. JobsOwned(heap'.jobs, n)
    BY <1>2, <1>6, <1>8, OwnedJobs
  <1>20. StackKept
    BY <1>1, CurrentFrame, Counted DEF StackKept
  <1> QED BY <1>4, <1>8, <1>13, <1>14, <1>15, <1>16, <1>17, <1>18, <1>19, <1>20, MovedStep

-----------------------------------------------------------------------------
\* The first job taken is not g's.
LEMMA TakenSame ==
    ASSUME NEW js \in Seq(JobType), js # <<>>, NEW g,
           ~ IsJob(Head(js), "request", g), ~ IsJob(Head(js), "resume", g)
    PROVE  SameQueued(js, Tail(js), g) /\ SameResumes(js, Tail(js), g)
  <1>1. /\ JobsIn(Tail(js), "request", g) = {} <=> JobsIn(js, "request", g) = {}
        /\ One(JobsIn(js, "request", g)) => One(JobsIn(Tail(js), "request", g))
    BY TakenJob
  <1>2. /\ JobsIn(Tail(js), "resume", g) = {} <=> JobsIn(js, "resume", g) = {}
        /\ One(JobsIn(js, "resume", g)) => One(JobsIn(Tail(js), "resume", g))
    BY TakenJob
  <1>3. PromisedIn(Tail(js), g) = PromisedIn(js, g)
    BY TakenPromise
  <1> QED BY <1>1, <1>2, <1>3 DEF SameQueued, SameResumes

\* The first job is a callback.
LEMMA RunCallback ==
    ASSUME Inv, result = "running", heap.jobs # <<>>, Head(heap.jobs).k = "callback",
           frames' = Append(frames, Frame("callback")),
           heap' = WithJobs(heap, Tail(heap.jobs)), UNCHANGED <<thrown, result, ops>>
    PROVE  Inv' /\ QueueStep
  <1> DEFINE n == Len(heap.requests)
             js == Tail(heap.jobs)
  <1>1. heap \in HeapType /\ n \in Nat /\ JobsOwned(heap.jobs, n) /\ heap.jobs \in Seq(JobType)
    BY InvParts
  <1>2. js \in Seq(JobType) /\ JobsOwned(js, n)
    BY <1>1, Behead, OwnedJobs
  <1>3. \A o : SameQueued(heap.jobs, js, o) /\ SameResumes(heap.jobs, js, o)
    BY <1>1, TakenSame DEF IsJob
  <1> HIDE DEF js
  <1>4. /\ heap' \in HeapType /\ heap'.jobs = js /\ heap'.gens = heap.gens
        /\ heap'.requests = heap.requests /\ heap'.asleep = heap.asleep /\ heap'.waiting = heap.waiting
    BY <1>1, <1>2, HeapChanges DEF js
  <1>5. Frame("callback") \in FrameType /\ Lifeless(Frame("callback"))
    BY PlainFrame DEF Lifeless
  <1>6. frames \in Seq(FrameType) /\ Grounded(frames) /\ Stacked(frames, n)
    BY CurrentFrame
  <1>7. /\ frames' \in Seq(FrameType) /\ Stacked(frames', n) /\ Grounded(frames')
        /\ \A o : SameStack(frames, frames', o)
    BY <1>1, <1>5, <1>6, PushedQuietly
  <1>8. ASSUME NEW o \in Async PROVE Same(o)
    BY <1>3, <1>4, <1>7 DEF Same, SameSleep, SameLine
  <1>9. Over' /\ thrown' \in BOOLEAN /\ ops' \in 0..MaxOps /\ result' \in {"running", "done", "throw", "internal", "panic"}
    BY Counted DEF Over
  <1>10. \A o \in Sync : heap'.gens[o].queue = <<>>
    BY <1>4 DEF Inv
  <1>11. Inv' /\ UNCHANGED Queue!vars
    BY <1>2, <1>4, <1>7, <1>8, <1>9, <1>10, AllSame
  <1> QED BY <1>11 DEF QueueStep

\* The frame asleep wakes up: it had no other life.
LEMMA RunResume ==
    ASSUME Inv, result = "running", heap.jobs # <<>>, Head(heap.jobs).k = "resume",
           NEW g \in Async, g = Head(heap.jobs).g,
           frames' = Append(frames, heap.asleep[g]),
           heap' = WithAsleep(WithJobs(heap, Tail(heap.jobs)), g, Frame("none")),
           thrown' \in BOOLEAN, UNCHANGED <<result, ops>>
    PROVE  Inv' /\ QueueStep
  <1> DEFINE n == Len(heap.requests)
             js == Tail(heap.jobs)
             j == Head(heap.jobs)
             f == heap.asleep[g]
             h == WithJobs(heap, js)
  <1>1. /\ heap \in HeapType /\ n \in Nat /\ JobsOwned(heap.jobs, n) /\ heap.jobs \in Seq(JobType)
        /\ g \in Generators /\ Life(g) /\ Woken(g) /\ Kept(g) /\ f \in FrameType
    BY InvParts, HeapFields
  <1>2. js \in Seq(JobType) /\ JobsOwned(js, n)
    BY <1>1, Behead, OwnedJobs
  <1>3. IsJob(j, "resume", g) /\ ~ IsJob(j, "request", g)
        /\ \A o : o # g => ~ IsJob(j, "request", o) /\ ~ IsJob(j, "resume", o)
    BY DEF IsJob
  <1>4. \A o : o # g => SameQueued(heap.jobs, js, o) /\ SameResumes(heap.jobs, js, o)
    BY <1>1, <1>3, TakenSame
  <1>5. JobsIn(heap.jobs, "resume", g) # {} /\ (One(JobsIn(heap.jobs, "resume", g)) => JobsIn(js, "resume", g) = {})
    BY <1>1, <1>3, TakenJob
  <1>6. Asleep(g) /\ g \notin heap.waiting /\ JobsIn(js, "resume", g) = {}
    BY <1>1, <1>5 DEF Woken, Resumes
  <1>7. /\ Busy(g) /\ heap.gens[g].executing /\ heap.gens[g].started /\ ~ heap.gens[g].done
        /\ Bodies(g) = {} /\ Answering(g) = {} /\ Queued(g) = {} /\ Holder(g) = {f.r}
    BY <1>1, <1>6, LivesHeld DEF Life, Idle, Busy
  <1>8. f.k = "body" /\ f.g = g /\ Shape(f, n)
    BY <1>1, <1>6 DEF Kept, Asleep
  <1>9. JobsIn(js, "request", g) = {}
    <2>1. JobsIn(heap.jobs, "request", g) = {}
      BY <1>7, Holders
    <2> QED BY <2>1, <1>1, <1>3, TakenJob
  <1> HIDE DEF js, j, f
  <1>10. /\ h \in HeapType /\ h.jobs = js /\ h.gens = heap.gens
         /\ h.requests = heap.requests /\ h.asleep = heap.asleep /\ h.waiting = heap.waiting
    BY <1>1, <1>2, HeapChanges
  <1> HIDE DEF h
  <1>11. Frame("none") \in FrameType /\ Frame("none").k = "none"
    BY PlainFrame
  <1>12. /\ heap' \in HeapType /\ heap'.asleep[g] = Frame("none")
         /\ \A o \in Async \ {g} : heap'.asleep[o] = heap.asleep[o]
         /\ heap'.gens = heap.gens /\ heap'.requests = heap.requests
         /\ heap'.jobs = js /\ heap'.waiting = heap.waiting
    BY <1>10, <1>11, HeapChanges DEF h, js
  <1>13. frames \in Seq(FrameType) /\ Grounded(frames) /\ Stacked(frames, n)
    BY CurrentFrame
  <1>14. ~ IsBottom(f) /\ f.then = ""
    BY <1>8 DEF Shape, IsBottom
  <1>15. frames' = Append(frames, f)
    BY DEF f
  <1>16. StackKept
    <2>1. Stacked(frames', n) /\ Grounded(frames')
      BY <1>1, <1>8, <1>13, <1>14, <1>15, PushedStack
    <2>2. Append(frames, f) \in Seq(FrameType)
      BY <1>1, <1>13, AppendProperties
    <2>3. frames' \in Seq(FrameType)
      BY <1>15, <2>2
    <2> QED BY <2>1, <2>3, Counted DEF StackKept, n
  <1>17. IsBody(f, g) /\ ~ IsAnswering(f, g) /\ \A o : o # g => ~ IsBody(f, o) /\ ~ IsAnswering(f, o)
    BY <1>8, <1>14 DEF IsBody, IsAnswering
  <1>18. One(BodiesIn(frames', g)) /\ AnsweringIn(frames', g) = {} /\ HeldIn(frames', g) = {f.r}
    <2>1. BodiesIn(frames, g) = {} /\ AnsweringIn(frames, g) = {}
      BY <1>7, Holders
    <2> QED BY <2>1, <1>1, <1>13, <1>15, <1>17, PushedBody
  <1>19. ASSUME NEW o \in Async \ {g} PROVE Same(o)
    <2>3. ~ IsBody(f, o) /\ ~ IsAnswering(f, o)
      BY <1>17
    <2>4. SameStack(frames, Append(frames, f), o)
      BY <2>3, <1>1, <1>13, PushedOther DEF SameStack
    <2>1. SameStack(frames, frames', o)
      BY <2>4, <1>15
    <2>2. SameSleep(o) /\ SameLine(o)
      BY <1>12 DEF SameSleep, SameLine
    <2> QED BY <2>1, <2>2, <1>4, <1>12 DEF Same
  <1>20. ~ Asleep(g)' /\ heap'.asleep[g].k # "body"
    BY <1>11, <1>12 DEF Asleep
  <1>21. Life(g)'
    BY <1>7, <1>9, <1>12, <1>18, <1>20, Holders DEF Life, Busy
  <1>22. Woken(g)'
    BY <1>6, <1>12, <1>20 DEF Woken, Resumes
  <1>23. Holder(g)' = Holder(g)
    <2>1. PromisedIn(heap'.jobs, g) = {}
      BY <1>9, <1>12, NoneHeld
    <2> QED BY <2>1, <1>7, <1>18, <1>20, Holders DEF HolderOf
  <1>24. Kept(g)'
    <2>1. ToSet(heap.gens[g].queue) \subseteq Requests
      BY <1>1 DEF Kept
    <2> QED BY <2>1, <1>12, <1>20 DEF Kept, Requests
  <1>25. HeldOn(g) /\ \A o \in Sync : heap'.gens[o].queue = <<>>
    BY <1>12 DEF HeldOn, Inv
  <1>26. JobsOwned(heap'.jobs, n)
    BY <1>2, <1>12
  <1> QED BY <1>12, <1>16, <1>19, <1>21, <1>22, <1>23, <1>24, <1>25, <1>26, MovedStep DEF n

\* A request at the head of the job queue is its generator's only life.
LEMMA RequestLife ==
    ASSUME Inv, heap.jobs # <<>>, NEW g \in Async, g = Head(heap.jobs).g, Head(heap.jobs).k = "request"
    PROVE  /\ Busy(g) /\ ~ Asleep(g) /\ Holder(g) = {Head(heap.jobs).r} /\ Head(heap.jobs).r \in Requests
           /\ heap.gens[g].executing /\ heap.gens[g].started /\ g \notin heap.waiting
           /\ JobsIn(Tail(heap.jobs), "request", g) = {} /\ JobsIn(Tail(heap.jobs), "resume", g) = {}
           /\ BodiesIn(frames, g) = {} /\ AnsweringIn(frames, g) = {}
           /\ \A o : o # g => /\ SameQueued(heap.jobs, Tail(heap.jobs), o)
                              /\ SameResumes(heap.jobs, Tail(heap.jobs), o)
           /\ Tail(heap.jobs) \in Seq(JobType) /\ JobsOwned(Tail(heap.jobs), Len(heap.requests))
  <1> DEFINE n == Len(heap.requests)
             js == Tail(heap.jobs)
             j == Head(heap.jobs)
  <1>1. /\ heap \in HeapType /\ n \in Nat /\ JobsOwned(heap.jobs, n) /\ heap.jobs \in Seq(JobType)
        /\ Life(g) /\ Woken(g) /\ Requests = 1..n
    BY InvParts
  <1>2. js \in Seq(JobType) /\ JobsOwned(js, n) /\ JobOwned(j, n)
    BY <1>1, Behead, OwnedJobs
  <1>3. IsJob(j, "request", g) /\ ~ IsJob(j, "resume", g)
        /\ \A o : o # g => ~ IsJob(j, "request", o) /\ ~ IsJob(j, "resume", o)
    BY DEF IsJob
  <1>4. \A o : o # g => SameQueued(heap.jobs, js, o) /\ SameResumes(heap.jobs, js, o)
    BY <1>1, <1>3, TakenSame
  <1>5. /\ JobsIn(heap.jobs, "request", g) # {}
        /\ One(JobsIn(heap.jobs, "request", g)) =>
             JobsIn(js, "request", g) = {} /\ JobsIn(heap.jobs, "request", g) = {1}
    BY <1>1, <1>3, TakenJob
  <1>6. Queued(g) = JobsIn(heap.jobs, "request", g)
    BY Holders
  <1>7. /\ Busy(g) /\ ~ Asleep(g) /\ heap.gens[g].executing /\ heap.gens[g].started
        /\ Bodies(g) = {} /\ Answering(g) = {} /\ One(Queued(g))
    BY <1>1, <1>5, <1>6 DEF Life, Idle, Busy
  <1>8. Holder(g) = {heap.jobs[1].r}
    BY <1>1, <1>5, <1>6, <1>7, LivesHeld
  <1>9. heap.jobs[1] = j
    BY <1>1, Behead
  <1>10. g \notin heap.waiting /\ JobsIn(heap.jobs, "resume", g) = {}
    BY <1>1, <1>7 DEF Woken, Resumes
  <1>11. JobsIn(js, "resume", g) = {}
    BY <1>1, <1>3, <1>10, TakenJob
  <1>12. BodiesIn(frames, g) = {} /\ AnsweringIn(frames, g) = {}
    BY <1>7, Holders
  <1>13. j.r \in Requests
    BY <1>1, <1>2 DEF JobOwned
  <1> QED BY <1>2, <1>4, <1>5, <1>6, <1>7, <1>8, <1>9, <1>10, <1>11, <1>12, <1>13

\* A closed generator answers its next request by its kind.
LEMMA RunClosedRequest ==
    ASSUME Inv, result = "running", heap.jobs # <<>>, Head(heap.jobs).k = "request",
           NEW g \in Async, g = Head(heap.jobs).g, heap.gens[g].done,
           heap' = AnswerClosed(WithJobs(heap, Tail(heap.jobs)), Head(heap.jobs)),
           UNCHANGED <<frames, thrown, result, ops>>
    PROVE  Inv' /\ QueueStep
  <1> DEFINE js == Tail(heap.jobs)
             j == Head(heap.jobs)
             h == WithJobs(heap, js)
  <1>1. heap \in HeapType /\ g \in Generators
    BY InvParts
  <1>2. PICK r \in Requests : r = j.r
    BY RequestLife
  <1>3. /\ Busy(g) /\ ~ Asleep(g) /\ Holder(g) = {r}
        /\ heap.gens[g].executing /\ heap.gens[g].started
        /\ JobsIn(js, "request", g) = {} /\ JobsIn(js, "resume", g) = {}
        /\ BodiesIn(frames, g) = {} /\ AnsweringIn(frames, g) = {}
        /\ \A o : o # g => SameQueued(heap.jobs, js, o) /\ SameResumes(heap.jobs, js, o)
        /\ js \in Seq(JobType) /\ JobsOwned(js, Len(heap.requests))
    BY <1>2, RequestLife
  <1> DEFINE answer == ByKind(heap.requests[r].kind)
  <1> HIDE DEF js
  <1>4. /\ h \in HeapType /\ h.jobs = js /\ h.gens = heap.gens
        /\ h.requests = heap.requests /\ h.asleep = heap.asleep /\ h.waiting = heap.waiting
    BY <1>1, <1>3, HeapChanges
  <1>5. heap' = Finish(Settle(h, r, ByKind(h.requests[r].kind)), g)
    BY <1>2 DEF AnswerClosed, js
  <1>6. answer \in {"value", "done", "error"} /\ answer # "value" /\ answer = ByKind(heap.requests[r].kind)
    BY DEF ByKind
  <1> HIDE DEF h, answer
  <1>7. heap' = Finish(Settle(h, r, answer), g)
    BY <1>4, <1>5, <1>6
  <1>8. Released(g, h)
    BY <1>3, <1>4 DEF Released, SameStack
  <1>9. ToFinish(g, r, answer, h)
    BY <1>3, <1>4, <1>6 DEF ToFinish
  <1>10. StackKept
    BY CurrentFrame, Counted DEF StackKept
  <1>11. Inv' /\ Queue!Answer(g)
    BY <1>3, <1>4, <1>6, <1>7, <1>8, <1>9, <1>10, FinishStep
  <1> QED BY <1>11, AnswerIsStep

\* A body is pushed on the stack.
LEMMA PushedFrame ==
    ASSUME Inv, result = "running", NEW g \in Generators, NEW f \in FrameType, NEW m \in Nat,
           IsBody(f, g), Plain(f), Len(heap.requests) <= m,
           g \in Async => f.r \in 1..m, g \in Sync => f.r = 0,
           frames' = Append(frames, f)
    PROVE  /\ frames' \in Seq(FrameType) /\ Stacked(frames', m) /\ Grounded(frames')
           /\ \A o \in Async \ {g} : SameStack(frames, frames', o)
           /\ BodiesIn(frames, g) = {} /\ AnsweringIn(frames, g) = {} =>
                One(BodiesIn(frames', g)) /\ AnsweringIn(frames', g) = {} /\ HeldIn(frames', g) = {f.r}
  <1>1. frames \in Seq(FrameType) /\ Grounded(frames) /\ Stacked(frames, Len(heap.requests)) /\ Len(heap.requests) \in Nat
    BY CurrentFrame
  <1>2. Shape(f, m) /\ ~ IsBottom(f)
    BY GeneratorsAssumption DEF Shape, IsBottom, IsBody, Plain
  <1>3. Stacked(frames, m)
    BY <1>1, MoreStacked
  <1>4. IsBody(f, g) /\ ~ IsAnswering(f, g) /\ \A o : o # g => ~ IsBody(f, o) /\ ~ IsAnswering(f, o)
    BY DEF IsBody, IsAnswering, Plain
  <1>5. Stacked(frames', m) /\ Grounded(frames')
    BY <1>1, <1>2, <1>3, PushedStack
  <1>6. frames' \in Seq(FrameType)
    BY <1>1, Pushed
  <1>7. \A o \in Async \ {g} : SameStack(frames, frames', o)
    BY <1>1, <1>4, PushedOther DEF SameStack
  <1>8. ASSUME BodiesIn(frames, g) = {}, AnsweringIn(frames, g) = {}
        PROVE  One(BodiesIn(frames', g)) /\ AnsweringIn(frames', g) = {} /\ HeldIn(frames', g) = {f.r}
    <2>1. /\ One(BodiesIn(Append(frames, f), g)) /\ AnsweringIn(Append(frames, f), g) = {}
          /\ HeldIn(Append(frames, f), g) = {f.r}
      <3>1. frames \in Seq(FrameType) /\ IsBody(f, g) /\ ~ IsAnswering(f, g) /\ f \in FrameType
        BY <1>1, <1>4
      <3>2. BodiesIn(frames, g) = {} /\ AnsweringIn(frames, g) = {}
        BY <1>8
      <3> QED BY <3>1, <3>2, PushedBody
    <2> QED BY <2>1
  <1> QED BY <1>5, <1>6, <1>7, <1>8

\* An open generator works on its next request.
LEMMA RunOpenRequest ==
    ASSUME Inv, result = "running", heap.jobs # <<>>,
           NEW g \in Async, IsJob(Head(heap.jobs), "request", g), ~ heap.gens[g].done, NEW kind \in Kinds,
           Checkout(frames, WithJobs(heap, Tail(heap.jobs)), g, kind, Head(heap.jobs).r),
           UNCHANGED <<thrown, result, ops>>
    PROVE  Inv' /\ QueueStep
  <1> DEFINE n == Len(heap.requests)
             js == Tail(heap.jobs)
             h == WithJobs(heap, js)
  <1>1. heap \in HeapType /\ g \in Generators /\ n \in Nat /\ Requests = 1..n
    BY InvParts
  <1>2. PICK r \in Requests : r = Head(heap.jobs).r
    BY RequestLife DEF IsJob
  <1>3. /\ Busy(g) /\ ~ Asleep(g) /\ Holder(g) = {r}
        /\ heap.gens[g].executing /\ heap.gens[g].started /\ g \notin heap.waiting
        /\ JobsIn(js, "request", g) = {} /\ JobsIn(js, "resume", g) = {}
        /\ BodiesIn(frames, g) = {} /\ AnsweringIn(frames, g) = {}
        /\ \A o : o # g => SameQueued(heap.jobs, js, o) /\ SameResumes(heap.jobs, js, o)
        /\ js \in Seq(JobType) /\ JobsOwned(js, n)
    BY <1>2, RequestLife DEF IsJob
  <1> HIDE DEF js
  <1>4. /\ h \in HeapType /\ h.jobs = js /\ h.gens = heap.gens
        /\ h.requests = heap.requests /\ h.asleep = heap.asleep /\ h.waiting = heap.waiting
    BY <1>1, <1>3, HeapChanges
  <1>5. Checkout(frames, h, g, kind, r) /\ r \in Nat /\ r \in 1..n
    BY <1>1, <1>2 DEF js
  <1> HIDE DEF h
  <1>6. PICK f : f = CheckedOut(g, kind, r)
    OBVIOUS
  <1>7. /\ heap' \in HeapType /\ heap'.gens[g].started
        /\ heap'.gens[g].done = h.gens[g].done /\ heap'.gens[g].executing = h.gens[g].executing
        /\ heap'.gens[g].queue = h.gens[g].queue
        /\ \A o \in Generators \ {g} : heap'.gens[o] = h.gens[o]
        /\ heap'.requests = h.requests /\ heap'.jobs = h.jobs
        /\ heap'.asleep = h.asleep /\ heap'.waiting = h.waiting
        /\ frames' = Append(frames, f) /\ f \in FrameType
        /\ IsBody(f, g) /\ Plain(f) /\ f.r = r
    <2>1. heap \in HeapType /\ h \in HeapType /\ g \in Generators /\ r \in Nat /\ kind \in Kinds /\ Checkout(frames, h, g, kind, r)
      BY <1>1, <1>4, <1>5
    <2>2. /\ heap' \in HeapType /\ heap'.gens[g].started
          /\ heap'.gens[g].done = h.gens[g].done /\ heap'.gens[g].executing = h.gens[g].executing
          /\ heap'.gens[g].queue = h.gens[g].queue
          /\ \A o \in Generators \ {g} : heap'.gens[o] = h.gens[o]
          /\ heap'.requests = h.requests /\ heap'.jobs = h.jobs
          /\ heap'.asleep = h.asleep /\ heap'.waiting = h.waiting
          /\ frames' = Append(frames, CheckedOut(g, kind, r)) /\ CheckedOut(g, kind, r) \in FrameType
          /\ IsBody(CheckedOut(g, kind, r), g) /\ Plain(CheckedOut(g, kind, r)) /\ CheckedOut(g, kind, r).r = r
      BY <2>1, CheckoutParts
    <2> QED BY <2>2, <1>6
  <1>8. /\ frames' \in Seq(FrameType) /\ Stacked(frames', n) /\ Grounded(frames')
        /\ \A o \in Async \ {g} : SameStack(frames, frames', o)
        /\ One(BodiesIn(frames', g)) /\ AnsweringIn(frames', g) = {} /\ HeldIn(frames', g) = {r}
    <2>1. g \notin Sync /\ n <= n
      BY <1>1, GeneratorsAssumption
    <2>2. f.r \in 1..n /\ frames' = Append(frames, f) /\ IsBody(f, g) /\ Plain(f) /\ f \in FrameType
      BY <1>5, <1>7
    <2>3. /\ frames' \in Seq(FrameType) /\ Stacked(frames', n) /\ Grounded(frames')
          /\ \A o \in Async \ {g} : SameStack(frames, frames', o)
          /\ BodiesIn(frames, g) = {} /\ AnsweringIn(frames, g) = {} =>
                One(BodiesIn(frames', g)) /\ AnsweringIn(frames', g) = {} /\ HeldIn(frames', g) = {f.r}
      BY <2>1, <2>2, <1>1, PushedFrame
    <2> QED BY <2>3, <1>3, <1>7
  <1>9. ASSUME NEW o \in Async \ {g} PROVE Same(o)
    <2>1. SameSleep(o) /\ SameLine(o)
      BY <1>4, <1>7 DEF SameSleep, SameLine, Generators
    <2> QED BY <2>1, <1>3, <1>4, <1>7, <1>8 DEF Same
  <1>10. ~ Asleep(g)' /\ heap'.asleep[g].k # "body"
    BY <1>3, <1>4, <1>7 DEF Asleep
  <1>11. /\ heap'.gens[g].executing /\ ~ heap'.gens[g].done /\ heap'.jobs = js
         /\ heap'.gens[g].queue = heap.gens[g].queue
    BY <1>3, <1>4, <1>7
  <1>12. Life(g)'
    BY <1>3, <1>7, <1>8, <1>10, <1>11, Holders DEF Life, Busy
  <1>13. Woken(g)'
    BY <1>3, <1>4, <1>7, <1>10 DEF Woken, Resumes
  <1>14. Holder(g)' = Holder(g)
    <2>1. PromisedIn(heap'.jobs, g) = {}
      BY <1>3, <1>11, NoneHeld
    <2> QED BY <2>1, <1>3, <1>8, <1>10, Holders DEF HolderOf
  <1>15. Kept(g)'
    <2>1. ToSet(heap.gens[g].queue) \subseteq Requests
      BY InvParts DEF Kept
    <2> QED BY <2>1, <1>4, <1>7, <1>10, <1>11 DEF Kept, Requests
  <1>16. HeldOn(g)
    <2>1. heap.gens[g].started \in BOOLEAN /\ heap'.gens[g].started \in BOOLEAN
      BY <1>1, <1>7, GenFields
    <2>2. heap'.gens[g].started = heap.gens[g].started
      BY <2>1, <1>3, <1>7
    <2>3. heap'.gens[g].done = heap.gens[g].done
      <3>1. heap'.gens[g].done \in BOOLEAN /\ heap.gens[g].done \in BOOLEAN
        BY <1>1, <1>7, GenFields
      <3> QED BY <3>1, <1>11
    <2> QED BY <2>2, <2>3, <1>11 DEF HeldOn
  <1>17. \A o \in Sync : heap'.gens[o].queue = <<>>
    BY <1>4, <1>7, GeneratorsAssumption DEF Inv, Generators
  <1>18. JobsOwned(heap'.jobs, n)
    BY <1>3, <1>11
  <1>19. StackKept
    BY <1>8, Counted DEF StackKept, n
  <1>20. heap'.requests = heap.requests
    BY <1>4, <1>7
  <1> QED BY <1>7, <1>9, <1>12, <1>13, <1>14, <1>15, <1>16, <1>17, <1>18, <1>19, <1>20, MovedStep DEF n

\* drain_jobs runs one job.
LEMMA RunJobStep == ASSUME Inv, RunJob PROVE Inv' /\ QueueStep
  <1> DEFINE j == Head(heap.jobs)
             h == WithJobs(heap, Tail(heap.jobs))
  <1>1. result = "running" /\ ~ thrown /\ heap.jobs # <<>> /\ UNCHANGED <<result, ops>>
    BY DEF RunJob, Draining, Runs
  <1>2. heap \in HeapType /\ heap.jobs \in Seq(JobType) /\ JobsOwned(heap.jobs, Len(heap.requests))
        /\ Len(heap.requests) \in Nat /\ heap.requests \in Seq(RequestType)
    BY InvParts
  <1>3. j \in JobType /\ JobOwned(j, Len(heap.requests))
    BY <1>1, <1>2, OwnedJobs
  <1>4. h = [heap EXCEPT !.jobs = Tail(@)]
    BY DEF WithJobs
  <1>5. Tail(heap.jobs) \in Seq(JobType)
    BY <1>1, <1>2, Behead
  <1>6. h.gens = heap.gens /\ h.requests = heap.requests /\ h.asleep = heap.asleep
    BY <1>2, <1>5, HeapChanges
  <1>7. CASE j.k = "callback"
    <2>1. frames' = Append(frames, Frame("callback")) /\ heap' = h /\ UNCHANGED thrown
      BY <1>4, <1>7 DEF RunJob
    <2> QED BY <1>1, <1>7, <2>1, RunCallback
  <1>8. CASE j.k = "resume"
    <2>1. /\ frames' = Append(frames, h.asleep[j.g]) /\ thrown' = (j.r = 1)
          /\ heap' = [h EXCEPT !.asleep[j.g] = Frame("none")]
      BY <1>4, <1>8 DEF RunJob
    <2>2. PICK g \in Async : g = j.g
      BY <1>3, <1>8 DEF JobOwned
    <2>3. frames' = Append(frames, heap.asleep[g]) /\ heap' = WithAsleep(h, g, Frame("none")) /\ thrown' \in BOOLEAN
      BY <1>6, <2>1, <2>2 DEF WithAsleep
    <2> QED BY <1>1, <1>8, <2>2, <2>3, RunResume
  <1>9. CASE j.k = "request"
    <2>1. PICK g \in Async : g = j.g
      BY <1>3, <1>9 DEF JobOwned
    <2>2. j.r \in DOMAIN heap.requests
      BY <1>2, <1>3, <1>9 DEF JobOwned
    <2>3. heap.requests[j.r].kind \in Kinds
      <3>1. heap.requests[j.r] \in RequestType
        BY <1>2, <2>2
      <3> QED BY <3>1 DEF RequestType
    <2>4. CASE heap.gens[g].done
      <3>1. heap' = AnswerClosed(h, j) /\ UNCHANGED <<frames, thrown>>
        BY <1>4, <1>6, <1>9, <2>1, <2>4 DEF RunJob
      <3> QED BY <1>1, <1>9, <2>1, <2>4, <3>1, RunClosedRequest
    <2>5. CASE ~ heap.gens[g].done
      <3>1. Checkout(frames, h, j.g, h.requests[j.r].kind, j.r) /\ UNCHANGED thrown
        BY <1>4, <1>6, <1>9, <2>1, <2>5 DEF RunJob
      <3>2. PICK kind \in Kinds : kind = heap.requests[j.r].kind
        BY <2>3
      <3>3. Checkout(frames, h, g, kind, j.r)
        BY <1>6, <2>1, <3>1, <3>2
      <3>4. IsJob(j, "request", g)
        BY <1>9, <2>1 DEF IsJob
      <3> QED BY <1>1, <2>5, <3>1, <3>3, <3>4, RunOpenRequest
    <2> QED BY <2>4, <2>5
  <1>10. j.k \in {"request", "resume", "callback"}
    BY <1>3 DEF JobType
  <1> QED BY <1>7, <1>8, <1>9, <1>10

-----------------------------------------------------------------------------
\* A request that is made, and one that is made of a closed generator.
Query(g, kind, answer) == [g |-> g, kind |-> kind, answer |-> answer]
Unanswered(q) == q.answer = "none"

\* A request has its type.
LEMMA QueryParts ==
    ASSUME NEW g \in Async, NEW kind \in Kinds
    PROVE  /\ Query(g, kind, "none") \in RequestType /\ Query(g, kind, "none").g = g
           /\ Query(g, kind, ByKind(kind)) \in RequestType /\ Query(g, kind, ByKind(kind)).g = g
           /\ ~ Unanswered(Query(g, kind, ByKind(kind)))
  BY DEF Query, RequestType, ByKind, Unanswered

\* The stack and the scalars after a step that adds a request.
Widened ==
    /\ frames' \in Seq(FrameType) /\ Stacked(frames', Len(heap.requests) + 1) /\ Grounded(frames')
    /\ result' = "running" /\ thrown' \in BOOLEAN /\ ops' \in 0..MaxOps

\* A request is added, to be answered at once or in hand or queued: Inv is kept.
LEMMA AskedStep ==
    ASSUME Inv, NEW g \in Async, NEW q \in RequestType, q.g = g,
           heap' \in HeapType, heap'.requests = Append(heap.requests, q),
           \A o \in Async \ {g} : Same(o), Life(g)', Woken(g)', Kept(g)',
           \A o \in Sync : heap'.gens[o].queue = <<>>,
           JobsOwned(heap'.jobs, Len(heap.requests) + 1), Widened,
           Holder(g) \cup ToSet(heap.gens[g].queue) \subseteq Holder(g)' \cup ToSet(heap'.gens[g].queue),
           Unanswered(q) => Len(heap.requests) + 1 \in Holder(g)' \cup ToSet(heap'.gens[g].queue)
    PROVE  Inv' /\ \A o \in Async \ {g} : Phase(o)' = Phase(o) /\ Line(o)' = Line(o)
  <1> DEFINE n == Len(heap.requests)
  <1>1. /\ heap.requests \in Seq(RequestType) /\ n \in Nat /\ DOMAIN heap.requests = 1..n /\ Requests = 1..n
        /\ Remembered
    BY InvParts
  <1>2. /\ DOMAIN heap'.requests = 1..(n + 1) /\ Len(heap'.requests) = n + 1 /\ heap'.requests[n + 1] = q
        /\ \A i \in 1..n : heap'.requests[i] = heap.requests[i]
    BY <1>1, Pushed
  <1> HIDE DEF n
  <1>3. ASSUME NEW o \in Async \ {g}
        PROVE  Life(o)' /\ Woken(o)' /\ Holder(o)' = Holder(o) /\ Phase(o)' = Phase(o) /\ Line(o)' = Line(o)
    <2>1. Life(o) /\ Woken(o) /\ Same(o)
      BY InvParts
    <2> QED BY <2>1, SameLife
  <1>4. ASSUME NEW o \in Async \ {g} PROVE Kept(o)'
    <2>1. SameSleep(o) /\ SameLine(o)
      BY DEF Same
    <2>2. /\ Len(heap'.requests) \in Nat /\ Len(heap.requests) <= Len(heap'.requests)
          /\ DOMAIN heap'.requests = 1..Len(heap'.requests)
      BY <1>1, <1>2 DEF n
    <2> QED BY <2>1, <2>2, SameKept
  <1>5. ASSUME NEW x \in 1..(n + 1), Unanswered(heap'.requests[x])
        PROVE  \E o \in Async : /\ o = heap'.requests[x].g
                                /\ x \in (Holder(o)' \cup ToSet(heap'.gens[o].queue))
    <2>1. CASE x = n + 1
      BY <2>1, <1>2, <1>5 DEF n
    <2>2. CASE x # n + 1
      <3>1. x \in 1..n /\ heap'.requests[x] = heap.requests[x] /\ heap.requests[x].answer = "none"
        BY <2>2, <1>1, <1>2, <1>5 DEF Unanswered
      <3>2. heap.requests[x] \in RequestType
        BY <1>1, <3>1
      <3>3. PICK o \in Async : o = heap.requests[x].g
        BY <3>2 DEF RequestType
      <3>4. x \in Holder(o) \cup ToSet(heap.gens[o].queue)
        BY <1>1, <3>1, <3>3 DEF Remembered
      <3>5. CASE o = g
        BY <3>1, <3>3, <3>4, <3>5
      <3>6. CASE o # g
        BY <3>1, <3>3, <3>4, <3>6, <1>3 DEF Same, SameLine
      <3> QED BY <3>5, <3>6
    <2> QED BY <2>1, <2>2
  <1>6. Remembered'
    <2>1. Requests' = 1..(n + 1)
      BY <1>2 DEF Requests
    <2> SUFFICES ASSUME NEW x \in 1..(n + 1), heap'.requests[x].answer = "none"
                 PROVE  (x \in Holder(heap.requests[x].g) \cup ToSet(heap.gens[heap.requests[x].g].queue))'
      BY <2>1 DEF Remembered
    <2>2. PICK o \in Async : /\ o = heap'.requests[x].g
                             /\ x \in (Holder(o)' \cup ToSet(heap'.gens[o].queue))
      BY <1>5 DEF Unanswered
    <2>3. Holder(o)' = (Holder(heap.requests[x].g))'
      BY <2>2 DEF Holder, Bodies, Answering, Queued
    <2> QED BY <2>2, <2>3
  <1>7. \A o \in Async : Life(o)' /\ Woken(o)' /\ Kept(o)'
    BY <1>3, <1>4
  <1>8. JobsOwned(heap'.jobs, Len(heap'.requests)) /\ Stacked(frames', Len(heap'.requests))
    BY <1>2 DEF Widened, n
  <1>9. Inv'
    BY <1>6, <1>7, <1>8 DEF Inv, Typed, Widened, Over
  <1> QED BY <1>3, <1>9

\* A request made of an open generator is at the end of the abstract line.
LEMMA QueueAsksOpen ==
    ASSUME NEW g \in Async, NEW kind \in Kinds, heap'.requests = Append(heap.requests, Query(g, kind, "none")),
           Phase(g) = "open" \/ (Phase(g) = "fresh" /\ kind = "next"), Phase(g)' = "open",
           Line(g)' = Append(Line(g), Len(heap.requests) + 1),
           \A o \in Async \ {g} : Phase(o)' = Phase(o) /\ Line(o)' = Line(o)
    PROVE  QueueStep
  <1>1. [o \in Async |-> Line(o)]' =
          [[o \in Async |-> Line(o)] EXCEPT ![g] = Append(@, Len(heap.requests) + 1)]
    OBVIOUS
  <1>2. [o \in Async |-> Phase(o)]' = [[o \in Async |-> Phase(o)] EXCEPT ![g] = "open"]
    OBVIOUS
  <1>3. Queue!AskOpen(g, kind)
    BY <1>1, <1>2 DEF Queue!AskOpen, Queue!Request, Query
  <1> QED BY <1>3 DEF QueueStep, Queue!Next, Queue!Kinds, Kinds

\* A request made of a closed generator is answered by its kind in the abstract
\* queue too.
LEMMA QueueAsksClosed ==
    ASSUME NEW g \in Async, NEW kind \in Kinds, heap'.requests = Append(heap.requests, Query(g, kind, ByKind(kind))),
           Phase(g) = "closed" \/ (Phase(g) = "fresh" /\ kind # "next"), Phase(g)' = "closed", Line(g)' = Line(g),
           \A o \in Async \ {g} : Phase(o)' = Phase(o) /\ Line(o)' = Line(o)
    PROVE  QueueStep
  <1>1. [o \in Async |-> Line(o)]' = [o \in Async |-> Line(o)]
    OBVIOUS
  <1>2. [o \in Async |-> Phase(o)]' = [[o \in Async |-> Phase(o)] EXCEPT ![g] = "closed"]
    OBVIOUS
  <1>3. Queue!AskClosed(g, kind)
    BY <1>1, <1>2 DEF Queue!AskClosed, Queue!Request, Queue!Closing, Query, ByKind
  <1> QED BY <1>3 DEF QueueStep, Queue!Next, Queue!Kinds, Kinds

\* The heap a request has been added to.
Asking(q) == WithRequests(heap, Append(heap.requests, q))

\* Adding a request changes nothing else in the heap.
LEMMA AskingParts ==
    ASSUME Inv, NEW q \in RequestType
    PROVE  /\ Asking(q) \in HeapType /\ Asking(q).requests = Append(heap.requests, q)
           /\ Asking(q).gens = heap.gens /\ Asking(q).jobs = heap.jobs
           /\ Asking(q).asleep = heap.asleep /\ Asking(q).waiting = heap.waiting
           /\ JobsOwned(heap.jobs, Len(heap.requests) + 1) /\ Len(heap.requests) + 1 \in Nat
           /\ Stacked(frames, Len(heap.requests) + 1)
  <1> DEFINE n == Len(heap.requests)
             rs == Append(heap.requests, q)
  <1>1. /\ heap \in HeapType /\ heap.requests \in Seq(RequestType) /\ n \in Nat /\ JobsOwned(heap.jobs, n)
        /\ heap.jobs \in Seq(JobType) /\ Stacked(frames, n)
    BY InvParts
  <1>2. rs \in Seq(RequestType)
    BY <1>1, Pushed
  <1> HIDE DEF n, rs
  <1>3. n + 1 \in Nat /\ n <= n + 1
    BY <1>1
  <1>4. JobsOwned(heap.jobs, n + 1)
    BY <1>1, <1>3, OwnedJobs
  <1>5. Stacked(frames, n + 1)
    BY <1>1, <1>3, MoreStacked
  <1>6. /\ WithRequests(heap, rs) \in HeapType /\ WithRequests(heap, rs).requests = rs
        /\ WithRequests(heap, rs).gens = heap.gens /\ WithRequests(heap, rs).jobs = heap.jobs
        /\ WithRequests(heap, rs).asleep = heap.asleep /\ WithRequests(heap, rs).waiting = heap.waiting
    BY <1>1, <1>2, HeapChanges
  <1> QED BY <1>3, <1>4, <1>5, <1>6 DEF Asking, rs, n

\* The stack stays well shaped when a request is added.
LEMMA StillWidened ==
    ASSUME Inv, result = "running", NEW q \in RequestType, UNCHANGED <<frames, thrown, result>>, Operation
    PROVE  Widened
  <1>1. frames \in Seq(FrameType) /\ Grounded(frames)
    BY CurrentFrame
  <1> QED BY <1>1, AskingParts, Counted DEF Widened

\* The heap with a flag or the queue of one generator replaced.
WithDone(h, g) == [h EXCEPT !.gens[g].done = TRUE]

\* Closing a generator changes nothing else in the heap.
LEMMA DoneParts ==
    ASSUME NEW h \in HeapType, NEW g \in Generators
    PROVE  /\ WithDone(h, g) \in HeapType /\ WithDone(h, g).gens[g].done
           /\ WithDone(h, g).gens[g].started = h.gens[g].started
           /\ WithDone(h, g).gens[g].executing = h.gens[g].executing
           /\ WithDone(h, g).gens[g].queue = h.gens[g].queue
           /\ \A o \in Generators \ {g} : WithDone(h, g).gens[o] = h.gens[o]
           /\ WithDone(h, g).requests = h.requests /\ WithDone(h, g).jobs = h.jobs
           /\ WithDone(h, g).asleep = h.asleep /\ WithDone(h, g).waiting = h.waiting
  <1>1. WithDone(h, g) = Close(h, g) \/ WithDone(h, g) = [h EXCEPT !.gens[g].done = TRUE]
    BY DEF WithDone
  <1>2. PICK c : c = WithDone(h, g)
    OBVIOUS
  <1>3. /\ c \in HeapType /\ c.gens[g].done
        /\ c.gens[g].started = h.gens[g].started /\ c.gens[g].executing = h.gens[g].executing
        /\ c.gens[g].queue = h.gens[g].queue
        /\ \A o \in Generators \ {g} : c.gens[o] = h.gens[o]
        /\ c.requests = h.requests /\ c.jobs = h.jobs /\ c.asleep = h.asleep /\ c.waiting = h.waiting
    BY <1>1, <1>2, ClosedParts
  <1> QED BY <1>2, <1>3

\* A generator that is over answers on the spot.
LEMMA AskOverStep ==
    ASSUME Inv, result = "running", NEW g \in Async, NEW kind \in Kinds,
           heap.gens[g].done \/ (kind # "next" /\ ~ heap.gens[g].started),
           heap' = [Asking(Query(g, kind, ByKind(kind))) EXCEPT !.gens[g].done = TRUE],
           UNCHANGED <<frames, thrown, result>>, Operation
    PROVE  Inv' /\ QueueStep
  <1>1. PICK q \in RequestType : q = Query(g, kind, ByKind(kind))
    BY QueryParts
  <1>2. q.g = g /\ ~ Unanswered(q)
    BY <1>1, QueryParts
  <1> DEFINE h == Asking(q)
             n == Len(heap.requests)
  <1>3. /\ heap \in HeapType /\ g \in Generators /\ Life(g) /\ Woken(g) /\ Kept(g) /\ n \in Nat
        /\ heap.gens[g].done \in BOOLEAN /\ heap.gens[g].started \in BOOLEAN
        /\ heap.gens[g].executing \in BOOLEAN
    BY InvParts
  <1>4. /\ h \in HeapType /\ h.requests = Append(heap.requests, q) /\ h.gens = heap.gens /\ h.jobs = heap.jobs
        /\ h.asleep = heap.asleep /\ h.waiting = heap.waiting /\ JobsOwned(heap.jobs, n + 1)
    BY AskingParts
  <1>5. heap' = WithDone(h, g)
    BY <1>1 DEF WithDone
  <1> HIDE DEF h, n
  <1>6. /\ heap' \in HeapType /\ heap'.gens[g].done
        /\ heap'.gens[g].started = h.gens[g].started /\ heap'.gens[g].executing = h.gens[g].executing
        /\ heap'.gens[g].queue = h.gens[g].queue
        /\ \A o \in Generators \ {g} : heap'.gens[o] = h.gens[o]
        /\ heap'.requests = h.requests /\ heap'.jobs = h.jobs
        /\ heap'.asleep = h.asleep /\ heap'.waiting = h.waiting
    <2>1. h \in HeapType /\ g \in Generators
      BY <1>3, <1>4
    <2>2. /\ WithDone(h, g) \in HeapType /\ WithDone(h, g).gens[g].done
          /\ WithDone(h, g).gens[g].started = h.gens[g].started
          /\ WithDone(h, g).gens[g].executing = h.gens[g].executing
          /\ WithDone(h, g).gens[g].queue = h.gens[g].queue
          /\ \A o \in Generators \ {g} : WithDone(h, g).gens[o] = h.gens[o]
          /\ WithDone(h, g).requests = h.requests /\ WithDone(h, g).jobs = h.jobs
          /\ WithDone(h, g).asleep = h.asleep /\ WithDone(h, g).waiting = h.waiting
      BY <2>1, DoneParts
    <2> QED BY <2>2, <1>5
  <1>7. /\ heap'.gens[g].started = heap.gens[g].started /\ heap'.gens[g].executing = heap.gens[g].executing
        /\ heap'.gens[g].queue = heap.gens[g].queue
        /\ \A o \in Generators \ {g} : heap'.gens[o] = heap.gens[o]
        /\ heap'.requests = Append(heap.requests, q) /\ heap'.jobs = heap.jobs
        /\ heap'.asleep = heap.asleep /\ heap'.waiting = heap.waiting
    BY <1>4, <1>6
  <1>8. \A o : /\ SameStack(frames, frames', o) /\ SameSleep(o)
               /\ SameQueued(heap.jobs, heap'.jobs, o) /\ SameResumes(heap.jobs, heap'.jobs, o)
    <2>1. \A o : SameStack(frames, frames', o)
      BY DEF SameStack
    <2>2. \A o : SameSleep(o)
      BY <1>7 DEF SameSleep
    <2>3. \A o : SameQueued(heap.jobs, heap'.jobs, o) /\ SameResumes(heap.jobs, heap'.jobs, o)
      BY <1>7 DEF SameQueued, SameResumes
    <2> QED BY <2>1, <2>2, <2>3
  <1>9. ASSUME NEW o \in Async \ {g} PROVE Same(o)
    <2>1. SameLine(o)
      BY <1>7 DEF SameLine, Generators
    <2> QED BY <2>1, <1>8 DEF Same
  <1>10. Holder(g)' = Holder(g)
    <2>1. HeldIn(frames', g) = HeldIn(frames, g) /\ PromisedIn(heap'.jobs, g) = PromisedIn(heap.jobs, g)
          /\ heap'.asleep[g] = heap.asleep[g]
      BY <1>8 DEF SameStack, SameSleep, SameQueued
    <2>2. HolderOf(frames', heap', g) = HolderOf(frames, heap, g)
      BY <2>1 DEF HolderOf
    <2> QED BY <2>2, Holders
  <1>11. Life(g)' /\ Woken(g)'
    <2>1. CASE heap.gens[g].done
      <3>1. heap'.gens[g].done = heap.gens[g].done
        BY <1>3, <1>6, <2>1
      <3>2. Same(g)
        BY <3>1, <1>7, <1>8 DEF Same, SameLine
      <3> QED BY <3>2, <1>3, SameLife
    <2>2. CASE ~ heap.gens[g].done
      <3>1. Idle(g)
        BY <2>2, <1>3 DEF Life, Busy
      <3>2. Idle(g)'
        BY <3>1, <1>7, <1>8, Holders DEF Idle, Asleep, SameStack, SameSleep, SameQueued
      <3>3. Woken(g)'
        BY <1>3, <1>7 DEF Woken, Asleep, Resumes
      <3> QED BY <3>2, <3>3 DEF Life
    <2> QED BY <2>1, <2>2
  <1>12. Kept(g)'
    <2>1. heap.requests \in Seq(RequestType)
      BY InvParts
    <2>2. Len(heap'.requests) = n + 1 /\ DOMAIN heap'.requests = 1..(n + 1) /\ Requests = 1..n
      BY <2>1, <1>7, Pushed, InvParts DEF n
    <2>3. \A f : Shape(f, n) => Shape(f, n + 1)
      BY <1>3, MoreRequests
    <2>4. ToSet(heap.gens[g].queue) \subseteq 1..(n + 1)
      BY <1>3, <2>2 DEF Kept
    <2> QED BY <1>3, <1>7, <2>2, <2>3, <2>4 DEF Kept, Asleep, Requests, n
  <1>13. \A o \in Sync : heap'.gens[o].queue = <<>>
    BY <1>7, GeneratorsAssumption DEF Inv, Generators
  <1>14. Inv' /\ \A o \in Async \ {g} : Phase(o)' = Phase(o) /\ Line(o)' = Line(o)
    <2>1. Widened
      BY StillWidened
    <2>2. JobsOwned(heap'.jobs, Len(heap.requests) + 1)
      BY <1>4, <1>7 DEF n
    <2>3. Holder(g) \cup ToSet(heap.gens[g].queue) \subseteq Holder(g)' \cup ToSet(heap'.gens[g].queue)
      BY <1>7, <1>10
    <2> QED BY <1>2, <1>6, <1>7, <1>9, <1>11, <1>12, <1>13, <2>1, <2>2, <2>3, AskedStep
  <1>15. Line(g)' = Line(g) /\ Phase(g)' = "closed"
    BY <1>6, <1>7, <1>10 DEF Line, Phase
  <1>16. Phase(g) = "closed" \/ (Phase(g) = "fresh" /\ kind # "next")
    BY <1>3 DEF Phase
  <1> QED BY <1>1, <1>7, <1>14, <1>15, <1>16, QueueAsksClosed

-----------------------------------------------------------------------------
WithQueue(h, g, q)     == [h EXCEPT !.gens[g].queue = q]
WithExecuting(h, g)    == [h EXCEPT !.gens[g].executing = TRUE]

\* Replacing a generator's queue changes nothing else in the heap.
LEMMA QueueParts ==
    ASSUME NEW h \in HeapType, NEW g \in Generators, NEW q \in Seq(Nat)
    PROVE  /\ WithQueue(h, g, q) \in HeapType /\ WithQueue(h, g, q).gens[g].queue = q
           /\ WithQueue(h, g, q).gens[g].done = h.gens[g].done
           /\ WithQueue(h, g, q).gens[g].started = h.gens[g].started
           /\ WithQueue(h, g, q).gens[g].executing = h.gens[g].executing
           /\ \A o \in Generators \ {g} : WithQueue(h, g, q).gens[o] = h.gens[o]
           /\ WithQueue(h, g, q).requests = h.requests /\ WithQueue(h, g, q).jobs = h.jobs
           /\ WithQueue(h, g, q).asleep = h.asleep /\ WithQueue(h, g, q).waiting = h.waiting
  <1> DEFINE x == h.gens[g]
             y == [x EXCEPT !.queue = q]
  <1>1. x \in GenType
    BY GenFields
  <1>2. y \in GenType /\ y.queue = q /\ y.done = x.done /\ y.started = x.started /\ y.executing = x.executing
    BY <1>1 DEF GenType
  <1>3. WithQueue(h, g, q) = [h EXCEPT !.gens[g] = y]
    BY DEF WithQueue, HeapType
  <1> HIDE DEF y
  <1> QED BY <1>2, <1>3, GenReplaced

\* Raising a generator's executing flag changes nothing else in the heap.
LEMMA ExecutingParts ==
    ASSUME NEW h \in HeapType, NEW g \in Generators
    PROVE  /\ WithExecuting(h, g) \in HeapType /\ WithExecuting(h, g).gens[g].executing
           /\ WithExecuting(h, g).gens[g].done = h.gens[g].done
           /\ WithExecuting(h, g).gens[g].started = h.gens[g].started
           /\ WithExecuting(h, g).gens[g].queue = h.gens[g].queue
           /\ \A o \in Generators \ {g} : WithExecuting(h, g).gens[o] = h.gens[o]
           /\ WithExecuting(h, g).requests = h.requests /\ WithExecuting(h, g).jobs = h.jobs
           /\ WithExecuting(h, g).asleep = h.asleep /\ WithExecuting(h, g).waiting = h.waiting
  <1> DEFINE x == h.gens[g]
             y == [x EXCEPT !.executing = TRUE]
  <1>1. x \in GenType
    BY GenFields
  <1>2. y \in GenType /\ y.executing /\ y.done = x.done /\ y.started = x.started /\ y.queue = x.queue
    BY <1>1 DEF GenType
  <1>3. WithExecuting(h, g) = [h EXCEPT !.gens[g] = y]
    BY DEF WithExecuting, HeapType
  <1> HIDE DEF y
  <1> QED BY <1>2, <1>3, GenReplaced

\* A request appended to a queue is appended to the line.
LEMMA ConsAppended ==
    ASSUME NEW q \in Seq(Nat), NEW a, NEW r \in Nat
    PROVE  SetToSeq({a}) \o Append(q, r) = Append(SetToSeq({a}) \o q, r)
  <1>1. SetToSeq({a}) = <<a>>
    BY SingleLine
  <1>2. <<a>> \o Append(q, r) = Append(<<a>> \o q, r)
    OBVIOUS
  <1> QED BY <1>1, <1>2

\* The lives of a generator stay as they are.
Lives(g) == SameStack(frames, frames', g) /\ SameSleep(g) /\ SameQueued(heap.jobs, heap'.jobs, g)
SameFlags(g) ==
    /\ heap'.gens[g].done = heap.gens[g].done /\ heap'.gens[g].started = heap.gens[g].started
    /\ heap'.gens[g].executing = heap.gens[g].executing

\* A generator whose lives stay has the same request in hand.
LEMMA StillHeld == ASSUME NEW g, Lives(g) PROVE Holder(g)' = Holder(g)
  BY Holders DEF Lives, HolderOf, SameStack, SameSleep, SameQueued

\* A generator whose lives and flags stay is still busy.
LEMMA StillBusy == ASSUME NEW g, Busy(g), Lives(g), SameFlags(g) PROVE Busy(g)'
  BY Holders DEF Lives, SameFlags, Busy, Asleep, SameStack, SameSleep, SameQueued

\* A busy generator's request joins its queue (begin_async_generator_request).
LEMMA AskBusyStep ==
    ASSUME Inv, result = "running", NEW g \in Async, NEW kind \in Kinds,
           ~ heap.gens[g].done, heap.gens[g].executing,
           heap' = WithQueue(Asking(Query(g, kind, "none")), g, Append(heap.gens[g].queue, Len(heap.requests) + 1)),
           UNCHANGED <<frames, thrown, result>>, Operation
    PROVE  Inv' /\ QueueStep
  <1>1. PICK q \in RequestType : q = Query(g, kind, "none")
    BY QueryParts
  <1>2. q.g = g
    BY <1>1, QueryParts
  <1> DEFINE h == Asking(q)
             n == Len(heap.requests)
             line == heap.gens[g].queue
  <1>3. /\ heap \in HeapType /\ g \in Generators /\ Life(g) /\ Woken(g) /\ Kept(g) /\ n \in Nat
        /\ line \in Seq(Nat) /\ heap.requests \in Seq(RequestType) /\ Requests = 1..n
    BY InvParts
  <1>4. /\ h \in HeapType /\ h.requests = Append(heap.requests, q) /\ h.gens = heap.gens /\ h.jobs = heap.jobs
        /\ h.asleep = heap.asleep /\ h.waiting = heap.waiting /\ JobsOwned(heap.jobs, n + 1) /\ n + 1 \in Nat
    BY AskingParts
  <1> DEFINE longer == Append(line, n + 1)
  <1>5. longer \in Seq(Nat) /\ ToSet(longer) = ToSet(line) \cup {n + 1}
    BY <1>3, <1>4, AppendedSet
  <1>6. heap' = WithQueue(h, g, longer)
    BY <1>1
  <1>7. Busy(g)
    BY <1>3 DEF Life, Idle
  <1>8. PICK x : Holder(g) = {x}
    BY <1>3, <1>7, LivesHeld
  <1>9. SetToSeq({x}) \o longer = Append(SetToSeq({x}) \o line, n + 1)
    BY <1>3, <1>4, ConsAppended
  <1> HIDE DEF h, n, longer, line
  <1>10. /\ heap' \in HeapType /\ heap'.gens[g].queue = longer
         /\ heap'.gens[g].done = h.gens[g].done /\ heap'.gens[g].started = h.gens[g].started
         /\ heap'.gens[g].executing = h.gens[g].executing
         /\ \A o \in Generators \ {g} : heap'.gens[o] = h.gens[o]
         /\ heap'.requests = h.requests /\ heap'.jobs = h.jobs
         /\ heap'.asleep = h.asleep /\ heap'.waiting = h.waiting
    <2>1. h \in HeapType /\ g \in Generators /\ longer \in Seq(Nat)
      BY <1>3, <1>4, <1>5
    <2>2. /\ WithQueue(h, g, longer) \in HeapType /\ WithQueue(h, g, longer).gens[g].queue = longer
          /\ WithQueue(h, g, longer).gens[g].done = h.gens[g].done
          /\ WithQueue(h, g, longer).gens[g].started = h.gens[g].started
          /\ WithQueue(h, g, longer).gens[g].executing = h.gens[g].executing
          /\ \A o \in Generators \ {g} : WithQueue(h, g, longer).gens[o] = h.gens[o]
          /\ WithQueue(h, g, longer).requests = h.requests /\ WithQueue(h, g, longer).jobs = h.jobs
          /\ WithQueue(h, g, longer).asleep = h.asleep /\ WithQueue(h, g, longer).waiting = h.waiting
      BY <2>1, QueueParts
    <2> QED BY <2>2, <1>6
  <1>11. /\ heap'.gens[g].done = heap.gens[g].done /\ heap'.gens[g].started = heap.gens[g].started
         /\ heap'.gens[g].executing = heap.gens[g].executing
         /\ \A o \in Generators \ {g} : heap'.gens[o] = heap.gens[o]
         /\ heap'.requests = Append(heap.requests, q) /\ heap'.jobs = heap.jobs
         /\ heap'.asleep = heap.asleep /\ heap'.waiting = heap.waiting
    BY <1>4, <1>10
  <1>12. \A o : /\ SameStack(frames, frames', o) /\ SameSleep(o)
                /\ SameQueued(heap.jobs, heap'.jobs, o) /\ SameResumes(heap.jobs, heap'.jobs, o)
    BY <1>11 DEF SameStack, SameSleep, SameQueued, SameResumes
  <1>13. ASSUME NEW o \in Async \ {g} PROVE Same(o)
    <2>1. SameLine(o)
      BY <1>11 DEF SameLine, Generators
    <2> QED BY <2>1, <1>12 DEF Same
  <1>14. Holder(g)' = Holder(g)
    BY <1>12, StillHeld DEF Lives
  <1>15. Life(g)'
    <2>1. Lives(g) /\ SameFlags(g)
      BY <1>11, <1>12 DEF Lives, SameFlags
    <2> QED BY <2>1, <1>7, StillBusy DEF Life
  <1>16. Woken(g)'
    BY <1>3, <1>11 DEF Woken, Asleep, Resumes
  <1>17. Kept(g)'
    <2>1. Len(heap'.requests) = n + 1 /\ DOMAIN heap'.requests = 1..(n + 1)
      <3>1. /\ Append(heap.requests, q) \in Seq(RequestType)
            /\ Len(Append(heap.requests, q)) = Len(heap.requests) + 1
        BY <1>3, AppendProperties
      <3>2. heap'.requests \in Seq(RequestType) /\ Len(heap'.requests) = n + 1
        BY <1>11, <3>1 DEF n
      <3>3. DOMAIN heap'.requests = 1..Len(heap'.requests)
        BY <3>2
      <3> QED BY <3>2, <3>3
    <2>2. \A f : Shape(f, n) => Shape(f, n + 1)
      BY <1>3, <1>4, MoreRequests
    <2>3. ToSet(line) \subseteq 1..n
      BY <1>3 DEF Kept, line
    <2>4. ToSet(longer) \subseteq 1..(n + 1)
      BY <1>3, <1>5, <2>3
    <2> QED BY <1>3, <1>10, <1>11, <2>1, <2>2, <2>4 DEF Kept, Asleep, Requests, n
  <1>18. \A o \in Sync : heap'.gens[o].queue = <<>>
    BY <1>11, GeneratorsAssumption DEF Inv, Generators
  <1>19. Inv' /\ \A o \in Async \ {g} : Phase(o)' = Phase(o) /\ Line(o)' = Line(o)
    <2>1. Widened
      BY StillWidened
    <2>2. JobsOwned(heap'.jobs, Len(heap.requests) + 1)
      BY <1>4, <1>11 DEF n
    <2>3. Holder(g) \cup ToSet(heap.gens[g].queue) \subseteq Holder(g)' \cup ToSet(heap'.gens[g].queue)
      BY <1>5, <1>10, <1>14 DEF line
    <2>4. Len(heap.requests) + 1 \in Holder(g)' \cup ToSet(heap'.gens[g].queue)
      BY <1>5, <1>10 DEF n
    <2> QED BY <1>2, <1>10, <1>11, <1>13, <1>15, <1>16, <1>17, <1>18, <2>1, <2>2, <2>3, <2>4, AskedStep
  <1>20. Line(g)' = Append(Line(g), n + 1)
    <2>1. Line(g) = SetToSeq({x}) \o line
      BY <1>8 DEF Line, line
    <2>2. Line(g)' = SetToSeq({x}) \o longer
      BY <1>8, <1>10, <1>14 DEF Line
    <2> QED BY <2>1, <2>2, <1>9
  <1>21. Phase(g) = "open" /\ Phase(g)' = "open"
    BY <1>7, <1>11 DEF Phase, Busy
  <1> QED BY <1>1, <1>11, <1>19, <1>20, <1>21, QueueAsksOpen DEF n

\* An idle generator is resumed for the request it is asked.
LEMMA AskIdleStep ==
    ASSUME Inv, result = "running", NEW g \in Async, NEW kind \in Kinds,
           ~ heap.gens[g].done, ~ heap.gens[g].executing, heap.gens[g].started \/ kind = "next",
           Checkout(frames, WithExecuting(Asking(Query(g, kind, "none")), g), g, kind, Len(heap.requests) + 1),
           UNCHANGED <<thrown, result>>, Operation
    PROVE  Inv' /\ QueueStep
  <1>1. PICK q \in RequestType : q = Query(g, kind, "none")
    BY QueryParts
  <1>2. q.g = g
    BY <1>1, QueryParts
  <1> DEFINE n == Len(heap.requests)
             r == n + 1
             h == WithExecuting(Asking(q), g)
  <1>3. /\ heap \in HeapType /\ g \in Generators /\ Life(g) /\ Woken(g) /\ n \in Nat
        /\ heap.requests \in Seq(RequestType) /\ heap.gens[g].started \in BOOLEAN
    BY InvParts
  <1>4. Idle(g) /\ ~ heap.gens[g].done
    BY <1>3 DEF Life, Busy
  <1>5. /\ heap.gens[g].queue = <<>> /\ BodiesIn(frames, g) = {} /\ AnsweringIn(frames, g) = {}
        /\ JobsIn(heap.jobs, "request", g) = {} /\ ~ Asleep(g) /\ g \notin heap.waiting
        /\ JobsIn(heap.jobs, "resume", g) = {}
    BY <1>3, <1>4, Holders DEF Idle, Woken, Resumes
  <1>6. /\ Asking(q) \in HeapType /\ Asking(q).requests = Append(heap.requests, q)
        /\ Asking(q).gens = heap.gens /\ Asking(q).jobs = heap.jobs
        /\ Asking(q).asleep = heap.asleep /\ Asking(q).waiting = heap.waiting
        /\ JobsOwned(heap.jobs, r) /\ r \in Nat
    BY AskingParts
  <1>7. Checkout(frames, h, g, kind, r)
    BY <1>1
  <1> HIDE DEF h, r, n
  <1>8. /\ h \in HeapType /\ h.gens[g].executing
        /\ h.gens[g].done = heap.gens[g].done /\ h.gens[g].queue = heap.gens[g].queue
        /\ \A o \in Generators \ {g} : h.gens[o] = heap.gens[o]
        /\ h.requests = Append(heap.requests, q) /\ h.jobs = heap.jobs
        /\ h.asleep = heap.asleep /\ h.waiting = heap.waiting
    <2> DEFINE k == Asking(q)
    <2>1. k \in HeapType /\ k.gens = heap.gens
      BY <1>6
    <2>2. /\ h \in HeapType /\ h.gens[g].executing
          /\ h.gens[g].done = k.gens[g].done /\ h.gens[g].queue = k.gens[g].queue
          /\ \A o \in Generators \ {g} : h.gens[o] = k.gens[o]
          /\ h.requests = k.requests /\ h.jobs = k.jobs
          /\ h.asleep = k.asleep /\ h.waiting = k.waiting
      BY <1>3, <2>1, ExecutingParts DEF h
    <2> QED BY <2>2, <1>6
  <1>9. PICK f : f = CheckedOut(g, kind, r)
    OBVIOUS
  <1>10. /\ heap' \in HeapType /\ heap'.gens[g].started
         /\ heap'.gens[g].done = h.gens[g].done /\ heap'.gens[g].executing = h.gens[g].executing
         /\ heap'.gens[g].queue = h.gens[g].queue
         /\ \A o \in Generators \ {g} : heap'.gens[o] = h.gens[o]
         /\ heap'.requests = h.requests /\ heap'.jobs = h.jobs
         /\ heap'.asleep = h.asleep /\ heap'.waiting = h.waiting
         /\ frames' = Append(frames, f) /\ f \in FrameType
         /\ IsBody(f, g) /\ Plain(f) /\ f.r = r
    <2>1. heap \in HeapType /\ h \in HeapType /\ g \in Generators /\ r \in Nat /\ kind \in Kinds /\ Checkout(frames, h, g, kind, r)
      BY <1>3, <1>6, <1>7, <1>8
    <2>2. /\ heap' \in HeapType /\ heap'.gens[g].started
          /\ heap'.gens[g].done = h.gens[g].done /\ heap'.gens[g].executing = h.gens[g].executing
          /\ heap'.gens[g].queue = h.gens[g].queue
          /\ \A o \in Generators \ {g} : heap'.gens[o] = h.gens[o]
          /\ heap'.requests = h.requests /\ heap'.jobs = h.jobs
          /\ heap'.asleep = h.asleep /\ heap'.waiting = h.waiting
          /\ frames' = Append(frames, CheckedOut(g, kind, r)) /\ CheckedOut(g, kind, r) \in FrameType
          /\ IsBody(CheckedOut(g, kind, r), g) /\ Plain(CheckedOut(g, kind, r)) /\ CheckedOut(g, kind, r).r = r
      BY <2>1, CheckoutParts
    <2> QED BY <2>2, <1>9
  <1>11. /\ frames' \in Seq(FrameType) /\ Stacked(frames', r) /\ Grounded(frames')
         /\ \A o \in Async \ {g} : SameStack(frames, frames', o)
         /\ One(BodiesIn(frames', g)) /\ AnsweringIn(frames', g) = {} /\ HeldIn(frames', g) = {r}
    <2>1. g \notin Sync /\ n <= r /\ r \in 1..r
      BY <1>3, GeneratorsAssumption DEF r
    <2>2. f.r \in 1..r /\ frames' = Append(frames, f) /\ IsBody(f, g) /\ Plain(f) /\ f \in FrameType
      BY <1>10, <2>1
    <2>3. /\ frames' \in Seq(FrameType) /\ Stacked(frames', r) /\ Grounded(frames')
          /\ \A o \in Async \ {g} : SameStack(frames, frames', o)
          /\ BodiesIn(frames, g) = {} /\ AnsweringIn(frames, g) = {} =>
                One(BodiesIn(frames', g)) /\ AnsweringIn(frames', g) = {} /\ HeldIn(frames', g) = {f.r}
      BY <2>1, <2>2, <1>3, <1>6, PushedFrame DEF n
    <2> QED BY <2>3, <1>5, <1>10
  <1>12. /\ heap'.gens[g].executing /\ ~ heap'.gens[g].done /\ heap'.gens[g].queue = <<>>
         /\ \A o \in Generators \ {g} : heap'.gens[o] = heap.gens[o]
         /\ heap'.requests = Append(heap.requests, q) /\ heap'.jobs = heap.jobs
         /\ heap'.asleep = heap.asleep /\ heap'.waiting = heap.waiting
    BY <1>4, <1>5, <1>8, <1>10
  <1>13. ASSUME NEW o \in Async \ {g} PROVE Same(o)
    <2>1. SameSleep(o) /\ SameLine(o)
      BY <1>12 DEF SameSleep, SameLine, Generators
    <2> QED BY <2>1, <1>11, <1>12 DEF Same, SameQueued, SameResumes
  <1>14. ~ Asleep(g)' /\ heap'.asleep[g].k # "body"
    BY <1>5, <1>12 DEF Asleep
  <1>15. Life(g)'
    BY <1>5, <1>10, <1>11, <1>12, <1>14, Holders DEF Life, Busy
  <1>16. Woken(g)'
    BY <1>5, <1>12, <1>14 DEF Woken, Resumes
  <1>17. Holder(g)' = {r}
    <2>1. PromisedIn(heap'.jobs, g) = {}
      BY <1>5, <1>12, NoneHeld
    <2> QED BY <2>1, <1>11, <1>14, Holders DEF HolderOf
  <1>18. Kept(g)'
    BY <1>12, <1>14, NothingQueued DEF Kept
  <1>19. \A o \in Sync : heap'.gens[o].queue = <<>>
    BY <1>12, GeneratorsAssumption DEF Inv, Generators
  <1>20. Holder(g) = {}
    BY <1>3, <1>4, LivesHeld
  <1>21. Inv' /\ \A o \in Async \ {g} : Phase(o)' = Phase(o) /\ Line(o)' = Line(o)
    <2>1. Widened
      BY <1>11, Counted DEF Widened, r, n
    <2>2. JobsOwned(heap'.jobs, Len(heap.requests) + 1)
      BY <1>6, <1>12 DEF r, n
    <2>3. Holder(g) \cup ToSet(heap.gens[g].queue) \subseteq Holder(g)' \cup ToSet(heap'.gens[g].queue)
      BY <1>5, <1>20, NothingQueued
    <2>4. Len(heap.requests) + 1 \in Holder(g)' \cup ToSet(heap'.gens[g].queue)
      BY <1>17 DEF r, n
    <2> QED BY <1>2, <1>10, <1>12, <1>13, <1>15, <1>16, <1>18, <1>19, <2>1, <2>2, <2>3, <2>4, AskedStep
  <1>22. Line(g)' = Append(Line(g), r)
    <2>1. <<>> \in Seq(Nat) /\ Append(<<>>, r) = <<r>> /\ <<r>> \o <<>> = <<r>> /\ <<>> \o <<>> = <<>>
      OBVIOUS
    <2>2. Line(g) = <<>>
      BY <1>5, <1>20, <2>1, EmptyLine DEF Line
    <2>3. Line(g)' = <<r>>
      BY <1>12, <1>17, <2>1, SingleLine DEF Line
    <2> QED BY <2>1, <2>2, <2>3
  <1>23. Phase(g) = "open" \/ (Phase(g) = "fresh" /\ kind = "next")
    BY <1>3, <1>4 DEF Phase
  <1>24. Phase(g)' = "open"
    BY <1>10, <1>12 DEF Phase
  <1> QED BY <1>1, <1>12, <1>21, <1>22, <1>23, <1>24, QueueAsksOpen DEF r, n

-----------------------------------------------------------------------------
\* A generator that is not async and is over gives done to every caller.
LEMMA AskSyncOverStep ==
    ASSUME Inv, result = "running", NEW g \in Sync, heap' = WithDone(heap, g), thrown' \in BOOLEAN,
           UNCHANGED <<frames, result>>, Operation
    PROVE  Inv' /\ QueueStep
  <1>1. heap \in HeapType /\ g \in Generators
    BY InvParts DEF Generators
  <1>2. /\ heap' \in HeapType /\ heap'.gens[g].queue = heap.gens[g].queue
        /\ \A o \in Generators \ {g} : heap'.gens[o] = heap.gens[o]
        /\ heap'.requests = heap.requests /\ heap'.jobs = heap.jobs
        /\ heap'.asleep = heap.asleep /\ heap'.waiting = heap.waiting
    BY <1>1, DoneParts
  <1>3. ASSUME NEW o \in Async PROVE Same(o)
    <2>1. o # g
      BY GeneratorsAssumption
    <2> QED BY <1>2, <2>1 DEF Same, SameStack, SameSleep, SameLine, SameQueued, SameResumes, Generators
  <1>4. \A o \in Sync : heap'.gens[o].queue = <<>>
    BY <1>2 DEF Inv, Generators
  <1>5. frames' \in Seq(FrameType) /\ Stacked(frames', Len(heap.requests)) /\ Grounded(frames')
    BY CurrentFrame
  <1>6. JobsOwned(heap'.jobs, Len(heap.requests)) /\ Over'
    BY <1>2, InvParts DEF Over
  <1>7. ops' \in 0..MaxOps
    BY Counted
  <1>8. Inv' /\ UNCHANGED Queue!vars
    BY <1>2, <1>3, <1>4, <1>5, <1>6, <1>7, AllSame
  <1> QED BY <1>8 DEF QueueStep

\* A generator that is not async is checked out for its caller.
LEMMA AskSyncStep ==
    ASSUME Inv, result = "running", NEW g \in Sync, NEW kind \in Kinds,
           Checkout(frames, heap, g, kind, 0), UNCHANGED <<thrown, result>>, Operation
    PROVE  Inv' /\ QueueStep
  <1>1. heap \in HeapType /\ g \in Generators /\ Len(heap.requests) \in Nat
    BY InvParts DEF Generators
  <1>2. PICK f : f = CheckedOut(g, kind, 0)
    OBVIOUS
  <1>3. PICK zero \in Nat : zero = 0
    OBVIOUS
  <1>4. /\ heap' \in HeapType /\ heap'.gens[g].queue = heap.gens[g].queue
        /\ \A o \in Generators \ {g} : heap'.gens[o] = heap.gens[o]
        /\ heap'.requests = heap.requests /\ heap'.jobs = heap.jobs
        /\ heap'.asleep = heap.asleep /\ heap'.waiting = heap.waiting
        /\ frames' = Append(frames, f) /\ f \in FrameType
        /\ IsBody(f, g) /\ Plain(f) /\ f.r = 0
    <2>1. Checkout(frames, heap, g, kind, zero) /\ kind \in Kinds
      BY <1>3
    <2> HIDE <1>3
    <2>2. /\ heap' \in HeapType /\ heap'.gens[g].queue = heap.gens[g].queue
          /\ \A o \in Generators \ {g} : heap'.gens[o] = heap.gens[o]
          /\ heap'.requests = heap.requests /\ heap'.jobs = heap.jobs
          /\ heap'.asleep = heap.asleep /\ heap'.waiting = heap.waiting
          /\ frames' = Append(frames, CheckedOut(g, kind, zero)) /\ CheckedOut(g, kind, zero) \in FrameType
          /\ IsBody(CheckedOut(g, kind, zero), g) /\ Plain(CheckedOut(g, kind, zero))
          /\ CheckedOut(g, kind, zero).r = zero
      BY <1>1, <2>1, CheckoutParts
    <2> QED BY <2>2, <1>2, <1>3
  <1>5. /\ frames' \in Seq(FrameType) /\ Stacked(frames', Len(heap.requests)) /\ Grounded(frames')
        /\ \A o \in Async \ {g} : SameStack(frames, frames', o)
    <2>1. g \notin Async /\ Len(heap.requests) <= Len(heap.requests)
      BY <1>1, GeneratorsAssumption
    <2> QED BY <2>1, <1>1, <1>4, PushedFrame
  <1>6. ASSUME NEW o \in Async PROVE Same(o)
    <2>1. o # g
      BY GeneratorsAssumption
    <2> QED BY <1>4, <1>5, <2>1 DEF Same, SameSleep, SameLine, SameQueued, SameResumes, Generators
  <1>7. \A o \in Sync : heap'.gens[o].queue = <<>>
    BY <1>4 DEF Inv, Generators
  <1>8. JobsOwned(heap'.jobs, Len(heap.requests)) /\ Over'
    BY <1>4, InvParts DEF Over
  <1>9. thrown' \in BOOLEAN /\ ops' \in 0..MaxOps
    BY Counted
  <1>10. Inv' /\ UNCHANGED Queue!vars
    BY <1>4, <1>5, <1>6, <1>7, <1>8, <1>9, AllSame
  <1> QED BY <1>10 DEF QueueStep

-----------------------------------------------------------------------------
\* next, return or throw is called on a generator of either kind.
LEMMA CallStep == ASSUME Inv, Call PROVE Inv' /\ QueueStep
  <1>1. result = "running" /\ Operation /\ UNCHANGED result
    BY DEF Call, InCode, BodyCode, InBody, Runs
  <1>2. PICK g \in Generators, kind \in Kinds : Ask(g, kind)
    BY DEF Call
  <1> DEFINE over == heap.gens[g].done \/ (kind # "next" /\ ~ heap.gens[g].started)
  <1>3. heap.gens[g].executing \in BOOLEAN /\ heap.gens[g].done \in BOOLEAN /\ heap.gens[g].started \in BOOLEAN
    BY InvParts, GenFields
  <1>4. \A answer : [heap EXCEPT !.requests = Append(@, [g |-> g, kind |-> kind, answer |-> answer])]
                      = Asking(Query(g, kind, answer))
    BY DEF Asking, WithRequests, Query
  <1>5. CASE g \in Sync /\ over
    <2>1. thrown' \in BOOLEAN /\ heap' = WithDone(heap, g) /\ UNCHANGED frames
      BY <1>2, <1>5, GeneratorsAssumption DEF Ask, WithDone
    <2> QED BY <1>1, <1>5, <2>1, AskSyncOverStep
  <1>6. CASE g \in Sync /\ ~ over
    <2>1. Checkout(frames, heap, g, kind, 0) /\ UNCHANGED thrown
      BY <1>2, <1>6, GeneratorsAssumption DEF Ask
    <2> QED BY <1>1, <1>6, <2>1, AskSyncStep
  <1>7. CASE g \in Async /\ over
    <2>1. /\ heap' = [Asking(Query(g, kind, ByKind(kind))) EXCEPT !.gens[g].done = TRUE]
          /\ UNCHANGED <<frames, thrown>>
      BY <1>2, <1>4, <1>7, GeneratorsAssumption DEF Ask
    <2> QED BY <1>1, <1>7, <2>1, AskOverStep
  <1>8. CASE g \in Async /\ ~ over /\ heap.gens[g].executing
    <2>1. /\ heap' = [Asking(Query(g, kind, "none")) EXCEPT !.gens[g].queue = Append(@, Len(heap.requests) + 1)]
          /\ UNCHANGED <<frames, thrown>>
      BY <1>2, <1>4, <1>8, GeneratorsAssumption DEF Ask
    <2>2. Asking(Query(g, kind, "none")).gens[g].queue = heap.gens[g].queue
      BY <1>8, QueryParts, AskingParts
    <2>3. heap' = WithQueue(Asking(Query(g, kind, "none")), g, Append(heap.gens[g].queue, Len(heap.requests) + 1))
      BY <2>1, <2>2 DEF WithQueue
    <2> QED BY <1>1, <1>8, <2>1, <2>3, AskBusyStep
  <1>9. CASE g \in Async /\ ~ over /\ ~ heap.gens[g].executing
    <2>1. /\ Checkout(frames, [Asking(Query(g, kind, "none")) EXCEPT !.gens[g].executing = TRUE],
                      g, kind, Len(heap.requests) + 1)
          /\ UNCHANGED thrown
      BY <1>2, <1>4, <1>9, GeneratorsAssumption DEF Ask
    <2>2. Checkout(frames, WithExecuting(Asking(Query(g, kind, "none")), g), g, kind, Len(heap.requests) + 1)
      BY <2>1 DEF WithExecuting
    <2> QED BY <1>1, <1>3, <1>9, <2>1, <2>2, AskIdleStep
  <1> QED BY <1>3, <1>5, <1>6, <1>7, <1>8, <1>9 DEF Generators

-----------------------------------------------------------------------------
\* The program starts with every generator fresh.
LEMMA InitInv == Init => Inv /\ Queue!Init
  <1> SUFFICES ASSUME Init PROVE Inv /\ Queue!Init
    OBVIOUS
  <1>1. /\ heap = [gens |-> [g \in Generators |-> NewGenerator], requests |-> <<>>, jobs |-> <<>>,
                   asleep |-> [g \in Async |-> Frame("none")], waiting |-> {}]
        /\ frames = <<Frame("main")>> /\ thrown = FALSE /\ result = "running" /\ ops = 0
    BY DEF Init
  <1>2. NewGenerator \in GenType /\ ~ NewGenerator.done /\ ~ NewGenerator.started
        /\ ~ NewGenerator.executing /\ NewGenerator.queue = <<>>
    BY DEF NewGenerator, GenType
  <1>3. Frame("none") \in FrameType /\ Frame("none").k = "none"
        /\ Frame("main") \in FrameType /\ Frame("main").k = "main" /\ Frame("main").then = ""
    BY PlainFrame
  <1>4. PICK x \in GenType : x = NewGenerator
    BY <1>2
  <1>5. PICK none \in FrameType : none = Frame("none")
    BY <1>3
  <1>6. PICK main \in FrameType : main = Frame("main")
    BY <1>3
  <1>7. /\ heap \in HeapType /\ heap.requests = <<>> /\ heap.jobs = <<>> /\ heap.waiting = {}
        /\ \A g \in Generators : heap.gens[g] = x
        /\ \A g \in Async : heap.asleep[g] = none
    <2>1. <<>> \in Seq(RequestType) /\ <<>> \in Seq(JobType)
      OBVIOUS
    <2> QED BY <1>1, <1>4, <1>5, <2>1 DEF HeapType
  <1>8. frames \in Seq(FrameType) /\ DOMAIN frames = {1} /\ frames[1] = main /\ frames # <<>>
    BY <1>1, <1>6
  <1>9. Typed
    <2>1. ops \in 0..MaxOps
      BY <1>1, GeneratorsAssumption
    <2>2. thrown \in BOOLEAN /\ result \in {"running", "done", "throw", "internal", "panic"}
      BY <1>1
    <2> QED BY <2>1, <2>2, <1>7, <1>8 DEF Typed
  <1>10. \A g : /\ ~ IsBody(main, g) /\ ~ IsAnswering(main, g)
    BY <1>3, <1>6 DEF IsBody, IsAnswering
  <1>11. \A g : BodiesIn(frames, g) = {} /\ AnsweringIn(frames, g) = {}
    BY <1>8, <1>10 DEF BodiesIn, AnsweringIn
  <1>12. \A k, g : JobsIn(heap.jobs, k, g) = {}
    BY <1>7 DEF JobsIn
  <1>13. ASSUME NEW g \in Async PROVE Idle(g) /\ Life(g) /\ Woken(g) /\ Kept(g) /\ Phase(g) = "fresh" /\ Line(g) = <<>>
    <2>1. heap.gens[g] = x /\ heap.asleep[g] = none /\ g \notin heap.waiting
      BY <1>7 DEF Generators
    <2>2. ~ Asleep(g)
      BY <1>3, <1>5, <2>1 DEF Asleep
    <2>3. Idle(g)
      BY <1>2, <1>4, <1>11, <1>12, <2>1, <2>2, Holders DEF Idle
    <2>4. Woken(g)
      BY <1>12, <2>1, <2>2 DEF Woken, Resumes
    <2>5. Kept(g)
      BY <1>2, <1>4, <2>1, <2>2, NothingQueued DEF Kept
    <2>6. Phase(g) = "fresh"
      BY <1>2, <1>4, <2>1 DEF Phase
    <2>7. Line(g) = <<>>
      <3>1. Holder(g) = {} /\ heap.gens[g].queue = <<>>
        BY <1>7, <2>3, LivesHeld DEF Idle
      <3>2. <<>> \o <<>> = <<>>
        OBVIOUS
      <3> QED BY <3>1, <3>2, EmptyLine DEF Line
    <2> QED BY <2>3, <2>4, <2>5, <2>6, <2>7 DEF Life
  <1>14. \A g \in Sync : heap.gens[g].queue = <<>>
    BY <1>2, <1>4, <1>7 DEF Generators
  <1>15. Stacked(frames, Len(heap.requests)) /\ Grounded(frames)
    <2>1. \A n : Shape(main, n) /\ IsBottom(main)
      BY <1>3, <1>6 DEF Shape, IsBottom
    <2> QED BY <1>8, <2>1 DEF Stacked, Grounded
  <1>16. JobsOwned(heap.jobs, Len(heap.requests))
    BY <1>7 DEF JobsOwned
  <1>17. Remembered /\ Over
    BY <1>1, <1>7 DEF Remembered, Requests, Over
  <1>18. Inv
    BY <1>9, <1>13, <1>14, <1>15, <1>16, <1>17 DEF Inv
  <1>19. Queue!Init
    BY <1>7, <1>13 DEF Queue!Init
  <1> QED BY <1>18, <1>19

\* Every step keeps Inv, and is a step or a stutter of the abstract queue.
LEMMA InvStep == Inv /\ [Next]_vars => Inv' /\ QueueStep
  <1> SUFFICES ASSUME Inv, [Next]_vars PROVE Inv' /\ QueueStep
    OBVIOUS
  <1>1. CASE UNCHANGED vars
    <2>1. HeapQuiet /\ frames' = frames /\ result' = result
      BY <1>1 DEF vars, HeapQuiet
    <2>2. frames \in Seq(FrameType) /\ Stacked(frames, Len(heap.requests)) /\ (result = "running" => Grounded(frames))
      BY DEF Inv, Typed
    <2>3. result = "done" => frames = <<>> /\ heap.jobs = <<>>
      BY DEF Inv, Over
    <2>4. thrown' \in BOOLEAN /\ ops' \in 0..MaxOps /\ result' \in {"running", "done", "throw", "internal", "panic"}
      BY <1>1 DEF vars, Inv, Typed
    <2>5. Quiet
      BY <2>1, <2>2, <2>3, <2>4, SameStays DEF Quiet, HeapQuiet
    <2> QED BY <2>5, QuietQueue
  <1>2. CASE Call
    BY <1>2, CallStep
  <1>3. CASE Defer \/ SettleAwaited \/ Await
    BY <1>3, DeferStep, SettleAwaitedStep, AwaitStep
  <1>4. CASE PlainResume \/ ReturnFromBody \/ Yield \/ YieldDelegated
    BY <1>4, PlainResumeStep, ReturnFromBodyStep, YieldStep, YieldDelegatedStep
  <1>5. CASE Try \/ EndTry \/ EndFinally \/ Throw \/ UseLostLocal
    BY <1>5, TryQuiet, EndTryQuiet, EndFinallyQuiet, ThrowQuiet, UseLostLocalQuiet, QuietQueue
  <1>6. CASE Delegate \/ AcquireDelegate \/ TakeCompletion \/ EndMain \/ EndCallback
    BY <1>6, DelegateQuiet, AcquireDelegateQuiet, TakeCompletionQuiet, EndMainQuiet, EndCallbackQuiet, QuietQueue
  <1>7. CASE CallDelegate \/ EndDelegation \/ Unwind \/ RunJob \/ EndDrain
    BY <1>7, CallDelegateStep, EndDelegationStep, UnwindStep, RunJobStep, EndDrainStep
  <1>8. CASE Ended
    BY <1>1, <1>8 DEF Ended
  <1> QED BY <1>1, <1>2, <1>3, <1>4, <1>5, <1>6, <1>7, <1>8 DEF Next

-----------------------------------------------------------------------------
\* Inv holds in every state: whatever the interleaving of bodies, awaits,
\* callbacks and drains of the job queue, an async generator that is executing
\* has one life, which has its oldest unanswered request in hand.
THEOREM Inductive == Spec => []Inv
  <1>1. Init => Inv
    BY InitInv
  <1>2. Inv /\ [Next]_vars => Inv'
    BY InvStep
  <1> QED BY <1>1, <1>2, PTL DEF Spec

\* The invariant gives TypeOK of GeneratorPromises.
LEMMA InvTypes == Inv => TypeOK
  <1> SUFFICES ASSUME Inv PROVE TypeOK
    OBVIOUS
  <1>1. /\ heap \in HeapType /\ frames \in Seq(FrameType) /\ Requests = 1..Len(heap.requests)
        /\ heap.requests \in Seq(RequestType) /\ Stacked(frames, Len(heap.requests)) /\ heap.waiting \subseteq Async
    BY InvParts, HeapFields
  <1>2. ASSUME NEW g \in Generators
        PROVE  /\ {heap.gens[g].done, heap.gens[g].started, heap.gens[g].executing,
                   heap.gens[g].delegate, heap.gens[g].locals} \subseteq BOOLEAN
               /\ heap.gens[g].at \in {"code", "star"}
               /\ ToSet(heap.gens[g].queue) \subseteq Requests
    <2>1. /\ {heap.gens[g].done, heap.gens[g].started, heap.gens[g].executing,
              heap.gens[g].delegate, heap.gens[g].locals} \subseteq BOOLEAN
          /\ heap.gens[g].at \in {"code", "star"}
      BY <1>1, GenFields
    <2>2. CASE g \in Async
      BY <2>1, <2>2, InvParts DEF Kept
    <2>3. CASE g \in Sync
      BY <2>1, <2>3, NothingQueued DEF Inv
    <2> QED BY <2>2, <2>3 DEF Generators
  <1>3. ASSUME NEW r \in Requests PROVE heap.requests[r].answer \in {"none", "value", "done", "error"}
    <2>1. heap.requests[r] \in RequestType
      BY <1>1
    <2> QED BY <2>1 DEF RequestType
  <1>4. ASSUME NEW i \in DOMAIN frames, frames[i].k = "body"
        PROVE  IF frames[i].g \in Async THEN frames[i].r \in Requests ELSE frames[i].r = 0
    <2>1. Shape(frames[i], Len(heap.requests))
      BY <1>1 DEF Stacked
    <2> QED BY <2>1, <1>1, <1>4 DEF Shape, Generators
  <1>5. /\ thrown \in BOOLEAN /\ ops \in 0..MaxOps
        /\ result \in {"running", "done", "throw", "internal", "panic"}
    BY DEF Inv, Typed
  <1> QED BY <1>1, <1>2, <1>3, <1>4, <1>5 DEF TypeOK

\* Every variable of the interpreter's generators and jobs keeps its type,
\* for every set of generators and every number of operations.
THEOREM Types == Spec => []TypeOK
  BY Inductive, InvTypes, PTL

\* The invariant gives BusyOnce.
LEMMA InvBusyOnce == Inv => BusyOnce
  <1> SUFFICES ASSUME Inv, NEW g \in Async
               PROVE  /\ Cardinality(Bodies(g)) + Cardinality(Answering(g)) + Cardinality(Queued(g))
                           + (IF heap.asleep[g].k = "body" THEN 1 ELSE 0)
                         = IF heap.gens[g].executing THEN 1 ELSE 0
                      /\ heap.gens[g].done => Bodies(g) = {} /\ heap.asleep[g].k # "body"
                      /\ heap.gens[g].queue # <<>> => heap.gens[g].executing
    BY DEF BusyOnce
  <1>1. Life(g)
    BY InvParts
  <1>2. Cardinality({}) = 0 /\ \A S : One(S) => Cardinality(S) = 1
    BY FS_EmptySet, FS_Singleton DEF One
  <1>3. CASE Idle(g)
    BY <1>2, <1>3 DEF Idle, Asleep
  <1>4. CASE Busy(g)
    <2>1. heap.gens[g].executing /\ heap.gens[g].done => Bodies(g) = {} /\ heap.asleep[g].k # "body"
      BY <1>4 DEF Busy, Asleep
    <2>2. Cardinality(Bodies(g)) + Cardinality(Answering(g)) + Cardinality(Queued(g))
            + (IF heap.asleep[g].k = "body" THEN 1 ELSE 0) = 1
      BY <1>2, <1>4 DEF Busy, Asleep
    <2> QED BY <2>1, <2>2, <1>4 DEF Busy
  <1> QED BY <1>1, <1>3, <1>4 DEF Life

\* The executing flag of an async generator is up for exactly one body, answer or
\* job: checkout_generator, drain_jobs and finish_async_generator_request
\* never resume a generator that is running or waiting already, and a closed one has
\* no body left.
THEOREM OneLife == Spec => []BusyOnce
  BY Inductive, InvBusyOnce, PTL

\* The invariant gives NoneForgotten.
LEMMA InvNoneForgotten == Inv => NoneForgotten
  <1> SUFFICES ASSUME Inv, result = "done", NEW r \in Requests, heap.requests[r].answer = "none"
               PROVE  heap.requests[r].g \in heap.waiting
    BY DEF NoneForgotten
  <1>1. frames = <<>> /\ heap.jobs = <<>>
    BY DEF Inv, Over
  <1>2. heap.requests[r] \in RequestType
    BY InvParts
  <1>3. PICK g \in Async : g = heap.requests[r].g
    BY <1>2 DEF RequestType
  <1>4. r \in Holder(g) \cup ToSet(heap.gens[g].queue)
    BY <1>3 DEF Inv, Remembered
  <1>5. Life(g) /\ Woken(g) /\ heap \in HeapType
    BY InvParts
  <1>6. ~ Idle(g)
    <2> SUFFICES ASSUME Idle(g) PROVE FALSE
      OBVIOUS
    <2>1. Holder(g) = {} /\ heap.gens[g].queue = <<>>
      BY <1>5, LivesHeld DEF Idle
    <2> QED BY <2>1, <1>4, NothingQueued
  <1>7. Bodies(g) = {} /\ Answering(g) = {} /\ Queued(g) = {} /\ Resumes(g) = {}
    BY <1>1 DEF Bodies, Answering, Queued, Resumes, JobsIn
  <1>8. Asleep(g)
    BY <1>5, <1>6, <1>7 DEF Life, Busy, One
  <1>9. g \in heap.waiting
    BY <1>5, <1>7, <1>8 DEF Woken, One
  <1> QED BY <1>3, <1>9

\* When the run ends, every request of an async generator was answered or its
\* generator awaits a promise nobody settled: begin_async_generator_request and
\* finish_async_generator_request lose none.
THEOREM EveryRequestAnswered == Spec => []NoneForgotten
  BY Inductive, InvNoneForgotten, PTL

\* The generators implement the abstract queue of requests (RequestQueue): each
\* step of the interpreter asks one request, answers the oldest one of a generator,
\* or is invisible to whoever asks.
THEOREM Refinement == Spec => RequestsInLine
  <1>1. Init => Queue!Init
    BY InitInv
  <1>2. Inv /\ [Next]_vars => [Queue!Next]_(Queue!vars)
    BY InvStep DEF QueueStep
  <1> QED BY <1>1, <1>2, Inductive, PTL DEF Spec, RequestsInLine, Queue!Spec
=============================================================================
