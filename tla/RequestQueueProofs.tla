------------------------- MODULE RequestQueueProofs -------------------------
(***************************************************************************)
(* The line of an async generator is exactly its unanswered requests in    *)
(* the order they were made, so a request can be answered before an older  *)
(* one only by a generator that is closed.                                 *)
(***************************************************************************)
EXTENDS RequestQueue, TLAPS

RequestType == [g : Generators, kind : Kinds, answer : Answers]

TypeInv ==
    /\ phase \in [Generators -> {"fresh", "open", "closed"}]
    /\ line \in [Generators -> Seq(Nat)]
    /\ requests \in Seq(RequestType)

Unanswered(g) == {r \in DOMAIN requests : requests[r].g = g /\ requests[r].answer = "none"}

LineIsUnanswered(g) ==
    /\ \A i \in DOMAIN line[g] : line[g][i] \in Unanswered(g)
    /\ \A r \in Unanswered(g) : \E i \in DOMAIN line[g] : line[g][i] = r
    /\ \A i, j \in DOMAIN line[g] : i < j => line[g][i] < line[g][j]

Overtakes(r, q) ==
    /\ q < r /\ requests[q].g = requests[r].g
    /\ requests[q].answer = "none" /\ requests[r].answer # "none"

\* A request overtakes an older one only at a closed generator: the promise of
\* the request queue (begin_async_generator_request queues what comes while the
\* generator is busy, finish_async_generator_request takes the oldest).
InOrder == \A q, r \in DOMAIN requests : Overtakes(r, q) => phase[requests[r].g] = "closed"

Inv == TypeInv /\ (\A g \in Generators : LineIsUnanswered(g)) /\ InOrder

-----------------------------------------------------------------------------
LEMMA RequestOfGenerator ==
    ASSUME requests \in Seq(RequestType), NEW r \in DOMAIN requests
    PROVE  requests[r] \in RequestType /\ requests[r].g \in Generators
  <1>1. requests[r] \in RequestType
    OBVIOUS
  <1> QED BY <1>1 DEF RequestType

LEMMA AnswerOne ==
    ASSUME requests \in Seq(RequestType), NEW a \in DOMAIN requests, NEW answer \in Answers,
           requests' = [requests EXCEPT ![a].answer = answer]
    PROVE  /\ requests' \in Seq(RequestType) /\ DOMAIN requests' = DOMAIN requests
           /\ requests'[a] = [requests[a] EXCEPT !.answer = answer]
           /\ \A r \in DOMAIN requests : r # a => requests'[r] = requests[r]
  <1> DEFINE new == [requests[a] EXCEPT !.answer = answer]
  <1>1. requests[a] \in RequestType
    OBVIOUS
  <1>2. new \in RequestType
    BY <1>1 DEF RequestType
  <1>3. requests' = [requests EXCEPT ![a] = new]
    OBVIOUS
  <1> HIDE DEF new
  <1>4. requests' \in Seq(RequestType) /\ DOMAIN requests' = DOMAIN requests
        /\ requests'[a] = new /\ \A r \in DOMAIN requests : r # a => requests'[r] = requests[r]
    BY <1>2, <1>3
  <1> QED BY <1>4 DEF new

LEMMA InitInv == Init => Inv
  BY DEF Init, Inv, TypeInv, LineIsUnanswered, Unanswered, InOrder

LEMMA AskOpenInv ==
    ASSUME Inv, NEW g \in Generators, NEW kind \in Kinds, AskOpen(g, kind)
    PROVE  Inv'
  <1> DEFINE n == Len(requests) + 1
  <1>1. requests' = Append(requests, Request(g, kind, "none")) /\ Request(g, kind, "none") \in RequestType
    BY DEF AskOpen, Request, RequestType, Answers
  <1>2. requests \in Seq(RequestType) /\ n \in Nat
    BY DEF Inv, TypeInv
  <1>3. TypeInv'
    BY <1>1, <1>2 DEF AskOpen, Inv, TypeInv
  <1>4. /\ DOMAIN requests' = 1..n /\ DOMAIN requests = 1..(n - 1)
        /\ \A r \in DOMAIN requests : requests'[r] = requests[r]
        /\ requests'[n] = Request(g, kind, "none")
    BY <1>1, <1>2
  <1>5. \A h \in Generators : Unanswered(h)' = IF h = g THEN Unanswered(h) \cup {n} ELSE Unanswered(h)
    BY <1>4, <1>2 DEF Unanswered, Request
  <1>6. ASSUME NEW h \in Generators PROVE LineIsUnanswered(h)'
    <2>1. CASE h # g
      BY <2>1, <1>5 DEF AskOpen, Inv, TypeInv, LineIsUnanswered
    <2>2. CASE h = g
      <3>1. line[g] \in Seq(Nat) /\ line'[g] = Append(line[g], n)
        BY DEF AskOpen, Inv, TypeInv
      <3>2. /\ DOMAIN line'[g] = 1..(Len(line[g]) + 1) /\ DOMAIN line[g] = 1..Len(line[g])
            /\ \A i \in DOMAIN line[g] : line'[g][i] = line[g][i]
            /\ line'[g][Len(line[g]) + 1] = n /\ Len(line[g]) \in Nat
        BY <3>1, <1>2
      <3>3. \A i \in DOMAIN line[g] : line[g][i] < n
        BY <1>4, <1>2 DEF Inv, LineIsUnanswered, Unanswered
      <3>4. \A i \in DOMAIN line'[g] : line'[g][i] \in Unanswered(g)'
        BY <3>2, <1>5 DEF Inv, LineIsUnanswered
      <3>5. \A r \in Unanswered(g)' : \E i \in DOMAIN line'[g] : line'[g][i] = r
        BY <3>2, <1>5 DEF Inv, LineIsUnanswered
      <3>6. \A i, j \in DOMAIN line'[g] : i < j => line'[g][i] < line'[g][j]
        BY <3>2, <3>3 DEF Inv, LineIsUnanswered
      <3> QED BY <2>2, <3>4, <3>5, <3>6 DEF LineIsUnanswered
    <2> QED BY <2>1, <2>2
  <1>7. InOrder'
    <2> SUFFICES ASSUME NEW q \in DOMAIN requests', NEW r \in DOMAIN requests', Overtakes(r, q)'
                 PROVE  phase'[requests'[r].g] = "closed"
      BY DEF InOrder
    <2>1. r # n /\ q < r
      BY <1>4 DEF Overtakes, Request
    <2>2. q \in DOMAIN requests /\ r \in DOMAIN requests
      BY <2>1, <1>4, <1>2
    <2>3. phase[requests[r].g] = "closed"
      BY <2>2, <1>4 DEF Overtakes, Inv, InOrder
    <2>4. requests[r].g \in Generators
      BY <2>2, <1>2, RequestOfGenerator
    <2> QED BY <2>2, <2>3, <2>4, <1>4 DEF AskOpen, Inv, TypeInv
  <1> QED BY <1>3, <1>6, <1>7 DEF Inv

LEMMA AskClosedInv ==
    ASSUME Inv, NEW g \in Generators, NEW kind \in Kinds, AskClosed(g, kind)
    PROVE  Inv'
  <1> DEFINE n == Len(requests) + 1
             new == Request(g, kind, Closing(kind))
  <1>1. requests' = Append(requests, new) /\ new \in RequestType /\ new.answer # "none" /\ new.g = g
    BY DEF AskClosed, Request, RequestType, Answers, Closing
  <1>2. requests \in Seq(RequestType) /\ n \in Nat
    BY DEF Inv, TypeInv
  <1>3. TypeInv'
    BY <1>1, <1>2 DEF AskClosed, Inv, TypeInv
  <1> HIDE DEF new
  <1>4. /\ DOMAIN requests' = 1..n /\ DOMAIN requests = 1..(n - 1)
        /\ \A r \in DOMAIN requests : requests'[r] = requests[r]
        /\ requests'[n] = new
    BY <1>1, <1>2
  <1>5. \A h \in Generators : Unanswered(h)' = Unanswered(h)
    BY <1>4, <1>2, <1>1 DEF Unanswered
  <1>6. \A h \in Generators : LineIsUnanswered(h)'
    BY <1>5 DEF AskClosed, Inv, LineIsUnanswered
  <1>7. InOrder'
    <2> SUFFICES ASSUME NEW q \in DOMAIN requests', NEW r \in DOMAIN requests', Overtakes(r, q)'
                 PROVE  phase'[requests'[r].g] = "closed"
      BY DEF InOrder
    <2>1. CASE r = n
      BY <2>1, <1>4, <1>1 DEF AskClosed, Inv, TypeInv
    <2>2. CASE r # n
      <3>1. q \in DOMAIN requests /\ r \in DOMAIN requests
        BY <2>2, <1>4, <1>2 DEF Overtakes
      <3>2. phase[requests[r].g] = "closed"
        BY <3>1, <1>4 DEF Overtakes, Inv, InOrder
      <3>3. requests[r].g \in Generators
        BY <3>1, <1>2, RequestOfGenerator
      <3> QED BY <3>1, <3>2, <3>3, <1>4 DEF AskClosed, Inv, TypeInv
    <2> QED BY <2>1, <2>2
  <1> QED BY <1>3, <1>6, <1>7 DEF Inv

LEMMA AnswerInv ==
    ASSUME Inv, NEW g \in Generators, Answer(g)
    PROVE  Inv'
  <1> DEFINE s == line[g]
             a == Head(s)
  <1>1. s \in Seq(Nat) /\ s # <<>> /\ a = s[1] /\ Len(s) \in Nat \ {0} /\ 1 \in DOMAIN s /\ DOMAIN s = 1..Len(s)
    BY DEF Answer, Inv, TypeInv
  <1>2. a \in Unanswered(g)
    BY <1>1 DEF Inv, LineIsUnanswered
  <1>3. PICK answer \in Answers \ {"none"} :
          /\ requests' = [requests EXCEPT ![a].answer = answer]
          /\ phase' = [phase EXCEPT ![g] = IF answer = "value" THEN @ ELSE "closed"]
    BY DEF Answer
  <1>4. requests \in Seq(RequestType) /\ a \in DOMAIN requests
    BY <1>2 DEF Inv, TypeInv, Unanswered
  <1>5. /\ requests' \in Seq(RequestType) /\ DOMAIN requests' = DOMAIN requests
        /\ requests'[a] = [requests[a] EXCEPT !.answer = answer]
        /\ \A r \in DOMAIN requests : r # a => requests'[r] = requests[r]
    BY <1>3, <1>4, AnswerOne
  <1>6. \A r \in DOMAIN requests :
            requests'[r].g = requests[r].g /\ requests[r].g \in Generators
    <2> TAKE r \in DOMAIN requests
    <2>1. requests[r] \in RequestType /\ requests[a] \in RequestType /\ requests[r].g \in Generators
      BY <1>4, RequestOfGenerator
    <2> QED BY <2>1, <1>5 DEF RequestType
  <1>7. requests[a].g = g /\ requests'[a].answer # "none"
    <2>1. requests[a] \in RequestType
      BY <1>4
    <2> QED BY <2>1, <1>2, <1>3, <1>5 DEF Unanswered, RequestType
  <1> HIDE DEF a
  <1>8. line' = [line EXCEPT ![g] = Tail(s)]
    BY DEF Answer
  <1>9. /\ Tail(s) \in Seq(Nat) /\ DOMAIN Tail(s) = 1..(Len(s) - 1)
        /\ \A i \in DOMAIN Tail(s) : Tail(s)[i] = s[i + 1] /\ i + 1 \in DOMAIN s
    BY <1>1
  <1>10. TypeInv'
    BY <1>3, <1>5, <1>8, <1>9 DEF Inv, TypeInv
  <1>11. \A h \in Generators : Unanswered(h)' = Unanswered(h) \ {a}
    BY <1>5, <1>6, <1>7 DEF Unanswered
  <1>12. ASSUME NEW h \in Generators PROVE LineIsUnanswered(h)'
    <2>1. CASE h # g
      <3>1. a \notin Unanswered(h)
        BY <2>1, <1>7 DEF Unanswered
      <3> QED BY <2>1, <3>1, <1>11, <1>8 DEF Inv, TypeInv, LineIsUnanswered
    <2>2. CASE h = g
      <3>1. line'[g] = Tail(s)
        BY <1>8 DEF Inv, TypeInv
      <3>2. /\ \A i \in DOMAIN s : s[i] \in Unanswered(g)
            /\ \A r \in Unanswered(g) : \E i \in DOMAIN s : s[i] = r
            /\ \A i, j \in DOMAIN s : i < j => s[i] < s[j]
        BY DEF Inv, LineIsUnanswered
      <3>3. \A i \in DOMAIN s : s[i] \in Nat
        BY <1>1
      <3> HIDE DEF s
      <3>4. \A i \in DOMAIN Tail(s) : Tail(s)[i] \in Unanswered(g)'
        <4> TAKE i \in DOMAIN Tail(s)
        <4>1. i \in Nat /\ 1 < i + 1 /\ i + 1 \in DOMAIN s /\ Tail(s)[i] = s[i + 1]
          BY <1>9, <1>1
        <4>2. s[1] < s[i + 1] /\ s[1] \in Nat /\ s[i + 1] \in Nat
          BY <4>1, <1>1, <3>2, <3>3
        <4>3. s[i + 1] # a
          BY <4>2, <1>1
        <4> QED BY <4>1, <4>3, <3>2, <1>11
      <3>5. \A r \in Unanswered(g)' : \E i \in DOMAIN Tail(s) : Tail(s)[i] = r
        <4> TAKE r \in Unanswered(g)'
        <4>1. PICK j \in DOMAIN s : s[j] = r
          BY <3>2, <1>11
        <4>2. j # 1 /\ r # a
          BY <4>1, <1>1, <1>11
        <4>3. j - 1 \in DOMAIN Tail(s) /\ (j - 1) + 1 = j
          BY <4>1, <4>2, <1>1, <1>9
        <4> QED BY <4>1, <4>3, <1>9
      <3>6. \A i, j \in DOMAIN Tail(s) : i < j => Tail(s)[i] < Tail(s)[j]
        BY <1>9, <3>2, <1>1
      <3> QED BY <2>2, <3>1, <3>4, <3>5, <3>6 DEF LineIsUnanswered
    <2> QED BY <2>1, <2>2
  <1>13. InOrder'
    <2> SUFFICES ASSUME NEW q \in DOMAIN requests', NEW r \in DOMAIN requests', Overtakes(r, q)'
                 PROVE  phase'[requests'[r].g] = "closed"
      BY DEF InOrder
    <2>1. q \in DOMAIN requests /\ r \in DOMAIN requests /\ q # a
      BY <1>5, <1>7 DEF Overtakes
    <2>2. CASE r = a
      <3>1. q \in Unanswered(g) /\ q < s[1]
        BY <2>1, <2>2, <1>1, <1>5, <1>6, <1>7 DEF Overtakes, Unanswered
      <3>2. PICK i \in DOMAIN s : s[i] = q
        BY <3>1 DEF Inv, LineIsUnanswered
      <3>3. i = 1 \/ 1 < i
        BY <1>1
      <3>4. s[1] = q \/ s[1] < q
        BY <3>2, <3>3, <1>1 DEF Inv, LineIsUnanswered
      <3>5. q \in Nat /\ s[1] \in Nat
        BY <3>2, <1>1
      <3> HIDE DEF s
      <3> QED BY <3>1, <3>4, <3>5
    <2>3. CASE r # a
      <3>1. phase[requests[r].g] = "closed"
        BY <2>1, <2>3, <1>5, <1>6 DEF Overtakes, Inv, InOrder
      <3> QED BY <3>1, <2>1, <1>3, <1>6 DEF Inv, TypeInv
    <2> QED BY <2>2, <2>3
  <1> QED BY <1>10, <1>12, <1>13 DEF Inv

LEMMA StepInv == Inv /\ [Next]_vars => Inv'
  <1> SUFFICES ASSUME Inv, [Next]_vars PROVE Inv'
    OBVIOUS
  <1>1. ASSUME NEW g \in Generators, Answer(g) PROVE Inv'
    BY <1>1, AnswerInv
  <1>2. ASSUME NEW g \in Generators, NEW kind \in Kinds, AskOpen(g, kind) PROVE Inv'
    BY <1>2, AskOpenInv
  <1>3. ASSUME NEW g \in Generators, NEW kind \in Kinds, AskClosed(g, kind) PROVE Inv'
    BY <1>3, AskClosedInv
  <1>4. CASE UNCHANGED vars
    BY <1>4 DEF vars, Inv, TypeInv, LineIsUnanswered, Unanswered, InOrder, Overtakes
  <1> QED BY <1>1, <1>2, <1>3, <1>4 DEF Next

\* A request is answered before an older one only by a closed generator: what
\* async generators promise, for any number of generators and requests.
THEOREM RequestsAnsweredInOrder == Spec => []InOrder
  <1>1. Inv => InOrder
    BY DEF Inv
  <1> QED BY InitInv, StepInv, <1>1, PTL DEF Spec
=============================================================================
