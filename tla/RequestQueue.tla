---------------------------- MODULE RequestQueue ----------------------------
(***************************************************************************)
(* What an async generator promises its callers: requests wait in line and *)
(* are answered once each, in the order they were made, until the          *)
(* generator has been closed.  A generator that is closed, or that is      *)
(* closed before it ever ran, answers on the spot, so a request made then  *)
(* may overtake those still in line.                                       *)
(***************************************************************************)
EXTENDS Integers, Sequences

CONSTANT Generators

VARIABLES
    phase,      \* generator -> "fresh", "open" or "closed"
    line,       \* generator -> its unanswered requests, oldest first
    requests    \* every request made: [g, kind, answer]

vars == <<phase, line, requests>>

Kinds   == {"next", "return", "throw"}
Answers == {"none", "value", "done", "error"}
Request(g, kind, answer) == [g |-> g, kind |-> kind, answer |-> answer]

\* What a closed generator answers.
Closing(kind) == IF kind = "throw" THEN "error" ELSE "done"

-----------------------------------------------------------------------------
Init ==
    /\ phase = [g \in Generators |-> "fresh"]
    /\ line = [g \in Generators |-> <<>>]
    /\ requests = <<>>

AskOpen(g, kind) ==
    /\ phase[g] = "open" \/ (phase[g] = "fresh" /\ kind = "next")
    /\ phase' = [phase EXCEPT ![g] = "open"]
    /\ line' = [line EXCEPT ![g] = Append(@, Len(requests) + 1)]
    /\ requests' = Append(requests, Request(g, kind, "none"))

AskClosed(g, kind) ==
    /\ phase[g] = "closed" \/ (phase[g] = "fresh" /\ kind # "next")
    /\ phase' = [phase EXCEPT ![g] = "closed"]
    /\ requests' = Append(requests, Request(g, kind, Closing(kind)))
    /\ UNCHANGED line

\* The oldest request is answered: a value leaves the generator open.
Answer(g) ==
    /\ line[g] # <<>>
    /\ line' = [line EXCEPT ![g] = Tail(@)]
    /\ \E answer \in Answers \ {"none"} :
        /\ phase[g] = "closed" => answer = Closing(requests[Head(line[g])].kind)
        /\ requests' = [requests EXCEPT ![Head(line[g])].answer = answer]
        /\ phase' = [phase EXCEPT ![g] = IF answer = "value" THEN @ ELSE "closed"]

Next == \E g \in Generators : Answer(g) \/ \E kind \in Kinds : AskOpen(g, kind) \/ AskClosed(g, kind)
Spec == Init /\ [][Next]_vars
=============================================================================
