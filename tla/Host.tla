-------------------------------- MODULE Host --------------------------------
(***************************************************************************)
(* The world a program runs in: every function, object and iterator it did *)
(* not make itself.  What the host answers is chosen when it is asked, and *)
(* each answer is a value of its own, so two answers are never confused.   *)
(***************************************************************************)
EXTENDS Bytecode

NoValue == Val("none", "", 0, <<>>)
TypeError      == Val("error", "TypeError", 0, <<>>)
ReferenceError == Val("error", "ReferenceError", 0, <<>>)

Primitive    == {"undefined", "null", "bool", "str", "num", "op", "key", "none"}
IsObject(v)  == v.t \notin Primitive
ToKey(v)     == IF v.t = "str" THEN v ELSE Val("key", "", 0, <<v>>)
IsForeign(v) == v.t \in {"ext", "answer"}

\* What a program shows of a value: functions only by name.
RECURSIVE Shown(_)
Shown(v) == Val(v.t, v.s, IF v.t = "fn" THEN 0 ELSE v.n, [i \in DOMAIN v.vs |-> Shown(v.vs[i])])
Event(kind, vs) == [kind |-> kind, vs |-> [i \in DOMAIN vs |-> Shown(vs[i])]]

\* The n-th answer, when the host is asked to do `kind` and outcome o is chosen.
Answer(kind, o, n, vs) ==
    CASE o = "throw"         -> Val("error", "host", n, <<>>)
      [] kind = "next"       -> Val("result", o, n, IF o = "value" THEN <<Val("answer", "", n, <<>>)>> ELSE <<>>)
      [] kind = "keys"       -> Arr(IF o = "value" THEN <<Str("k"), Str("l")>> ELSE <<>>)
      [] kind = "iterate"    -> Val("iterator", "", n, vs)
      [] kind \in {"has", "delete", "private in"} -> Bool(o = "value")
      [] o = "false"         -> Bool(FALSE)
      [] o = "null"          -> Null
      [] o = "undefined"     -> Undef
      [] OTHER               -> Val("answer", "", n, <<>>)

\* A program names the outcomes it is to be run under; the last is the one the
\* host settles on after `bound` answers, so that every run ends.
Settled(kind) == IF kind \in {"next", "keys"} THEN <<"done">> ELSE <<"value">>
Outcomes(choose, kind, asked, bound) ==
    LET outcomes == IF kind \in DOMAIN choose THEN choose[kind] ELSE Settled(kind)
    IN IF asked < bound THEN ToSet(outcomes) ELSE {Last(outcomes)}
=============================================================================
