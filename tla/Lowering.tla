----------------------------- MODULE Lowering -----------------------------
(***************************************************************************)
(* The lowering of a program to bytecode (js-bytecode::compiler).          *)
(*                                                                         *)
(* What the compiler emits for each construct is written as a template: a  *)
(* sequence of parts, in the order the code emits them.  A part is an      *)
(* instruction, a jump to a label, a label, a temporary slot, or a nested  *)
(* construct.  Asm runs a template on the compiler's state, and patches    *)
(* the template's jumps once its labels are known.                         *)
(***************************************************************************)
EXTENDS Bytecode, SyntaxTree

Part(p, a, b) == [p |-> p, a |-> a, b |-> b]
Op(o)          == Part("op", o, 0)
OpN(o, n)      == Part("op", o, n)
OpM(o, m)      == Part("marked", o, m)        \* the operand is the number marked m
OpC(o, v)      == Part("constant", o, v)      \* the operand is the constant v
Const(v)       == OpC("LdaConst", v)
Jump(o, l)     == Part("jump", o, l)
Label(l)       == Part("label", l, 0)
Slot(m, x)     == Part("slot", m, x)          \* m marks the slot reserved for x
Temp(m, why)   == Part("temp", m, why)        \* m marks a slot of its own
Lda(m)         == OpM("LdaLocal", m)
Sta(m)         == OpM("StaLocal", m)
E(e)           == Part("expr", e, 0)
S(s)           == Part("stmt", s, <<FALSE, <<>>>>)
Bind(p)        == Part("bind", p, 0)
AssignTo(p)    == Part("assign", p, 0)
Named(e, x)    == Part("named", e, x)         \* NamedEvaluation
Fail(why)      == Part("error", why, 0)

-----------------------------------------------------------------------------
\* Names.  What a reference costs depends on what it resolves to; inside a
\* `with` the name may be the object's, and is looked up when it is used.
Load(x)  == Part("name", x, [Local |-> <<"LdaLocal">>, Upvalue |-> <<"LdaUpvalue">>,
                             Global |-> <<"GetGlobal">>, Dynamic |-> <<"GetName">>])
Store(x) == Part("name", x, [Local |-> <<"StaLocal">>, Upvalue |-> <<"StaUpvalue">>,
                             Global |-> <<"SetGlobal">>, Dynamic |-> <<"SetName">>])
\* A declaration initialises its own binding, whatever the objects hold.
Initialise(x) == Part("name", x, [Local |-> <<"StaLocal">>, Upvalue |-> <<"StaUpvalue">>,
                                  Global |-> <<"SetGlobal">>])
TypeofName(x) == Part("name", x, [Local |-> <<"LdaLocal", "Typeof">>,
                                  Upvalue |-> <<"LdaUpvalue", "Typeof">>,
                                  Global |-> IF x = "undefined" THEN <<"LdaUndefined", "Typeof">>
                                             ELSE <<"TypeofGlobal">>,
                                  Dynamic |-> <<"TypeofName">>])
DeleteName(x) == Part("name", x, [Local |-> <<"LdaFalse">>, Upvalue |-> <<"LdaFalse">>,
                                  Global |-> <<"DeleteGlobal">>, Dynamic |-> <<"DeleteName">>])
PrivateOp(o, x) == Part("private", o, x)

\* u16::MAX as an operand: every argument of the caller, or no static request.
AllArguments == 65535
Unresolved   == 65535

NewScope == [locals |-> <<>>, ups |-> <<>>]
Upvalue(x, local, n) == [name |-> x, local |-> local, n |-> n]
UpvalueOf(ups, x) == SelectInSeq(ups, LAMBDA u : u.name = x)

\* Registers an upvalue once; its index is UpvalueOf(ups, x).
AddUpvalue(ups, u) == IF UpvalueOf(ups, u.name) # 0 THEN ups ELSE Append(ups, u)

\* The nearest enclosing function that declares x lends its slot to the
\* function inside it, and every function further in captures that upvalue.
RECURSIVE ResolveUpvalue(_, _, _)
ResolveUpvalue(x, scopes, i) ==
    IF x \in DOMAIN scopes[i - 1].locals
    THEN [scopes EXCEPT ![i].ups = AddUpvalue(@, Upvalue(x, TRUE, scopes[i - 1].locals[x]))]
    ELSE LET outer == ResolveUpvalue(x, scopes, i - 1)
         IN [outer EXCEPT ![i].ups = AddUpvalue(@, Upvalue(x, FALSE, UpvalueOf(outer[i - 1].ups, x)))]

Resolution(scopes, kind, n) == [scopes |-> scopes, kind |-> kind, n |-> n]
CapturedIn(scopes, x) == Resolution(scopes, "Upvalue", UpvalueOf(Last(scopes).ups, x))
ResolveVar(x, scopes) ==
    LET owner == SelectLastInSeq(scopes, LAMBDA s : x \in DOMAIN s.locals) IN
    CASE owner = Len(scopes) -> Resolution(scopes, "Local", scopes[owner].locals[x])
      [] owner = 0           -> Resolution(scopes, "Global", 0)
      [] OTHER               -> CapturedIn(ResolveUpvalue(x, scopes, Len(scopes)), x)

\* Inside a `with` of this function every name is dynamic; inside one of an
\* enclosing function, every name but the function's own locals.
UsesDynamicName(st, kind) ==
    st.withDepth > 0 /\ (st.withDepth > Last(st.bases) \/ kind # "Local")

DeclareLocal(st, x) ==
    LET locals == Intern(st.f.locals, x)
        top    == Len(st.scopes)
    IN IF x \in DOMAIN st.scopes[top].locals THEN st
       ELSE [st EXCEPT !.f.locals = locals,
                       !.scopes[top].locals = (x :> SlotOf(locals, x)) @@ @]
RECURSIVE DeclareAll(_, _)
DeclareAll(st, xs) == IF xs = <<>> THEN st ELSE DeclareAll(DeclareLocal(st, Head(xs)), Tail(xs))

\* A closure retains every binding in sight, mentioned or not: a direct eval
\* inside it may name any of them.
RECURSIVE Capture(_, _)
Capture(scopes, xs) ==
    IF xs = {} THEN scopes
    ELSE LET x == CHOOSE y \in xs : TRUE IN Capture(ResolveVar(x, scopes).scopes, xs \ {x})
\* Mutant: a closure retains the bindings of the function around it only.
CaptureParent(st) ==
    LET top == Len(st.scopes)
    IN [st EXCEPT !.scopes = Capture(@, IF top = 1 THEN {} ELSE
            DOMAIN st.scopes[top - 1].locals \ DOMAIN st.scopes[top].locals)]
CaptureVisible(st) ==
    LET top     == Len(st.scopes)
        visible == UNION {DOMAIN st.scopes[i].locals
                          \cup {st.scopes[i].ups[j].name : j \in DOMAIN st.scopes[i].ups}
                          : i \in 1..(top - 1)}
        own     == DOMAIN st.scopes[top].locals
    IN [st EXCEPT !.scopes = Capture(@, visible \ own)]

InvalidBrand == 0
Brand(st, x) ==
    LET i == SelectLastInSeq(st.privates, LAMBDA s : x \in DOMAIN s)
    IN IF i = 0 THEN InvalidBrand ELSE st.privates[i][x]
PrivateName(id, x) == Val("private", x, id, <<>>)

-----------------------------------------------------------------------------
\* The names a pattern and a statement bind: all of a function's bindings are
\* declared before its body is compiled, blocks included.
RECURSIVE PatNames(_), PatsNames(_)
PatNames(p) ==
    CASE p.k = "id" -> <<p.x>>
      [] p.k \in {"default", "rest", "prop"} -> PatNames(p.p)
      [] p.k \in {"array pattern", "object pattern"} -> PatsNames(p.ps)
      [] OTHER -> <<>>
PatsNames(ps) == IF ps = <<>> THEN <<>> ELSE PatNames(Head(ps)) \o PatsNames(Tail(ps))

DefaultLocal == "*default*"
LocalName(name) == IF name = "" THEN DefaultLocal ELSE name
RECURSIVE StmtNames(_), BodyNames(_)
StmtNames(s) ==
    CASE s.k = "block" -> BodyNames(s.body)
      [] s.k = "decl"  -> PatsNames([i \in DOMAIN s.decls |-> s.decls[i][1]])
      [] s.k = "function decl" -> <<LocalName(s.fn.name)>>
      [] s.k = "class decl" -> <<LocalName(s.c.name)>>
      [] s.k = "default" -> IF IsDeclaration(s.e) THEN StmtNames(s.e) ELSE <<DefaultLocal>>
      [] s.k = "import" -> s.xs
      [] s.k = "export" -> StmtNames(s.s)
      [] s.k = "if" -> StmtNames(s.a) \o StmtNames(s.b)
      [] s.k \in {"while", "do", "labeled", "with"} -> StmtNames(s.s)
      [] s.k = "for" -> StmtNames(s.init) \o StmtNames(s.s)
      [] s.k \in {"for of", "for in"} -> When(Declares(s), PatNames(s.p)) \o StmtNames(s.s)
      [] s.k = "switch" -> BodyNames(FlattenSeq([i \in DOMAIN s.cases |-> s.cases[i].body]))
      [] s.k = "try" -> BodyNames(s.body) \o StmtNames(s.handler) \o StmtNames(s.final)
      [] s.k = "catch" -> PatNames(s.p) \o BodyNames(s.body)
      [] OTHER -> <<>>
BodyNames(body) == IF body = <<>> THEN <<>> ELSE StmtNames(Head(body)) \o BodyNames(Tail(body))

-----------------------------------------------------------------------------
\* Expressions: each template leaves exactly one value on the operand stack.
Key(key) ==
    CASE key.k = "computed" -> <<E(key.e)>>
      [] key.k = "number"   -> <<Const(Num(key.n))>>
      [] OTHER              -> <<Const(Str(key.x))>>

Literal(v) ==
    CASE v = Null        -> Op("LdaNull")
      [] v = Bool(TRUE)  -> Op("LdaTrue")
      [] v = Bool(FALSE) -> Op("LdaFalse")
      [] OTHER           -> Const(v)

LoadIdent(x) == IF x = "undefined" THEN Op("LdaUndefined") ELSE Load(x)

\* A negated comparison is the comparison and a `!`.
BinOp(op) ==
    CASE op = "NotEq"       -> <<Op("Eq"), Op("Not")>>
      [] op = "StrictNotEq" -> <<Op("StrictEq"), Op("Not")>>
      [] OTHER              -> <<Op(op)>>

\* The left operand is kept under a copy, which the jump consumes.
ShortCircuit(op, rhs) ==
    CASE op = "And" -> <<Op("Dup"), Jump("JumpIfFalse", "end"), Op("Pop")>> \o rhs \o <<Label("end")>>
      [] op = "Or"  -> <<Op("Dup"), Jump("JumpIfTrue", "end"), Op("Pop")>> \o rhs \o <<Label("end")>>
      [] op = "Nullish" -> <<Op("Dup"), Jump("JumpIfNullish", "rhs"), Jump("Jump", "end"), Label("rhs"),
                             Op("Pop")>> \o rhs \o <<Label("end")>>

\* quasi, expression, Add, quasi, Add, expression, Add, ...
TemplateParts(quasis, es) ==
    FlattenSeq([i \in DOMAIN quasis |->
        <<Const(quasis[i])>> \o When(i > 1, <<Op("Add")>>)
        \o When(i \in DOMAIN es, <<E(es[i]), Op("Add")>>)])

HasSpread(es) == \E i \in DOMAIN es : es[i].k = "spread"

\* Steps the iterator in slot `it`, and appends each value to the array under it.
PushEach(it, i) ==
    LET next == "next" \o ToString(i)
        done == "done" \o ToString(i)
    IN <<Op("GetIterator"), Sta(it), Label(next), Lda(it), Op("IterNext"), Op("Dup"),
         Const(Str("done")), Op("GetProp"), Jump("JumpIfTrue", done),
         Const(Str("value")), Op("GetProp"), Op("ArrayPush"), Jump("Jump", next),
         Label(done), Op("Pop")>>

\* An array's elisions are dropped, so the elements after one move down.
ArrayParts(es) ==
    LET present == SelectSeq(es, LAMBDA e : e.k # "none")
    IN IF ~ HasSpread(es) THEN All(LAMBDA e : <<E(e)>>, present) \o <<OpN("NewArray", Len(present))>>
       ELSE <<OpN("NewArray", 0)>>
            \o FlattenSeq([i \in DOMAIN present |->
                 IF present[i].k = "spread"
                 THEN <<E(present[i].e), Slot("it", "<spread-it>")>> \o PushEach("it", i)
                 ELSE <<E(present[i]), Op("ArrayPush")>>])

ArgumentList(args) ==
    <<OpN("NewArray", 0)>>
    \o FlattenSeq([i \in DOMAIN args |->
         LET it == "it" \o ToString(i) IN
         IF args[i].k = "spread"
         THEN <<E(args[i].e), Temp(it, "argument-iterator")>> \o PushEach(it, i)
         ELSE <<E(args[i]), Op("ArrayPush")>>])

\* The arguments of a call, and the call: on a list if one is spread.
Apply(args, op, listOp) ==
    IF HasSpread(args) THEN ArgumentList(args) \o <<Op(listOp)>>
    ELSE All(LAMBDA e : <<E(e)>>, args) \o <<OpN(op, Len(args))>>

KeyName(key) == IF key.k \in {"name", "private"} THEN key.x ELSE ""
FunctionValue(m, fn, name) == <<Part("reserve", m, 0), Part("function", m, [fn |-> fn, name |-> name])>>
Closure(fn, name) == FunctionValue("fn", fn, name) \o <<OpM("LdaFunction", "fn")>>

AccessorOp(kind, other) ==
    CASE kind = "get" -> "DefineGetter" [] kind = "set" -> "DefineSetter" [] OTHER -> other

\* A property's value is evaluated before its key.
PropParts(i, p) ==
    IF p.k = "spread" THEN <<E(p.e), Op("CopyDataProperties")>>
    ELSE IF p.kind # "init"
    THEN LET m == "method" \o ToString(i) IN
         FunctionValue(m, p.e, KeyName(p.key))
         \o <<Op("Dup"), OpM("LdaFunction", m), Op("Swap")>> \o Key(p.key)
         \o <<Op(AccessorOp(p.kind, "SetProp"))>>
    ELSE <<Op("Dup"), E(p.e), Op("Swap")>> \o Key(p.key) \o <<Op("SetProp")>>

IsSuper(e)   == e.k = "super"
IsPrivate(m) == m.key.k = "private"

\* [object] -> [object's property], or the whole of `super.x`.
GetMember(m) ==
    IF IsPrivate(m) THEN <<PrivateOp("GetPrivate", m.key.x)>> ELSE Key(m.key) \o <<Op("GetProp")>>
GetSuper(m) == Key(m.key) \o <<Op("GetSuperProp")>>

\* A member called keeps its object under it as the receiver.
\* Mutant: the receiver of a method call is not kept.
Callee(f) ==
    IF f.k # "member" THEN <<E(f)>>
    ELSE IF IsSuper(f.o) THEN <<Op("LdaThis")>> \o GetSuper(f)
    ELSE <<E(f.o), Op("Dup")>> \o GetMember(f)

CallParts(f, args) ==
    IF IsSuper(f) THEN Apply(args, "CallSuper", "CallSuperWithArgumentList")
    ELSE Callee(f) \o
         (IF f.k = "member" THEN Apply(args, "CallMethod", "CallMethodWithArgumentList")
          ELSE IF f.k = "id" /\ f.x = "eval"
          THEN Apply(args, "CallDirectEval", "CallDirectEvalWithArgumentList")
          ELSE Apply(args, "Call", "CallWithArgumentList"))

TaggedParts(tag, es) ==
    Callee(tag) \o <<Part("site", "site", 0), OpM("GetTemplateObject", "site")>>
    \o All(LAMBDA e : <<E(e)>>, es)
    \o <<OpN(IF tag.k = "member" THEN "CallMethod" ELSE "Call", Len(es) + 1)>>

\* `a?.b.c`: the first nullish object before a `?.` ends the whole chain.
RECURSIVE Chain(_)
Chain(e) == IF e.k = "member" THEN Append(Chain(e.o), e) ELSE <<e>>
IsOptionalChain(e) == \E i \in DOMAIN Chain(e) : Chain(e)[i].k = "member" /\ Chain(e)[i].opt
OptionalParts(e) ==
    LET chain == Chain(e)
        super == IsSuper(chain[1])
    IN (IF super THEN GetSuper(chain[2]) ELSE <<E(chain[1])>>)
       \o All(LAMBDA m : When(m.opt, <<Op("Dup"), Jump("JumpIfNullish", "nullish")>>) \o GetMember(m),
              SubSeq(chain, IF super THEN 3 ELSE 2, Len(chain)))
       \o <<Jump("Jump", "end"), Label("nullish"), Op("Pop"), Op("LdaUndefined"), Label("end")>>

DeleteParts(e) ==
    CASE e.k = "id" -> <<DeleteName(e.x)>>
      [] e.k = "member" /\ IsSuper(e.o) -> Key(e.key) \o <<Op("DeleteSuperProp")>>
      [] e.k = "member" /\ ~ IsSuper(e.o) -> <<E(e.o)>> \o Key(e.key) \o <<Op("DeleteProp")>>
      [] OTHER -> <<E(e), Op("Pop"), Op("LdaTrue")>>

\* Only a literal specifier is a request the host can load ahead; only a
\* literal `{ with: { key: "value" } }` gives it attributes.
LiteralAttributes(options) ==
    LET IsWith(p)   == p.k = "prop" /\ p.kind = "init" /\ p.key = Name("with")
        IsString(p) == p.k = "prop" /\ p.kind = "init" /\ p.key.k = "name"
                       /\ p.e.k = "lit" /\ p.e.v.t = "str"
        props == IF options.k = "object" THEN SelectSeq(options.props, IsWith) ELSE <<>>
    IN IF props = <<>> \/ Head(props).e.k # "object" THEN {}
       ELSE LET inner == ToSet(Head(props).e.props)
            IN IF \A p \in inner : IsString(p) THEN {<<p.key.x, p.e.v.s>> : p \in inner} ELSE {}
ImportParts(e, phase, options) ==
    (IF e.k = "lit" /\ e.v.t = "str"
     THEN <<Part("request", "request", [specifier |-> e.v.s, phase |-> phase,
                                         attributes |-> LiteralAttributes(options)])>>
     ELSE <<Part("mark", "request", Unresolved)>>)
    \o <<E(e)>> \o When(options.k # "none", <<E(options), Op("Pop")>>)
    \o <<OpM("DynamicImport", "request")>>

-----------------------------------------------------------------------------
\* References prepared for a later write: a member's object and key are
\* evaluated into slots of their own, marked under m.
Prepare(m, p) ==
    CASE p.k = "member" /\ IsSuper(p.o) ->
           <<Temp(m \o "key", "destr-ref-super-key")>> \o Key(p.key) \o <<Sta(m \o "key")>>
      [] p.k = "member" /\ ~ IsSuper(p.o) ->
           <<Temp(m \o "object", "destr-ref-object"), E(p.o), Sta(m \o "object")>>
           \o When(~ IsPrivate(p),
                   <<Temp(m \o "key", "destr-ref-key")>> \o Key(p.key) \o <<Sta(m \o "key")>>)
      [] OTHER -> <<>>

LoadPrepared(m, p) ==
    CASE p.k = "id" -> <<LoadIdent(p.x)>>
      [] p.k = "member" /\ IsSuper(p.o) -> <<Lda(m \o "key"), Op("GetSuperProp")>>
      [] p.k = "member" /\ IsPrivate(p) -> <<Lda(m \o "object"), PrivateOp("GetPrivate", p.key.x)>>
      [] OTHER -> <<Lda(m \o "object"), Lda(m \o "key"), Op("GetProp")>>

PutPrepared(m, p) ==
    CASE p.k = "id" -> <<Store(p.x)>>
      [] p.k = "member" /\ IsSuper(p.o) -> <<Lda(m \o "key"), Op("SetSuperProp")>>
      [] p.k = "member" /\ IsPrivate(p) -> <<Lda(m \o "object"), PrivateOp("SetPrivate", p.key.x)>>
      [] OTHER -> <<Lda(m \o "object"), Lda(m \o "key"), Op("SetProp")>>

\* The reference a pattern ends in, under its default and its `...`.
RECURSIVE Leaf(_)
Leaf(p) == IF p.k \in {"default", "rest"} THEN Leaf(p.p) ELSE p
IsReference(p) == p.k \in {"id", "member"}

\* The target of `=` is evaluated after its right-hand side; that of a
\* compound or logical assignment is prepared before it.
AssignParts(op, t, e) ==
    CASE op \in {"And", "Or", "Nullish"} /\ IsReference(t) ->
           LET name == IF t.k = "id" THEN t.x ELSE KeyName(t.key) IN
           Prepare("t", t) \o LoadPrepared("t", t)
           \o ShortCircuit(op, <<IF name = "" THEN E(e) ELSE Named(e, name), Op("Dup")>>
                               \o PutPrepared("t", t))
      [] op \in {"And", "Or", "Nullish"} /\ ~ IsReference(t) ->
           <<Fail("logical assignment requires a simple assignment target"), Op("LdaUndefined")>>
      [] op = "" /\ t.k = "id" -> <<E(e), Op("Dup"), Store(t.x)>>
      [] op = "" /\ t.k = "member" ->
           <<E(e), Op("Dup")>> \o
           (IF IsSuper(t.o) THEN Key(t.key) \o <<Op("SetSuperProp")>>
            ELSE IF IsPrivate(t) THEN <<E(t.o), PrivateOp("SetPrivate", t.key.x)>>
            ELSE <<E(t.o)>> \o Key(t.key) \o <<Op("SetProp")>>)
      [] op = "" /\ ~ IsReference(t) -> <<E(e), Op("Dup"), AssignTo(t)>>
      [] OTHER -> Prepare("t", t) \o LoadPrepared("t", t) \o <<E(e)>> \o BinOp(op)
                  \o <<Op("Dup")>> \o PutPrepared("t", t)

UpdateParts(op, prefix, t) ==
    IF ~ IsReference(t) THEN <<Fail("invalid update target"), Op("LdaUndefined")>>
    ELSE LET step == <<Const(Num(1)), Op(op)>> IN
         Prepare("t", t) \o LoadPrepared("t", t)
         \o (IF prefix THEN step \o <<Op("Dup")>> ELSE <<Op("Dup")>> \o step)
         \o PutPrepared("t", t)

\* `value === undefined ? default : value`
OrDefault(e, keep) ==
    <<Op("Dup"), Op("LdaUndefined"), Op("StrictEq"), Jump("JumpIfFalse", keep), Op("Pop"),
      E(e), Label(keep)>>

\* Binding a declared pattern reads by index; its source waits in the one
\* slot its function has for array patterns, or for object patterns.
BindParts(p) ==
    CASE p.k = "id" -> <<Initialise(p.x)>>
      [] p.k = "default" -> OrDefault(p.e, "keep") \o <<Bind(p.p)>>
      [] p.k = "rest" -> <<Bind(p.p)>>
      [] p.k = "array pattern" ->
           <<Slot("src", "<destr-arr>"), Sta("src")>>
           \o FlattenSeq([i \in DOMAIN p.ps |->
                CASE p.ps[i].k \in {"none", "hole"} -> <<>>
                  [] p.ps[i].k = "rest" -> <<OpN("NewArray", 0), Bind(p.ps[i].p)>>
                  [] OTHER -> <<Lda("src"), Const(Num(i - 1)), Op("GetProp"), Bind(p.ps[i])>>])
      [] p.k = "object pattern" ->
           <<Slot("src", "<destr-obj>"), Sta("src")>>
           \o All(LAMBDA q : IF q.k = "rest" THEN <<Lda("src"), Bind(q.p)>>
                             ELSE <<Lda("src")>> \o Key(q.key) \o <<Op("GetProp"), Bind(q.p)>>, p.ps)
      [] p.k = "member" -> <<Op("Pop")>>

\* Writes the value on the stack to a pattern whose reference was prepared.
AssignPrepared(m, p) ==
    LET target == Leaf(p)
        inner  == IF p.k = "default" THEN p.p ELSE p
    IN When(p.k = "default", OrDefault(p.e, m \o "keep"))
       \o (IF IsReference(target) THEN PutPrepared(m, target) ELSE <<AssignTo(inner)>>)

\* Assigning to a pattern steps an iterator, each target before its value.  An
\* elision that came from an array literal does not step it.
AssignPatternParts(p) ==
    CASE p.k = "object pattern" ->
           <<Temp("src", "destr-object"), Sta("src")>>
           \o FlattenSeq([i \in DOMAIN p.ps |->
                LET q == p.ps[i]
                    m == ToString(i)
                IN IF q.k = "rest"
                   THEN Prepare(m, Leaf(q.p)) \o <<Lda("src")>> \o AssignPrepared(m, q.p)
                   ELSE <<Temp(m \o "name", "destr-property-key")>> \o Key(q.key) \o <<Sta(m \o "name")>>
                        \o Prepare(m, Leaf(q.p))
                        \o <<Lda("src"), Lda(m \o "name"), Op("GetProp")>> \o AssignPrepared(m, q.p)])
      [] p.k = "array pattern" ->
           <<Temp("it", "destr-iterator"), Op("GetIterator"), Sta("it")>>
           \o FlattenSeq([i \in DOMAIN p.ps |->
                LET q == p.ps[i]
                    m == ToString(i)
                IN CASE q.k = "none" -> <<>>
                     [] q.k = "hole" -> <<Lda("it"), Op("IterNext"), Op("Pop")>>
                     [] q.k = "rest" -> Prepare(m, Leaf(q.p)) \o <<OpN("NewArray", 0)>>
                                        \o AssignPrepared(m, q.p)
                     [] OTHER ->
                          Prepare(m, Leaf(q))
                          \o <<Lda("it"), Op("IterNext"), Op("Dup"), Const(Str("done")), Op("GetProp"),
                               Jump("JumpIfFalse", m \o "value"), Op("Pop"), Op("LdaUndefined"),
                               Jump("Jump", m \o "joined"), Label(m \o "value"),
                               Const(Str("value")), Op("GetProp"), Label(m \o "joined")>>
                          \o AssignPrepared(m, q)])
      [] OTHER -> Prepare("t", Leaf(p)) \o AssignPrepared("t", p)

-----------------------------------------------------------------------------
\* Classes.  A class is a constructor, a hidden function that defines the
\* instance fields of `this`, and one that defines everything else on the
\* class; both close over the class's private names.
PrivateNames(c) == {mb.key.x : mb \in {m \in ToSet(c.members) : m.key.k = "private"}}
IsField(mb)     == mb.kind = "field"
IsMethod(mb)    == mb.kind \in {"method", "get", "set"}
IsAnonymous(e)  == e.k \in {"function", "class"} /\ e.name = ""
Define(kind)    == CASE kind = "get" -> "Getter" [] kind = "set" -> "Setter" [] OTHER -> "Method"

\* Computed keys are evaluated once, with the class; its elements load them by number.
ComputedKeys(c) == SelectSeq(c.members, LAMBDA mb : mb.key.k = "computed")
ElementKey(c, i) ==
    IF c.members[i].key.k = "computed"
    THEN <<OpN("LoadClassFieldKey",
               Cardinality({j \in 1..(i - 1) : c.members[j].key.k = "computed"}))>>
    ELSE Key(c.members[i].key)

\* [value, target] -> []
DefineElement(c, i) ==
    LET mb == c.members[i] IN
    IF mb.key.k = "private"
    THEN <<PrivateOp(IF IsField(mb) THEN "DefinePrivate" ELSE "DefinePrivate" \o Define(mb.kind),
                     mb.key.x)>>
    ELSE ElementKey(c, i)
         \o <<Op(IF IsField(mb) THEN "DefineDataProperty" ELSE "Define" \o Define(mb.kind))>>
DefineInstanceMethod(c, i) ==
    LET mb == c.members[i] IN
    IF mb.key.k = "private"
    THEN <<PrivateOp("DefinePrivate" \o Define(mb.kind) \o "Template", mb.key.x)>>
    ELSE <<Const(Str("prototype")), Op("GetProp")>> \o ElementKey(c, i)
         \o <<Op("Define" \o Define(mb.kind))>>

FieldParts(c, i) ==
    LET mb == c.members[i] IN
    (IF mb.e.k = "none" THEN <<Op("LdaUndefined")>>
     ELSE <<E(mb.e)>> \o When(IsAnonymous(mb.e) /\ KeyName(mb.key) # "",
                              <<OpC("SetFunctionName", Str(KeyName(mb.key)))>>))
    \o <<Op("LdaThis")>> \o DefineElement(c, i)

ReturnUndefined == <<Op("LdaUndefined"), Op("Return")>>
Body(body)      == All(LAMBDA s : <<S(s)>>, body)
Hidden(m, name, vars, parts) ==
    <<Part("reserve", m, 0),
      Part("hidden", m, [name |-> name, params |-> <<>>, vars |-> vars, parts |-> parts])>>

InstanceParts(c) ==
    FlattenSeq([i \in DOMAIN c.members |->
        When(IsField(c.members[i]) /\ ~ c.members[i].static, FieldParts(c, i))]) \o ReturnUndefined
\* Every method is compiled, then every method is defined, then fields and
\* blocks run in the order they are written.
StaticParts(c) ==
    LET M(i) == "method" \o ToString(i)
        Each(Parts(_)) == FlattenSeq([i \in DOMAIN c.members |-> Parts(i)])
    IN Each(LAMBDA i : When(IsMethod(c.members[i]),
                            FunctionValue(M(i), c.members[i].e, KeyName(c.members[i].key))))
       \o Each(LAMBDA i : When(IsMethod(c.members[i]),
                               <<OpM("LdaFunction", M(i)), Op("LdaThis")>>
                               \o (IF c.members[i].static THEN DefineElement(c, i)
                                   ELSE DefineInstanceMethod(c, i))))
       \o Each(LAMBDA i : When(c.members[i].kind = "block", Body(c.members[i].e.body))
                          \o When(IsField(c.members[i]) /\ c.members[i].static, FieldParts(c, i)))
       \o ReturnUndefined

HasInstanceFields(c) == \E mb \in ToSet(c.members) : IsField(mb) /\ ~ mb.static
HasStaticElements(c) == \E mb \in ToSet(c.members) : mb.static \/ ~ IsField(mb)

\* Compiles the class's functions, without emitting anything.
ClassFunctions(c, name) ==
    LET body == IF c.ctor.k = "none" THEN <<>> ELSE c.ctor.body IN
    <<Part("reserve", "ctor", 0), Part("private scope", "ctor", PrivateNames(c)),
      Part("hidden", "ctor",
           [name |-> name, params |-> IF c.ctor.k = "none" THEN <<>> ELSE c.ctor.params,
            vars |-> BodyNames(body),
            parts |-> When(c.super.k # "none" /\ c.ctor.k = "none",
                           <<OpN("CallSuper", AllArguments), Op("Pop")>>)
                      \o Body(body) \o ReturnUndefined])>>
    \o When(HasInstanceFields(c),
            Hidden("instance", "<class-instance-initializer>", <<>>, InstanceParts(c)))
    \o When(HasStaticElements(c),
            Hidden("static", "<class-static-initializer>",
                   All(LAMBDA mb : When(mb.kind = "block", BodyNames(mb.e.body)), c.members),
                   StaticParts(c)))
    \o <<Part("end private scope", 0, 0)>>

\* The superclass is evaluated first; the static initialiser runs last.
EmitClass(c) ==
    When(c.super.k # "none", <<E(c.super)>>)
    \o <<OpM("LdaFunction", "ctor")>>
    \o When(HasInstanceFields(c), <<OpM("LdaFunction", "instance"), Op("SetClassInstanceInitializer")>>)
    \o When(c.super.k # "none", <<Op("SetClassHeritage")>>)
    \o <<Op("ActivateClassPrivateEnvironment"), Part("private scope", "ctor", PrivateNames(c))>>
    \o All(LAMBDA mb : <<Op("Dup"), E(mb.key.e), Op("DefineClassFieldKey")>>, ComputedKeys(c))
    \o <<Part("end private scope", 0, 0)>>
    \o When(HasStaticElements(c),
            <<Op("Dup"), OpM("LdaFunction", "static"), OpN("CallMethod", 0), Op("Pop")>>)
    \o <<Op("DeactivateClassPrivateEnvironment")>>
ClassParts(c, name) == ClassFunctions(c, name) \o EmitClass(c)

\* An anonymous function or class takes the name of what it is assigned to.
NamedParts(e, x) ==
    CASE e.k = "function" /\ IsAnonymous(e) -> Closure(e, x)
      [] e.k = "class" /\ IsAnonymous(e)    -> ClassParts(e, x)
      [] OTHER                              -> <<E(e)>>

ExprParts(e) ==
    CASE e.k = "lit"        -> <<Literal(e.v)>>
      [] e.k = "id"         -> <<LoadIdent(e.x)>>
      [] e.k = "this"       -> <<Op("LdaThis")>>
      [] e.k = "unary"      -> (CASE e.op = "Delete" -> DeleteParts(e.e)
                                  [] e.op = "Typeof" /\ e.e.k = "id" -> <<TypeofName(e.e.x)>>
                                  [] OTHER -> <<E(e.e), Op(e.op)>>)
      [] e.k = "binary"     -> <<E(e.a), E(e.b)>> \o BinOp(e.op)
      [] e.k = "private in" -> <<E(e.e), PrivateOp("PrivateIn", e.x)>>
      [] e.k = "logical"    -> <<E(e.a)>> \o ShortCircuit(e.op, <<E(e.b)>>)
      [] e.k = "conditional" -> <<E(e.t), Jump("JumpIfFalse", "else"), E(e.a), Jump("Jump", "end"),
                                  Label("else"), E(e.b), Label("end")>>
      [] e.k = "sequence"   -> FlattenSeq([i \in DOMAIN e.es |->
                                  <<E(e.es[i])>> \o When(i < Len(e.es), <<Op("Pop")>>)])
      [] e.k = "template"   -> TemplateParts(e.quasis, e.es)
      [] e.k = "tagged"     -> TaggedParts(e.tag, e.es)
      [] e.k = "array"      -> ArrayParts(e.es)
      [] e.k = "object"     -> <<Op("NewObject")>>
                               \o FlattenSeq([i \in DOMAIN e.props |-> PropParts(i, e.props[i])])
      [] e.k = "member"     -> (IF IsOptionalChain(e) THEN OptionalParts(e)
                                ELSE IF IsSuper(e.o) THEN GetSuper(e)
                                ELSE <<E(e.o)>> \o GetMember(e))
      [] e.k = "call"       -> CallParts(e.f, e.args)
      [] e.k = "new"        -> <<E(e.f)>> \o Apply(e.args, "New", "NewWithArgumentList")
      [] e.k = "assign"     -> AssignParts(e.op, e.t, e.e)
      [] e.k = "update"     -> UpdateParts(e.op, e.prefix, e.t)
      [] e.k = "function"   -> Closure(e, e.name)
      [] e.k = "class"      -> ClassParts(e, e.name)
      [] e.k = "yield"      -> <<IF e.e.k = "none" THEN Op("LdaUndefined") ELSE E(e.e),
                                 Op(IF e.star THEN "YieldStar" ELSE "Yield")>>
      [] e.k = "await"      -> <<E(e.e), Op("Await")>>
      [] e.k = "import()"   -> ImportParts(e.e, e.phase, e.options)
      [] e.k = "new.target" -> <<Op("LdaUndefined")>>
      [] e.k = "import.meta" -> <<Op("GetImportMeta")>>
      [] e.k = "regex"      -> <<OpC("NewRegex", Str(e.x))>>
      [] OTHER              -> <<Fail("this expression kind is not supported yet"), Op("LdaUndefined")>>

-----------------------------------------------------------------------------
\* Statements: each leaves the operand stack as it found it, except that an
\* expression statement of the program itself leaves its value there.
IsIteration(s) == s.k \in {"while", "do", "for", "for of", "for in"}
Loop(labels)        == Part("loop", labels, TRUE)
EndLoop(brk, cont)  == Part("end loop", brk, cont)

\* Nested loops of a function step their iterators in one slot.
\* Mutant: the last result is left on the stack when the loop ends.
ForOfPartsOpen(s, labels) ==
    <<Slot("it", "<forof-iter>"), E(s.e), Op("GetIterator"), Sta("it"),
      Label("start"), Lda("it"), Op("IterNext"), Op("Dup"), Const(Str("done")), Op("GetProp"),
      Jump("JumpIfTrue", "end"), Const(Str("value")), Op("GetProp"),
      IF Declares(s) THEN Bind(s.p) ELSE AssignTo(s.p),
      Loop(labels), S(s.s), Label("update"), Jump("Jump", "start"), Label("end"), EndLoop("end", "update")>>
ForOfParts(s, labels) ==
    <<Slot("it", "<forof-iter>"), E(s.e), Op("GetIterator"), Sta("it"),
      Label("start"), Lda("it"), Op("IterNext"), Op("Dup"), Const(Str("done")), Op("GetProp"),
      Jump("JumpIfTrue", "end"), Const(Str("value")), Op("GetProp"),
      IF Declares(s) THEN Bind(s.p) ELSE AssignTo(s.p),
      Loop(labels), S(s.s), Label("update"), Jump("Jump", "start"),
      Label("end"), EndLoop("end", "update"), Op("Pop")>>

ForInParts(s, labels) ==
    <<Slot("src", "<forin-src>"), Slot("idx", "<forin-idx>"), Slot("len", "<forin-len>"),
      E(s.e), Op("ObjectKeys"), Sta("src"), Lda("src"), Const(Str("length")), Op("GetProp"), Sta("len"),
      Const(Num(0)), Sta("idx"),
      Label("start"), Lda("idx"), Lda("len"), Op("Ge"), Jump("JumpIfTrue", "end"),
      Lda("src"), Lda("idx"), Op("GetProp"),
      IF Declares(s) THEN Bind(s.p) ELSE AssignTo(s.p),
      Loop(labels), S(s.s), Label("update"), Lda("idx"), Const(Num(1)), Op("Add"), Sta("idx"),
      Jump("Jump", "start"), Label("end"), EndLoop("end", "update")>>

\* The tests in order, then the bodies in order, each reached by its test's jump.
SwitchParts(s) ==
    LET C(i) == "case" \o ToString(i)
        default == SelectInSeq(s.cases, LAMBDA c : c.t.k = "none")
    IN <<E(s.e), Slot("disc", "<switch-disc>"), Sta("disc")>>
       \o FlattenSeq([i \in DOMAIN s.cases |->
            When(s.cases[i].t.k # "none",
                 <<Lda("disc"), E(s.cases[i].t), Op("StrictEq"), Jump("JumpIfTrue", C(i))>>)])
       \o <<Jump("Jump", IF default = 0 THEN "end" ELSE C(default)), Part("loop", <<>>, FALSE)>>
       \o FlattenSeq([i \in DOMAIN s.cases |-> <<Label(C(i))>> \o Body(s.cases[i].body)])
       \o <<Label("end"), EndLoop("end", "end")>>

\* The handler is popped at the end of the block; the finally block is the
\* join of the normal and the caught path, and FinallyEnd rethrows.
TryParts(s) ==
    LET caught  == s.handler.k # "none"
        final   == s.final.k # "none"
    IN <<Part("handler", "handler", 0), OpM("TryBegin", "handler")>> \o Body(s.body)
       \o <<Op("TryEnd"), Jump("Jump", "after"), Label("catch")>>
       \o When(caught, <<IF s.handler.p.k = "none" THEN Op("Pop") ELSE Bind(s.handler.p)>>
                       \o Body(s.handler.body))
       \o <<Jump("Jump", "after"), Label("after")>>
       \o When(final, Body(s.final.body) \o <<Op("FinallyEnd")>>)
       \o <<Part("set handler", "handler", [catch |-> caught, finally |-> final])>>

RECURSIVE LabelSet(_)
LabelSet(s) == IF s.k = "labeled" THEN <<s.l>> \o LabelSet(s.s) ELSE <<>>
RECURSIVE Unlabelled(_)
Unlabelled(s) == IF s.k = "labeled" THEN Unlabelled(s.s) ELSE s

\* Only the declaration that is a module's default export may have no name; a
\* function of a module itself is hoisted, that one too.
InferredName(name) == IF name = "" THEN "default" ELSE name
DeclParts(s, top) ==
    CASE s.k = "decl" ->
           All(LAMBDA d : <<Part("declare all", PatNames(d[1]), 0)>>
                          \o (IF d[2].k # "none" THEN <<E(d[2]), Bind(d[1])>>
                              ELSE When(s.kind # "var", <<Op("LdaUndefined"), Bind(d[1])>>)), s.decls)
      [] s.k = "function decl" ->
           FunctionValue("fn", s.fn, InferredName(s.fn.name))
           \o <<Part("declare", "slot", LocalName(s.fn.name)), Part("function initialiser", top, 0)>>
      [] s.k = "class decl" ->
           ClassParts(s.c, InferredName(s.c.name))
           \o <<Part("declare", "slot", LocalName(s.c.name)), Sta("slot")>>
      [] s.k = "default" ->
           IF IsDeclaration(s.e) THEN <<Part("stmt", s.e, <<top, <<>>>>)>>
           ELSE <<Named(s.e, "default"), Part("declare", "slot", DefaultLocal), Sta("slot")>>
      [] s.k = "export" -> <<Part("stmt", s.s, <<top, <<>>>>)>>
      [] s.k \in {"import", "export names", "export from"} -> <<>>

StmtParts(s, top, labels) ==
    CASE s.k \in {"empty", "none"} -> <<>>
      [] s.k = "block"  -> Body(s.body)
      [] s.k = "expr"   -> <<E(s.e)>> \o When(~ top, <<Op("Pop")>>)
      [] s.k = "return" -> <<IF s.e.k = "none" THEN Op("LdaUndefined") ELSE E(s.e), Op("Return")>>
      [] s.k = "throw"  -> <<E(s.e), Op("Throw")>>
      [] s.k = "if"     -> <<E(s.t), Jump("JumpIfFalse", "else"), S(s.a)>>
                           \o (IF s.b.k = "none" THEN <<Label("else")>>
                               ELSE <<Jump("Jump", "end"), Label("else"), S(s.b), Label("end")>>)
      [] s.k = "while"  -> <<Label("start"), E(s.t), Jump("JumpIfFalse", "end"), Loop(labels), S(s.s),
                             Jump("Jump", "start"), Label("end"), EndLoop("end", "start")>>
      [] s.k = "do"     -> <<Label("start"), Loop(labels), S(s.s), Label("test"), E(s.t),
                             Jump("JumpIfTrue", "start"), Label("end"), EndLoop("end", "test")>>
      [] s.k = "for"    -> <<S(s.init), Label("start")>>
                           \o When(s.t.k # "none", <<E(s.t), Jump("JumpIfFalse", "end")>>)
                           \o <<Loop(labels), S(s.s), Label("update")>>
                           \o When(s.u.k # "none", <<E(s.u), Op("Pop")>>)
                           \o <<Jump("Jump", "start"), Label("end"), EndLoop("end", "update")>>
      [] s.k = "for of" -> ForOfParts(s, labels)
      [] s.k = "for in" -> ForInParts(s, labels)
      [] s.k = "switch" -> SwitchParts(s)
      [] s.k = "break"  -> <<Part("break", s.l, 0)>>
      [] s.k = "continue" -> <<Part("continue", s.l, 0)>>
      [] s.k = "try"    -> TryParts(s)
      [] s.k = "labeled" ->
           LET target == Unlabelled(s) IN
           IF IsIteration(target) THEN <<Part("stmt", target, <<FALSE, LabelSet(s)>>)>>
           ELSE <<Part("labels", LabelSet(s), 0), S(target), Label("end"), Part("end labels", "end", 0)>>
      [] s.k = "with"   -> <<E(s.e), Op("EnterWith"), Part("with", 1, 0), S(s.s),
                             Part("with", -1, 0), Op("LeaveWith")>>
      [] OTHER          -> DeclParts(s, top)

-----------------------------------------------------------------------------
\* The compiler's state: the function being compiled, and the context shared
\* by all of them.  The stacks of loops and labels are not per function.
Start(isModule, outer, privates) ==
    [f |-> Function("<main>", <<>>), consts |-> <<>>, functions |-> <<>>, loops |-> <<>>,
     labels |-> <<>>, withDepth |-> 0, bases |-> <<0>>,
     privates |-> When(DOMAIN privates # {}, <<privates>>),
     scopes |-> (IF outer = <<>> THEN <<>>
                 ELSE <<[NewScope EXCEPT !.locals = [x \in ToSet(outer) |-> SlotOf(outer, x)]]>>)
                \o <<NewScope>>,
     isModule |-> isModule, inits |-> <<>>, requests |-> <<>>, errors |-> <<>>]

Patch(f, pcs, n) == [f EXCEPT !.code = [pc \in DOMAIN @ |->
                        IF pc \in pcs THEN [@[pc] EXCEPT !.n = n] ELSE @[pc]]]

\* A template under way: the state, the numbers marked so far, and the jumps
\* emitted with a label for an operand.
Emit(w, o, n)  == [w EXCEPT !.st.f.code = Append(@, Instruction(o, n))]
Mark(w, m, n)  == [w EXCEPT !.marks = (m :> n) @@ @]
EmitConstant(w, o, v) ==
    LET consts == Intern(w.st.consts, v)
    IN Emit([w EXCEPT !.st.consts = consts], o, SlotOf(consts, v))
Reserve(w, m, x) ==
    LET locals == Intern(w.st.f.locals, x)
    IN Mark([w EXCEPT !.st.f.locals = locals], m, SlotOf(locals, x))
Fault(w, why) == [w EXCEPT !.st.errors = Append(@, why)]

RECURSIVE EmitOps(_, _, _, _)
EmitOps(w, os, x, n) ==
    IF os = <<>> THEN w
    ELSE EmitOps(IF OperandKind(Head(os)) = "Constant" THEN EmitConstant(w, Head(os), Str(x))
                 ELSE Emit(w, Head(os), IF OperandKind(Head(os)) = "None" THEN 0 ELSE n),
                 Tail(os), x, n)
EmitResolved(w, x, ops, r) ==
    EmitOps([w EXCEPT !.st.scopes = r.scopes],
            ops[IF "Dynamic" \in DOMAIN ops /\ UsesDynamicName(w.st, r.kind) THEN "Dynamic" ELSE r.kind], x, r.n)
EmitName(w, x, ops) == EmitResolved(w, x, ops, ResolveVar(x, w.st.scopes))

EmitPrivate(w, o, x) ==
    LET id == Brand(w.st, x) IN
    EmitConstant(IF id = InvalidBrand THEN Fault(w, "private name has no enclosing class brand") ELSE w,
                 o, PrivateName(id, x))

NoLabel == ""
EmitBreak(w, l) ==
    LET Labelled(frame) == \E i \in DOMAIN frame.labels : frame.labels[i] = l
        loop  == IF l = NoLabel THEN Len(w.st.loops) ELSE SelectLastInSeq(w.st.loops, Labelled)
        label == IF l = NoLabel THEN 0 ELSE SelectLastInSeq(w.st.labels, Labelled)
        pc    == Here(w.st.f)
    IN IF loop # 0 THEN Emit([w EXCEPT !.st.loops[loop].breaks = @ \cup {pc}], "Jump", 0)
       ELSE IF label # 0 THEN Emit([w EXCEPT !.st.labels[label].breaks = @ \cup {pc}], "Jump", 0)
       ELSE Fault(w, "break outside of a loop or switch")
EmitContinue(w, l) ==
    LET Target(frame) == frame.iteration /\ (l = NoLabel \/ \E i \in DOMAIN frame.labels : frame.labels[i] = l)
        loop == SelectLastInSeq(w.st.loops, Target)
    IN IF loop = 0 THEN Fault(w, "continue outside of a loop")
       ELSE Emit([w EXCEPT !.st.loops[loop].continues = @ \cup {Here(w.st.f)}], "Jump", 0)
\* Mutant: the jumps of `continue` are never patched.
PopLoopBreaks(w, brk, cont) ==
    [w EXCEPT !.st.loops = Front(@), !.st.f = Patch(@, Last(w.st.loops).breaks, w.marks[brk])]
PopLoop(w, brk, cont) ==
    LET frame == Last(w.st.loops) IN
    [w EXCEPT !.st.loops = Front(@),
              !.st.f = Patch(Patch(@, frame.breaks, w.marks[brk]), frame.continues, w.marks[cont])]
PopLabels(w, brk) ==
    [w EXCEPT !.st.labels = Front(@), !.st.f = Patch(@, Last(w.st.labels).breaks, w.marks[brk])]

\* A declared function is stored where it is declared, except that a module
\* has its own initialised before its body runs.
InitialiseFunction(w, top) ==
    IF top /\ w.st.isModule
    THEN [w EXCEPT !.st.inits = Append(@, [slot |-> w.marks["slot"], fn |-> w.marks["fn"]])]
    ELSE Emit(Emit(w, "LdaFunction", w.marks["fn"]), "StaLocal", w.marks["slot"])

\* Identifier parameters own their positional slots; the names of a pattern
\* parameter get slots of their own, filled at entry (a constructor's do not).
ParamSlots(params) == [i \in DOMAIN params |-> IF params[i].k = "id" THEN params[i].x ELSE ""]
RECURSIVE DeclareParams(_, _, _, _)
DeclareParams(st, params, i, patterns) ==
    IF i > Len(params) THEN st
    ELSE DeclareParams(
           IF params[i].k = "id" THEN [st EXCEPT !.scopes[Len(st.scopes)].locals = (params[i].x :> i) @@ @]
           ELSE IF patterns THEN DeclareAll(st, PatNames(params[i])) ELSE st,
           params, i + 1, patterns)

\* The body of a function: its pattern parameters are taken apart, then it runs.
FunctionParts(fn) ==
    FlattenSeq([i \in DOMAIN fn.params |->
        When(fn.params[i].k # "id", <<OpN("LdaLocal", i), Bind(fn.params[i])>>)])
    \o (IF fn.e.k = "none" THEN Body(fn.body) \o ReturnUndefined ELSE <<E(fn.e), Op("Return")>>)

OpenFunction(st, g, arrow, own) ==
    LET entered == [st EXCEPT !.f = [Function(g.name, ParamSlots(g.params)) EXCEPT !.arrow = arrow],
                              !.scopes = Append(@, NewScope),
                              !.bases = IF own THEN Append(@, st.withDepth) ELSE @]
    IN CaptureVisible(DeclareAll(DeclareParams(entered, g.params, 1, own), g.vars))
\* Its upvalues are known once its body has been compiled.
CloseFunction(w, st, id, own) ==
    [w EXCEPT !.st = [st EXCEPT !.f = w.st.f, !.scopes = Front(@), !.bases = IF own THEN Front(@) ELSE @,
                                !.functions[id] = [st.f EXCEPT !.ups = Last(st.scopes).ups]]]

-----------------------------------------------------------------------------
PatchJumps(w) ==
    [w.st.f EXCEPT !.code = [pc \in DOMAIN @ |->
        IF \E j \in ToSet(w.jumps) : j[1] = pc
        THEN [@[pc] EXCEPT !.n = w.marks[(CHOOSE j \in ToSet(w.jumps) : j[1] = pc)[2]]] ELSE @[pc]]]

RECURSIVE Asm(_, _), Run(_, _), Do(_, _)
Patched(w) == [w.st EXCEPT !.f = PatchJumps(w)]
Asm(parts, st) == Patched(Run(parts, [st |-> st, marks |-> <<>>, jumps |-> <<>>]))
Run(parts, w) == IF parts = <<>> THEN w ELSE Run(Tail(parts), Do(Head(parts), w))
Do(part, w) ==
    LET a == part.a
        b == part.b
        Within(parts) == [w EXCEPT !.st = Asm(parts, @)]
        Nested(g, parts, arrow, own) ==
            CloseFunction(w, Asm(parts, OpenFunction(w.st, g, arrow, own)), w.marks[a], own)
    IN
    CASE part.p = "op"       -> Emit(w, a, b)
      [] part.p = "marked"   -> Emit(w, a, w.marks[b])
      [] part.p = "constant" -> EmitConstant(w, a, b)
      [] part.p = "jump"     -> Emit([w EXCEPT !.jumps = Append(@, <<Here(w.st.f), b>>)], a, 0)
      [] part.p = "label"    -> Mark(w, a, Here(w.st.f))
      [] part.p = "mark"     -> Mark(w, a, b)
      [] part.p = "slot"     -> Reserve(w, a, b)
      [] part.p = "temp"     -> Reserve(w, a, "<" \o b \o "-" \o ToString(Len(w.st.f.locals)) \o ">")
      [] part.p = "name"     -> EmitName(w, a, b)
      [] part.p = "private"  -> EmitPrivate(w, a, b)
      [] part.p = "expr"     -> Within(ExprParts(a))
      [] part.p = "named"    -> Within(NamedParts(a, b))
      [] part.p = "stmt"     -> Within(StmtParts(a, b[1], b[2]))
      [] part.p = "bind"     -> Within(BindParts(a))
      [] part.p = "assign"   -> Within(AssignPatternParts(a))
      [] part.p = "loop"     -> [w EXCEPT !.st.loops = Append(@, [labels |-> a, iteration |-> b,
                                                                  breaks |-> {}, continues |-> {}])]
      [] part.p = "end loop" -> PopLoop(w, a, b)
      [] part.p = "labels"   -> [w EXCEPT !.st.labels = Append(@, [labels |-> a, breaks |-> {}])]
      [] part.p = "end labels" -> PopLabels(w, a)
      [] part.p = "break"    -> EmitBreak(w, a)
      [] part.p = "continue" -> EmitContinue(w, a)
      [] part.p = "with"     -> [w EXCEPT !.st.withDepth = @ + a]
      [] part.p = "declare"  -> LET st == DeclareLocal(w.st, b)
                                IN Mark([w EXCEPT !.st = st], a, st.scopes[Len(st.scopes)].locals[b])
      [] part.p = "declare all" -> [w EXCEPT !.st = DeclareAll(@, a)]
      [] part.p = "function initialiser" -> InitialiseFunction(w, a)
      [] part.p = "reserve"  -> Mark([w EXCEPT !.st.functions = Append(@, Function("", <<>>))],
                                     a, Len(w.st.functions) + 1)
      [] part.p = "function" -> Nested([name |-> b.name, params |-> b.fn.params,
                                          vars |-> BodyNames(b.fn.body)],
                                         FunctionParts(b.fn), b.fn.arrow, TRUE)
      [] part.p = "hidden"   -> Nested(b, b.parts, FALSE, FALSE)
      [] part.p = "private scope" -> [w EXCEPT !.st.privates = Append(@, [x \in b |-> w.marks[a]])]
      [] part.p = "end private scope" -> [w EXCEPT !.st.privates = Front(@)]
      [] part.p = "handler"  -> Mark([w EXCEPT !.st.f.handlers = Append(@, NoHandler)],
                                     a, Len(w.st.f.handlers) + 1)
      [] part.p = "set handler" ->
           [w EXCEPT !.st.f.handlers[w.marks[a]] =
              [catch   |-> IF b.catch THEN w.marks["catch"] ELSE NoTarget,
               finally |-> IF b.finally THEN w.marks["after"] ELSE NoTarget]]
      [] part.p = "site"     -> Mark([w EXCEPT !.st.f.sites = @ + 1], a, w.st.f.sites + 1)
      [] part.p = "request"  -> LET requests == Intern(w.st.requests, b)
                                IN Mark([w EXCEPT !.st.requests = requests], a, SlotOf(requests, b))
      [] part.p = "error"    -> Fault(w, a)

\* A program: its bindings first, then its statements; its last expression
\* statement's value is what it returns.  The source of a direct eval finds the
\* caller's bindings around it, and the classes of its private names.
Unit(st) ==
    [consts |-> st.consts, functions |-> st.functions, inits |-> st.inits, requests |-> st.requests,
     main |-> [st.f EXCEPT !.ups = Last(st.scopes).ups], errors |-> st.errors]
CompileProgram(body, isModule, outer, privates) ==
    Unit(Asm(All(LAMBDA s : <<Part("stmt", s, <<TRUE, <<>>>>)>>, body) \o <<Op("Return")>>,
             DeclareAll(Start(isModule, outer, privates), BodyNames(body))))
=============================================================================
