----------------------------- MODULE Reference ------------------------------
(***************************************************************************)
(* What a program means: ECMAScript evaluation of the syntax tree, as one  *)
(* function from a program and the answers its host gave to everything the *)
(* host saw.  A variable's scope is its function; iterators are not closed.*)
(***************************************************************************)
EXTENDS Lowering, Host

\* A state: what exists, what the host saw and will answer, the value of the
\* expression just evaluated, and the completion under way.
Normal   == [k |-> "normal", v |-> NoValue, l |-> ""]
Abrupt(s) == s.c.k # "normal"
Is(s, v)  == IF Abrupt(s) THEN s ELSE [s EXCEPT !.v = v]
Ends(s, k, v, l) == IF Abrupt(s) THEN s ELSE [s EXCEPT !.c = [k |-> k, v |-> v, l |-> l]]
Raised(s, v) == Ends(s, "throw", v, "")

\* The evaluation of every construct, by name; what each does is below.
RECURSIVE Eval(_, _, _, _)
Ev(e, s, x)      == Eval("expr", <<e>>, s, x)
EvChain(e, s, x) == Eval("chain", <<e>>, s, x)
EvAll(es, i, s, x, vs)     == Eval("list", <<es, i, vs>>, s, x)
RefOf(t, s, x)             == Eval("reference", <<t>>, s, x)
Read(t, r)                 == Eval("read", <<t, r>>, r.s, <<>>)
Resolve(name, s, env)      == Eval("resolve", <<name, env>>, s, <<>>)
Ex(st, s, x, labels)       == Eval("statement", <<st, labels>>, s, x)
PatTo(p, v, s, x, declares) == Eval("pattern", <<p, v, declares>>, s, x)
ClassOf(c, name, s, x)     == Eval("class", <<c, name>>, s, x)
CallOf(s, f, this, args)   == Eval("call", <<f, this, args>>, s, <<>>)
ConstructOf(s, f, args)    == Eval("construct", <<f, args>>, s, <<>>)
Fields(s, f, o, i)         == Eval("fields", <<f, o, i>>, s, <<>>)
Asked(s, kind, vs)         == Eval("ask", <<kind, vs>>, s, <<>>)

Asking(s, kind, vs) ==
    IF Abrupt(s) THEN s
    ELSE IF s.pos = Len(s.tape) THEN Ends(s, "diverged", NoValue, "")
    ELSE LET o == s.tape[s.pos + 1]
             a == Answer(kind, o, s.pos + 1, vs)
             t == [s EXCEPT !.pos = @ + 1, !.log = Append(@, Event(kind, vs))]
         IN IF o = "throw" THEN Raised(t, a) ELSE Is(t, a)
\* Asked for its effect, the value of the expression being v.
Told(s, kind, vs, v) ==
    LET t == Asked(s, kind, vs) IN
    IF ~ Abrupt(t) /\ t.v = Bool(FALSE) THEN Raised(t, TypeError) ELSE Is(t, v)
Defined(s, what, target, key, v) ==
    IF Abrupt(s) THEN s ELSE [s EXCEPT !.defs = Append(@, Event(what, <<target, key, v>>))]

-----------------------------------------------------------------------------
\* Scopes, innermost last: a function's names, or the object of a `with`.
Names(map)  == [o |-> NoValue, names |-> map]
OfObject(o) == [o |-> o, names |-> <<>>]

\* s.v becomes where x lives: an object, a cell of the store, or the globals.
\* Scopes are asked from the innermost on, until one has the name.
LookUp(s, x, scope) ==
    IF scope.o = NoValue
    THEN Is(s, IF x \in DOMAIN scope.names THEN Val("cell", x, scope.names[x], <<>>) ELSE NoValue)
    ELSE LET t == Asked(s, "has", <<scope.o, Str(x)>>)
         IN Is(t, IF t.v = Bool(FALSE) THEN NoValue ELSE Val("binding", x, 0, <<scope.o>>))
Binding(x, s, env) ==
    LET R[i \in 0..Len(env)] ==
            IF i = 0 THEN Is(s, NoValue)
            ELSE LET t == R[i - 1]
                 IN IF Abrupt(t) \/ t.v # NoValue THEN t ELSE LookUp(t, x, env[Len(env) + 1 - i])
        found == R[Len(env)]
    IN Is(found, IF found.v = NoValue THEN Val("global", x, 0, <<>>) ELSE found.v)

ReadRef(s, ref) ==
    CASE ref.t = "cell"    -> Is(s, s.store[ref.n])
      [] ref.t = "binding" -> Asked(s, "get", <<ref.vs[1], Str(ref.s)>>)
      [] ref.t = "global"  -> IF ref.s \in DOMAIN s.globals THEN Is(s, s.globals[ref.s])
                              ELSE Raised(s, ReferenceError)
WriteRef(s, ref, v) ==
    IF Abrupt(s) THEN s ELSE
    CASE ref.t = "cell"    -> [s EXCEPT !.store[ref.n] = v]
      [] ref.t = "binding" -> Told(s, "set", <<ref.vs[1], Str(ref.s), v>>, v)
      [] ref.t = "global"  -> [s EXCEPT !.globals = (ref.s :> v) @@ @]

GetOf(s, o, key) ==
    CASE Abrupt(s) -> s
      [] ~ Abrupt(s) /\ Nullish(o) -> Raised(s, TypeError)
      [] ~ Abrupt(s) /\ o.t = "arr" /\ key = Str("length") -> Is(s, Num(Len(o.vs)))
      [] ~ Abrupt(s) /\ o.t = "arr" /\ key.t = "num" ->
           Is(s, IF key.n < Len(o.vs) THEN o.vs[key.n + 1] ELSE Undef)
      [] ~ Abrupt(s) /\ ~ Nullish(o) /\ ~ IsObject(o) -> Is(s, Undef)
      [] OTHER -> Asked(s, "get", <<o, key>>)
SetOf(s, o, key, v) == IF Nullish(o) THEN Raised(s, TypeError) ELSE Told(s, "set", <<o, key, v>>, v)

NewClosure(s, c, name) ==
    Is([s EXCEPT !.closures = Append(@, c)], Val("fn", name, Len(s.closures) + 1, <<>>))
\* node is the function, env its scopes; class is what `super` and the keys refer to.
ClosureOf(s, fn, name, x) ==
    NewClosure(s, [fn |-> fn, env |-> x.env, this |-> IF fn.arrow THEN x.this ELSE 0,
                   class |-> IF fn.arrow THEN x.class ELSE NoValue,
                   super |-> NoValue, members |-> <<>>, keys |-> <<>>], name)

-----------------------------------------------------------------------------
EvKey(key, s, x) ==
    CASE key.k = "computed" -> Ev(key.e, s, x)
      [] key.k = "number"   -> Is(s, Num(key.n))
      [] OTHER              -> Is(s, Str(key.x))

\* The values an iterator yields, appended to vs.
RECURSIVE Drain(_, _, _)
Drain(s, it, vs) ==
    LET t == Asked(s, "next", <<it>>) IN
    IF Abrupt(t) \/ t.v.s = "done" THEN Is(t, Arr(vs)) ELSE Drain(t, it, Append(vs, t.v.vs[1]))
IterateOn(s, v) == IF Abrupt(s) \/ IsObject(v) THEN Asked(s, "iterate", <<v>>) ELSE Raised(s, TypeError)

\* s.v becomes the list of the expressions' values, spread ones in place.
ListOf(es, i, s, x, vs) ==
    IF i > Len(es) THEN Is(s, Arr(vs))
    ELSE IF es[i].k = "spread"
    THEN LET t == Ev(es[i].e, s, x)
             it == IterateOn(t, t.v)
             u == Drain(it, it.v, vs)
         IN EvAll(es, i + 1, u, x, u.v.vs)
    ELSE LET t == Ev(es[i], s, x) IN EvAll(es, i + 1, t, x, Append(vs, t.v))
EvList(es, s, x) == EvAll(es, 1, s, x, <<>>)

ThisOf(s, x) == IF ~ Abrupt(s) /\ s.store[x.this] = NoValue THEN Raised(s, ReferenceError)
                ELSE Is(s, s.store[x.this])
\* A reference to a member or a name: [s, object or where, key].
ReferenceTo(t, s, x) ==
    CASE t.k = "id" -> LET u == Resolve(t.x, s, x.env) IN [s |-> u, o |-> u.v, key |-> Undef]
      [] t.k = "member" /\ t.o.k = "super" ->
           LET u == EvKey(t.key, ThisOf(s, x), x) IN [s |-> u, o |-> u.store[x.this], key |-> u.v]
      [] OTHER -> LET u == Ev(t.o, s, x)
                      w == EvKey(t.key, u, x)
                  IN [s |-> w, o |-> u.v, key |-> w.v]
ValueOf(t, r) ==
    CASE Abrupt(r.s) -> r.s
      [] ~ Abrupt(r.s) /\ t.k = "id" -> ReadRef(r.s, r.o)
      [] ~ Abrupt(r.s) /\ t.k = "member" /\ t.o.k = "super" -> Asked(r.s, "super get", <<r.o, r.key>>)
      [] ~ Abrupt(r.s) /\ t.k = "member" /\ t.key.k = "private" -> Asked(r.s, "get private", <<r.o, r.key>>)
      [] OTHER -> GetOf(r.s, r.o, r.key)
Write(t, r, s, v) ==
    CASE Abrupt(s) -> s
      [] ~ Abrupt(s) /\ t.k = "id" -> Is(WriteRef(s, r.o, v), v)
      [] ~ Abrupt(s) /\ t.k = "member" /\ t.o.k = "super" -> Told(s, "super set", <<r.o, r.key, v>>, v)
      [] ~ Abrupt(s) /\ t.k = "member" /\ t.key.k = "private" -> Told(s, "set private", <<r.o, r.key, v>>, v)
      [] OTHER -> SetOf(s, r.o, r.key, v)

\* A chain ends at the first nullish object before a `?.`: [s, whether it did].
ChainOf(e, s, x) ==
    IF e.k # "member" \/ e.o.k = "super" THEN [s |-> Ev(e, s, x), short |-> FALSE]
    ELSE LET r == EvChain(e.o, s, x) IN
         IF r.short \/ Abrupt(r.s) THEN r
         ELSE IF e.opt /\ Nullish(r.s.v) THEN [s |-> Is(r.s, Undef), short |-> TRUE]
         ELSE LET k == EvKey(e.key, r.s, x) IN
              [s |-> Read(e, [s |-> k, o |-> r.s.v, key |-> k.v]), short |-> FALSE]

Anonymous(e) == e.k \in {"function", "class"} /\ e.name = ""
EvNamed(e, name, s, x) ==
    CASE e.k = "function" /\ Anonymous(e) -> ClosureOf(s, e, name, x)
      [] e.k = "class" /\ Anonymous(e) -> ClassOf(e, name, s, x)
      [] OTHER -> Ev(e, s, x)
Decides(op, v) ==
    CASE op = "And" -> ~ Truthy(v) [] op = "Or" -> Truthy(v) [] op = "Nullish" -> ~ Nullish(v)

Plain(op) == CASE op = "NotEq" -> "Eq" [] op = "StrictNotEq" -> "StrictEq" [] OTHER -> op
BinaryOf(op, s, a, b) ==
    IF op = "In" /\ ~ IsObject(b) THEN Raised(s, TypeError)
    ELSE LET v == Operate(Plain(op), a, b) IN Is(s, IF Plain(op) = op THEN v ELSE OperateOne("Not", v))

EvAssign(e, s, x) ==
    CASE e.op = "" /\ ~ IsReference(e.t) ->
           LET v == Ev(e.e, s, x) IN Is(PatTo(e.t, v.v, v, x, FALSE), v.v)
      [] e.op = "" /\ IsReference(e.t) ->
           LET r == RefOf(e.t, s, x)
               v == Ev(e.e, r.s, x)
           IN Write(e.t, r, v, v.v)
      [] e.op \in {"And", "Or", "Nullish"} ->
           LET r == RefOf(e.t, s, x)
               old == Read(e.t, r)
               v == EvNamed(e.e, IF e.t.k = "id" THEN e.t.x ELSE "", old, x)
           IN IF Abrupt(old) \/ Decides(e.op, old.v) THEN old ELSE Write(e.t, r, v, v.v)
      [] OTHER ->
           LET r == RefOf(e.t, s, x)
               old == Read(e.t, r)
               v == Ev(e.e, old, x)
               w == BinaryOf(e.op, v, old.v, v.v)
           IN Write(e.t, r, w, w.v)

\* The receiver and the function a call refers to: [s, this, callee].
CalleeOf(f, s, x) ==
    IF f.k # "member" THEN LET t == Ev(f, s, x) IN [s |-> t, this |-> Undef, f |-> t.v]
    ELSE LET r == RefOf(f, s, x)
             t == Read(f, r)
         IN [s |-> t, this |-> r.o, f |-> t.v]
EvCall(f, args, s, x) ==
    LET c == CalleeOf(f, s, x)
        a == EvList(args, c.s, x)
    IN CallOf(a, c.f, c.this, a.v.vs)
\* super(): construct the superclass, bind `this`, then set up this class's fields.
EvSuper(args, s, x) ==
    LET class == s.closures[x.class.n]
        a == EvList(args, s, x)
        r == ConstructOf(a, class.super, a.v.vs)
        b == IF Abrupt(r) THEN r ELSE [r EXCEPT !.store[x.this] = r.v]
    IN Is(Fields(b, x.class, r.v, 1), r.v)

Properties(e, s, x) ==
    LET o == Object(s.created + 1)
        P[i \in 0..Len(e.props)] ==
            IF i = 0 THEN [s EXCEPT !.created = @ + 1]
            ELSE LET p == e.props[i]
                     t == P[i - 1]
                 IN CASE p.k = "spread" -> LET v == Ev(p.e, t, x) IN Defined(v, "copy", o, Undef, v.v)
                      [] p.k = "prop" /\ p.kind = "init" ->
                           LET k == EvKey(p.key, t, x)
                               v == Ev(p.e, k, x)
                           IN Told(v, "set", <<o, k.v, v.v>>, o)
                      [] p.k = "prop" /\ p.kind = "method" ->
                           LET k == EvKey(p.key, t, x)
                               v == ClosureOf(k, p.e, KeyName(p.key), x)
                           IN Told(v, "set", <<o, k.v, v.v>>, o)
                      [] OTHER -> LET k == EvKey(p.key, t, x)
                                      v == ClosureOf(k, p.e, KeyName(p.key), x)
                                  IN Defined(v, IF p.kind = "get" THEN "DefineGetter" ELSE "DefineSetter",
                                             o, k.v, v.v)
    IN Is(P[Len(e.props)], o)
TemplateOf(e, s, x) ==
    LET Q[i \in 1..Len(e.quasis)] ==
            IF i = 1 THEN Is(s, e.quasis[1])
            ELSE LET t == Q[i - 1]
                     v == Ev(e.es[i - 1], t, x)
                 IN Is(v, Operate("Add", Operate("Add", t.v, v.v), e.quasis[i]))
    IN Q[Len(e.quasis)]
DeleteOf(e, s, x) ==
    CASE e.k = "id" ->
           LET r == Resolve(e.x, s, x.env) IN
           (CASE Abrupt(r) -> r
              [] ~ Abrupt(r) /\ r.v.t = "binding" -> Asked(r, "delete", <<r.v.vs[1], Str(e.x)>>)
              [] ~ Abrupt(r) /\ r.v.t = "cell" -> Is(r, Bool(FALSE))
              [] OTHER -> Is([r EXCEPT !.globals = [y \in DOMAIN @ \ {e.x} |-> @[y]]], Bool(TRUE)))
      [] e.k = "member" ->
           LET r == RefOf(e, s, x) IN
           (CASE Abrupt(r.s) -> r.s
              [] ~ Abrupt(r.s) /\ e.o.k = "super" -> Raised(r.s, ReferenceError)
              [] ~ Abrupt(r.s) /\ e.o.k # "super" /\ ~ IsObject(r.o) -> Is(r.s, Bool(TRUE))
              [] OTHER -> LET d == Asked(r.s, "delete", <<r.o, r.key>>)
                          IN IF s.strict /\ ~ Abrupt(d) /\ d.v = Bool(FALSE) THEN Raised(d, TypeError) ELSE d)
      [] OTHER -> Is(Ev(e, s, x), Bool(TRUE))

ExprOf(e, s, x) ==
    IF Abrupt(s) THEN s ELSE
    CASE e.k = "lit"        -> Is(s, e.v)
      [] e.k = "id"         -> IF e.x = "undefined" THEN Is(s, Undef)
                               ELSE LET r == RefOf(e, s, x) IN Read(e, r)
      [] e.k = "this"       -> ThisOf(s, x)
      [] e.k = "unary"      ->
           (CASE e.op = "Delete" -> DeleteOf(e.e, s, x)
              [] e.op = "Typeof" /\ e.e.k = "id" ->
                   LET r == Resolve(e.e.x, s, x.env)
                       v == IF Abrupt(r) \/ (r.v.t = "global" /\ r.v.s \notin DOMAIN r.globals)
                            THEN Is(r, Undef) ELSE ReadRef(r, r.v)
                   IN Is(v, OperateOne("Typeof", v.v))
              [] OTHER -> LET v == Ev(e.e, s, x) IN Is(v, OperateOne(e.op, v.v)))
      [] e.k = "binary"     -> LET a == Ev(e.a, s, x)
                                   b == Ev(e.b, a, x)
                               IN IF Abrupt(b) THEN b ELSE BinaryOf(e.op, b, a.v, b.v)
      [] e.k = "private in" -> LET o == Ev(e.e, s, x) IN
                               IF Abrupt(o) \/ IsObject(o.v) THEN Asked(o, "private in", <<o.v, Str(e.x)>>)
                               ELSE Raised(o, TypeError)
      [] e.k = "logical"    -> LET a == Ev(e.a, s, x) IN
                               IF Abrupt(a) \/ Decides(e.op, a.v) THEN a ELSE Ev(e.b, a, x)
      [] e.k = "conditional" -> LET t == Ev(e.t, s, x) IN
                                IF Abrupt(t) THEN t ELSE Ev(IF Truthy(t.v) THEN e.a ELSE e.b, t, x)
      [] e.k = "sequence"   -> LET vs == EvList(e.es, s, x) IN IF Abrupt(vs) THEN vs ELSE Is(vs, Last(vs.v.vs))
      [] e.k = "template"   -> TemplateOf(e, s, x)
      [] e.k = "tagged"     -> LET c == CalleeOf(e.tag, s, x)
                                   a == EvList(e.es, c.s, x)
                               IN CallOf(a, c.f, c.this, <<Val("template", "", 0, <<>>)>> \o a.v.vs)
      [] e.k = "array"      -> EvList(e.es, s, x)
      [] e.k = "object"     -> Properties(e, s, x)
      [] e.k = "member"     -> IF e.o.k = "super" THEN LET r == RefOf(e, s, x) IN Read(e, r)
                               ELSE EvChain(e, s, x).s
      [] e.k = "call"       -> IF e.f.k = "super" THEN EvSuper(e.args, s, x) ELSE EvCall(e.f, e.args, s, x)
      [] e.k = "new"        -> LET f == Ev(e.f, s, x)
                                   a == EvList(e.args, f, x)
                               IN ConstructOf(a, f.v, a.v.vs)
      [] e.k = "assign"     -> EvAssign(e, s, x)
      [] e.k = "update"     -> LET r == RefOf(e.t, s, x)
                                   old == Read(e.t, r)
                                   new == Operate(e.op, old.v, Num(1))
                                   w == Write(e.t, r, old, new)
                               IN Is(w, IF e.prefix THEN new ELSE old.v)
      [] e.k = "function"   -> ClosureOf(s, e, e.name, x)
      [] e.k = "class"      -> ClassOf(e, e.name, s, x)
      [] e.k = "import()"   -> LET v == Ev(e.e, s, x)
                                   w == IF e.options.k = "none" THEN v ELSE Ev(e.options, v, x)
                               IN Asked(w, "import", <<v.v, Num(IF e.e.k = "lit" THEN 1 ELSE 0)>>)
      [] e.k = "import.meta" -> Is(s, Val("meta", "", 0, <<>>))
      [] e.k = "regex"      -> Is(s, Val("regex", e.x, 0, <<>>))

-----------------------------------------------------------------------------
\* Functions.  The first cell of a call is its `this`; then its names.
ExAll(body, s, x) ==
    LET X[i \in 0..Len(body)] == IF i = 0 THEN s ELSE Ex(body[i], X[i - 1], x, {}) IN X[Len(body)]
\* A default export is kept in *default* unless it is a declaration with a name.
DefaultCell(name) == Id(IF name = "" THEN "*default*" ELSE name)
DefaultName(name) == IF name = "" THEN "default" ELSE name
RECURSIVE Exported(_)
Exported(st) == CASE st.k = "export" -> Exported(st.s)
                  [] st.k = "default" /\ IsDeclaration(st.e) -> st.e
                  [] OTHER -> st
Declared(body, s, x) ==
    LET D[i \in 0..Len(body)] ==
            IF i = 0 THEN s
            ELSE IF Exported(body[i]).k # "function decl" THEN D[i - 1]
            ELSE LET fn == Exported(body[i]).fn
                     v  == ClosureOf(D[i - 1], fn, DefaultName(fn.name), x)
                 IN PatTo(DefaultCell(fn.name), v.v, v, x, TRUE)
    IN D[Len(body)]

\* A scope of its own for xs, a sequence of names; and for `this`, unless it is an arrow's.
Scoped(c, xs, s, this) ==
    [env |-> Append(c.env, Names([y \in ToSet(xs) |-> Len(s.store) + 1 + SelectLastInSeq(xs, LAMBDA z : z = y)])),
     this |-> IF c.this # 0 THEN c.this ELSE Len(s.store) + 1, class |-> c.class]
WithCells(s, xs, this) == [s EXCEPT !.store = @ \o <<this>> \o [i \in DOMAIN xs |-> Undef]]

Returned(s) == CASE s.c.k = "return" -> [s EXCEPT !.c = Normal, !.v = s.c.v]
                 [] s.c.k = "normal" -> Is(s, Undef)
                 [] OTHER -> s
RunBody(s, c, this, args) ==
    LET fn == c.fn
        xs == PatsNames(fn.params) \o BodyNames(fn.body)
        x  == Scoped(c, xs, s, this)
        B[i \in 0..Len(fn.params)] ==
            IF i = 0 THEN WithCells(s, xs, this)
            ELSE PatTo(fn.params[i], IF i <= Len(args) THEN args[i] ELSE Undef, B[i - 1], x, TRUE)
        entered == Declared(fn.body, B[Len(fn.params)], x)
    IN Returned(IF fn.e.k = "none" THEN ExAll(fn.body, entered, x)
                ELSE LET v == Ev(fn.e, entered, x) IN Ends(v, "return", v.v, ""))

Called(s, f, this, args) ==
    CASE Abrupt(s) -> s
      [] ~ Abrupt(s) /\ f.t = "fn" -> RunBody(s, s.closures[f.n], this, args)
      [] ~ Abrupt(s) /\ IsForeign(f) -> Asked(s, "call", <<f, this>> \o args)
      [] OTHER -> Raised(s, TypeError)

\* The result of a constructor's body that ran with its `this` in cell n.
Constructed(s, n) ==
    IF Abrupt(s) \/ IsObject(s.v) THEN s
    ELSE IF s.store[n] = NoValue THEN Raised(s, ReferenceError) ELSE Is(s, s.store[n])
Construction(s, f, args) ==
    IF Abrupt(s) THEN s
    ELSE IF IsForeign(f) THEN Asked(s, "construct", <<f>> \o args)
    ELSE IF f.t # "fn" THEN Raised(s, TypeError)
    ELSE LET c == s.closures[f.n] IN
         IF c.super = NoValue
         THEN LET this == Object(s.created + 1)
                  t == Fields([s EXCEPT !.created = @ + 1], f, this, 1)
              IN IF Abrupt(t) THEN t
                 ELSE IF c.fn.k = "none" THEN Is(t, this)
                 ELSE Constructed(RunBody(t, c, this, args), Len(t.store) + 1)
         ELSE IF c.fn.k = "none"
         THEN LET r == ConstructOf(s, c.super, args) IN Is(Fields(r, f, r.v, 1), r.v)
         ELSE Constructed(RunBody(s, c, NoValue, args), Len(s.store) + 1)

-----------------------------------------------------------------------------
\* Classes.  Methods are defined first, then static elements run in order.
KeyOf(c, i) ==
    LET key == c.members[i].key IN
    CASE key.k = "computed" -> c.keys[Cardinality({j \in 1..i : c.members[j].key.k = "computed"})]
      [] key.k = "number"   -> Num(key.n)
      [] OTHER              -> Str(key.x)
DefineField(s, c, i, o, x) ==
    LET mb == c.members[i]
        v  == IF mb.e.k = "none" THEN Is(s, Undef) ELSE EvNamed(mb.e, KeyName(mb.key), s, x)
    IN Defined(v, IF mb.key.k = "private" THEN "DefinePrivate" ELSE "DefineDataProperty", o, KeyOf(c, i), v.v)

\* The fields of the class f, from its i-th member on, defined on the object o.
FieldsOf(s, f, o, i) ==
    IF Abrupt(s) \/ f.t # "fn" \/ i > Len(s.closures[f.n].members) THEN s
    ELSE LET c == s.closures[f.n] IN
         IF c.members[i].kind # "field" \/ c.members[i].static THEN Fields(s, f, o, i + 1)
         ELSE Fields(DefineField(WithCells(s, <<>>, o), c, i, o, Scoped(c, <<>>, s, o)), f, o, i + 1)

DefineOne(s, c, i, class, x) ==
    LET mb == c.members[i]
        v  == ClosureOf(s, mb.e, KeyName(mb.key), x)
        op == (IF mb.key.k = "private" THEN "DefinePrivate" ELSE "Define") \o Define(mb.kind)
    IN CASE mb.static -> Defined(v, op, class, KeyOf(c, i), v.v)
         [] ~ mb.static /\ mb.key.k = "private" -> Defined(v, op \o "Template", class, KeyOf(c, i), v.v)
         [] OTHER -> Defined(v, op, Val("get", "prototype", 0, <<class>>), KeyOf(c, i), v.v)
IsConstructor(v) == v.t \in {"fn", "ext", "answer"}
ClassValue(c, name, s, x) ==
    LET sup   == IF c.super.k = "none" THEN Is(s, NoValue) ELSE Ev(c.super, s, x)
        n     == Len(sup.closures) + 1
        class == Val("fn", name, n, <<>>)
        made  == IF Abrupt(sup) THEN sup
                 ELSE IF sup.v # NoValue /\ sup.v # Null /\ ~ IsConstructor(sup.v) THEN Raised(sup, TypeError)
                 ELSE NewClosure(sup, [fn |-> c.ctor, env |-> x.env, this |-> 0, class |-> class,
                                       super |-> sup.v, members |-> c.members, keys |-> <<>>], name)
        computed == SelectSeq(c.members, LAMBDA mb : mb.key.k = "computed")
        K[i \in 0..Len(computed)] ==
            IF i = 0 THEN made
            ELSE LET k == Ev(computed[i].key.e, K[i - 1], x)
                 IN IF Abrupt(k) THEN k ELSE [k EXCEPT !.closures[n].keys = Append(@, ToKey(k.v))]
        keyed == K[Len(computed)]
        whole == keyed.closures[n]
        names == FlattenSeq([i \in DOMAIN c.members |->
                    IF c.members[i].kind = "block" THEN BodyNames(c.members[i].e.body) ELSE <<>>])
        inner == Scoped(whole, names, keyed, class)
        M[i \in 0..Len(c.members)] ==
            IF i = 0 THEN WithCells(keyed, names, class)
            ELSE IF IsMethod(c.members[i]) THEN DefineOne(M[i - 1], whole, i, class, inner) ELSE M[i - 1]
        F[i \in 0..Len(c.members)] ==
            IF i = 0 THEN M[Len(c.members)]
            ELSE CASE c.members[i].kind = "block" -> ExAll(c.members[i].e.body, F[i - 1], inner)
                   [] c.members[i].kind = "field" /\ c.members[i].static ->
                        DefineField(F[i - 1], whole, i, class, inner)
                   [] OTHER -> F[i - 1]
    IN IF Abrupt(keyed) THEN keyed ELSE Is(F[Len(c.members)], class)

-----------------------------------------------------------------------------
\* Patterns.  A target that is assigned, not declared, is evaluated before the
\* value it is given.
DeclaredScopes(x) == SelectSeq(x.env, LAMBDA scope : scope.o = NoValue)
Fetched(src, s) ==
    CASE src.k = "get"   -> GetOf(s, src.o, src.key)
      [] src.k = "value" -> Is(s, src.o)
      [] src.k = "next"  -> LET t == Asked(s, "next", <<src.o>>) IN
                            Is(t, IF t.v.t # "result" \/ t.v.vs = <<>> THEN Undef ELSE t.v.vs[1])
Defaulted(q, s, x) == IF q.k = "default" /\ ~ Abrupt(s) /\ s.v = Undef THEN Ev(q.e, s, x) ELSE s
Inner(q)           == IF q.k \in {"default", "rest"} THEN q.p ELSE q
Element(q, src, s, x, declares) ==
    IF ~ declares /\ IsReference(Leaf(q))
    THEN LET r == RefOf(Leaf(q), s, x)
             v == Defaulted(q, Fetched(src, r.s), x)
         IN Write(Leaf(q), r, v, v.v)
    ELSE LET v == Defaulted(q, Fetched(src, s), x) IN PatTo(Inner(q), v.v, v, x, declares)

PatternTo(p, v, s, x, declares) ==
    IF Abrupt(s) THEN s ELSE
    CASE p.k = "id" /\ declares ->
           LET r == Resolve(p.x, s, DeclaredScopes(x)) IN WriteRef(r, r.v, v)
      [] p.k = "array pattern" ->
           LET indexed == declares /\ v.t = "arr"
               it == IF indexed THEN s ELSE IterateOn(s, v)
               A[i \in 0..Len(p.ps)] ==
                 IF i = 0 THEN it
                 ELSE CASE p.ps[i].k = "hole" /\ indexed -> A[i - 1]
                        [] p.ps[i].k = "hole" /\ ~ indexed -> Asked(A[i - 1], "next", <<it.v>>)
                        [] OTHER -> Element(p.ps[i], [k |-> IF indexed THEN "get" ELSE "next",
                                                      o |-> IF indexed THEN v ELSE it.v, key |-> Num(i - 1)],
                                            A[i - 1], x, declares)
           IN A[Len(p.ps)]
      [] p.k = "object pattern" ->
           LET O[i \in 0..Len(p.ps)] ==
                 IF i = 0 THEN IF Nullish(v) THEN Raised(s, TypeError) ELSE s
                 ELSE LET k == EvKey(p.ps[i].key, O[i - 1], x) IN
                      IF Abrupt(k) THEN k
                      ELSE Element(p.ps[i].p, [k |-> "get", o |-> v, key |-> k.v], k, x, declares)
           IN O[Len(p.ps)]
      [] OTHER -> Element(p, [k |-> "value", o |-> v, key |-> Undef], s, x, declares)

-----------------------------------------------------------------------------
\* Statements.  `labels` are those of an enclosing labelled statement.
Clear(s) == [s EXCEPT !.c = Normal]
Continues(s, labels) == s.c.k = "normal" \/ (s.c.k = "continue" /\ s.c.l \in labels \cup {NoLabel})
Broken(s) == IF s.c.k = "break" /\ s.c.l = NoLabel THEN Clear(s) ELSE s

RECURSIVE Cycle(_, _, _, _, _), OfCycle(_, _, _, _, _), InCycle(_, _, _, _, _, _)
Cycle(st, s, x, labels, first) ==
    LET t == IF (st.k = "do" /\ first) \/ st.t.k = "none" THEN Is(s, Bool(TRUE)) ELSE Ev(st.t, s, x)
        b == Ex(st.s, t, x, {})
        u == IF st.k = "for" THEN IF st.u.k = "none" THEN Clear(b) ELSE Ev(st.u, Clear(b), x) ELSE Clear(b)
    IN IF Abrupt(t) \/ ~ Truthy(t.v) THEN t
       ELSE IF Continues(b, labels) THEN IF Abrupt(u) THEN u ELSE Cycle(st, u, x, labels, FALSE)
       ELSE Broken(b)
OfCycle(st, it, s, x, labels) ==
    LET n == Asked(s, "next", <<it>>)
        t == PatTo(st.p, n.v.vs[1], n, x, Declares(st))
        b == Ex(st.s, t, x, {})
    IN IF Abrupt(n) \/ n.v.s = "done" THEN n
       ELSE IF Abrupt(t) THEN t
       ELSE IF Continues(b, labels) THEN OfCycle(st, it, Clear(b), x, labels) ELSE Broken(b)
InCycle(st, keys, i, s, x, labels) ==
    LET t == PatTo(st.p, keys[i], s, x, Declares(st))
        b == Ex(st.s, t, x, {})
    IN IF i > Len(keys) THEN s
       ELSE IF Abrupt(t) THEN t
       ELSE IF Continues(b, labels) THEN InCycle(st, keys, i + 1, Clear(b), x, labels) ELSE Broken(b)

\* The first case that matches, or the default one; 0 if there is neither.
SwitchOn(st, s, x) ==
    LET d == Ev(st.e, s, x)
        default == SelectInSeq(st.cases, LAMBDA c : c.t.k = "none")
        C[i \in 0..Len(st.cases)] ==     \* [s, case found]
            IF i = 0 THEN [s |-> d, n |-> 0]
            ELSE IF Abrupt(C[i - 1].s) \/ C[i - 1].n # 0 \/ st.cases[i].t.k = "none" THEN C[i - 1]
            ELSE LET t == Ev(st.cases[i].t, C[i - 1].s, x) IN [s |-> t, n |-> IF t.v = d.v THEN i ELSE 0]
        found == C[Len(st.cases)]
        start == IF found.n # 0 THEN found.n ELSE default
    IN IF Abrupt(found.s) \/ start = 0 THEN found.s
       ELSE Broken(ExAll(FlattenSeq([i \in 1..(Len(st.cases) + 1 - start) |-> st.cases[start + i - 1].body]), found.s, x))

TryOf(st, s, x) ==
    LET b == ExAll(st.body, s, x)
        caught == IF st.handler.p.k = "none" THEN Clear(b) ELSE PatTo(st.handler.p, b.c.v, Clear(b), x, TRUE)
        h == IF b.c.k = "throw" /\ st.handler.k # "none" THEN ExAll(st.handler.body, caught, x) ELSE b
        f == ExAll(st.final.body, Clear(h), x)
    IN IF st.final.k = "none" THEN h ELSE IF Abrupt(f) THEN f ELSE [f EXCEPT !.c = h.c]

StmtOf(st, s, x, labels) ==
    IF Abrupt(s) THEN s ELSE
    CASE st.k \in {"empty", "none", "function decl"} -> s
      [] st.k = "block"  -> ExAll(st.body, s, x)
      [] st.k = "expr"   -> Ev(st.e, s, x)
      [] st.k = "return" -> LET v == IF st.e.k = "none" THEN Is(s, Undef) ELSE Ev(st.e, s, x)
                            IN Ends(v, "return", v.v, "")
      [] st.k = "throw"  -> LET v == Ev(st.e, s, x) IN Raised(v, v.v)
      [] st.k = "break"  -> Ends(s, "break", NoValue, st.l)
      [] st.k = "continue" -> Ends(s, "continue", NoValue, st.l)
      [] st.k = "if"     -> LET t == Ev(st.t, s, x) IN
                            IF Abrupt(t) THEN t ELSE Ex(IF Truthy(t.v) THEN st.a ELSE st.b, t, x, {})
      [] st.k \in {"while", "do"} -> Cycle(st, s, x, labels, TRUE)
      [] st.k = "for"    -> LET t == Ex(st.init, s, x, {}) IN
                            IF Abrupt(t) THEN t ELSE Cycle(st, t, x, labels, TRUE)
      [] st.k = "for of" -> LET v == Ev(st.e, s, x)
                                it == IterateOn(v, v.v)
                            IN IF Abrupt(it) THEN it ELSE OfCycle(st, it.v, it, x, labels)
      [] st.k = "for in" -> LET v == Ev(st.e, s, x)
                                keys == IF Abrupt(v) THEN v
                                        ELSE IF IsObject(v.v) THEN Asked(v, "keys", <<v.v>>) ELSE Is(v, Arr(<<>>))
                            IN IF Abrupt(keys) THEN keys ELSE InCycle(st, keys.v.vs, 1, keys, x, labels)
      [] st.k = "switch" -> SwitchOn(st, s, x)
      [] st.k = "try"    -> TryOf(st, s, x)
      [] st.k = "labeled" -> LET b == Ex(st.s, s, x, labels \cup {st.l})
                             IN IF b.c.k = "break" /\ b.c.l = st.l THEN Clear(b) ELSE b
      [] st.k = "with"   -> LET o == Ev(st.e, s, x) IN
                            IF Abrupt(o) THEN o ELSE IF Nullish(o.v) THEN Raised(o, TypeError)
                            ELSE Ex(st.s, o, [x EXCEPT !.env = Append(@, OfObject(o.v))], {})
      [] st.k = "decl"   ->
           LET D[i \in 0..Len(st.decls)] ==
                 IF i = 0 THEN s
                 ELSE LET d == st.decls[i]
                          v == IF d[2].k = "none" THEN Is(D[i - 1], Undef) ELSE Ev(d[2], D[i - 1], x)
                      IN IF d[2].k = "none" /\ st.kind = "var" THEN D[i - 1] ELSE PatTo(d[1], v.v, v, x, TRUE)
           IN D[Len(st.decls)]
      [] st.k = "class decl" -> LET v == ClassOf(st.c, DefaultName(st.c.name), s, x)
                                IN PatTo(DefaultCell(st.c.name), v.v, v, x, TRUE)
      [] st.k = "export" \/ (st.k = "default" /\ IsDeclaration(st.e)) -> Ex(Exported(st), s, x, {})
      [] st.k = "default" -> LET v == EvNamed(st.e, "default", s, x)
                             IN PatTo(DefaultCell(""), v.v, v, x, TRUE)

Eval(what, a, s, x) ==
    CASE what = "expr"      -> ExprOf(a[1], s, x)
      [] what = "chain"     -> ChainOf(a[1], s, x)
      [] what = "list"      -> ListOf(a[1], a[2], s, x, a[3])
      [] what = "reference" -> ReferenceTo(a[1], s, x)
      [] what = "read"      -> ValueOf(a[1], a[2])
      [] what = "resolve"   -> Binding(a[1], s, a[2])
      [] what = "ask"       -> Asking(s, a[1], a[2])
      [] what = "statement" -> StmtOf(a[1], s, x, a[2])
      [] what = "pattern"   -> PatternTo(a[1], a[2], s, x, a[3])
      [] what = "class"     -> ClassValue(a[1], a[2], s, x)
      [] what = "call"      -> Called(s, a[1], a[2], a[3])
      [] what = "construct" -> Construction(s, a[1], a[2])
      [] what = "fields"    -> FieldsOf(s, a[1], a[2], a[3])

\* The whole of a program, run on a tape of answers.
Meaning(program, tape) ==
    LET this == IF program.module THEN Undef ELSE Val("global", "", 0, <<>>)
        xs == BodyNames(program.body)
        s  == [store |-> <<>>, closures |-> <<>>, created |-> 0, log |-> <<>>, defs |-> <<>>,
               globals |-> [y \in program.host |-> Ext(y)], tape |-> tape, pos |-> 0,
               strict |-> program.module, v |-> Undef, c |-> Normal]
        x  == Scoped([env |-> <<>>, this |-> 0, class |-> NoValue], xs, s, this)
    IN ExAll(program.body, Declared(program.body, WithCells(s, xs, this), x), x)
=============================================================================
