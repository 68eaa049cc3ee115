----------------------------- MODULE MCLowering -----------------------------
\* The programs that are lowered and run.  f, g, h and o are the host's.
EXTENDS ProgramFamilies

Throwing == [call |-> <<"throw", "value">>]
Testing  == [call |-> <<"value", "false">>]

fn(x, args) == Call(Id(x), args)
g_ == fn("g", <<>>)
h_ == fn("h", <<>>)
one == Lit(Num(1))
two == Lit(Num(2))
nul == Lit(Null)
var(x, e) == Var("var", << <<Id(x), e>> >>)
get(x)    == MemberOf(Id("o"), Name(x))

\* function make(p) { var n = p; return { get: () => f(n), set: (v) => n = v } ... } ; two closures share n
Closures == P(<<>>, <<
    FunctionDecl(Fn("make", <<Id("p"), Id("q")>>, <<
        var("n", Id("p")),
        FunctionDecl(Fn("inner", <<Id("p")>>, <<
            Return(ArrowFn(<<Id("v")>>, Comma(<<Assign("Add", Id("n"), Id("v")),
                                                 fn("f", <<Id("n"), Id("p"), Id("q"), This>>)>>)))>>)),
        Return(ArrayOf(<<fn("inner", <<two>>), ArrowFn(<<>>, Update("Sub", FALSE, Id("n")))>>))>>)),
    Var("var", << <<ArrayPat(<<Id("add"), Id("less")>>), fn("make", <<f_, g_>>)>> >>),
    do(fn("add", <<one>>)), do(fn("less", <<>>)), do(fn("h", <<fn("add", <<two>>)>>)),
    Var("var", << <<ArrayPat(<<Id("again"), Hole, Default(Id("d"), h_)>>), fn("make", <<one>>)>> >>),
    do(fn("again", <<Id("d")>>))>>)

\* outer: while (f()) { do { if (g()) continue outer; if (h()) break outer } while (f()) }
Loops == P(Testing, <<
    Labeled("outer", While(f_, Block(<<
        DoWhile(Block(<<If(g_, Continue("outer"), Empty), If(h_, Break("outer"), None)>>), f_)>>))),
    Labeled("skip", Block(<<If(f_, Break("skip"), None), do(g_)>>)),
    For(var("i", Lit(Num(0))), Bin("Lt", Id("i"), two), Update("Add", FALSE, Id("i")), Block(<<
        If(fn("h", <<Id("i")>>), Continue(""), None), do(fn("g", <<Id("i")>>)), Break("")>>)),
    For(None, f_, None, Empty)>>)

Switches == P(Testing, <<
    Switch(f_, <<Case(g_, <<do(fn("f", <<one>>))>>), Case(None, <<do(fn("f", <<two>>))>>),
                 Case(Lit(Bool(FALSE)), <<do(fn("g", <<one>>)), Break("")>>), Case(h_, <<do(fn("h", <<one>>))>>)>>),
    Switch(one, <<Case(one, <<Switch(two, <<Case(two, <<Break("")>>)>>), do(h_)>>)>>)>>)

\* A callee's exception, its own handlers first; the operands of the call it interrupted.
Handlers == P(Throwing, <<
    FunctionDecl(Fn("inner", <<>>, <<
        Try(<<do(f_)>>, None, Block(<<do(fn("h", <<one>>))>>)),
        Return(fn("g", <<two>>))>>)),
    FunctionDecl(Fn("t", <<>>, <<
        var("r", one),
        Try(<<Try(<<do(fn("f", <<g_, fn("inner", <<>>)>>))>>, None, Block(<<Expr(Assign("", Id("r"), two))>>))>>,
            Catch(Id("e"), <<Expr(Assign("", Id("r"), Id("e")))>>), None),
        Return(fn("h", <<Id("r")>>))>>)),
    Try(<<do(fn("t", <<>>))>>, Catch(None, <<>>), Block(<<do(Id("missing"))>>))>>)
Retries == P(Throwing, <<
    var("n", Lit(Num(0))),
    While(Bin("Lt", Id("n"), two), Block(<<
        Expr(Update("Add", TRUE, Id("n"))),
        Try(<<do(fn("f", <<Id("n"), g_>>)), Throw(Id("n"))>>,
            Catch(ObjectPat(<<PropPat(Name("m"), Id("m"))>>), <<Empty>>), Block(<<var("k", Id("m"))>>))>>)),
    do(fn("h", <<Id("k")>>))>>)

Iterations == P([next |-> <<"throw", "value", "done">>, keys |-> <<"done", "value">>, call |-> <<"value">>], <<
    Labeled("all", ForOf("var", ObjectPat(<<>>), ArrayOf(<<>>), Continue("all"))),
    ForIn("var", Id("k"), Id("o"), Block(<<do(fn("g", <<Id("k")>>)), If(Bin("StrictEq", Id("k"), Lit(Str("k"))), Continue(""), Break(""))>>)),
    do(fn("f", <<Id("x"), Spread(Id("o")), one, Spread(f_)>>)),
    do(ArrayOf(<<one, Spread(g_), two>>))>>)
ForOfs == P([next |-> <<"throw", "value", "done">>, call |-> <<"throw", "value">>], <<
    FunctionDecl(Fn("all", <<Id("it")>>, <<
        ForOf("", Id("x"), Id("it"), Block(<<do(fn("g", <<Id("x")>>)), If(Id("x"), Continue(""), None)>>)),
        Return(Id("x"))>>)),
    ForOf("var", Id("y"), f_, do(fn("all", <<Id("y")>>)))>>)

Patterns == P([next |-> <<"throw", "value">>, get |-> <<"undefined", "value">>], <<
    do(Assign("", ArrayPat(<<Id("a"), Hole, get("x"), Default(MemberOf(f_, Computed(g_)), h_)>>), Id("o"))),
    do(Assign("", ObjectPat(<<PropPat(Name("k"), Id("b")), PropPat(Computed(f_), Default(get("y"), g_)),
                              PropPat(Name("n"), ArrayPat(<<Id("c")>>))>>), Id("o"))),
    do(fn("f", <<Id("a"), Id("b"), Id("c")>>))>>)
Declared_ == P([get |-> <<"undefined", "value">>], <<
    FunctionDecl(Fn("p", <<Id("a"), ObjectPat(<<PropPat(Name("x"), Default(Id("b"), f_))>>), Default(Id("c"), g_)>>,
        <<do(fn("h", <<Id("a"), Id("b"), Id("c")>>))>>)),
    do(fn("p", <<one, Id("o")>>)),
    Var("let", << <<ObjectPat(<<PropPat(Computed(h_), Id("u")), PropPat([k |-> "number", n |-> 1], Id("v"))>>), Id("o")>>,
                  <<Id("w"), None>> >>),
    do(fn("f", <<Id("u"), Id("v"), Id("w"), Un("Typeof", Id("nowhere"))>>))>>)

Objects == P([set |-> <<"throw", "value">>, delete |-> <<"false", "value">>], <<
    var("x", ObjectOf(<<Prop("init", Name("a"), f_), Prop("method", Name("m"), Fn("", <<>>, <<Return(This)>>)),
                        Prop("get", Name("c"), Fn("", <<>>, <<>>)), Prop("set", Name("c"), Fn("", <<Id("v")>>, <<>>)),
                        Spread(g_)>>)),
    do(Assign("Sub", MemberOf(Id("x"), Computed(h_)), one)),
    do(Update("Add", FALSE, get("n"))), do(Update("Add", TRUE, get("n"))),
    do(Un("Delete", get("a"))), do(Un("Delete", f_)),
    do(Call(MemberOf(Id("x"), Name("m")), <<one>>)), do(Call(get("m"), <<Spread(Id("o"))>>)),
    do(New(Id("f"), <<one>>)), do(New(Id("g"), <<Spread(Id("o"))>>))>>)

Operators == P([call |-> <<"null", "value", "false">>, get |-> <<"null", "value">>], <<
    do(fn("g", <<Logic("And", f_, one), Cond(f_, Un("Not", one), nul)>>)),
    do(fn("g", <<Logic("Or", f_, h_), Logic("Nullish", f_, h_)>>)),
    do(Assign("Nullish", get("x"), f_)), do(Assign("And", Id("y"), one)),
    do(fn("h", <<OptionalOf(OptionalOf(Id("o"), Name("a")), Computed(f_)), Bin("NotEq", one, two)>>)),
    do(Assign("Or", Id("z"), Fn("", <<>>, <<>>))), do(fn("g", <<Id("z")>>))>>)
Literals == P(Throwing, <<
    do(fn("f", <<Template(<<Str("a"), Str("b"), Str("c")>>, <<g_, h_>>), Lit(Bool(TRUE)), Id("undefined")>>)),
    do(Tagged(get("tag"), <<Str("a"), Str("b")>>, <<g_>>)), do(Tagged(Id("f"), <<Str("a")>>, <<>>)),
    do(fn("eval", <<>>)),
    do(fn("f", <<Comma(<<g_, Bin("In", one, Id("o"))>>), Un("Void", Regex("r"))>>)), do(Bin("In", one, two))>>)
Globals == P([delete |-> <<"false", "value">>], <<
    do(Assign("", Id("made"), f_)), do(fn("g", <<Id("made"), Un("Typeof", Id("made")), Un("Typeof", Id("gone"))>>)),
    do(Un("Delete", Id("made"))), Try(<<do(Id("made"))>>, Catch(Id("e"), <<do(fn("h", <<Id("e")>>))>>), None),
    do(Un("Delete", Id("e"))), do(Call(nul, <<>>))>>)
Scopes == P([has |-> <<"throw", "false", "value">>, get |-> <<"throw", "value">>, set |-> <<"throw", "value">>, next |-> <<"value", "done">>], <<
    FunctionDecl(Fn("w", <<Id("a")>>, <<
        var("l", one),
        With(Id("o"), Block(<<
            With(Id("a"), do(Comma(<<Id("l"), Un("Typeof", Id("missing")), Un("Delete", Id("a"))>>))),
            ForOf("", Id("l"), Id("a"), Empty),
            Return(ArrowFn(<<Id("q")>>, Bin("Add", Id("q"), Id("l"))))>>))>>)),
    var("k", fn("w", <<ArrayOf(<<>>)>>)), do(fn("k", <<two>>))>>)
WithNothing == P([has |-> <<"value", "false">>], <<
    With(Id("o"), Block(<<do(Id("nowhere")), ForOf("", Id("found"), Id("o"), do(Un("Delete", Id("found"))))>>)),
    With(nul, Empty)>>)

\* class B { x = f(); #p = g(); constructor(a) { ... } ... }  class C extends B { ... }
Base == Class("B", None, Fn("", <<Id("a")>>, <<Expr(Assign("", MemberOf(This, Name("y")), Id("a")))>>), <<
    field(FALSE, Name("x"), f_), field(FALSE, Private("p"), g_),
    method(FALSE, Name("m"), <<>>, <<Return(MemberOf(This, Private("p")))>>),
    method(FALSE, Private("q"), <<>>, <<>>),
    ClassMember("get", TRUE, Name("z"), Fn("", <<>>, <<>>)),
    field(TRUE, Name("s"), Fn("", <<>>, <<>>)),
    ClassMember("block", TRUE, None, Block(<<do(fn("h", <<This>>)),
        Expr(Assign("Add", MemberOf(This, Private("p")), one)), do(PrivateIn("p", Id("o")))>>))>>)
Classes == P([construct |-> <<"value">>, call |-> <<"throw", "value">>], <<
    ClassDecl(Base),
    ClassDecl(Class("C", Id("B"), Fn("", <<>>, <<
        do(Call(Super, <<f_>>)), do(MemberOf(This, Name("x"))), do(MemberOf(Super, Name("m")))>>), <<
        field(FALSE, Computed(fn("g", <<one>>)), ArrowFn(<<>>, This)),
        method(TRUE, Computed(fn("g", <<two>>)), <<>>, <<>>),
        field(TRUE, Computed(h_), None)>>)),
    do(New(Id("C"), <<>>))>>)
Derived == P(Throwing, <<
    ClassDecl(Class("B", None, None, <<field(FALSE, Name("x"), f_)>>)),
    ClassDecl(Class("D", Id("B"), None, <<field(FALSE, Name("w"), g_)>>)),
    do(Call(MemberOf(New(Id("D"), <<one>>), Name("m")), <<>>)),
    var("n", Class("", nul, None, <<method(TRUE, Name("k"), <<>>, <<Return(Call(MemberOf(Super, Name("v")), <<>>))>>)>>)),
    do(Call(MemberOf(Id("n"), Name("k")), <<>>)), do(Class("", one, None, <<>>))>>)
Supers == P([construct |-> <<"value">>], <<
    ClassDecl(Class("E", Id("f"), Fn("", <<Id("a")>>, <<
        Try(<<do(This)>>, Catch(Id("e"), <<do(fn("g", <<Id("e")>>))>>), None),
        do(Call(Super, <<Spread(Id("a"))>>)),
        do(fn("h", <<ArrowFn(<<>>, MemberOf(Super, Name("k")))>>)),
        do(Assign("", MemberOf(Super, Name("k")), one)),
        do(Assign("Add", MemberOf(Super, Computed(h_)), two)),
        Try(<<do(Un("Delete", MemberOf(Super, Name("k"))))>>, Catch(Id("e"), <<>>), None),
        Return(Id("o"))>>), <<field(FALSE, Private("v"), one)>>)),
    do(New(Id("E"), <<Id("o")>>)), do(New(one, <<>>))>>)
Modules == AsModule(P([import |-> <<"value">>], <<
    ExportDefault(FunctionDecl(Fn("", <<>>, <<>>))), do(fn("f", <<ImportMeta, ImportCall(Lit(Str("m")), "eval", None)>>)),
    do(ImportCall(g_, "eval", ObjectOf(<<>>))), do(Un("Delete", get("x")))>>))
\* t(u(this)); export default function t(q) { h(q) }; export function u(q) { return g(q) }
Hoisted == AsModule(P(<<>>, <<
    do(fn("t", <<fn("u", <<This>>)>>)),
    ExportDefault(FunctionDecl(Fn("t", <<Id("q")>>, <<do(fn("h", <<Id("q")>>))>>))),
    ExportDecl(FunctionDecl(Fn("u", <<Id("q")>>, <<Return(fn("g", <<Id("q")>>))>>)))>>))
\* A default export of a class, declared or the value of an expression.
DefaultClass(e) == AsModule(P(<<>>, <<ExportDefault(e)>>))
Static == Class("", Id("f"), None, <<field(TRUE, Name("x"), fn("g", <<MemberOf(This, Name("name"))>>))>>)

Ran == [closures |-> Closures, loops |-> Loops, switches |-> Switches, handlers |-> Handlers,
    retries |-> Retries, iterations |-> Iterations, forofs |-> ForOfs, patterns |-> Patterns,
    declared |-> Declared_, objects |-> Objects, operators |-> Operators, literals |-> Literals,
    globals |-> Globals, scopes |-> Scopes, withnothing |-> WithNothing, classes |-> Classes,
    derived |-> Derived, supers |-> Supers, modules |-> Modules, hoisted |-> Hoisted,
    defaultclass |-> DefaultClass(ClassDecl(Static)), defaultvalue |-> DefaultClass(Static)]
MCPrograms == {[Ran[x] EXCEPT !.key = <<x>>] : x \in DOMAIN Ran} \cup Family

\* for (var x of f()) for (var y of g(x)) h(y)
Nested == P([next |-> <<"value", "done">>], <<
    ForOf("var", Id("x"), f_, ForOf("var", Id("y"), fn("g", <<Id("x")>>), do(fn("h", <<Id("y")>>))))>>)
NestedPrograms == {Nested}
=============================================================================
