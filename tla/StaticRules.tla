---------------------------- MODULE StaticRules ----------------------------
(***************************************************************************)
(* ECMAScript's early errors as rules on where a node stands: every node   *)
(* of a program with the path that leads to it, and what a path must or    *)
(* must not hold.  No order of visits, no state.                           *)
(***************************************************************************)
EXTENDS SyntaxTree

\* A child and the part it plays in its parent.
As(part, ns)  == [i \in DOMAIN ns |-> [n |-> ns[i], as |-> part]]
Present(ns)   == SelectSeq(ns, LAMBDA n : n.k # "none")
RECURSIVE PatternParts(_)
PatternParts(p) ==
    CASE p.k = "default" -> PatternParts(p.p) \o <<p.e>>
      [] p.k = "rest"    -> PatternParts(p.p)
      [] p.k = "prop"    -> When(p.key.k = "computed", <<p.key.e>>) \o PatternParts(p.p)
      [] p.k \in {"array pattern", "object pattern"} -> All(PatternParts, p.ps)
      [] p.k \in {"id", "member"} -> <<p>>
      [] OTHER -> <<>>
IsPattern(p) == p.k \in {"array pattern", "object pattern", "id"}
KeyOf(key) == When(key.k = "computed", <<key.e>>)

Children(n) ==
    CASE n.k = "function" -> As("parameter", All(PatternParts, n.params)) \o As("body", Present(n.body \o <<n.e>>))
      [] n.k = "class"    -> As("heritage", Present(<<n.super>>))
                             \o As("constructor", Present(<<n.ctor>>))
                             \o All(LAMBDA m : As("key", KeyOf(m.key)) \o As(m.kind, Present(<<m.e>>)), n.members)
      [] n.k = "object"   -> All(LAMBDA q : IF q.k = "spread" THEN As("value", <<q.e>>)
                                  ELSE As("key", KeyOf(q.key)) \o As(IF q.kind = "init" THEN "value" ELSE "method", <<q.e>>),
                                 n.props)
      [] n.k \in {"unary", "private in", "spread", "await", "yield", "expr", "throw", "return"} ->
           As("value", Present(<<n.e>>))
      [] n.k = "import()" -> As("value", Present(<<n.e, n.options>>))
      [] n.k \in {"binary", "logical"} -> As("value", <<n.a, n.b>>)
      [] n.k = "conditional" -> As("value", <<n.t, n.a, n.b>>)
      [] n.k \in {"sequence", "template", "array"} -> As("value", Present(n.es))
      [] n.k = "tagged"   -> As("value", <<n.tag>> \o n.es)
      [] n.k = "member"   -> As("object", <<n.o>>) \o As("value", KeyOf(n.key))
      [] n.k \in {"call", "new"} -> As("callee", <<n.f>>) \o As("value", n.args)
      [] n.k = "update"   -> As("target", <<n.t>>)
      [] n.k = "assign"   -> As("target", PatternParts(n.t)) \o As("value", <<n.e>>)
      [] n.k = "decl"     -> All(LAMBDA d : As("binding", PatternParts(d[1])) \o As("value", Present(<<d[2]>>)), n.decls)
      [] n.k = "function decl" -> As("function", <<n.fn>>)
      [] n.k = "class decl"    -> As("class", <<n.c>>)
      [] n.k = "export"   -> As("statement", <<n.s>>)
      [] n.k = "default"  -> As(IF IsDeclaration(n.e) THEN "statement" ELSE "value", <<n.e>>)
      [] n.k = "block"    -> As("statement", n.body)
      [] n.k = "if"       -> As("value", <<n.t>>) \o As("clause", Present(<<n.a, n.b>>))
      [] n.k \in {"while", "do"} -> As("value", <<n.t>>) \o As("loop", <<n.s>>)
      [] n.k = "for"      -> As("head", Present(<<n.init, n.t, n.u>>)) \o As("loop", <<n.s>>)
      [] n.k \in {"for of", "for in"} -> As("binding", PatternParts(n.p)) \o As("value", <<n.e>>) \o As("loop", <<n.s>>)
      [] n.k = "switch"   -> As("value", <<n.e>>)
                             \o All(LAMBDA cs : As("value", Present(<<cs.t>>)) \o As("case", cs.body), n.cases)
      [] n.k = "try"      -> As("tried", n.body) \o As("handler", Present(<<n.handler>>)) \o As("final", Present(<<n.final>>))
      [] n.k = "catch"    -> As("binding", PatternParts(n.p)) \o As("statement", n.body)
      [] n.k = "labeled"  -> As("labeled", <<n.s>>)
      [] n.k = "with"     -> As("value", <<n.e>>) \o As("clause", <<n.s>>)
      [] OTHER -> <<>>

\* A place: a node and the steps down to it, [n |-> the parent, as |-> the part, i |-> which child].
RECURSIVE Places(_, _)
Places(n, up) ==
    LET children == Children(n)
        Child(i) == Places(children[i].n, Append(up, [n |-> n, as |-> children[i].as, i |-> i]))
    IN <<[n |-> n, up |-> up]>> \o All(Child, [i \in DOMAIN children |-> i])
\* The statements of a program are the children of no node.
Program == [k |-> "program"]
ProgramPlaces(program) ==
    All(LAMBDA i : Places(program.body[i], <<[n |-> Program, as |-> "statement", i |-> i]>>),
        [i \in DOMAIN program.body |-> i])

-----------------------------------------------------------------------------
\* What a step of a path enters.
IntoFunction(step) == step.n.k = "function"
IntoBlock(step)    == step.n.k = "class" /\ step.as = "block"
IntoField(step)    == step.n.k = "class" /\ step.as = "field"
\* Jumps, var declarations and labels end here; `this`, `super` and new.target do not in arrows.
IntoCode(step)     == IntoFunction(step) \/ IntoBlock(step) \/ IntoField(step)
IntoThis(step)     == IntoCode(step) /\ ~ (IntoFunction(step) /\ step.n.arrow)
Innermost(up, Is(_)) == SelectLastInSeq(up, Is)
Within(up, d) == SubSeq(up, d + 1, Len(up))
\* The steps of the function, static block or initialiser around a place.
Local(up) == Within(up, Innermost(up, IntoCode))

Keyword(body) == \E i \in DOMAIN body : /\ \A j \in 1..i : body[j].k = "expr" /\ body[j].e.k = "lit" /\ body[j].e.v.t = "str"
                                        /\ body[i].e.v.s = "use strict"
IsStrict(program, up) ==
    \/ program.module \/ program.context.strict \/ Keyword(program.body)
    \/ \E i \in DOMAIN up : up[i].n.k = "class" \/ (IntoFunction(up[i]) /\ Keyword(up[i].n.body))

\* A jump leaves or repeats a statement around it.
Repeats(step)  == step.as = "loop"
HasTarget(n, up) ==
    \E i \in DOMAIN Local(up) :
        LET steps == Local(up) IN
        IF n.l = "" THEN Repeats(steps[i]) \/ (n.k = "break" /\ steps[i].as = "case")
        ELSE /\ steps[i].n.k = "labeled" /\ steps[i].n.l = n.l
             /\ n.k = "continue" => \E j \in i..Len(steps) : /\ Repeats(steps[j])
                                                             /\ \A m \in i..(j - 1) : steps[m].n.k = "labeled"
\* A label is not one of the statements around it.
LabelIsNew(n, up) == \A i \in DOMAIN Local(up) : Local(up)[i].n.k = "labeled" => Local(up)[i].n.l # n.l

\* A private name is declared by a class around its use, the heritage not its own.
Privates(class) == {m.key.x : m \in {d \in ToSet(class.members) : d.key.k = "private"}}
Resolves(x, program, up) ==
    x \in program.context.privates
    \/ \E i \in DOMAIN up : up[i].n.k = "class" /\ up[i].as # "heritage" /\ x \in Privates(up[i].n)

\* super.x stands in a method, a field or a static block; super() in the
\* constructor of a class with a heritage; new.target in any function, field or block.
Home(up) == Innermost(up, IntoThis)
InMethod(up) == Home(up) > 1 /\ up[Home(up) - 1].as \in {"method", "get", "set", "constructor"}
MaySuperProperty(program, up) ==
    IF Home(up) = 0 THEN program.context.superProp ELSE InMethod(up) \/ ~ IntoFunction(up[Home(up)])
MaySuperCall(program, up) ==
    IF Home(up) = 0 THEN program.context.superCall
    ELSE InMethod(up) /\ up[Home(up) - 1].as = "constructor" /\ up[Home(up) - 1].n.super.k # "none"
MayNewTarget(program, up) ==
    Home(up) = 0 => program.context.newTarget

\* await and yield are of the function around them, in its body.
MayAwait(program, up) ==
    LET d == Innermost(up, IntoCode) IN
    IF d = 0 THEN program.module ELSE IntoFunction(up[d]) /\ up[d].n.async /\ up[d].as = "body"
MayYield(up) ==
    LET d == Innermost(up, IntoCode) IN d # 0 /\ IntoFunction(up[d]) /\ up[d].n.gen /\ up[d].as = "body"
\* `arguments` is not of a field's initialiser or a static block.
MayArguments(program, up) ==
    IF Home(up) = 0 THEN ~ program.context.noArguments ELSE IntoFunction(up[Home(up)])

FutureReserved == {"implements", "interface", "let", "package", "private", "protected", "public", "static", "yield"}
Sound(n, up, program) ==
    LET strict == IsStrict(program, up) IN
    CASE n.k \in {"break", "continue"} -> HasTarget(n, up)
      [] n.k = "labeled" -> LabelIsNew(n, up)
      [] n.k = "with"    -> ~ strict
      [] n.k = "private in" -> Resolves(n.x, program, up)
      [] n.k = "member"  -> /\ n.key.k = "private" => Resolves(n.key.x, program, up) /\ n.o.k # "super"
                            /\ n.o.k = "super" => MaySuperProperty(program, up)
      [] n.k = "call" /\ n.f.k = "super" -> MaySuperCall(program, up)
      [] n.k = "new.target"  -> MayNewTarget(program, up)
      [] n.k = "import.meta" -> program.module
      [] n.k = "return"  -> IntoFunction(up[Innermost(up, IntoCode)])
      [] n.k = "await"   -> MayAwait(program, up)
      [] n.k = "yield"   -> MayYield(up)
      [] n.k = "unary" /\ n.op = "Delete" -> ~ ((strict /\ n.e.k = "id") \/ (n.e.k = "member" /\ n.e.key.k = "private"))
      [] n.k = "id"      -> /\ strict => n.x \notin FutureReserved
                            /\ strict /\ Last(up).as \in {"target", "binding", "parameter"} => n.x \notin {"eval", "arguments"}
                            /\ n.x = "await" => ~ \E i \in DOMAIN up : i = Innermost(up, IntoCode) /\ IntoBlock(up[i])
                            /\ n.x = "arguments" => MayArguments(program, up)
      [] OTHER -> TRUE

-----------------------------------------------------------------------------
\* The names a program declares, each with the path of the scope it is in.
\* kind: lexical, var, parameter, caught (a catch's one name); ordinary: a function that is neither async nor a generator.
RECURSIVE Bound(_)
Bound(p) ==
    CASE p.k = "id" -> <<p.x>>
      [] p.k \in {"default", "rest", "prop"} -> Bound(p.p)
      [] p.k \in {"array pattern", "object pattern"} -> All(Bound, p.ps)
      [] OTHER -> <<>>
Scoping(step) ==
    \/ step.n.k \in {"block", "try", "catch", "function", "program", "for", "for of", "for in"}
    \/ step.as = "case"
\* The parts of one node share a scope, but a try's block and handler do not.
Scope(step) == [step EXCEPT !.i = 0, !.as = IF step.n.k = "try" THEN @ ELSE "scope"]
ScopeOf(up) == LET d == Innermost(up, Scoping) IN Append(SubSeq(up, 1, d - 1), Scope(up[d]))
VarScope(step) == step.n.k \in {"function", "program"} \/ IntoBlock(step)
\* A statement of a script, a function body or a static block itself.
AtTop(up) == VarScope(Last(up)) \/ (Len(up) > 1 /\ IntoBlock(up[Len(up) - 1]))
Binding(x, kind, ordinary, up) == [x |-> x, kind |-> kind, ordinary |-> ordinary, up |-> up, scope |-> ScopeOf(up)]

DeclaredAt(n, up, program) ==
    LET Of(xs, kind, path) == [i \in DOMAIN xs |-> Binding(xs[i], kind, FALSE, path)]
        Entering(as) == Append(up, [n |-> n, as |-> as, i |-> 1])
    IN CASE n.k = "decl" -> Of(All(LAMBDA d : Bound(d[1]), n.decls), IF n.kind = "var" THEN "var" ELSE "lexical", up)
         [] n.k \in {"for of", "for in"} /\ n.kind # "" ->
              Of(Bound(n.p), IF n.kind = "var" THEN "var" ELSE "lexical", Entering("binding"))
         [] n.k = "catch"      -> When(n.p.k # "none", Of(Bound(n.p), IF n.p.k = "id" THEN "caught" ELSE "lexical", Entering("binding")))
         [] n.k = "class decl" -> Of(When(n.c.name # "", <<n.c.name>>), "lexical", up)
         [] n.k = "function decl" /\ n.fn.name # "" ->
              IF AtTop(up) /\ ~ (program.module /\ Last(up).n.k = "program") THEN Of(<<n.fn.name>>, "var", up)
              ELSE <<Binding(n.fn.name, "lexical", ~ (n.fn.async \/ n.fn.gen \/ IsStrict(program, up)), up)>>
         [] n.k = "function" -> Of(All(Bound, n.params), "parameter", Entering("parameter"))
         [] OTHER -> <<>>

\* A var is of every scope between it and its function.
Crosses(d, scope) ==
    /\ Len(scope) <= Len(d.up)
    /\ \A i \in 1..(Len(scope) - 1) : d.up[i] = scope[i]
    /\ Scope(d.up[Len(scope)]) = scope[Len(scope)]
    /\ \A i \in (Len(scope) + 1)..Len(d.up) : ~ VarScope(d.up[i])
SameScope(d, e) == Len(d.scope) = Len(e.scope) /\ Crosses(d, e.scope)
\* `unique`: the function of a parameter that may not repeat a name.
Unique(d, program) ==
    LET f == Last(d.up).n IN
    \/ f.arrow \/ IsStrict(program, d.up) \/ \E i \in DOMAIN f.params : f.params[i].k # "id"
    \/ Len(d.up) > 1 /\ d.up[Len(d.up) - 1].as \in {"method", "get", "set", "constructor"}
Clash(d, e, program) ==
    /\ d.x = e.x
    /\ \/ {d.kind, e.kind} \subseteq {"lexical", "caught"} /\ SameScope(d, e) /\ ~ (d.ordinary /\ e.ordinary)
       \/ d.kind = "lexical" /\ e.kind \in {"var", "parameter"} /\ Crosses(e, d.scope)
       \/ e.kind = "lexical" /\ d.kind \in {"var", "parameter"} /\ Crosses(d, e.scope)
       \/ {d.kind, e.kind} = {"parameter"} /\ SameScope(d, e) /\ Unique(d, program)
NamesApart(places, program) ==
    LET ds == All(LAMBDA p : DeclaredAt(p.n, p.up, program), places) IN
    /\ \A i, j \in DOMAIN ds : i < j => ~ Clash(ds[i], ds[j], program)
    /\ \A i \in DOMAIN ds : ds[i].kind = "lexical" => ds[i].x # "let"

WellFormed(program) ==
    LET places == ProgramPlaces(program) IN
    /\ \A i \in DOMAIN places : Sound(places[i].n, places[i].up, program)
    /\ NamesApart(places, program)
=============================================================================
