---------------------------- MODULE EarlyErrors ----------------------------
(***************************************************************************)
(* The early errors of a parsed program (js-parser::early_errors and       *)
(* static_semantics).                                                      *)
(*                                                                         *)
(* What the checker does at a node is a sequence of steps, in the order of *)
(* the code: refuse, open or close a scope, declare a name, visit a node   *)
(* in a context.  Walk is the steps of a whole tree, and ScopesAfter runs its *)
(* declarations on the stack of scopes.  Everything else the checker keeps *)
(* is set before a visit and restored after it: it is the visit's context. *)
(*                                                                         *)
(* Left out with the text they depend on: octal literals and escapes,      *)
(* parentheses, shorthand properties, import attributes, decorators.       *)
(***************************************************************************)
EXTENDS Bytecode, SyntaxTree

Visit(n, c)     == [do |-> "visit", n |-> n, c |-> c]
Refuse(why)     == [do |-> "refuse", why |-> why]
Open(function)  == [do |-> "open", function |-> function]
Close           == [do |-> "close"]
\* how: lexical, var, parameter, function; ordinary: neither async nor a generator.
Declare(how, x, ordinary, c) ==
    [do |-> "declare", how |-> how, x |-> x, ordinary |-> ordinary, strict |-> c.strict, module |-> c.module]

Deny(cond, why)   == When(cond, <<Refuse(why)>>)
VisitAll(ns, c)   == [i \in DOMAIN ns |-> Visit(ns[i], c)]
InScope(fn, steps) == <<Open(fn)>> \o steps \o <<Close>>
DeclareAs(how, xs, c) == [i \in DOMAIN xs |-> Declare(how, xs[i], FALSE, c)]
Twice(xs) == \E i, j \in DOMAIN xs : i < j /\ xs[i] = xs[j]

-----------------------------------------------------------------------------
\* The syntactic context of a program, and of the source of an eval: that of its
\* caller when direct.  `initialiser`: the caller is one of a class.
EvalContext(direct, privates, superclass, initialiser) ==
    [strict |-> direct /\ privates # {}, privates |-> IF direct THEN privates ELSE {},
     superProp |-> direct /\ superclass, superCall |-> FALSE, newTarget |-> direct,
     noArguments |-> direct /\ initialiser]
NoContext == EvalContext(FALSE, {}, FALSE, FALSE)

TopLevel(isModule, strict, eval) ==
    [module |-> isModule, strict |-> strict, await |-> isModule, yield |-> FALSE,
     superProp |-> eval.superProp, superCall |-> eval.superCall, newTarget |-> eval.newTarget,
     privates |-> eval.privates, staticBlock |-> FALSE,
     labels |-> <<>>, breakable |-> FALSE, iteration |-> FALSE]

\* A function and a static block start without labels and loops around them.
NewControl(c) == [c EXCEPT !.labels = <<>>, !.breakable = FALSE, !.iteration = FALSE]
InLoop(c)     == [c EXCEPT !.breakable = TRUE, !.iteration = TRUE]
\* Mutant: a class does not make the code in it strict.
AsAround(c)   == c
Strictly(c)   == [c EXCEPT !.strict = TRUE]

\* The directives of a body are the string literals it begins with.
IsDirective(s) == s.k = "expr" /\ s.e.k = "lit" /\ s.e.v.t = "str"
UseStrict(body) == \E i \in DOMAIN body : /\ \A j \in 1..i : IsDirective(body[j])
                                          /\ body[i].e.v = Str("use strict")

ReservedWords == {"implements", "interface", "let", "package", "private", "protected",
                  "public", "static", "yield"}
StrictlyUnbindable(x, c) ==
    (c.staticBlock /\ x = "await") \/ x \in {"eval", "arguments"} \cup ReservedWords

-----------------------------------------------------------------------------
\* Static semantics: the names of patterns and declarations.
RECURSIVE BoundNames(_)
BoundNames(p) ==
    CASE p.k = "id" -> <<p.x>>
      [] p.k \in {"default", "rest", "prop"} -> BoundNames(p.p)
      [] p.k \in {"array pattern", "object pattern"} -> All(BoundNames, p.ps)
      [] OTHER -> <<>>
DeclaratorNames(decls) == All(LAMBDA d : BoundNames(d[1]), decls)

\* The expressions of a pattern, in the order they stand.
KeyExprs(key) == When(key.k = "computed", <<key.e>>)
RECURSIVE PatternExprs(_)
PatternExprs(p) ==
    CASE p.k = "default" -> PatternExprs(p.p) \o <<p.e>>
      [] p.k = "rest"    -> PatternExprs(p.p)
      [] p.k = "prop"    -> KeyExprs(p.key) \o PatternExprs(p.p)
      [] p.k = "member"  -> <<p>>
      [] p.k \in {"array pattern", "object pattern"} -> All(PatternExprs, p.ps)
      [] OTHER -> <<>>

\* Its member targets.
RECURSIVE Targets(_)
Targets(p) ==
    CASE p.k \in {"default", "rest", "prop"} -> Targets(p.p)
      [] p.k = "member" -> <<p>>
      [] p.k \in {"array pattern", "object pattern"} -> All(Targets, p.ps)
      [] OTHER -> <<>>

NamesOf(x) == When(x # "", <<x>>)
Ordinary(fn) == ~ fn.async /\ ~ fn.gen
Lexical(xs, ordinary) == [i \in DOMAIN xs |-> [x |-> xs[i], ordinary |-> ordinary]]

\* What a statement itself declares in its block; not what is nested in it.
LexicalNames(s) ==
    CASE s.k = "decl" /\ s.kind # "var" -> Lexical(DeclaratorNames(s.decls), FALSE)
      [] s.k = "function decl" -> Lexical(NamesOf(s.fn.name), Ordinary(s.fn))
      [] s.k = "class decl" -> Lexical(NamesOf(s.c.name), FALSE)
      [] OTHER -> <<>>
CaseBodies(cases) == All(LAMBDA cs : cs.body, cases)

\* The var declarations of a statement, nested ones too; not its functions'.
RECURSIVE VarNames(_)
VarNames(s) ==
    LET Of(body) == UNION {VarNames(body[i]) : i \in DOMAIN body} IN
    CASE s.k = "decl"   -> IF s.kind = "var" THEN ToSet(DeclaratorNames(s.decls)) ELSE {}
      [] s.k = "block"  -> Of(s.body)
      [] s.k = "if"     -> Of(<<s.a, s.b>>)
      [] s.k = "switch" -> Of(CaseBodies(s.cases))
      [] s.k = "try"    -> Of(s.body \o When(s.handler.k # "none", s.handler.body) \o <<s.final>>)
      [] s.k \in {"while", "do", "labeled", "with"} -> VarNames(s.s)
      [] s.k = "for"    -> Of(<<s.init, s.s>>)
      [] s.k \in {"for of", "for in"} ->
           (IF s.kind = "var" THEN ToSet(BoundNames(s.p)) ELSE {}) \cup VarNames(s.s)
      [] OTHER -> {}

\* Only ordinary functions of sloppy code may share a name in one block.
NamesClash(body, strict) ==
    LET lexical == All(LexicalNames, body)
        vars    == UNION {VarNames(body[i]) : i \in DOMAIN body}
    IN \E i \in DOMAIN lexical :
         \/ lexical[i].x \in vars
         \/ \E j \in 1..(i - 1) : /\ lexical[j].x = lexical[i].x
                                  /\ strict \/ ~ lexical[j].ordinary \/ ~ lexical[i].ordinary
ListSteps(body, c) == Deny(NamesClash(body, c.strict), "names of a block")

\* Whether `arguments` occurs in an expression or statement; arrows are
\* transparent, functions are not, and of a class only its heritage and keys.
Target(t) == IF t.k \in {"array pattern", "object pattern"} THEN PatternExprs(t) ELSE <<t>>
Inside(n) ==
    CASE n.k = "function" -> When(n.arrow, All(PatternExprs, n.params) \o n.body \o <<n.e>>)
      [] n.k = "class"    -> <<n.super>> \o All(LAMBDA m : KeyExprs(m.key), n.members)
      [] n.k \in {"unary", "private in", "spread", "await", "yield", "expr", "return", "throw"} -> <<n.e>>
      [] n.k = "import()" -> <<n.e, n.options>>
      [] n.k \in {"binary", "logical"} -> <<n.a, n.b>>
      [] n.k \in {"conditional", "if"} -> <<n.t, n.a, n.b>>
      [] n.k \in {"sequence", "template", "array"} -> n.es
      [] n.k = "tagged"   -> <<n.tag>> \o n.es
      [] n.k = "object"   -> All(LAMBDA q : IF q.k = "spread" THEN <<q.e>>
                                            ELSE KeyExprs(q.key) \o When(q.kind = "init", <<q.e>>), n.props)
      [] n.k = "member"   -> <<n.o>> \o KeyExprs(n.key)
      [] n.k \in {"call", "new"} -> <<n.f>> \o n.args
      [] n.k = "update"   -> <<n.t>>
      [] n.k = "assign"   -> Target(n.t) \o <<n.e>>
      [] n.k = "decl"     -> All(LAMBDA d : PatternExprs(d[1]) \o <<d[2]>>, n.decls)
      [] n.k = "block"    -> n.body
      [] n.k \in {"while", "do"} -> <<n.t, n.s>>
      [] n.k = "for"      -> <<n.init, n.t, n.u, n.s>>
      [] n.k \in {"for of", "for in"} -> PatternExprs(n.p) \o <<n.e, n.s>>
      [] n.k = "switch"   -> <<n.e>> \o All(LAMBDA cs : <<cs.t>> \o cs.body, n.cases)
      [] n.k = "try"      -> n.body \o <<n.handler, n.final>>
      [] n.k = "catch"    -> PatternExprs(n.p) \o n.body
      [] n.k = "labeled"  -> <<n.s>>
      [] n.k = "with"     -> <<n.e, n.s>>
      [] OTHER -> <<>>
RECURSIVE HasArguments(_)
HasArguments(n) ==
    (n.k = "id" /\ n.x = "arguments") \/ \E i \in DOMAIN Inside(n) : HasArguments(Inside(n)[i])

-----------------------------------------------------------------------------
\* Patterns.  `strict` is that of the function whose parameter it may be.
RECURSIVE Malformed(_)
Malformed(p) ==
    CASE p.k = "default" -> Malformed(p.p)
      [] p.k = "rest"    -> p.p.k = "default" \/ Malformed(p.p)
      [] p.k = "prop"    -> p.key.k = "private" \/ Malformed(p.p)
      [] p.k \in {"array pattern", "object pattern"} -> \E i \in DOMAIN p.ps : Malformed(p.ps[i])
      [] OTHER -> FALSE
PatternNames(p, strict, c) ==
    Deny(\/ Malformed(p)
         \/ \E x \in ToSet(BoundNames(p)) : \/ x = "yield" /\ c.yield
                                            \/ x = "await" /\ c.await
                                            \/ strict /\ StrictlyUnbindable(x, c), "binding")
PatternInside(p, c) ==
    All(LAMBDA e : Deny(e.k = "member" /\ e.opt /\ e \in ToSet(Targets(p)), "optional chain")
                   \o <<Visit(e, c)>>, PatternExprs(p))
Pattern(p, c) == PatternNames(p, c.strict, c) \o PatternInside(p, c)

-----------------------------------------------------------------------------
\* Functions.  A member is a function, or a method of an object or of a class,
\* or the constructor of a derived class.
IsSimple(params) == \A i \in DOMAIN params : params[i].k = "id"
Parameters(params, strict, unique, c) ==
    DeclareAs("parameter", All(BoundNames, params), c)
    \o Deny(Twice(All(BoundNames, params)) /\ (~ IsSimple(params) \/ strict \/ unique), "parameter names")
    \o All(LAMBDA p : PatternNames(p, strict, c), params)
\* No yield, await or super() in a parameter's initialiser.
Initialisers(params, c) ==
    All(LAMBDA p : PatternInside(p, [c EXCEPT !.await = FALSE, !.yield = FALSE, !.superCall = FALSE]), params)

FunctionSteps(fn, member, c) ==
    LET strict == c.strict \/ member \in {"class method", "derived constructor"} \/ UseStrict(fn.body)
        header == [NewControl(c) EXCEPT !.staticBlock = FALSE, !.newTarget = TRUE]
        inner  == [header EXCEPT !.strict = strict, !.await = fn.async, !.yield = fn.gen,
                                 !.superProp = member # "function",
                                 !.superCall = member = "derived constructor"]
    IN Deny(strict /\ member = "function" /\ fn.name # "" /\ StrictlyUnbindable(fn.name, header), "function name")
       \o Deny(UseStrict(fn.body) /\ ~ IsSimple(fn.params), "use strict")
       \o InScope(TRUE, Parameters(fn.params, strict, member # "function", header)
                       \o Initialisers(fn.params, inner) \o VisitAll(fn.body, inner))

\* An arrow has the await, the super and the new.target around it; it leaves a
\* static block only in its body.
ArrowSteps(fn, c) ==
    LET strict == c.strict \/ UseStrict(fn.body)
        header == NewControl(c)
        inner  == [header EXCEPT !.strict = strict, !.await = @ \/ fn.async, !.yield = FALSE]
        body   == [inner EXCEPT !.staticBlock = FALSE]
    IN Deny(UseStrict(fn.body) /\ ~ IsSimple(fn.params), "use strict")
       \o InScope(TRUE, Parameters(fn.params, strict, TRUE, header)
                       \o Initialisers(fn.params, inner)
                       \o VisitAll(fn.body, body) \o When(fn.e.k # "none", <<Visit(fn.e, body)>>))

-----------------------------------------------------------------------------
\* Classes.  The one duplicate a private name may have is the other accessor.
IsPrivateMember(m) == m.key.k = "private"
PrivatesClash(members) ==
    \E i, j \in DOMAIN members :
        /\ i < j /\ IsPrivateMember(members[i]) /\ members[i].key = members[j].key
        /\ \/ {members[i].kind, members[j].kind} # {"get", "set"}
           \/ members[i].static # members[j].static
           \/ \E h \in 1..(j - 1) : h # i /\ members[h].key = members[i].key
IsNamed(m, x) == m.key = Name(x)

AccessorArity(m) ==
    Deny(\/ m.kind = "get" /\ m.e.params # <<>>
         \/ m.kind = "set" /\ (Len(m.e.params) # 1 \/ Head(m.e.params).k = "rest"), "accessor")
MemberSteps(m, c) ==
    CASE m.kind \in {"method", "get", "set"} ->
           Deny((~ m.static /\ IsNamed(m, "constructor")) \/ (m.static /\ IsNamed(m, "prototype")), "method name")
           \o AccessorArity(m) \o FunctionSteps(m.e, "class method", c)
      [] m.kind = "field" ->
           Deny(IsNamed(m, "constructor") \/ (m.static /\ IsNamed(m, "prototype")), "field name")
           \o When(m.e.k # "none", Deny(HasArguments(m.e), "arguments")
                                   \o <<Visit(m.e, [c EXCEPT !.superProp = TRUE, !.superCall = FALSE])>>)
      [] m.kind = "block" ->
           Deny(HasArguments(m.e), "arguments") \o ListSteps(m.e.body, c)
           \o InScope(TRUE, VisitAll(m.e.body, [NewControl(c) EXCEPT !.superProp = TRUE, !.superCall = FALSE,
                                                 !.newTarget = TRUE, !.staticBlock = TRUE]))
\* The constructor is a member like the others, set apart by the parser.
ClassSteps(cl, c) ==
    LET privates == {m.key.x : m \in {n \in ToSet(cl.members) : IsPrivateMember(n)}}
        inner    == [Strictly(c) EXCEPT !.privates = @ \cup privates]
    IN Deny(cl.name # "" /\ StrictlyUnbindable(cl.name, c), "class name")
       \o <<Visit(cl.super, Strictly(c))>>
       \o Deny("constructor" \in privates \/ PrivatesClash(cl.members), "private names")
       \o When(cl.ctor.k # "none",
               FunctionSteps(cl.ctor, IF cl.super.k = "none" THEN "class method" ELSE "derived constructor", inner))
       \o All(LAMBDA m : VisitAll(KeyExprs(m.key), inner) \o MemberSteps(m, inner), cl.members)

-----------------------------------------------------------------------------
\* Expressions.
RECURSIVE OptionalChain(_)
OptionalChain(e) == \/ e.k = "member" /\ (e.opt \/ OptionalChain(e.o))
                    \/ e.k = "call" /\ OptionalChain(e.f)
IsSimpleTarget(t) == t.k = "id" \/ (t.k = "member" /\ ~ t.opt /\ ~ OptionalChain(t.o))

MemberAccess(m, c) ==
    Deny(m.o = Super /\ (~ c.superProp \/ m.key.k = "private"), "super")
    \o Deny(m.key.k = "private" /\ m.key.x \notin c.privates, "private name")
    \o <<Visit(m.o, c)>> \o VisitAll(KeyExprs(m.key), c)

AssignmentSteps(t, c) ==
    CASE t.k = "id" -> Deny(c.strict /\ t.x \in {"eval", "arguments"} \cup ReservedWords, "assignment target")
      [] t.k = "member" -> Deny(~ IsSimpleTarget(t), "assignment target") \o MemberAccess(t, c)
      [] OTHER -> Pattern(t, c)

IsProtoValue(q) == q.k = "prop" /\ q.kind = "init" /\ q.key = Name("__proto__")
PropertySteps(q, c) ==
    IF q.k = "prop" /\ q.kind # "init" THEN FunctionSteps(q.e, "method", c) ELSE <<Visit(q.e, c)>>

\* Spread arguments, computed keys of object literals and the substitutions of
\* a tagged template are not visited.
NotSpread(args) == SelectSeq(args, LAMBDA a : a.k # "spread")
Subexpressions(e) ==
    CASE e.k \in {"binary", "logical"} -> <<e.a, e.b>>
      [] e.k = "conditional" -> <<e.t, e.a, e.b>>
      [] e.k \in {"sequence", "template", "array"} -> e.es
      [] e.k \in {"call", "new"} -> <<e.f>> \o NotSpread(e.args)
      [] e.k = "tagged"   -> <<e.tag>>
      [] e.k = "import()" -> <<e.e, e.options>>
      [] e.k = "update"   -> <<e.t>>
      [] e.k \in {"unary", "private in", "spread", "yield", "await"} -> <<e.e>>
      [] OTHER -> <<>>

\* What an expression is refused for: its operand, or the place it is in.
Unsound(e, c) ==
    CASE e.k = "unary"  -> /\ e.op = "Delete"
                           /\ (c.strict /\ e.e.k = "id") \/ (e.e.k = "member" /\ e.e.key.k = "private")
      [] e.k = "update" -> \/ ~ IsSimpleTarget(e.t)
                           \/ c.strict /\ e.t.k = "id" /\ e.t.x \in {"eval", "arguments"}
      [] e.k = "private in" -> e.x \notin c.privates
      [] e.k = "call"       -> e.f = Super /\ ~ c.superCall
      [] e.k = "new"        -> e.f.k = "import()"
      [] OTHER -> FALSE
Misplaced(e, c) ==
    CASE e.k = "import.meta" -> ~ c.module
      [] e.k = "new.target"  -> ~ c.newTarget
      [] e.k = "yield"       -> c.staticBlock \/ ~ c.yield
      [] e.k = "await"       -> c.staticBlock \/ ~ c.await
      [] e.k = "super"       -> ~ c.superProp
      [] e.k = "id"          -> \/ c.strict /\ e.x \in ReservedWords
                                \/ c.staticBlock /\ e.x = "await"
      [] OTHER -> FALSE

ExprSteps(e, c) ==
    CASE e.k = "function" -> IF e.arrow THEN ArrowSteps(e, c) ELSE FunctionSteps(e, "function", c)
      [] e.k = "class"    -> ClassSteps(e, c)
      [] e.k = "assign"   -> AssignmentSteps(e.t, c) \o <<Visit(e.e, c)>>
      [] e.k = "member"   -> MemberAccess(e, c)
      [] e.k = "object"   -> Deny(Len(SelectSeq(e.props, IsProtoValue)) > 1, "__proto__")
                             \o All(LAMBDA q : PropertySteps(q, c), e.props)
      [] OTHER -> Deny(Unsound(e, c) \/ Misplaced(e, c), e.k) \o VisitAll(Subexpressions(e), c)

-----------------------------------------------------------------------------
\* Declarations.
IsUsing(s) == s.k = "decl" /\ s.kind \in {"using", "await using"}
DeclareNames(kind, xs, c) ==
    Deny(kind # "var" /\ "let" \in ToSet(xs), "let")
    \o DeclareAs(IF kind = "var" THEN "var" ELSE "lexical", xs, c)
Declarator(kind, d, c) ==
    DeclareNames(kind, BoundNames(d[1]), c) \o Pattern(d[1], c)
    \o (IF d[2].k # "none" THEN <<Visit(d[2], c)>>
        ELSE Deny(kind \in {"const", "using", "await using"}, "initialiser"))

FunctionDeclSteps(fn, c) ==
    When(fn.name # "", <<Declare("function", fn.name, Ordinary(fn), c)>>)
    \o Deny(c.staticBlock /\ fn.name = "await", "function name") \o FunctionSteps(fn, "function", c)
ClassDeclSteps(cl, c) == DeclareAs("lexical", NamesOf(cl.name), c) \o ClassSteps(cl, c)

\* The items of a module; what they import and export is checked with the body.
IsModuleItem(s) == s.k \in {"import", "export", "default", "export names", "export from"}
ItemSteps(s, c) ==
    Deny(~ c.module, "module item")
    \o CASE s.k = "import" -> DeclareAs("lexical", s.xs, c)
                              \o Deny(\E x \in ToSet(s.xs) : StrictlyUnbindable(x, c), "imported name")
         [] s.k = "export" -> <<Visit(s.s, c)>>
         [] s.k = "default" -> <<Visit(s.e, c)>>
         [] OTHER -> <<>>

-----------------------------------------------------------------------------
\* Statements.  The body of an unbraced statement declares nothing lexical.
RECURSIVE IsLabeledFunction(_), LabelsLoop(_)
IsLabeledFunction(s) == s.k = "function decl" \/ (s.k = "labeled" /\ IsLabeledFunction(s.s))
LabelsLoop(s) == s.k \in {"while", "do", "for", "for of", "for in"} \/ (s.k = "labeled" /\ LabelsLoop(s.s))

DeclaresLexically(s) == s.k \in {"function decl", "class decl"} \/ (s.k = "decl" /\ s.kind # "var")
Unbraced(s, c) == Deny(IsLabeledFunction(s) \/ DeclaresLexically(s), "unbraced declaration") \o <<Visit(s, c)>>
BlockSteps(body, c) == ListSteps(body, c) \o InScope(FALSE, VisitAll(body, c))

ForTarget(s, c) ==
    LET names == BoundNames(s.p) IN
    IF ~ Declares(s) THEN Pattern(s.p, c)
    ELSE Deny(s.k = "for in" /\ s.kind \in {"using", "await using"}, "using")
         \o Deny(s.kind # "var" /\ ToSet(names) \cap VarNames(s.s) # {}, "names of a loop")
         \o DeclareNames(s.kind, names, c) \o Pattern(s.p, c)

\* The cases share one scope.
SwitchSteps(s, c) ==
    LET body  == CaseBodies(s.cases)
        inner == [c EXCEPT !.breakable = TRUE]
        defaults == {i \in DOMAIN s.cases : s.cases[i].t = None}
    IN <<Visit(s.e, c)>>
       \o Deny(\E i \in DOMAIN body : IsUsing(body[i]), "using") \o ListSteps(body, c)
       \o InScope(FALSE, All(LAMBDA cs : VisitAll(<<cs.t>> \o cs.body, inner), s.cases))
       \o Deny(\E i, j \in defaults : i # j, "default")

CatchSteps(h, c) ==
    ListSteps(h.body, c)
    \o InScope(FALSE, When(h.p.k # "none", DeclareAs("lexical", BoundNames(h.p), c) \o Pattern(h.p, c))
                     \o VisitAll(h.body, c))

\* A label may stand before an ordinary function of sloppy code, and no other
\* lexical declaration.
LabeledSteps(s, c) ==
    Deny(\E i \in DOMAIN c.labels : c.labels[i].l = s.l, "duplicate label")
    \o Deny((s.l = "yield" /\ (c.strict \/ c.yield)) \/ (s.l = "await" /\ (c.await \/ c.staticBlock)), "label")
    \o Deny(\/ s.s.k = "function decl" /\ (c.strict \/ ~ Ordinary(s.s.fn))
            \/ s.s.k # "function decl" /\ DeclaresLexically(s.s), "labeled declaration")
    \o <<Visit(s.s, [c EXCEPT !.labels = Append(@, [l |-> s.l, loop |-> LabelsLoop(s.s)])])>>

\* A jump needs a statement around it, in this function, that it can leave or repeat.
Targetless(s, c) ==
    IF s.l = "" THEN ~ (IF s.k = "break" THEN c.breakable ELSE c.iteration)
    ELSE ~ \E i \in DOMAIN c.labels : c.labels[i].l = s.l /\ (s.k = "break" \/ c.labels[i].loop)

StmtSteps(s, c) ==
    CASE s.k \in {"expr", "throw"} -> <<Visit(s.e, c)>>
      [] s.k = "block"  -> BlockSteps(s.body, c)
      [] s.k = "if"     -> <<Visit(s.t, c)>> \o Unbraced(s.a, c) \o Unbraced(s.b, c)
      [] s.k \in {"while", "do"} -> <<Visit(s.t, c)>> \o Unbraced(s.s, InLoop(c))
      [] s.k = "for"    -> InScope(FALSE, VisitAll(<<s.init, s.t, s.u>>, c) \o Unbraced(s.s, InLoop(c)))
      [] s.k \in {"for of", "for in"} ->
           InScope(FALSE, ForTarget(s, c) \o <<Visit(s.e, c)>> \o Unbraced(s.s, InLoop(c)))
      [] s.k = "switch" -> SwitchSteps(s, c)
      [] s.k = "try"    -> BlockSteps(s.body, c) \o When(s.handler.k # "none", CatchSteps(s.handler, c))
                           \o When(s.final.k # "none", <<Visit(s.final, c)>>)
      [] s.k = "labeled" -> LabeledSteps(s, c)
      [] s.k = "with"   -> <<Visit(s.e, c)>> \o Deny(c.strict, "with") \o Unbraced(s.s, c)
      [] s.k = "return" -> Deny(c.staticBlock, "return") \o <<Visit(s.e, c)>>
      [] s.k \in {"break", "continue"} -> Deny(Targetless(s, c), s.k)
      [] s.k = "decl"   -> All(LAMBDA d : Declarator(s.kind, d, c), s.decls)
      [] s.k = "function decl" -> FunctionDeclSteps(s.fn, c)
      [] s.k = "class decl"    -> ClassDeclSteps(s.c, c)
      [] IsModuleItem(s) -> ItemSteps(s, c)
      [] OTHER -> <<>>

Statements == {"expr", "throw", "block", "if", "while", "do", "for", "for of", "for in", "switch", "try",
               "labeled", "with", "return", "break", "continue", "decl", "function decl", "class decl",
               "import", "export", "default", "export names", "export from"}
Steps(n, c) == IF n.k \in Statements THEN StmtSteps(n, c) ELSE ExprSteps(n, c)

RECURSIVE Walk(_, _)
Walk(n, c) == All(LAMBDA s : IF s.do = "visit" THEN Walk(s.n, s.c) ELSE <<s>>, Steps(n, c))

-----------------------------------------------------------------------------
\* The scopes the steps leave, outermost first: a name is lexical or a var of
\* one; refused when two declarations of it do not go together.
Scope(function) == [function |-> function, lexical |-> <<>>, vars |-> {}]
LexicalIn(scope, x) == {i \in DOMAIN scope.lexical : scope.lexical[i].x = x}

DeclareLexical(st, s) ==
    LET top   == Last(st.scopes)
        clash == \/ s.x \in top.vars
                 \/ \E i \in LexicalIn(top, s.x) : s.strict \/ ~ s.ordinary \/ ~ top.lexical[i].ordinary
    IN [st EXCEPT !.refused = @ \/ clash,
                  !.scopes = Append(Front(@), [top EXCEPT !.lexical = @ \o Lexical(<<s.x>>, s.ordinary)])]
\* A var is hoisted over the blocks of its function; a name lexical in one refuses it.
DeclareVar(st, s) ==
    LET f == SelectLastInSeq(st.scopes, LAMBDA sc : sc.function) IN
    [st EXCEPT !.refused = @ \/ \E d \in f..Len(st.scopes) : LexicalIn(st.scopes[d], s.x) # {},
               !.scopes[f].vars = @ \cup {s.x}]
DeclareFunction(st, s) ==
    CASE s.module /\ Len(st.scopes) = 1 -> DeclareLexical(st, [s EXCEPT !.ordinary = FALSE])
      [] ~ (s.module /\ Len(st.scopes) = 1) /\ Last(st.scopes).function -> DeclareVar(st, s)
      [] OTHER -> DeclareLexical(st, s)

ScopeStep(st, s) ==
    CASE s.do = "refuse" -> [st EXCEPT !.refused = TRUE]
      [] s.do = "open"   -> [st EXCEPT !.scopes = Append(@, Scope(s.function))]
      [] s.do = "close"  -> [st EXCEPT !.scopes = Front(@)]
      [] s.do = "declare" ->
           CASE s.how = "parameter" -> [st EXCEPT !.scopes[Len(st.scopes)].vars = @ \cup {s.x}]
             [] s.how = "lexical"  -> DeclareLexical(st, s)
             [] s.how = "var"      -> DeclareVar(st, s)
             [] s.how = "function" -> DeclareFunction(st, s)
ScopesAfter(steps) == FoldLeft(ScopeStep, [scopes |-> <<Scope(TRUE)>>, refused |-> FALSE], steps)

-----------------------------------------------------------------------------
\* Modules: names declared and exported.
RECURSIVE ItemNames(_)
ItemNames(s) ==
    CASE s.k = "import" -> s.xs
      [] s.k = "export" -> ItemNames(s.s)
      [] s.k = "default" ->
           LET names == IF IsDeclaration(s.e) THEN ItemNames(s.e) ELSE <<>> IN
           IF names = <<>> THEN <<"*default*">> ELSE names
      [] s.k = "decl" /\ s.kind = "var" -> <<>>
      [] OTHER -> [i \in DOMAIN LexicalNames(s) |-> LexicalNames(s)[i].x]
ExportedDecl(s) == IF s.k = "decl" THEN DeclaratorNames(s.decls) ELSE ItemNames(s)
ExportedNames(s) ==
    CASE s.k = "export names" -> [i \in DOMAIN s.items |-> s.items[i][2]]
      [] s.k = "export from"  -> s.xs
      [] s.k = "default"      -> <<"default">>
      [] s.k = "export"       -> ExportedDecl(s.s)
      [] OTHER -> <<>>
ExportedBindings(s) == IF s.k = "export names" THEN [i \in DOMAIN s.items |-> s.items[i][1]] ELSE <<>>
ModuleVars(s) == IF s.k = "export" THEN VarNames(s.s) ELSE VarNames(s)

ModuleSteps(body) ==
    LET lexical == All(ItemNames, body)
        vars    == UNION {ModuleVars(body[i]) : i \in DOMAIN body}
    IN Deny(Twice(lexical) \/ ToSet(lexical) \cap vars # {}, "names of a module")
       \o Deny(Twice(All(ExportedNames, body)), "exported names")
       \o Deny(~ ToSet(All(ExportedBindings, body)) \subseteq ToSet(lexical) \cup vars, "exported bindings")

\* The verdict on a program, or on the source of an eval in the context `eval`;
\* its declarations are not searched for `arguments`.
Accepts(program, eval) ==
    LET c == TopLevel(program.module, program.module \/ eval.strict \/ UseStrict(program.body), eval)
        steps == When(program.module, ModuleSteps(program.body))
                 \o All(LAMBDA s : Deny(~ program.module /\ IsUsing(s), "using") \o Walk(s, c), program.body)
                 \o Deny(eval.noArguments /\ \E i \in DOMAIN program.body : program.body[i].k # "decl" /\ HasArguments(program.body[i]),
                         "arguments")
    IN ~ ScopesAfter(steps).refused
=============================================================================
