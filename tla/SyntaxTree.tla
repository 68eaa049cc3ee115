---------------------------- MODULE SyntaxTree ----------------------------
(***************************************************************************)
(* The syntax tree the parser hands to the compiler (js-syntax::ast), as   *)
(* records tagged with the variant they stand for.  Spans, cooked and raw  *)
(* text and number formats are left out.                                   *)
(***************************************************************************)
EXTENDS SequencesExt

\* Sequences of parts: those of every member, and those of a case.
All(Parts(_), seq) ==
    LET upTo[i \in 0..Len(seq)] == IF i = 0 THEN <<>> ELSE upTo[i - 1] \o Parts(seq[i])
    IN upTo[Len(seq)]
When(cond, parts)  == IF cond THEN parts ELSE <<>>

None == [k |-> "none"]     \* an absent optional child, an elision of an array literal
Hole == [k |-> "hole"]     \* an elision of a binding pattern

\* Property names: `.x`, `[e]`, `#x`, and a literal key.
Name(x)     == [k |-> "name", x |-> x]
Computed(e) == [k |-> "computed", e |-> e]
Private(x)  == [k |-> "private", x |-> x]

-----------------------------------------------------------------------------
Lit(v)          == [k |-> "lit", v |-> v]
Id(x)           == [k |-> "id", x |-> x]
This            == [k |-> "this"]
Super           == [k |-> "super"]
Un(op, e)       == [k |-> "unary", op |-> op, e |-> e]
Bin(op, a, b)   == [k |-> "binary", op |-> op, a |-> a, b |-> b]
Logic(op, a, b) == [k |-> "logical", op |-> op, a |-> a, b |-> b]
PrivateIn(x, e) == [k |-> "private in", x |-> x, e |-> e]
Cond(t, a, b)   == [k |-> "conditional", t |-> t, a |-> a, b |-> b]
Comma(es)       == [k |-> "sequence", es |-> es]
Spread(e)       == [k |-> "spread", e |-> e]
Template(quasis, es)    == [k |-> "template", quasis |-> quasis, es |-> es]
Tagged(tag, quasis, es) == [k |-> "tagged", tag |-> tag, quasis |-> quasis, es |-> es]
ArrayOf(es)     == [k |-> "array", es |-> es]
ObjectOf(props) == [k |-> "object", props |-> props]
\* kind: init, get, set; e is the value, a method's Function, or a Spread's source.
Prop(kind, key, e)   == [k |-> "prop", kind |-> kind, key |-> key, e |-> e]
MemberOf(o, key)     == [k |-> "member", o |-> o, key |-> key, opt |-> FALSE]
OptionalOf(o, key)   == [k |-> "member", o |-> o, key |-> key, opt |-> TRUE]
Call(f, args)        == [k |-> "call", f |-> f, args |-> args]
New(f, args)         == [k |-> "new", f |-> f, args |-> args]
Update(op, prefix, t) == [k |-> "update", op |-> op, prefix |-> prefix, t |-> t]
Assign(op, t, e)     == [k |-> "assign", op |-> op, t |-> t, e |-> e]
Yield(e, star)       == [k |-> "yield", e |-> e, star |-> star]
Await(e)             == [k |-> "await", e |-> e]
ImportCall(e, phase, options) == [k |-> "import()", e |-> e, phase |-> phase, options |-> options]
NewTarget            == [k |-> "new.target"]
ImportMeta           == [k |-> "import.meta"]
Regex(x)             == [k |-> "regex", x |-> x]

\* A body is a sequence of statements; an arrow's may be one expression.
Fn(name, params, body) ==
    [k |-> "function", name |-> name, params |-> params, body |-> body, e |-> None,
     arrow |-> FALSE, async |-> FALSE, gen |-> FALSE]
ArrowFn(params, e) ==
    [Fn("", params, <<>>) EXCEPT !.e = e, !.arrow = TRUE]
\* ctor is a Function or None; kind: method, get, set, field, block.
Class(name, super, ctor, members) ==
    [k |-> "class", name |-> name, super |-> super, ctor |-> ctor, members |-> members]
ClassMember(kind, static, key, e) == [kind |-> kind, static |-> static, key |-> key, e |-> e]

-----------------------------------------------------------------------------
\* Patterns, besides Id and MemberOf.
Default(p, e)   == [k |-> "default", p |-> p, e |-> e]
Rest(p)         == [k |-> "rest", p |-> p]
ArrayPat(ps)    == [k |-> "array pattern", ps |-> ps]
ObjectPat(ps)   == [k |-> "object pattern", ps |-> ps]
PropPat(key, p) == [k |-> "prop", key |-> key, p |-> p]

-----------------------------------------------------------------------------
Expr(e)          == [k |-> "expr", e |-> e]
Return(e)        == [k |-> "return", e |-> e]
\* kind: var, let, const, using, await using; decls: <<pattern, initialiser>>.
Var(kind, decls) == [k |-> "decl", kind |-> kind, decls |-> decls]
FunctionDecl(fn) == [k |-> "function decl", fn |-> fn]
ClassDecl(c)     == [k |-> "class decl", c |-> c]
\* e: an expression, or the declaration of a function or a class, which need
\* not have a name here.
ExportDefault(e) == [k |-> "default", e |-> e]
IsDeclaration(e) == e.k \in {"function decl", "class decl"}
\* Of the other module items, the names: those an import binds; the local and
\* exported names of a list; the names a list exports of another module.
Import(xs)       == [k |-> "import", xs |-> xs]
ExportDecl(s)    == [k |-> "export", s |-> s]
ExportNames(items) == [k |-> "export names", items |-> items]
ExportFrom(xs)   == [k |-> "export from", xs |-> xs]
If(t, a, b)      == [k |-> "if", t |-> t, a |-> a, b |-> b]
While(t, s)      == [k |-> "while", t |-> t, s |-> s]
DoWhile(s, t)    == [k |-> "do", t |-> t, s |-> s]
For(init, t, u, s) == [k |-> "for", init |-> init, t |-> t, u |-> u, s |-> s]
\* kind: of the declaration, or "" when the target is a pattern to assign.
ForOf(kind, p, e, s) == [k |-> "for of", kind |-> kind, p |-> p, e |-> e, s |-> s]
ForIn(kind, p, e, s) == [k |-> "for in", kind |-> kind, p |-> p, e |-> e, s |-> s]
Declares(s) == s.kind # ""
Case(t, body)    == [t |-> t, body |-> body]
Switch(e, cases) == [k |-> "switch", e |-> e, cases |-> cases]
Break(l)         == [k |-> "break", l |-> l]
Continue(l)      == [k |-> "continue", l |-> l]
Throw(e)         == [k |-> "throw", e |-> e]
\* handler: [p |-> pattern or None, body |-> statements] or None; final a Block or None.
Try(body, handler, final) == [k |-> "try", body |-> body, handler |-> handler, final |-> final]
Catch(p, body)   == [k |-> "catch", p |-> p, body |-> body]
Labeled(l, s)    == [k |-> "labeled", l |-> l, s |-> s]
With(e, s)       == [k |-> "with", e |-> e, s |-> s]
Block(body)      == [k |-> "block", body |-> body]
Empty            == [k |-> "empty"]
=============================================================================
