-------------------------- MODULE ProgramFamilies --------------------------
(***************************************************************************)
(* Families of programs for the early errors: every construct that has a   *)
(* rule of its own, under any two constructs that could satisfy the rule   *)
(* or stand in its way; and every two declarations of one name, in one     *)
(* scope or in two.  Only trees the parser makes, and not where the        *)
(* checker is known to differ from the language.                           *)
(***************************************************************************)
EXTENDS LoweredProgram

P(choose, body)  == [key |-> <<>>, host |-> {"f", "g", "h", "o"}, module |-> FALSE, choose |-> choose, body |-> body,
                     context |-> NoContext, run |-> TRUE]
Unrun(body)    == [P(<<>>, body) EXCEPT !.run = FALSE]
AsModule(p)    == [p EXCEPT !.module = TRUE]
InEval(p, ctx) == [p EXCEPT !.context = ctx]

do(e)    == Expr(e)
f_       == Call(Id("f"), <<>>)
o_       == Id("o")
zero     == Lit(Num(0))
useStrict == do(Lit(Str("use strict")))
Thunk(b) == [Fn("", <<>>, b) EXCEPT !.arrow = TRUE]
method(static, key, params, body) == ClassMember("method", static, key, Fn("", params, body))
field(static, key, e) == ClassMember("field", static, key, e)
HasP     == field(FALSE, Private("p"), None)

-----------------------------------------------------------------------------
\* What may stand around a statement list.
Around(w, b) ==
    CASE w = "nothing"     -> b
      [] w = "function"    -> <<FunctionDecl(Fn("t", <<>>, b))>>
      [] w = "generator"   -> <<FunctionDecl([Fn("t", <<>>, b) EXCEPT !.gen = TRUE])>>
      [] w = "async"       -> <<FunctionDecl([Fn("t", <<>>, b) EXCEPT !.async = TRUE])>>
      [] w = "strict"      -> <<FunctionDecl(Fn("t", <<>>, <<useStrict>> \o b))>>
      [] w = "arrow"       -> <<do(Thunk(b))>>
      [] w = "default"     -> <<FunctionDecl(Fn("t", <<Default(Id("q"), Thunk(b))>>, <<>>))>>
      [] w = "taking x"    -> <<FunctionDecl(Fn("t", <<Id("x"), Id("y")>>, b))>>
      [] w = "method"      -> <<ClassDecl(Class("A", None, None, <<HasP, method(FALSE, Name("m"), <<>>, b)>>))>>
      [] w = "constructor" -> <<ClassDecl(Class("A", Id("f"), Fn("", <<>>, b), <<>>))>>
      [] w = "base"        -> <<ClassDecl(Class("A", None, Fn("", <<>>, b), <<HasP>>))>>
      [] w = "field"       -> <<do(Class("", None, None, <<field(FALSE, Name("n"), Thunk(b))>>))>>
      [] w = "static"      -> <<do(Class("", None, None, <<HasP, ClassMember("block", TRUE, None, Block(b))>>))>>
      [] w = "heritage"    -> <<do(Class("", Thunk(b), None, <<HasP>>))>>
      [] w = "key"         -> <<do(Class("", None, None, <<HasP, field(TRUE, Computed(Thunk(b)), None)>>))>>
      [] w = "object"      -> <<do(ObjectOf(<<Prop("method", Name("m"), Fn("", <<>>, b))>>))>>
      [] w = "block"       -> <<Block(b)>>
      [] w = "while"       -> <<While(f_, Block(b))>>
      [] w = "loop l"      -> <<Labeled("l", DoWhile(Block(b), f_))>>
      [] w = "loops l m"   -> <<Labeled("l", Labeled("m", For(None, None, None, Block(b))))>>
      [] w = "block l"     -> <<Labeled("l", Block(b))>>
      [] w = "switch"      -> <<Switch(zero, <<Case(zero, b), Case(None, <<>>)>>)>>
      [] w = "for x"       -> <<ForOf("let", Id("x"), o_, Block(b))>>
      [] w = "for var x"   -> <<ForIn("var", Id("x"), o_, Block(b))>>
      [] w = "tried"       -> <<Try(b, Catch(None, <<>>), None)>>
      [] w = "catch"       -> <<Try(<<>>, Catch(None, b), None)>>
      [] w = "catch x"     -> <<Try(<<>>, Catch(ArrayPat(<<Id("x")>>), b), None)>>
      [] w = "finally"     -> <<Try(<<>>, None, Block(b))>>

Codes  == {"nothing", "function", "generator", "async", "strict", "arrow", "default", "method", "constructor",
           "base", "field", "static", "heritage", "key", "object"}
Jumped == {"while", "loop l", "loops l m", "block l", "switch", "finally"}

\* The constructs with a rule.
Ruled == [
    brk |-> <<Break("")>>, brkl |-> <<Break("l")>>, cont |-> <<Continue("")>>, contl |-> <<Continue("l")>>,
    label |-> <<Labeled("l", Empty)>>, with |-> <<With(o_, Empty)>>, delete |-> <<do(Un("Delete", o_))>>,
    private |-> <<do(MemberOf(o_, Private("p")))>>, has |-> <<do(PrivateIn("p", o_))>>,
    unprivate |-> <<do(Un("Delete", MemberOf(o_, Private("p"))))>>,
    superx |-> <<do(MemberOf(Super, Name("x")))>>, superset |-> <<do(Assign("", MemberOf(Super, Name("x")), zero))>>,
    supercall |-> <<do(Call(Super, <<>>))>>, newtarget |-> <<do(NewTarget)>>, meta |-> <<do(ImportMeta)>>,
    yield |-> <<do(Yield(zero, FALSE))>>, await |-> <<do(Await(zero))>>, arguments |-> <<do(Id("arguments"))>>,
    awaited |-> <<do(Id("await"))>>, return |-> <<Return(zero)>>, reserved |-> <<do(Id("static"))>>, evals |-> <<do(Assign("", Id("eval"), zero))>>,
    targets |-> <<do(Assign("", ArrayPat(<<Default(Id("eval"), Id("static"))>>), o_))>>,
    twice |-> <<do(Fn("", <<Id("q"), Id("q")>>, <<>>))>>,
    twiced |-> <<do(Fn("", <<Id("q"), Default(Id("q"), zero)>>, <<>>))>>]

\* A declaration of x.
Declaration == [
    var |-> Var("var", << <<Id("x"), zero>> >>), let |-> Var("let", << <<ArrayPat(<<Id("x")>>), o_>> >>),
    class |-> ClassDecl(Class("x", None, None, <<>>)), function |-> FunctionDecl(Fn("x", <<>>, <<>>)),
    async |-> FunctionDecl([Fn("x", <<>>, <<>>) EXCEPT !.async = TRUE])]
Outside == {"nothing", "taking x", "arrow", "strict", "block", "switch", "for x", "for var x", "catch x"}
Between == {"nothing", "function", "block", "switch", "for x", "tried"}

EvalContexts == [
    method |-> EvalContext(TRUE, {"p"}, FALSE, FALSE), derived |-> EvalContext(TRUE, {}, TRUE, FALSE),
    field |-> EvalContext(TRUE, {"p"}, TRUE, TRUE), indirect |-> EvalContext(FALSE, {"p"}, TRUE, TRUE)]

-----------------------------------------------------------------------------
Nestings == {<<"nested", v, w, l>> : v \in Codes \cup Jumped, w \in Codes \cup Jumped, l \in DOMAIN Ruled}
Modules_ == {<<"module", w, l>> : w \in Codes, l \in DOMAIN Ruled}
Evals    == {<<"eval", ctx, w, l>> : ctx \in DOMAIN EvalContexts, w \in Codes, l \in DOMAIN Ruled}
Pairs    == {<<"names", u, v, order, d, e>> :
                u \in Outside, v \in Between, order \in {"first", "last"},
                d \in DOMAIN Declaration, e \in DOMAIN Declaration}
ProgramOf(key) ==
    CASE key[1] = "nested" -> Unrun(Around(key[2], Around(key[3], Ruled[key[4]])))
      [] key[1] = "module" -> AsModule(Unrun(Around(key[2], Ruled[key[3]])))
      [] key[1] = "eval"   -> InEval(Unrun(Around(key[3], Ruled[key[4]])), EvalContexts[key[2]])
      [] key[1] = "names"  -> LET outer == <<Declaration[key[5]]>>
                                  inner == Around(key[3], <<Declaration[key[6]]>>)
                              IN Unrun(Around(key[2], IF key[4] = "first" THEN outer \o inner ELSE inner \o outer))

\* The parser reads await and yield as operators in the functions they belong
\* to, and return in any function; arrows, static blocks and initialisers take after what is around them.
Proper(step) == step.n.k = "function" /\ ~ step.n.arrow
Parsed(place, source) ==
    LET d == SelectLastInSeq(place.up, Proper) IN
    CASE place.n.k = "await" -> IF d = 0 THEN source.module ELSE place.up[d].n.async
      [] place.n.k = "yield" -> d # 0 /\ place.up[d].n.gen
      [] place.n = Id("await") -> ~ IF d = 0 THEN source.module ELSE place.up[d].n.async
      [] place.n.k = "return" -> \E i \in DOMAIN place.up : place.up[i].n.k = "function"
      [] OTHER -> TRUE
\* Not where an arrow or a field takes await, yield or new.target from the
\* function around it.
Known(place) ==
    LET d == SelectLastInSeq(place.up, Proper) IN
    \E i \in (d + 1)..Len(place.up) :
        \/ place.n.k = "await" /\ (Rules!IntoFunction(place.up[i]) \/ Rules!IntoField(place.up[i]))
        \/ place.n.k \in {"yield", "new.target"} /\ Rules!IntoField(place.up[i])
IsInput(source) ==
    LET places == Rules!ProgramPlaces(source) IN
    \A i \in DOMAIN places : Parsed(places[i], source) /\ ~ Known(places[i])
Family == {p \in {[ProgramOf(key) EXCEPT !.key = key] : key \in Nestings \cup Modules_ \cup Evals \cup Pairs} :
              IsInput(p)}
=============================================================================
