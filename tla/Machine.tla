------------------------------ MODULE Machine -------------------------------
(***************************************************************************)
(* The bytecode interpreter (js-vm::interp, js-vm::frame): the compiled    *)
(* program `unit` run one instruction a step.  Generator, async and module *)
(* frames are in modules of their own.  Private brands are per class, not  *)
(* per evaluation of one; objects are the host's to keep.                  *)
(***************************************************************************)
EXTENDS Lowering, EarlyErrors, Host

CONSTANTS Programs,   \* records [key, body, module, context, run, choose, host]
          MaxAsks     \* answers chosen freely in one run

VARIABLES prog, unit, frames, result, pendingErr,          \* control
          heap, closures, globals, created,                \* memory
          log, defs, tape                                  \* what the host saw, and answered

program == <<prog, unit>>
memory == <<heap, closures, globals, created>>
world  == <<log, defs, tape>>
vars   == <<program, frames, result, pendingErr, memory, world>>

Running == [k |-> "running", v |-> NoValue]
Uninitialised == NoValue

-----------------------------------------------------------------------------
\* Frames.  `then` says what the interpreter does with the value returned:
\* call_value runs a callee inside an instruction of its caller.
Push == [k |-> "push"]
Frame(fn, locals, thisCell) ==
    [fn |-> fn, pc |-> 1, stack |-> <<>>, locals |-> locals, ups |-> <<>>, withs |-> <<>>,
     refused |-> 0, bound |-> NoValue, args |-> <<>>, this |-> Undef, thisCell |-> thisCell,
     construct |-> FALSE, self |-> NoValue, super |-> NoValue, owner |-> 0, brands |-> {},
     brandStack |-> <<>>, tries |-> <<>>, pending |-> NoValue, stale |-> 0, then |-> Push]

FunctionAt(i) == IF i = 0 THEN unit.main ELSE unit.functions[i]
Top     == Last(frames)
Current == FunctionAt(Top.fn).code[Top.pc]
Constant == unit.consts[Current.n]

\* An operand popped off an empty stack is undefined.
Operand(i) == IF i <= Len(Top.stack) THEN Top.stack[Len(Top.stack) + 1 - i] ELSE Undef
Args(n)    == [i \in 1..n |-> Operand(n + 1 - i)]
\* The current frame after an instruction pops n operands and pushes vs.
After(n, vs) == [Top EXCEPT !.pc = @ + 1, !.stack = SubSeq(@, 1, Len(@) - n) \o vs]
Under(f)   == [frames EXCEPT ![Len(frames)] = f]
PushOn(f, v) == [f EXCEPT !.stack = Append(@, v)]

\* The next instruction is one of ops.
At(ops)  == result = Running /\ pendingErr = NoValue /\ Current.op \in ops /\ UNCHANGED program
To(f)    == frames' = Under(f) /\ UNCHANGED <<result, pendingErr>>
Leave(n, vs) == To(After(n, vs))

\* The innermost frame with a handler takes the exception and pops it; the
\* operands its block left on the stack stay under the value caught.
\* Mutant: the handler stays in force while it runs.
CaughtAgain(f, v) ==
    [PushOn(f, v) EXCEPT !.pc = IF Last(f.tries).catch # NoTarget THEN Last(f.tries).catch ELSE Last(f.tries).finally]
Caught(f, v) ==
    LET h == Last(f.tries)
        g == [f EXCEPT !.tries = Front(@), !.refused = 0, !.bound = NoValue]
    IN IF h.catch # NoTarget
       THEN [PushOn(g, v) EXCEPT !.pc = h.catch, !.pending = NoValue, !.stale = Len(g.stack)]
       ELSE [g EXCEPT !.pc = h.finally, !.pending = v, !.stale = Len(g.stack)]
Raise(fs, v) ==
    LET d == SelectLastInSeq(fs, LAMBDA f : f.tries # <<>>)
    IN IF d = 0 THEN frames' = <<>> /\ result' = [k |-> "throw", v |-> v]
       ELSE frames' = Append(SubSeq(fs, 1, d - 1), Caught(fs[d], v)) /\ UNCHANGED result

Ask(kind, vs, Then(_, _)) ==
    \E o \in Outcomes(prog.choose, kind, Len(tape), MaxAsks) :
        /\ tape' = Append(tape, o)
        /\ log' = Append(log, Event(kind, vs))
        /\ UNCHANGED defs
        /\ Then(o, Answer(kind, o, Len(tape) + 1, vs))
\* The answer is pushed on f, the current frame after the instruction; or thrown.
AskFor(kind, vs, f) ==
    /\ Ask(kind, vs, LAMBDA o, a :
          IF o = "throw" THEN Raise(Under(f), a)
          ELSE frames' = Under(PushOn(f, a)) /\ UNCHANGED result)
    /\ UNCHANGED <<pendingErr, memory>>
\* Asked for its effect: a refusal is a TypeError.
AskTo(kind, vs, f) ==
    /\ Ask(kind, vs, LAMBDA o, a :
          CASE o = "throw" -> Raise(Under(f), a)
            [] o = "false" -> Raise(Under(f), TypeError)
            [] OTHER       -> frames' = Under(f) /\ UNCHANGED result)
    /\ UNCHANGED <<pendingErr, memory>>
Throws(n, v) == Raise(Under(After(n, <<>>)), v) /\ UNCHANGED <<pendingErr, memory, world>>
Defines(n, what, target, key, v, vs) ==
    /\ Leave(n, vs)
    /\ defs' = Append(defs, Event(what, <<target, key, v>>))
    /\ UNCHANGED <<memory, log, tape>>

-----------------------------------------------------------------------------
\* Constants, variables and the operand stack.
LoadConstant ==
    /\ At({"LdaUndefined", "LdaNull", "LdaTrue", "LdaFalse", "LdaConst", "NewRegex",
           "GetTemplateObject", "GetImportMeta"})
    /\ Leave(0, <<CASE Current.op = "LdaUndefined" -> Undef [] Current.op = "LdaNull" -> Null
                    [] Current.op = "LdaTrue" -> Bool(TRUE) [] Current.op = "LdaFalse" -> Bool(FALSE)
                    [] Current.op = "LdaConst" -> Constant
                    [] Current.op = "NewRegex" -> Val("regex", Constant.s, 0, <<>>)
                    [] Current.op = "GetTemplateObject" -> Val("template", "", 0, <<>>)
                    [] OTHER -> Val("meta", "", 0, <<>>)>>)
    /\ UNCHANGED <<memory, world>>

VariableCell == IF Current.op \in {"LdaLocal", "StaLocal"} THEN Top.locals[Current.n] ELSE Top.ups[Current.n]
LoadVariable ==
    /\ At({"LdaLocal", "LdaUpvalue"})
    /\ Leave(0, <<heap[VariableCell]>>)
    /\ UNCHANGED <<memory, world>>
StoreVariable ==
    /\ At({"StaLocal", "StaUpvalue"})
    /\ heap' = [heap EXCEPT ![VariableCell] = Operand(1)]
    /\ Leave(1, <<>>)
    /\ UNCHANGED <<closures, globals, created, world>>

LoadThis ==
    /\ At({"LdaThis"})
    /\ LET this == heap[Top.thisCell] IN
       IF this = Uninitialised THEN Throws(0, ReferenceError)
       ELSE Leave(0, <<this>>) /\ UNCHANGED <<memory, world>>

MoveOperands ==
    /\ At({"Pop", "Dup", "Swap"})
    /\ CASE Current.op = "Pop"  -> Leave(1, <<>>)
         [] Current.op = "Dup"  -> Leave(0, <<Operand(1)>>)
         [] Current.op = "Swap" -> Leave(2, <<Operand(1), Operand(2)>>)
    /\ UNCHANGED <<memory, world>>

ApplyOperator ==
    /\ At(BinaryOps \cup UnaryOps)
    /\ IF Current.op = "In" /\ ~ IsObject(Operand(1)) THEN Throws(2, TypeError)
       ELSE /\ IF Current.op \in UnaryOps THEN Leave(1, <<OperateOne(Current.op, Operand(1))>>)
               ELSE Leave(2, <<Operate(Current.op, Operand(2), Operand(1))>>)
            /\ UNCHANGED <<memory, world>>

Jumps(op, v) ==
    CASE op = "Jump" -> TRUE [] op = "JumpIfTrue" -> Truthy(v)
      [] op = "JumpIfFalse" -> ~ Truthy(v) [] op = "JumpIfNullish" -> Nullish(v)
Branch ==
    /\ At(JumpOps)
    /\ LET op == Current.op
           f  == After(IF op = "Jump" THEN 0 ELSE 1, <<>>)
       IN To(IF Jumps(op, Operand(1)) THEN [f EXCEPT !.pc = Current.n] ELSE f)
    /\ UNCHANGED <<memory, world>>

-----------------------------------------------------------------------------
\* Names: globals, and whatever the objects of enclosing `with` statements have.
HasGlobal(x) == x \in DOMAIN globals
Global ==
    /\ At({"GetGlobal", "TypeofGlobal", "SetGlobal", "DeleteGlobal"})
    /\ LET x == Constant.s IN
       CASE Current.op = "GetGlobal" /\ HasGlobal(x) -> Leave(0, <<globals[x]>>) /\ UNCHANGED <<memory, world>>
         [] Current.op = "GetGlobal" /\ ~ HasGlobal(x) -> Throws(0, ReferenceError)
         [] Current.op = "TypeofGlobal" ->
              /\ Leave(0, <<OperateOne("Typeof", IF HasGlobal(x) THEN globals[x] ELSE Undef)>>)
              /\ UNCHANGED <<memory, world>>
         [] Current.op = "SetGlobal" ->
              /\ globals' = (x :> Operand(1)) @@ globals
              /\ Leave(1, <<>>)
              /\ UNCHANGED <<heap, closures, created, world>>
         [] Current.op = "DeleteGlobal" ->
              /\ globals' = [y \in DOMAIN globals \ {x} |-> globals[y]]
              /\ Leave(0, <<Bool(TRUE)>>)
              /\ UNCHANGED <<heap, closures, created, world>>

WithStatement ==
    /\ At({"EnterWith", "LeaveWith"})
    /\ CASE Current.op = "LeaveWith" -> To([After(0, <<>>) EXCEPT !.withs = Front(@)])
                                        /\ UNCHANGED <<memory, world>>
         [] Current.op = "EnterWith" /\ ~ Nullish(Operand(1)) ->
              To([After(1, <<>>) EXCEPT !.withs = Append(@, Operand(1))]) /\ UNCHANGED <<memory, world>>
         [] Current.op = "EnterWith" /\ Nullish(Operand(1)) -> Throws(1, TypeError)

NameOps == {"GetName", "TypeofName", "SetName", "DeleteName"}
\* The innermost object that has the name binds it; each is asked in turn.
FindBinding ==
    /\ At(NameOps) /\ Top.bound = NoValue /\ Top.refused < Len(Top.withs)
    /\ LET o == Top.withs[Len(Top.withs) - Top.refused] IN
       Ask("has", <<o, Constant>>, LAMBDA out, a :
           CASE out = "throw"   -> Raise(frames, a)
             [] a = Bool(TRUE)  -> frames' = Under([Top EXCEPT !.bound = o]) /\ UNCHANGED result
             [] OTHER           -> frames' = Under([Top EXCEPT !.refused = @ + 1]) /\ UNCHANGED result)
    /\ UNCHANGED <<pendingErr, memory>>

Found(n, vs) == [After(n, vs) EXCEPT !.bound = NoValue, !.refused = 0]
UseObjectBinding ==
    /\ At(NameOps) /\ Top.bound # NoValue
    /\ CASE Current.op = "GetName"    -> AskFor("get", <<Top.bound, Constant>>, Found(0, <<>>))
         [] Current.op = "TypeofName" ->
              /\ Ask("get", <<Top.bound, Constant>>, LAMBDA o, a :
                    IF o = "throw" THEN Raise(frames, a)
                    ELSE frames' = Under(Found(0, <<OperateOne("Typeof", a)>>)) /\ UNCHANGED result)
              /\ UNCHANGED <<pendingErr, memory>>
         [] Current.op = "SetName"    ->
              /\ Ask("set", <<Top.bound, Constant, Operand(1)>>, LAMBDA o, a :
                    IF o = "throw" THEN Raise(Under(Found(1, <<>>)), a)
                    ELSE frames' = Under(Found(1, <<>>)) /\ UNCHANGED result)
              /\ UNCHANGED <<pendingErr, memory>>
         [] Current.op = "DeleteName" -> AskFor("delete", <<Top.bound, Constant>>, Found(0, <<>>))

\* No object has it: a local of the function by that name, an upvalue, a global.
StaticCell(x) ==
    LET f == FunctionAt(Top.fn) IN
    IF HasSlot(f.locals, x) THEN Top.locals[SlotOf(f.locals, x)]
    ELSE IF UpvalueOf(f.ups, x) # 0 THEN Top.ups[UpvalueOf(f.ups, x)] ELSE 0
UseStaticBinding ==
    /\ At(NameOps) /\ Top.bound = NoValue /\ Top.refused = Len(Top.withs)
    /\ LET x     == Constant.s
           cell  == StaticCell(x)
           known == cell # 0 \/ HasGlobal(x)
           value == IF cell # 0 THEN heap[cell] ELSE IF known THEN globals[x] ELSE Undef
       IN CASE Current.op = "GetName" /\ ~ known ->
                 /\ Raise(frames, ReferenceError)
                 /\ UNCHANGED <<pendingErr, memory, world>>
            [] Current.op = "GetName" /\ known -> To(Found(0, <<value>>)) /\ UNCHANGED <<memory, world>>
            [] Current.op = "TypeofName" ->
                 To(Found(0, <<OperateOne("Typeof", value)>>)) /\ UNCHANGED <<memory, world>>
            [] Current.op = "SetName" ->
                 /\ IF cell # 0 THEN heap' = [heap EXCEPT ![cell] = Operand(1)] /\ UNCHANGED globals
                    ELSE globals' = (x :> Operand(1)) @@ globals /\ UNCHANGED heap
                 /\ To(Found(1, <<>>))
                 /\ UNCHANGED <<closures, created, world>>
            [] Current.op = "DeleteName" ->
                 /\ globals' = IF cell # 0 THEN globals ELSE [y \in DOMAIN globals \ {x} |-> globals[y]]
                 /\ To(Found(0, <<Bool(cell = 0)>>))
                 /\ UNCHANGED <<heap, closures, created, world>>

-----------------------------------------------------------------------------
\* Functions.  A closure shares the cells of the frame that makes it.
LoadFunction ==
    /\ At({"LdaFunction"})
    /\ LET f   == FunctionAt(Current.n)
           id  == Len(closures) + 1
           self == Val("fn", f.name, id, <<>>)
       IN /\ closures' = Append(closures,
               [fn |-> Current.n, withs |-> Top.withs,
                ups |-> [i \in DOMAIN f.ups |-> IF f.ups[i].local THEN Top.locals[f.ups[i].n]
                                                ELSE Top.ups[f.ups[i].n]],
                this |-> IF f.arrow THEN Top.thisCell ELSE 0,
                super |-> IF f.arrow THEN Top.super ELSE NoValue,
                init |-> NoValue, owner |-> id, keys |-> <<>>,
                brands |-> Top.brands \cup {Current.n}])
          /\ Leave(0, <<self>>)
    /\ UNCHANGED <<heap, globals, created, world>>

SetFunctionName ==
    /\ At({"SetFunctionName"})
    /\ Leave(1, <<IF Operand(1).t = "fn" THEN [Operand(1) EXCEPT !.s = Constant.s] ELSE Operand(1)>>)
    /\ UNCHANGED <<memory, world>>

\* The frame of a call: parameters in the first slots, an arrow's `this` its
\* maker's, a derived constructor's unset until super() returns.
Entered(callee, args, this, construct, context, then) ==
    LET c == closures[callee.n]
        f == FunctionAt(c.fn)
        n == Len(f.locals)
    IN [Frame(c.fn, [i \in 1..n |-> Len(heap) + i], IF c.this # 0 THEN c.this ELSE Len(heap) + n + 1)
        EXCEPT !.ups = c.ups, !.withs = c.withs, !.args = args, !.construct = construct,
               !.this = IF c.this # 0 THEN Undef ELSE this, !.self = callee,
               !.super = context.super, !.owner = context.owner, !.brands = context.brands,
               !.then = then]
Cells(callee, args, this, construct) ==
    LET f == FunctionAt(closures[callee.n].fn) IN
    [i \in DOMAIN f.locals |-> IF i <= f.params /\ i <= Len(args) THEN args[i] ELSE Undef]
    \o <<IF construct /\ closures[callee.n].super # NoValue THEN Uninitialised ELSE this>>
Context(callee) == [super |-> closures[callee.n].super, owner |-> closures[callee.n].owner,
                    brands |-> closures[callee.n].brands]

\* Calls callee over the frames fs.  A host function answers at once; its
\* error waits in pendingErr for the next instruction.
Enter(fs, callee, args, this, construct, context, then) ==
    /\ frames' = Append(fs, Entered(callee, args, this, construct, context, then))
    /\ heap' = heap \o Cells(callee, args, this, construct)
    /\ UNCHANGED result
InvokeIn(fs, callee, args, this, construct, context, then, Answered(_), Failed) ==
    CASE callee.t = "fn" -> /\ Enter(fs, callee, args, this, construct, context, then)
                            /\ UNCHANGED <<pendingErr, world>>
      [] IsForeign(callee) ->
           Ask(IF construct THEN "construct" ELSE "call", (IF construct THEN <<callee>> ELSE <<callee, this>>) \o args,
               LAMBDA o, a : IF o = "throw" THEN pendingErr' = a /\ Failed
                             ELSE UNCHANGED pendingErr /\ Answered(a))
      [] OTHER -> pendingErr' = TypeError /\ Failed /\ UNCHANGED world
ContextOf(callee) == IF callee.t = "fn" THEN Context(callee) ELSE [super |-> NoValue, owner |-> 0, brands |-> {}]
Invoke(f, callee, args, this, construct, context) ==
    /\ InvokeIn(Under(f), callee, args, this, construct, context, Push,
                LAMBDA a : frames' = Under(PushOn(f, a)) /\ UNCHANGED <<result, heap>>,
                frames' = Under(f) /\ UNCHANGED <<result, heap>>)
    /\ UNCHANGED <<closures, globals>>

RaisePending ==
    /\ pendingErr # NoValue
    /\ pendingErr' = NoValue
    /\ Raise(frames, pendingErr)
    /\ UNCHANGED <<program, memory, world>>

ListOps == {"CallWithArgumentList", "CallDirectEvalWithArgumentList", "CallMethodWithArgumentList",
            "CallSuperWithArgumentList", "NewWithArgumentList"}
\* How many operands hold the arguments of this instruction, and what they are.
ArgCount  == CASE Current.op \in ListOps -> 1 [] Current.n = AllArguments -> 0 [] OTHER -> Current.n
Arguments == CASE Current.op \in ListOps -> Operand(1).vs
               [] Current.op \notin ListOps /\ Current.n = AllArguments -> Top.args
               [] OTHER -> Args(Current.n)
\* The operand under the arguments, and the one under that.
CalleeOperand  == Operand(ArgCount + 1)
Receiver == Operand(ArgCount + 2)

CallFunction ==
    /\ At({"Call", "CallDirectEval", "CallWithArgumentList", "CallDirectEvalWithArgumentList"})
    /\ Invoke(After(ArgCount + 1, <<>>), CalleeOperand, Arguments, Undef, FALSE, ContextOf(CalleeOperand))
    /\ UNCHANGED created

\* A function called as a method of a class sees the class's names and heritage.
CallMethod ==
    /\ At({"CallMethod", "CallMethodWithArgumentList"})
    /\ Invoke(After(ArgCount + 2, <<>>), CalleeOperand, Arguments, Receiver, FALSE,
              IF CalleeOperand.t = "fn" /\ Receiver.t = "fn"
              THEN [Context(Receiver) EXCEPT !.brands = @ \cup closures[CalleeOperand.n].brands]
              ELSE ContextOf(CalleeOperand))
    /\ UNCHANGED created

-----------------------------------------------------------------------------
\* Construction.  Instance elements are set up before the constructor of a
\* base class runs, and when super() returns to that of a derived one.
Initialiser(v) == IF v.t = "fn" THEN closures[v.n].init ELSE NoValue
Superclass(v)  == IF v.t = "fn" THEN closures[v.n].super ELSE NoValue
IsBaseWithElements(v) == Initialiser(v) # NoValue /\ Superclass(v) = NoValue
RunInitialiser(fs, init, this, k, vs) ==
    Enter(fs, init, <<>>, this, FALSE, Context(init), [k |-> k, vs |-> vs])

Construct ==
    /\ At({"New", "NewWithArgumentList"})
    /\ created' = created + 1
    /\ LET this == Object(created + 1)
           f    == After(ArgCount + 1, <<>>)
       IN IF IsBaseWithElements(CalleeOperand)
          THEN /\ RunInitialiser(Under(f), Initialiser(CalleeOperand), this, "construct", <<CalleeOperand, this>> \o Arguments)
               /\ UNCHANGED <<pendingErr, world, closures, globals>>
          ELSE Invoke(f, CalleeOperand, Arguments, this, TRUE, ContextOf(CalleeOperand))

\* super() answered v to the last of the frames fs.
BindThis(fs, v) ==
    LET f    == Last(fs)
        this == IF IsObject(v) THEN v ELSE f.this
    IN /\ frames' = Append(Front(fs), PushOn([f EXCEPT !.this = this], v))
       /\ heap' = [heap EXCEPT ![f.thisCell] = this]
       /\ UNCHANGED result
\* Mutant: the instance elements of a derived class are never set up.
SuperReturnedBare(fs, v) ==
    IF Last(fs).construct /\ ~ IsObject(v) THEN Raise(fs, TypeError) /\ UNCHANGED heap ELSE BindThis(fs, v)
SuperReturned(fs, v) ==
    LET f    == Last(fs)
        init == IF f.construct THEN Initialiser(f.self) ELSE NoValue
    IN CASE f.construct /\ ~ IsObject(v) -> Raise(fs, TypeError) /\ UNCHANGED heap
         [] IsObject(v) /\ init # NoValue -> RunInitialiser(fs, init, v, "bind this", <<v>>)
         [] OTHER -> BindThis(fs, v)

\* call_value takes a host function's error for an answer: it pops an operand
\* of the caller instead, and the error is raised an instruction later.
ConstructSuper(fs, super, args, this) ==
    LET f == Last(fs)
        v == IF f.stack = <<>> THEN Undef ELSE Last(f.stack)
        popped == Append(Front(fs), [f EXCEPT !.stack = SubSeq(@, 1, Len(@) - 1)])
    IN /\ InvokeIn(fs, super, args, this, TRUE, ContextOf(super), [k |-> "super"],
                   LAMBDA a : SuperReturned(fs, a), SuperReturned(popped, v))
       /\ UNCHANGED <<closures, globals, created>>

CallSuper ==
    /\ At({"CallSuper", "CallSuperWithArgumentList"})
    /\ LET fs == Under(After(ArgCount, <<>>)) IN
       IF IsBaseWithElements(Top.super)
       THEN /\ RunInitialiser(fs, Initialiser(Top.super), Top.this, "construct super", Arguments)
            /\ UNCHANGED <<pendingErr, world, closures, globals, created>>
       ELSE ConstructSuper(fs, Top.super, Arguments, Top.this)

\* What the instruction that made the call does with what it returned.
Resume(fs, then, v) ==
    CASE then.k = "construct" ->
           /\ InvokeIn(fs, then.vs[1], SubSeq(then.vs, 3, Len(then.vs)), then.vs[2], TRUE,
                       Context(then.vs[1]), Push, LAMBDA a : FALSE, FALSE)
           /\ UNCHANGED <<closures, globals, created>>
      [] then.k = "construct super" -> ConstructSuper(fs, Last(fs).super, then.vs, Last(fs).this)
      [] OTHER ->
           /\ CASE then.k = "push" -> /\ frames' = Append(Front(fs), PushOn(Last(fs), v))
                                      /\ UNCHANGED <<result, heap>>
                [] then.k = "super" -> SuperReturned(fs, v)
                [] then.k = "bind this" -> BindThis(fs, then.vs[1])
           /\ UNCHANGED <<pendingErr, world, closures, globals, created>>
ReturnValue ==
    /\ At({"Return"})
    /\ LET v == IF Top.construct /\ ~ IsObject(Operand(1)) THEN Top.this ELSE Operand(1) IN
       IF Len(frames) = 1
       THEN /\ frames' = <<>>
            /\ result' = [k |-> "return", v |-> v]
            /\ UNCHANGED <<pendingErr, memory, world>>
       ELSE Resume(Front(frames), Top.then, v)

\* Exceptions.  A handler is popped when its block ends, or when it is used.
TryOps ==
    /\ At({"TryBegin", "TryEnd", "FinallyEnd", "Throw"})
    /\ CASE Current.op = "Throw" -> Throws(1, Operand(1))
         [] Current.op = "FinallyEnd" /\ Top.pending # NoValue ->
              /\ Raise(Under([After(0, <<>>) EXCEPT !.pending = NoValue]), Top.pending)
              /\ UNCHANGED <<pendingErr, memory, world>>
         [] Current.op = "FinallyEnd" /\ Top.pending = NoValue -> Leave(0, <<>>) /\ UNCHANGED <<memory, world>>
         [] Current.op = "TryEnd" ->
              To([After(0, <<>>) EXCEPT !.tries = SubSeq(@, 1, Len(@) - 1)]) /\ UNCHANGED <<memory, world>>
         [] Current.op = "TryBegin" ->
              /\ To([After(0, <<>>) EXCEPT !.tries = Append(@, FunctionAt(Top.fn).handlers[Current.n])])
              /\ UNCHANGED <<memory, world>>

-----------------------------------------------------------------------------
\* Classes: what the constructor's closure carries for its elements.
ClassSetup ==
    /\ At({"SetClassHeritage", "SetClassInstanceInitializer", "DefineClassFieldKey"})
    /\ LET top == Operand(1)
           c   == IF Current.op = "SetClassHeritage" THEN top ELSE Operand(2)
       IN CASE Current.op = "SetClassHeritage" /\ Operand(2) # Null /\ ~ (Operand(2).t \in {"fn", "ext", "answer"}) ->
                 Throws(2, TypeError)
            [] Current.op = "SetClassHeritage" /\ (Operand(2) = Null \/ Operand(2).t \in {"fn", "ext", "answer"}) ->
                 /\ closures' = [i \in DOMAIN closures |->
                        IF i = c.n \/ (Initialiser(c) # NoValue /\ i = Initialiser(c).n)
                        THEN [closures[i] EXCEPT !.super = Operand(2)] ELSE closures[i]]
                 /\ Leave(2, <<c>>)
                 /\ UNCHANGED <<heap, globals, created, world>>
            [] Current.op = "SetClassInstanceInitializer" ->
                 /\ closures' = [closures EXCEPT ![c.n].init = top, ![top.n].owner = closures[c.n].owner,
                                                 ![top.n].brands = @ \cup closures[c.n].brands]
                 /\ Leave(2, <<c>>)
                 /\ UNCHANGED <<heap, globals, created, world>>
            [] Current.op = "DefineClassFieldKey" ->
                 /\ closures' = [closures EXCEPT ![closures[c.n].owner].keys = Append(@, ToKey(top))]
                 /\ Leave(2, <<c>>)
                 /\ UNCHANGED <<heap, globals, created, world>>

ClassScope ==
    /\ At({"ActivateClassPrivateEnvironment", "DeactivateClassPrivateEnvironment", "LoadClassFieldKey"})
    /\ CASE Current.op = "ActivateClassPrivateEnvironment" ->
              To([After(0, <<>>) EXCEPT !.brandStack = Append(@, Top.brands),
                                        !.brands = @ \cup closures[Operand(1).n].brands])
         [] Current.op = "DeactivateClassPrivateEnvironment" ->
              To([After(0, <<>>) EXCEPT !.brandStack = Front(@), !.brands = Last(Top.brandStack)])
         [] Current.op = "LoadClassFieldKey" -> Leave(0, <<closures[Top.owner].keys[Current.n + 1]>>)
    /\ UNCHANGED <<memory, world>>

\* A private name is its class's: the class must be in force here.
PrivateOps == {"GetPrivate", "SetPrivate", "PrivateIn", "DefinePrivate", "DefinePrivateMethod",
    "DefinePrivateGetter", "DefinePrivateSetter", "DefinePrivateMethodTemplate",
    "DefinePrivateGetterTemplate", "DefinePrivateSetterTemplate"}
InForce(brand) == brand \in Top.brands
PrivateElement ==
    /\ At(PrivateOps)
    /\ LET o == Operand(1)
           x == Str(Constant.s) IN
       CASE ~ InForce(Constant.n) ->
              /\ frames' = <<>>
              /\ result' = [k |-> "internal", v |-> NoValue]
              /\ UNCHANGED <<pendingErr, memory, world>>
         [] InForce(Constant.n) /\ ~ IsObject(o) -> Throws(1, TypeError)
         [] InForce(Constant.n) /\ IsObject(o) ->
              CASE Current.op = "GetPrivate" -> AskFor("get private", <<o, x>>, After(1, <<>>))
                [] Current.op = "SetPrivate" -> AskTo("set private", <<o, x, Operand(2)>>, After(2, <<>>))
                [] Current.op = "PrivateIn"  -> AskFor("private in", <<o, x>>, After(1, <<>>))
                [] OTHER -> Defines(2, Current.op, o, x, Operand(2), <<>>)

-----------------------------------------------------------------------------
\* Objects, arrays and iterators.
Prototype(f) == Val("get", "prototype", 0, <<f>>)
GetProperty ==
    /\ At({"GetProp"})
    /\ LET o   == Operand(2)
           key == Operand(1)
           Is(v) == Leave(2, <<v>>) /\ UNCHANGED <<memory, world>>
       IN CASE o.t = "arr" /\ key = Str("length") -> Is(Num(Len(o.vs)))
            [] o.t = "arr" /\ key.t = "num" -> Is(IF key.n < Len(o.vs) THEN o.vs[key.n + 1] ELSE Undef)
            [] o.t = "result" /\ key = Str("done") -> Is(Bool(o.s = "done"))
            [] o.t = "result" /\ key = Str("value") -> Is(IF o.vs = <<>> THEN Undef ELSE o.vs[1])
            [] o.t = "fn" /\ key = Str("prototype") -> Is(Prototype(o))
            [] ~ IsObject(o) -> Is(Undef)
            [] OTHER -> AskFor("get", <<o, key>>, After(2, <<>>))
SetProperty ==
    /\ At({"SetProp"})
    /\ IF IsObject(Operand(2)) THEN AskTo("set", <<Operand(2), Operand(1), Operand(3)>>, After(3, <<>>))
       ELSE Leave(3, <<>>) /\ UNCHANGED <<memory, world>>

DefineProperty ==
    /\ At({"DefineDataProperty", "DefineMethod", "DefineGetter", "DefineSetter", "CopyDataProperties"})
    /\ IF Current.op = "CopyDataProperties"
       THEN Defines(2, "copy", Operand(2), Undef, Operand(1), <<Operand(2)>>)
       ELSE Defines(3, Current.op, Operand(2), Operand(1), Operand(3), <<>>)

DeleteProperty ==
    /\ At({"DeleteProp", "DeleteSuperProp"})
    /\ CASE Current.op = "DeleteSuperProp" -> Throws(1, ReferenceError)
         [] Current.op = "DeleteProp" /\ ~ IsObject(Operand(2)) ->
              Leave(2, <<Bool(TRUE)>>) /\ UNCHANGED <<memory, world>>
         [] Current.op = "DeleteProp" /\ IsObject(Operand(2)) ->
              /\ Ask("delete", <<Operand(2), Operand(1)>>, LAMBDA o, a :
                    CASE o = "throw" -> Raise(Under(After(2, <<>>)), a)
                      [] a = Bool(FALSE) /\ prog.module -> Raise(Under(After(2, <<>>)), TypeError)
                      [] OTHER -> frames' = Under(After(2, <<a>>)) /\ UNCHANGED result)
              /\ UNCHANGED <<pendingErr, memory>>

SuperProperty ==
    /\ At({"GetSuperProp", "SetSuperProp"})
    /\ LET this == heap[Top.thisCell] IN
       CASE this = Uninitialised -> Throws(IF Current.op = "GetSuperProp" THEN 1 ELSE 2, ReferenceError)
         [] this # Uninitialised /\ Current.op = "GetSuperProp" ->
              AskFor("super get", <<this, Operand(1)>>, After(1, <<>>))
         [] this # Uninitialised /\ Current.op = "SetSuperProp" ->
              AskTo("super set", <<this, Operand(1), Operand(2)>>, After(2, <<>>))

MakeObject ==
    /\ At({"NewObject", "NewArray", "ArrayPush"})
    /\ created' = created + (IF Current.op = "NewObject" THEN 1 ELSE 0)
    /\ CASE Current.op = "NewObject" -> Leave(0, <<Object(created + 1)>>)
         [] Current.op = "NewArray"  -> Leave(Current.n, <<Arr(Args(Current.n))>>)
         [] Current.op = "ArrayPush" -> Leave(2, <<Arr(Append(Operand(2).vs, Operand(1)))>>)
    /\ UNCHANGED <<heap, closures, globals, world>>

Iterate ==
    /\ At({"GetIterator", "IterNext", "ObjectKeys"})
    /\ LET v == Operand(1) IN
       CASE Current.op = "ObjectKeys" /\ ~ IsObject(v) -> Leave(1, <<Arr(<<>>)>>) /\ UNCHANGED <<memory, world>>
         [] Current.op = "GetIterator" /\ ~ IsObject(v) -> Throws(1, TypeError)
         [] OTHER -> AskFor(CASE Current.op = "ObjectKeys" -> "keys" [] Current.op = "IterNext" -> "next"
                              [] OTHER -> "iterate", <<v>>, After(1, <<>>))

DynamicImport ==
    /\ At({"DynamicImport"})
    /\ AskFor("import", <<Operand(1), Num(IF Current.n = Unresolved THEN 0 ELSE 1)>>, After(1, <<>>))

-----------------------------------------------------------------------------
\* A program with an early error is not compiled.  A script's own bindings start
\* undefined, and its `this` is the global object; a module has none.
NoUnit == [main |-> Function("", <<>>), functions |-> <<>>, consts |-> <<>>, isModule |-> FALSE,
           inits |-> <<>>, requests |-> <<>>, errors |-> <<>>]
\* The functions a module itself declares are bound before its body runs; they
\* capture its own cells, and no with scope or private names.
InstantiateModuleFunction(id, fn) ==
    [fn |-> fn, withs |-> <<>>, ups |-> [i \in DOMAIN FunctionAt(fn).ups |-> FunctionAt(fn).ups[i].n],
     this |-> 0, super |-> NoValue, init |-> NoValue, owner |-> id, keys |-> <<>>, brands |-> {}]
Init ==
    /\ prog \in Programs
    /\ IF ~ Accepts(prog, prog.context)
       THEN unit = NoUnit /\ result = [k |-> "refused", v |-> NoValue]
       ELSE /\ unit = CompileProgram(prog.body, prog.module, <<>>, [x \in prog.context.privates |-> 1])
            /\ result = IF prog.run THEN Running ELSE [k |-> "compiled", v |-> NoValue]
    /\ LET n == Len(unit.main.locals) IN
       /\ frames = <<Frame(0, [i \in 1..n |-> i], n + 1)>>
       /\ heap = [i \in 1..(n + 1) |->
                    IF i > n THEN IF prog.module THEN Undef ELSE Val("global", "", 0, <<>>)
                    ELSE LET id == SelectLastInSeq(unit.inits, LAMBDA f : f.slot = i)
                         IN IF id = 0 THEN Undef ELSE Val("fn", FunctionAt(unit.inits[id].fn).name, id, <<>>)]
    /\ closures = [id \in DOMAIN unit.inits |-> InstantiateModuleFunction(id, unit.inits[id].fn)]
    /\ globals = [x \in prog.host |-> Ext(x)]
    /\ created = 0
    /\ pendingErr = NoValue
    /\ log = <<>> /\ defs = <<>> /\ tape = <<>>

Ended == result # Running /\ UNCHANGED vars
Next ==
    \/ RaisePending \/ Ended
    \/ LoadConstant \/ LoadVariable \/ StoreVariable \/ LoadThis \/ MoveOperands \/ ApplyOperator
    \/ Branch \/ Global \/ WithStatement \/ FindBinding \/ UseObjectBinding \/ UseStaticBinding
    \/ LoadFunction \/ SetFunctionName \/ CallFunction \/ CallMethod \/ Construct \/ CallSuper
    \/ ReturnValue \/ TryOps \/ ClassSetup \/ ClassScope \/ PrivateElement
    \/ GetProperty \/ SetProperty \/ DefineProperty \/ DeleteProperty \/ SuperProperty
    \/ MakeObject \/ Iterate \/ DynamicImport
Spec == Init /\ [][Next]_vars
=============================================================================
