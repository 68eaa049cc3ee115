--------------------------- MODULE LoweredProgram ---------------------------
(***************************************************************************)
(* A program lowered and run, against what the program means: the compiler *)
(* (Lowering) and the interpreter (Machine) taken together.                *)
(***************************************************************************)
EXTENDS Machine, Reference

Rules == INSTANCE StaticRules

-----------------------------------------------------------------------------
\* The first instruction of the program has yet to run.
Fresh == Len(frames) = 1 /\ Top.pc = 1
\* The compiler's output passes the verifier the interpreter runs first.
CodeVerified == Fresh /\ result.k # "refused" => unit.errors = <<>> /\ VerifyModule(unit)

\* A program is refused exactly when a node of it stands where the language's
\* early errors forbid, or two of its declarations clash.  Strict code is what the
\* language says: modules, class members and what has a directive.  Comments of the
\* checker (early_errors.rs:5-7, 784-785) say generators, async functions and arrows
\* are strict, too; check_function is called with force_strict = false for them
\* (713, 1275, 1435), and they are sloppy here.
EarlyErrorsAgree == Fresh => (result.k = "refused" <=> ~ Rules!WellFormed(prog))

\* Every upvalue of a function is lent by the function that makes its closure:
\* the local or the upvalue of that name there.  And whatever a function has
\* captured, the functions inside it have captured too, or declare themselves.
\* When it runs it finds a cell for each upvalue, and one for each local.
Lends(p, u) == IF u.local THEN u.n \in DOMAIN p.locals /\ p.locals[u.n] = u.name
               ELSE u.n \in DOMAIN p.ups /\ p.ups[u.n].name = u.name
MadeBy(i) ==
    {unit.functions[ins.n] : ins \in {x \in ToSet(FunctionAt(i).code) : x.op = "LdaFunction"}}
    \cup (IF i = 0 THEN {unit.functions[x.fn] : x \in ToSet(unit.inits)} ELSE {})
CellsHeld(f) == /\ ToSet(f.locals) \cup ToSet(f.ups) \cup {f.thisCell} \subseteq DOMAIN heap
                /\ Len(f.ups) = Len(FunctionAt(f.fn).ups)
CaptureChains ==
    /\ \A f \in ToSet(frames) : CellsHeld(f)
    /\ Fresh => \A i \in 0..Len(unit.functions) : \A f \in MadeBy(i) :
        /\ \A u \in ToSet(f.ups) : Lends(FunctionAt(i), u)
        /\ \A u \in ToSet(FunctionAt(i).ups) : UpvalueOf(f.ups, u.name) # 0 \/ HasSlot(f.locals, u.name)

\* An instruction finds the operands it pops, and pops none that a block whose
\* exception was caught had left.  Only a program may end with nothing to return.
Needs(ins) ==
    CASE ins.op \in BinaryOps \cup {"Swap", "SetClassHeritage", "SetClassInstanceInitializer",
             "DefineClassFieldKey", "ArrayPush", "GetProp", "DeleteProp", "SetSuperProp", "SetPrivate",
             "CopyDataProperties", "NewWithArgumentList", "CallWithArgumentList",
             "CallDirectEvalWithArgumentList"} \cup (PrivateOps \ {"GetPrivate", "PrivateIn"}) -> 2
      [] ins.op \in {"SetProp", "DefineDataProperty", "DefineMethod", "DefineGetter", "DefineSetter",
             "CallMethodWithArgumentList"} -> 3
      [] ins.op \in {"Call", "CallDirectEval", "New"} -> ins.n + 1
      [] ins.op = "CallMethod" -> ins.n + 2
      [] ins.op = "NewArray" -> ins.n
      [] ins.op = "CallSuper" -> IF ins.n = AllArguments THEN 0 ELSE ins.n
      [] ins.op \in UnaryOps \cup {"StaLocal", "StaUpvalue", "Pop", "Dup", "JumpIfTrue", "JumpIfFalse",
             "JumpIfNullish", "SetGlobal", "SetName", "EnterWith", "Return", "Throw", "SetFunctionName",
             "GetIterator", "IterNext", "ObjectKeys", "GetPrivate", "PrivateIn", "GetSuperProp",
             "DeleteSuperProp", "DynamicImport", "CallSuperWithArgumentList",
             "ActivateClassPrivateEnvironment"} -> 1
      [] OTHER -> 0
AtInstruction == result = Running /\ pendingErr = NoValue
OperandsPresent == ~ (Current.op = "Return" /\ Top.fn = 0) => Len(Top.stack) - Top.stale >= Needs(Current)
\* A function returns with its value alone on the stack, above only what the
\* blocks whose exceptions it caught had left there.
StackClean == Current.op = "Return" /\ Top.fn # 0 => Len(Top.stack) = Top.stale + 1
StackBalanced == AtInstruction => OperandsPresent /\ StackClean

\* The live handlers of a frame are those of the try blocks around its
\* instruction, outermost first.
FirstTarget(h) == IF h.catch # NoTarget THEN h.catch ELSE h.finally
TryBlock(f, h) ==
    LET begin == CHOOSE pc \in DOMAIN f.code : f.code[pc] = Instruction("TryBegin", h)
        end   == CHOOSE pc \in 1..(FirstTarget(f.handlers[h]) - 1) :
                   /\ f.code[pc].op = "TryEnd"
                   /\ \A q \in (pc + 1)..(FirstTarget(f.handlers[h]) - 1) : f.code[q].op # "TryEnd"
    IN (begin + 1)..end
HandlersNest ==
    \A d \in DOMAIN frames :
        LET f    == frames[d]
            code == FunctionAt(f.fn)
            \* A caller is inside its call, the instruction before its pc.
            pc == IF d = Len(frames) /\ pendingErr = NoValue THEN f.pc ELSE f.pc - 1
        IN f.tries = [i \in 1..Cardinality({h \in DOMAIN code.handlers : pc \in TryBlock(code, h)}) |->
                        code.handlers[CHOOSE h \in DOMAIN code.handlers :
                            /\ pc \in TryBlock(code, h)
                            /\ Cardinality({g \in 1..h : pc \in TryBlock(code, g)}) = i]]

\* What the program did: asked the host, defined and completed as its meaning says.
DidAs(m) ==
    /\ log = m.log /\ defs = m.defs
    /\ m.pos = Len(tape)
    /\ IF result.k = "throw" THEN m.c = [k |-> "throw", v |-> result.v, l |-> ""]
       ELSE result.k = "return" /\ m.c.k = "normal"
TraceAgrees == result.k \in {"return", "throw", "internal"} => DidAs(Meaning(prog, tape))

\* "get an iterator, step it with `.next()` until `done`": a program that runs
\* to its end, and leaves no loop early, has heard `done` of every iterator.
SteppedUntilDone ==
    result.k = "return" =>
        \A i \in DOMAIN log : log[i].kind = "iterate" =>
            \E j \in DOMAIN log : log[j].kind = "next" /\ log[j].vs[1].n = i /\ tape[j] = "done"
=============================================================================
