------------------------------ MODULE Bytecode ------------------------------
(***************************************************************************)
(* The bytecode contract between the compiler and its backends             *)
(* (js-bytecode): values in the constant pool, instructions, local tables, *)
(* function records and the structural verifier.  Tables are sequences, so *)
(* slots, constants, handlers and instruction indices count from one.      *)
(***************************************************************************)
EXTENDS Integers, Sequences, SequencesExt, FiniteSets, TLC

-----------------------------------------------------------------------------
\* Values are opaque: a kind, a name, an identity or number, and the values
\* they hold (an array's elements, the operands of an operator left symbolic).
Val(t, s, n, vs) == [t |-> t, s |-> s, n |-> n, vs |-> vs]
Undef   == Val("undefined", "", 0, <<>>)
Null    == Val("null", "", 0, <<>>)
Bool(b) == Val("bool", IF b THEN "true" ELSE "false", 0, <<>>)
Str(x)  == Val("str", x, 0, <<>>)
Num(n)  == Val("num", "", n, <<>>)
Object(n)  == Val("obj", "", n, <<>>)
Arr(vs) == Val("arr", "", 0, vs)
\* A host function: what it answers is chosen when it is called.
Ext(x)  == Val("ext", x, 0, <<>>)
Error   == Val("error", "", 0, <<>>)

Nullish(v) == v.t \in {"undefined", "null"}
Truthy(v)  == ~ Nullish(v) /\ v # Bool(FALSE) /\ v # Num(0) /\ v # Str("")

\* Operators the properties do not look into stay symbolic.
Operate(op, a, b) ==
    IF op \in {"Eq", "StrictEq"} THEN Bool(a = b)
    ELSE IF a.t = "num" /\ b.t = "num" THEN
      CASE op = "Add" -> Num(a.n + b.n) [] op = "Sub" -> Num(a.n - b.n)
        [] op = "Ge" -> Bool(a.n >= b.n) [] op = "Lt" -> Bool(a.n < b.n)
        [] OTHER -> Val("op", op, 0, <<a, b>>)
    ELSE Val("op", op, 0, <<a, b>>)
OperateOne(op, a) ==
    CASE op = "Void" -> Undef [] op = "Not" -> Bool(~ Truthy(a))
      [] OTHER -> Val("op", op, 0, <<a>>)

-----------------------------------------------------------------------------
BinaryOps == {"Add", "Sub", "Mul", "Div", "Mod", "Exp", "Eq", "StrictEq", "Lt", "Le",
              "Gt", "Ge", "BitAnd", "BitOr", "BitXor", "Shl", "Shr", "Ushr", "In", "Instanceof"}
UnaryOps  == {"Neg", "Pos", "Not", "BitNot", "Typeof", "Void"}

ConstantOps == {"LdaConst", "SetFunctionName", "NewRegex", "GetGlobal", "TypeofGlobal",
    "SetGlobal", "DeleteGlobal", "GetName", "SetName", "TypeofName", "DeleteName",
    "GetPrivate", "SetPrivate", "DefinePrivate", "DefinePrivateMethod",
    "DefinePrivateGetter", "DefinePrivateSetter", "DefinePrivateMethodTemplate",
    "DefinePrivateGetterTemplate", "DefinePrivateSetterTemplate", "PrivateIn"}
JumpOps  == {"Jump", "JumpIfFalse", "JumpIfTrue", "JumpIfNullish"}
CountOps == {"Call", "CallDirectEval", "CallMethod", "New", "CallSuper", "NewArray", "DynamicImport"}

\* The table an instruction's operand indexes.
OperandKind(op) ==
    CASE op \in ConstantOps -> "Constant"
      [] op \in {"LdaLocal", "StaLocal"} -> "Local"
      [] op \in {"LdaUpvalue", "StaUpvalue"} -> "Upvalue"
      [] op = "LdaFunction" -> "Function"
      [] op \in JumpOps -> "JumpTarget"
      [] op \in CountOps -> "ArgumentCount"
      [] op = "TryBegin" -> "Handler"
      [] op = "LoadClassFieldKey" -> "ClassField"
      [] op = "GetTemplateObject" -> "TemplateSite"
      [] OTHER -> "None"

-----------------------------------------------------------------------------
\* Local tables: a slot's name is its place in the sequence.  A repeated
\* parameter name is rebound to the later slot, so the search runs backwards.
HasSlot(locals, x) == \E i \in DOMAIN locals : locals[i] = x
SlotOf(locals, x)  == CHOOSE i \in DOMAIN locals :
                        locals[i] = x /\ \A j \in DOMAIN locals : locals[j] = x => j <= i
Intern(seq, x) == IF HasSlot(seq, x) THEN seq ELSE Append(seq, x)

\* The first slots are the parameters'.
Function(name, params) ==
    [name |-> name, params |-> Len(params), code |-> <<>>, locals |-> params,
     ups |-> <<>>, handlers |-> <<>>, sites |-> 0, arrow |-> FALSE]

Instruction(op, n) == [op |-> op, n |-> n]
Here(f) == Len(f.code) + 1

-----------------------------------------------------------------------------
\* A branch just past the code is a valid exit; a handler's target is not.
ValidOperand(m, f, ins) ==
    LET kind == OperandKind(ins.op) IN
    CASE kind = "None"         -> ins.n = 0
      [] kind = "Constant"     -> ins.n \in 1..Len(m.consts)
      [] kind = "Local"        -> ins.n \in 1..Len(f.locals)
      [] kind = "Upvalue"      -> ins.n \in 1..Len(f.ups)
      [] kind = "Function"     -> ins.n \in 1..Len(m.functions)
      [] kind = "JumpTarget"   -> ins.n \in 1..(Len(f.code) + 1)
      [] kind = "Handler"      -> ins.n \in 1..Len(f.handlers)
      [] kind = "TemplateSite" -> ins.n \in 1..f.sites
      [] OTHER                 -> TRUE

NoTarget  == 0
NoHandler == [catch |-> NoTarget, finally |-> NoTarget]
VerifyFunction(m, f) ==
    /\ f.params <= Len(f.locals)
    /\ \A pc \in DOMAIN f.code : ValidOperand(m, f, f.code[pc])
    /\ \A h \in DOMAIN f.handlers :
         {f.handlers[h].catch, f.handlers[h].finally} \subseteq (1..Len(f.code)) \cup {NoTarget}

VerifyModule(m) == VerifyFunction(m, m.main)
                   /\ \A i \in DOMAIN m.functions : VerifyFunction(m, m.functions[i])
=============================================================================
