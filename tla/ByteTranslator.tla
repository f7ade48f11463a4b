---------------------------- MODULE ByteTranslator --------------------------
(***************************************************************************)
(* The compiler's back end (MSLC/source/IR/ByteTranslation): pseudo-code   *)
(* in postfix order goes in one operation at a time, and commands over     *)
(* registers come out.  The translator keeps a stack of value frames that  *)
(* say where each operand is, and a table of the registers in use.         *)
(*                                                                         *)
(* To say that the commands are right, the model carries them out as soon  *)
(* as they are there, on a machine with registers and a memory (along the  *)
(* path on which no jump is taken), and compares the machine, through the  *)
(* value frames, with ExpressionPromise.                                   *)
(*                                                                         *)
(* Programs are those ExpressionsTranslator makes of statements without    *)
(* type errors that use no pointer to nowhere.  A char takes one byte, all *)
(* else Size bytes; string constants, arrays, fields and calls (which have *)
(* no code yet) are left out.  One operator stands for all that are        *)
(* translated alike: Subtract for + - * / ^, Less for the comparisons,     *)
(* And for || too, BitOffsetLeft for the operators on bits.                *)
(***************************************************************************)
EXTENDS MSLValues, Sequences, SequencesExt, FiniteSets

CONSTANTS
  GeneralRegisters,   (* general_registers_count, 120                      *)
  LLRegisters,        (* the registers an op_code section may name         *)
  Size,               (* POINTER_SIZE, 8                                   *)
  StackSize,          (* how many bytes the module's own variables have    *)
  Own, Imported,      (* variables of this module, and of others           *)
  LinkedAt,           (* where the linker puts the variables of others     *)
  LinkedValue,        (* and what their modules put there                  *)
  TypeOf,             (* the types: depth of pointers, type below          *)
  Constants,          (* number constants, [prim, n, size]                 *)
  UnaryOperators,     (* which of Negative, BitNot, Not programs use       *)
  CompoundOperators,  (* the op of the assignments op= programs use        *)
  CompoundByPointer,  (* whether they use them on what a pointer points to *)
  CharByPointer,      (* whether they assign to a char a pointer points to *)
  PointersByBytes,    (* whether they move pointers to pointers to char,   *)
                      (* and take bytes from pointers to pointers          *)
  MaxOperands,        (* operands of a statement at a time                 *)
  MaxScopes,          (* scopes inside one another                         *)
  MaxCode             (* length of the pseudo-code                         *)

Variables == Own \cup Imported

BinaryOperators == {"Subtract", "Mod", "Less", "And", "BitOffsetLeft"}

ASSUME TranslatorAssumption ==
  /\ GeneralRegisters \in Nat \ {0}
  /\ Size \in Nat \ {0} /\ StackSize \in Nat
  /\ Own \cap Imported = {}
  /\ LinkedAt \in [Imported -> Nat]
  /\ LinkedValue \in [Imported -> MSLValue]
  /\ TypeOf \in [Variables -> [depth : Nat, base : Bases]]
  /\ Constants \subseteq [prim : Primitives, n : Nat, size : {1, Size}]
  /\ UnaryOperators \subseteq {"Negative", "BitNot", "Not"}
  /\ CompoundOperators \subseteq BinaryOperators \cup {"BitNot"}
  /\ {CompoundByPointer, CharByPointer, PointersByBytes} \subseteq BOOLEAN
  /\ {MaxOperands, MaxScopes, MaxCode} \subseteq Nat

VARIABLES
  b_state,             (* value_stack, registers_table, the result of the  *)
                       (* operation in progress, the frames that           *)
                       (* GenerateLoadCommand returned in it, last first,  *)
                       (* and whether a message was printed or no register *)
                       (* was left                                         *)
  frame_stack,         (* where each visible scope's variables lie         *)
  global_stack_offset, (* of the variables in scope                        *)
  allocated_registers, (* the general register of each LL register         *)
  machine,             (* the registers and the memory                     *)
  pseudo_ip,           (* how much pseudo-code was translated              *)
  op,                  (* the operation just translated                    *)
  open                 (* operands the statement in progress has           *)

vars == <<b_state, frame_stack, global_stack_offset, allocated_registers,
          machine, pseudo_ip, op, open>>

-----------------------------------------------------------------------------
(* Value frames and registers. *)

Registers == 0 .. GeneralRegisters - 1
InvalidRegister == GeneralRegisters

NoType == [depth |-> 0, base |-> "Invalid"]

(* GetAlignedSize of the types the compiler knows. *)
AlignedSize(base) == IF base = "Char" THEN 1 ELSE Size
SizeOf(type) == IF type.depth > 0 THEN Size ELSE AlignedSize(type.base)

(* depth and base are value_info's; dynamic and dynamicSize are            *)
(* dynamic_primitive_type and dynamic_data_size, static and staticSize     *)
(* static_primitive_type and static_data_size.                             *)
ValueFrame(source, data, prim, info, size) ==
  [source |-> source, data |-> data, dynamic |-> prim, static |-> prim,
   dynamicSize |-> size, staticSize |-> size, info |-> info]

Invalid == ValueFrame("Immediate", 0, "UInt", NoType, 0)

IsPointer(frame) == frame.info.depth > 0
InRegister(frame) == frame.source \in {"Register", "Pointer", "DynamicAddress"}
AtFixedAddress(frame) == frame.source \in {"StaticAddress", "Symbol"}

(* Mutation: a char behind a pointer is read like the pointer. *)
Dereferenced_SizeKept(frame) ==
  LET depth == IF frame.info.depth > 0 THEN frame.info.depth - 1 ELSE 0
  IN IF depth > 0
       THEN [frame EXCEPT !.info.depth = depth]
       ELSE [frame EXCEPT !.info.depth = 0, !.source = "DynamicAddress",
                          !.dynamic = Analog(frame.info.base)]

(* ValueFrame::Dereference and ValueFrame::GetPointer: what is static, the *)
(* size a store will have, stays as it was for the pointer.                *)
Dereferenced(frame) ==
  LET depth == IF frame.info.depth > 0 THEN frame.info.depth - 1 ELSE 0
  IN IF depth > 0
       THEN [frame EXCEPT !.info.depth = depth]
       ELSE [frame EXCEPT !.info.depth = 0, !.source = "DynamicAddress",
                          !.dynamic = Analog(frame.info.base),
                          !.dynamicSize = AlignedSize(frame.info.base)]

PointerTo(frame) ==
  [frame EXCEPT !.info.depth = @ + 1, !.source = "Pointer", !.dynamic = "UInt",
                !.dynamicSize = Size]

Top(b) == Last(b.value_stack)
Pushed(b, frame) == [b EXCEPT !.value_stack = Append(@, frame)]
Popped(b) == [b EXCEPT !.value_stack = Front(@)]
Reported(b) == [b EXCEPT !.reported = TRUE]
Emitted(b, command) == [b EXCEPT !.result = Append(@, command)]
Returned(b, frame) == [b EXCEPT !.loaded = << frame >> \o @]

FreeRegisters(b) == Registers \ b.registers_table

(* RegistersTable::FindFreeGeneral: the first that is free, or none. *)
FindFreeGeneral(b) ==
  IF FreeRegisters(b) = {} THEN InvalidRegister
  ELSE CHOOSE r \in FreeRegisters(b) : \A s \in FreeRegisters(b) : r <= s

(* Mutation: whatever was found is marked, also when nothing was. *)
Allocated_Unchecked(b) ==
  [b EXCEPT !.registers_table = @ \cup {FindFreeGeneral(b)},
            !.out_of_registers = FreeRegisters(b) = {}]

(* AllocateFreeGeneral, and whether there was none to allocate. *)
Allocated(b) ==
  IF FreeRegisters(b) = {} THEN [b EXCEPT !.out_of_registers = TRUE]
  ELSE [b EXCEPT !.registers_table = @ \cup {FindFreeGeneral(b)}]

(* Mutation: no register is ever freed. *)
Freed_Nothing(b, register) == b

Freed(b, register) == [b EXCEPT !.registers_table = @ \ {register}]

(* What a command says of an operand: an address, a symbol the linker will *)
(* look up (TryMarkAsUnhandledSymbol), or a constant.                      *)
Argument(frame) ==
  <<CASE frame.source = "Symbol" -> "Symbol"
      [] frame.source = "Constant" -> "Constant"
      [] OTHER -> "MemoryAddress",
    frame.data>>

-----------------------------------------------------------------------------
(* GenerateLoadCommand: the top frame leaves the stack, its operand goes   *)
(* into a register, and the frame that says so is returned, in b.loaded.   *)

(* CheckRegister, after the register was allocated. *)
LoadedInto(register, b, frame, command, loaded) ==
  IF register = InvalidRegister THEN Returned(Reported(b), Invalid)
  ELSE Returned(Emitted(b, <<command, Argument(frame), register, frame.dynamicSize>>),
                [loaded EXCEPT !.data = register])

LoadedFrom(b, frame, command, loaded) ==
  LoadedInto(FindFreeGeneral(b), Allocated(b), frame, command, loaded)

LoadedTop(b, frame) ==
  CASE frame.source = "DynamicAddress" ->
         Returned(Emitted(b, <<"LOAD_DYNAMIC", frame.data, frame.data, frame.dynamicSize>>),
                  [frame EXCEPT !.source = "Register"])
    [] AtFixedAddress(frame) ->
         LoadedFrom(b, frame, "LOAD_STATIC",
           IF IsPointer(frame)
             THEN [frame EXCEPT !.source = "Pointer", !.dynamic = "UInt"]
             ELSE [frame EXCEPT !.source = "Register", !.dynamic = frame.static])
    [] frame.source = "Constant" ->
         LoadedFrom(b, frame, "LOAD_CONST_STATIC",
                    [frame EXCEPT !.source = "Register"])
    [] OTHER -> Returned(b, frame)

Load(b) ==
  IF b.value_stack = << >> THEN Returned(Reported(b), Invalid)
  ELSE LoadedTop(Popped(b), Top(b))

-----------------------------------------------------------------------------
(* The arithmetic and logic handler (BCHAL.cpp). *)

Conversion(b, from, to, register) ==
  IF from = to THEN b ELSE Emitted(b, <<"TC", from, to, register>>)

(* GetTypeConvertionCommand: the operand whose type has the lower priority *)
(* is converted.                                                           *)
LeftConverts(l, r) == l.dynamic # Common(l.dynamic, r.dynamic)

(* Mutation: the operand that has the common type is "converted". *)
Unified_Other(b, l, r) ==
  LET common == Common(l.dynamic, r.dynamic)
  IN IF LeftConverts(l, r) THEN Conversion(b, r.dynamic, common, r.data)
     ELSE Conversion(b, l.dynamic, common, l.data)

Unified(b, l, r) ==
  LET common == Common(l.dynamic, r.dynamic)
  IN IF LeftConverts(l, r) THEN Conversion(b, l.dynamic, common, l.data)
     ELSE Conversion(b, r.dynamic, common, r.data)

(* add_converted_frame: the result is in the left register and is of the   *)
(* kind of the operand that was not converted, but of the size of the one  *)
(* that was (the right one when none was).                                 *)
ResultFrame(l, r) ==
  LET kind == IF LeftConverts(l, r) THEN r ELSE l
  IN [l EXCEPT !.dynamic = Common(l.dynamic, r.dynamic),
               !.dynamicSize = IF LeftConverts(l, r) THEN @ ELSE r.dynamicSize,
               !.static = kind.static, !.staticSize = kind.staticSize,
               !.info = kind.info]

NumberFrame(register, size) ==
  ValueFrame("Register", register, "UInt", NoType, size)

LogicResultSize == 1

(* PushPointerArithmetic: the right operand times the size of the type     *)
(* below all pointers.                                                     *)
(* The register for the size is looked up and not allocated.               *)
Scaled(b, l, r, prim) ==
  LET register == FindFreeGeneral(b)
      checked == IF "Real" \in {l.dynamic, r.dynamic} THEN Reported(b) ELSE b
      noted == [checked EXCEPT !.out_of_registers =
                                  @ \/ register = InvalidRegister]
  IN Freed(Emitted(Emitted(noted, <<"LOAD_CONST_STATIC", <<"Constant", [prim |-> "UInt", n |-> AlignedSize(l.info.base)]>>, register, Size>>),
                   <<"MUL", prim, r.data, r.data, register>>),
           register)

(* With both operands in registers, the result takes the left one and the *)
(* right one is freed.                                                     *)
Computed(b, o) ==
  LET l == b.loaded[1]
      r == b.loaded[2]
      common == Common(l.dynamic, r.dynamic)
      Command(c, prim) ==
        Freed(Emitted(c, <<o, prim, l.data, l.data, r.data>>), r.data)
  IN CASE o = "Subtract" ->
            Pushed(Command(IF l.source = "Pointer" /\ l.info.base # "Invalid"
                             THEN Scaled(Unified(b, l, r), l, r, common)
                             ELSE Unified(b, l, r),
                           common),
                   ResultFrame(l, r))
       [] o \in {"Mod", "BitOffsetLeft"} /\ "Real" \in {l.dynamic, r.dynamic} ->
            Reported(b)
       [] o = "Mod" /\ "Real" \notin {l.dynamic, r.dynamic} ->
            Pushed(Command(Unified(b, l, r), common), ResultFrame(l, r))
       [] o = "Less" ->
            Pushed(Command(Unified(b, l, r), common),
                   NumberFrame(l.data, LogicResultSize))
       [] OTHER ->
            Pushed(Command(b, "UInt"),
                   NumberFrame(l.data, IF o = "And" THEN LogicResultSize
                                       ELSE l.dynamicSize))

(* The right operand, on top, is loaded first. *)
BinaryOperation(b, o) == Computed(Load(Load(b)), o)

(* Negative of an unsigned number is refused. *)
Applied(b, o) ==
  LET f == b.loaded[1]
  IN CASE o = "Negative" /\ f.dynamic = "UInt" -> Reported(b)
       [] o = "Negative" /\ f.dynamic # "UInt" ->
            Pushed(Emitted(b, <<o, f.dynamic, f.data, f.data>>), f)
       [] o = "BitNot" -> Pushed(Emitted(b, <<o, "UInt", f.data, f.data>>), f)

(* Not has no code. *)
UnaryOperation(b, o) == IF o = "Not" THEN b ELSE Applied(Load(b), o)

Handle(b, o) ==
  IF o \notin BinaryOperators THEN UnaryOperation(b, o)
  ELSE IF Len(b.value_stack) < 2 THEN Reported(b)
  ELSE BinaryOperation(b, o)

-----------------------------------------------------------------------------
(* The data-flow handler (BCHDataFlow.cpp): pointers and assignments. *)

PointerTaken(b) ==
  LET frame == Top(b)
      p == Popped(b)
      register == FindFreeGeneral(p)
  IN CASE AtFixedAddress(frame) ->
            Pushed(Emitted(Allocated(p), <<"LEA_STATIC", Argument(frame), register>>),
                   PointerTo([frame EXCEPT !.data = register]))
       [] frame.source = "DynamicAddress" -> Pushed(p, PointerTo(frame))
       [] OTHER -> Reported(p)

(* The operand behind a pointer is its address; a pointer behind a pointer *)
(* is read at once.                                                        *)
Behind(b, pointer) ==
  LET frame == Dereferenced(pointer)
  IN Pushed(IF IsPointer(frame)
              THEN Emitted(b, <<"LOAD_DYNAMIC", frame.data, frame.data, frame.dynamicSize>>)
              ELSE b,
            frame)

Followed(b, pointer) ==
  IF pointer.source \in {"Pointer", "Register"} THEN Behind(b, pointer)
  ELSE Reported(b)

FollowedLoaded(b) == Followed(b, b.loaded[1])

PointerFollowed(b) ==
  IF AtFixedAddress(Top(b)) \/ Top(b).source = "DynamicAddress"
    THEN FollowedLoaded(Load(b))
    ELSE Followed(Popped(b), Top(b))

(* a[i], with both in registers. *)
Element(b) ==
  LET l == b.loaded[1]
      r == b.loaded[2]
      scaled == IF l.info.base # "Invalid" THEN Scaled(b, l, r, r.dynamic) ELSE b
  IN IF l.source \in {"Pointer", "Register"}
       THEN Behind(Freed(Emitted(scaled, <<"ADD", r.dynamic, l.data, l.data, r.data>>),
                         r.data),
                   l)
       ELSE Reported(b)

Indexed(b) == Element(Load(Load(b)))

(* A value goes into a pointer as it is, if it is unsigned. *)
Fitted(b, left, right) ==
  IF IsPointer(left) /\ right.dynamic = "UInt" THEN b
  ELSE Conversion(b, right.dynamic, left.dynamic, right.data)

(* x o= e hands both, the right one loaded, to the arithmetic and logic    *)
(* handler, which takes left away; AssignR puts it back.                   *)
Evaluated(b, left, o, keep) ==
  IF o = "Nop" THEN b
  ELSE LET done == Load(Handle(Pushed(b, b.loaded[1]), o))
       IN IF keep THEN Pushed(done, left) ELSE done

Stored(b, left, right) ==
  CASE AtFixedAddress(left) ->
         Emitted(Fitted(b, left, right),
                 <<"STORE_STATIC", Argument(left), right.data, left.staticSize>>)
    [] left.source = "DynamicAddress" ->
         Emitted(Fitted(b, left, right),
                 <<"STORE_DYNAMIC", left.data, right.data, left.staticSize>>)
    [] OTHER -> Reported(Fitted(b, left, right))

(* Assign drops left and frees the register of the right one. *)
Dropped(b, o, keep) ==
  IF keep \/ b.reported THEN b
  ELSE Freed(IF o = "Nop" THEN Popped(b) ELSE b, b.loaded[1].data)

StoredIn(b, left, o, keep) == Dropped(Stored(b, left, b.loaded[1]), o, keep)

AssignedLoaded(b, o, keep) ==
  StoredIn(Evaluated(b, Top(b), o, keep), Top(b), o, keep)

(* Assign, and AssignR (keep).  When right is loaded, left is on top. *)
Assigned(b, o, keep) == AssignedLoaded(Load(b), o, keep)

-----------------------------------------------------------------------------
(* The machine the commands are for, as the linker and MSLVM have it. *)

OwnBytes == 0 .. StackSize - 1
BytesOf(v) == LinkedAt[v] .. LinkedAt[v] + SizeOf(TypeOf[v]) - 1
Addresses == OwnBytes \cup UNION {BytesOf(v) : v \in Imported}

(* The linker gives every variable bytes of its own, behind those of this  *)
(* module.                                                                 *)
ASSUME LinkedApart ==
  /\ \A v \in Imported : LinkedAt[v] >= StackSize
  /\ \A v, w \in Imported : v # w => BytesOf(v) \cap BytesOf(w) = {}

InRegisterOf(m, r) == IF r \in Registers THEN m.registers[r] ELSE Unknown

AddressIn(argument) ==
  IF argument[1] = "Symbol" THEN LinkedAt[argument[2]] ELSE argument[2]

(* A command's result goes into its register; a store goes into memory. *)
Result(m, c) ==
  LET r(i) == InRegisterOf(m, c[i])
  IN CASE c[1] = "LOAD_STATIC" -> BytesAt(m.memory, AddressIn(c[2]), c[4])
       [] c[1] = "LEA_STATIC" -> Number("UInt", AddressIn(c[2]))
       [] c[1] = "LOAD_CONST_STATIC" -> Number(c[2][2].prim, c[2][2].n)
       [] c[1] = "LOAD_DYNAMIC" ->
            IF Is(r(2), "UInt") THEN BytesAt(m.memory, r(2).n, c[4]) ELSE Unknown
       [] c[1] = "TC" -> Converted(r(4), c[2], c[3])
       [] c[1] = "ADD" -> Addition(r(4), r(5), c[2])
       [] c[1] = "MUL" -> Product(r(4), r(5), c[2])
       [] c[1] = "Subtract" -> Difference(r(4), r(5), c[2])
       [] c[1] = "Mod" -> Remainder(r(4), r(5), c[2])
       [] c[1] = "Less" -> LessThan(r(4), r(5), c[2])
       [] c[1] = "And" -> Both(r(4), r(5))
       [] c[1] = "BitOffsetLeft" -> ShiftedLeft(r(4), r(5))
       [] c[1] = "Negative" -> Negated(r(4), c[2])
       [] c[1] = "BitNot" -> Complement(r(4))
       [] c[1] = "MOVRI" -> Unknown

Target(c) ==
  CASE c[1] \in {"LOAD_STATIC", "LEA_STATIC", "LOAD_CONST_STATIC", "LOAD_DYNAMIC"} -> c[3]
    [] c[1] = "TC" -> c[4]
    [] c[1] = "MOVRI" -> c[2]
    [] OTHER -> c[3]

Written(m, a, r, size) ==
  [m EXCEPT !.memory = WithBytes(@, a, size, InRegisterOf(m, r))]

Execute(m, c) ==
  CASE c[1] = "STORE_STATIC" -> Written(m, AddressIn(c[2]), c[3], c[4])
    [] c[1] = "STORE_DYNAMIC" -> Written(m, InRegisterOf(m, c[2]).n, c[3], c[4])
    [] c[1] \in {"STACK_UP", "JMP", "JMP_LABEL", "JMPCV"} -> m
    [] OTHER -> IF Target(c) \in Registers
                  THEN [m EXCEPT !.registers[Target(c)] = Result(m, c)]
                  ELSE m

(* The commands of an operation, one after the other. *)
Executed(m, commands) ==
  LET after[n \in 0 .. Len(commands)] ==
        IF n = 0 THEN m ELSE Execute(after[n - 1], commands[n])
  IN after[Len(commands)]

-----------------------------------------------------------------------------
(* What the value frames stand for: the operands of ExpressionPromise.     *)

Operand(m, frame) ==
  LET inPlace == InRegisterOf(m, frame.data)
      place(at) == [place |-> at, value |-> Unknown, type |-> frame.info]
      value(v) == [place |-> -1, value |-> v,
                   type |-> IF IsPointer(frame) THEN frame.info
                            ELSE [depth |-> 0, base |-> frame.dynamic]]
  IN CASE AtFixedAddress(frame) -> place(AddressIn(Argument(frame)))
       [] frame.source = "DynamicAddress" -> place(inPlace.n)
       [] frame.source = "Constant" -> value(Number(frame.data.prim, frame.data.n))
       [] OTHER -> value(inPlace)

Source == INSTANCE ExpressionPromise WITH
  Types <- {TypeOf[v] : v \in Variables}, Numbers <- Constants,
  operands <- [i \in 1 .. Len(b_state.value_stack) |->
                 Operand(machine, b_state.value_stack[i])],
  memory <- machine.memory,
  failed <- b_state.reported \/ b_state.out_of_registers

(* The last operands, for programs without type errors. *)
Right == Source!Right
Left == Source!Left
Known(address) == Is(address, "UInt") /\ address.n \in Addresses

-----------------------------------------------------------------------------

Init ==
  /\ b_state = [value_stack |-> << >>, registers_table |-> {}, result |-> << >>,
                loaded |-> << >>, reported |-> FALSE, out_of_registers |-> FALSE]
  /\ frame_stack = << [start_address |-> 0, size |-> 0] >>
  /\ global_stack_offset = << >>
  /\ allocated_registers = << >>
  /\ machine = [registers |-> [r \in Registers |-> Unknown],
                memory |-> [a \in Addresses |->
                  IF a \in OwnBytes THEN Byte(Unknown, 0)
                  ELSE LET v == CHOOSE v \in Imported : a \in BytesOf(v)
                       IN Byte(LinkedValue[v], a - LinkedAt[v])]]
  /\ pseudo_ip = 0 /\ op = "Nop" /\ open = 0

(* Operation o: what its handler makes of b_state, and the commands it     *)
(* gave carried out.                                                       *)
Translate(o, b) ==
  /\ pseudo_ip < MaxCode /\ pseudo_ip' = pseudo_ip + 1
  /\ op' = o
  /\ b_state' = [b EXCEPT !.result = << >>, !.loaded = << >>]
  /\ machine' = Executed(machine, b.result)

(* The statement in progress has n operands; nothing is said of a program  *)
(* once a message was printed.                                             *)
Operands(n) ==
  /\ ~b_state.reported
  /\ open >= n /\ Len(b_state.value_stack) >= open

InScope == UNCHANGED <<frame_stack, global_stack_offset, allocated_registers>>

(* An operation inside an expression, which leaves n operands.  What an    *)
(* assignment that is assigned leaves is assigned next.                    *)
InExpression(o, b, n) ==
  /\ op # "AssignR" /\ n <= MaxOperands
  /\ Translate(o, b)
  /\ open' = n
  /\ InScope

Use(v) ==
  LET own == v \in DOMAIN global_stack_offset
      prim == IF TypeOf[v].depth > 0 THEN "UInt" ELSE Analog(TypeOf[v].base)
  IN /\ Operands(0)
     /\ own \/ v \in Imported
     /\ InExpression("Use",
          Pushed(b_state,
                 ValueFrame(IF own THEN "StaticAddress" ELSE "Symbol",
                            IF own THEN global_stack_offset[v] ELSE v,
                            prim, TypeOf[v], SizeOf(TypeOf[v]))),
          open + 1)

UseConstant(c) ==
  /\ Operands(0)
  /\ InExpression("UseConstant",
                  Pushed(b_state, ValueFrame("Constant", c, c.prim, NoType, c.size)),
                  open + 1)

(* Programs that move left, which points to a pointer to char, are left    *)
(* out, and those that take from a pointer to a pointer what the code      *)
(* gives one byte (a char, what a comparison says).                        *)
MayMove ==
  Left.type.depth >= 2 /\ Left.type.base = "Char" => PointersByBytes
MayTake ==
  Left.type.depth >= 2 /\ Top(b_state).dynamicSize # Size => PointersByBytes

Binary(o) ==
  /\ Operands(2)
  /\ o = "Subtract" => MayMove /\ MayTake
  /\ Source!Numeric(Right)
  /\ Source!Numeric(Left) \/ o = "Subtract"
  /\ InExpression(o, Handle(b_state, o), open - 1)

Unary(o) ==
  /\ Operands(1) /\ Source!Numeric(Right)
  /\ o = "BitNot" => Right.type.base # "Real"
  /\ InExpression(o, Handle(b_state, o), open)

GetPointer ==
  /\ Operands(1) /\ Right.type.depth < 2
  /\ InExpression("GetPointer", PointerTaken(b_state), open)

Dereference ==
  /\ Operands(1)
  /\ ~Source!Numeric(Right) /\ Known(Source!Read(Right))
  /\ InExpression("Dereference", PointerFollowed(b_state), open)

GetByArgument ==
  /\ Operands(2)
  /\ ~Source!Numeric(Left) /\ Source!Numeric(Right) /\ MayMove
  /\ \/ Right.type.base = "Real"
     \/ Known(Addition(Source!Read(Left),
                       Product(Source!Read(Right),
                               Number("UInt", Source!ElementSize(Left.type)), "UInt"),
                       "UInt"))
  /\ InExpression("GetByArgument", Indexed(b_state), open - 1)

(* x = e and x o= e, and x = y = e, where y = e keeps y for x. *)
Assign(o, keep) ==
  /\ Operands(IF keep THEN 3 ELSE 2) /\ (keep \/ open = 2)
  /\ CASE o = "Nop" -> Left.type.depth = Right.type.depth
       [] o = "Subtract" -> Source!Numeric(Right) /\ MayMove
       [] OTHER -> Source!Numeric(Left) /\ Source!Numeric(Right)
  /\ o = "BitNot" => "Real" \notin {Left.type.base, Right.type.base}
  /\ Top(Popped(b_state)).source = "DynamicAddress" =>
       /\ o # "Nop" => CompoundByPointer
       /\ Left.type.base = "Char" => CharByPointer
  /\ Translate(IF keep THEN "AssignR" ELSE "Assign", Assigned(b_state, o, keep))
  /\ open' = IF keep THEN open - 1 ELSE 0
  /\ InScope

(* An expression that is a statement: what it left stays on the stack. *)
EndExpression ==
  /\ Operands(1) /\ open = 1
  /\ op' = "EndExpression" /\ open' = 0
  /\ UNCHANGED <<b_state, machine, pseudo_ip>> /\ InScope

JumpIf ==
  /\ Operands(1) /\ open = 1
  /\ LET b == Load(b_state)
     IN InExpression("JumpIf", Emitted(b, <<"JMPCV", b.loaded[1].data>>), 0)

(* Between statements. *)
Statement(o, b) ==
  /\ Operands(0) /\ open = 0
  /\ Translate(o, b)
  /\ UNCHANGED open

Jump == Statement("Jump", Emitted(b_state, <<"JMP">>)) /\ InScope
Label == Statement("Jump", Emitted(b_state, <<"JMP_LABEL">>)) /\ InScope

(* map[key] = to, of a key that the map does not have.                     *)
Inserted(map, key, to) ==
  [k \in DOMAIN map \cup {key} |-> IF k = key THEN to ELSE map[k]]

NextFreeAddress(frame) == frame.start_address + frame.size

DeclareVariable(v) ==
  LET frame == Last(frame_stack)
      n == Len(frame_stack)
      size == SizeOf(TypeOf[v])
  IN /\ v \in Own \ DOMAIN global_stack_offset
     /\ NextFreeAddress(frame) + size <= StackSize
     /\ Statement("DeclareVariable", Emitted(b_state, <<"STACK_UP", size>>))
     /\ frame_stack' = [frame_stack EXCEPT ![n].size = @ + size]
     /\ global_stack_offset' =
          Inserted(global_stack_offset, v, NextFreeAddress(frame))
     /\ UNCHANGED allocated_registers

OpenFrame(start) ==
  /\ Len(frame_stack) < MaxScopes
  /\ Statement("PushFrame", b_state)
  /\ frame_stack' = Append(frame_stack, [start_address |-> start, size |-> 0])
  /\ UNCHANGED <<global_stack_offset, allocated_registers>>

PushFrame == OpenFrame(NextFreeAddress(Last(frame_stack)))

PopFrame ==
  LET still == {v \in DOMAIN global_stack_offset :
                 global_stack_offset[v] < Last(frame_stack).start_address}
  IN /\ Len(frame_stack) > 1
     /\ Statement("PopFrame", b_state)
     /\ frame_stack' = Front(frame_stack)
     /\ global_stack_offset' = [v \in still |-> global_stack_offset[v]]
     /\ UNCHANGED allocated_registers

(* Mutation: the register of an op_code section is not marked as used. *)
LowLevel_Unmarked(id) ==
  LET had == id \in DOMAIN allocated_registers
      register == IF had THEN allocated_registers[id] ELSE FindFreeGeneral(b_state)
  IN /\ register \in Registers
     /\ Statement("PushLLOpers", Emitted(b_state, <<"MOVRI", register>>))
     /\ allocated_registers' =
          IF had THEN allocated_registers ELSE Inserted(allocated_registers, id, register)
     /\ UNCHANGED <<frame_stack, global_stack_offset>>

(* An operation of an op_code section on its register id.  When no general *)
(* register is left it gets register 0, and a message is printed.          *)
LowLevel(id) ==
  LET had == id \in DOMAIN allocated_registers
      b == IF had THEN b_state ELSE Allocated(b_state)
      register == IF had THEN allocated_registers[id] ELSE FindFreeGeneral(b_state)
      none == register = InvalidRegister
      used == IF none THEN 0 ELSE register
  IN /\ Statement("PushLLOpers",
                  Emitted(IF none THEN Reported(b) ELSE b, <<"MOVRI", used>>))
     /\ allocated_registers' =
          IF had \/ none THEN allocated_registers
          ELSE Inserted(allocated_registers, id, register)
     /\ UNCHANGED <<frame_stack, global_stack_offset>>

(* FreeTempResources, after the last operation. *)
End ==
  LET held == {allocated_registers[id] : id \in DOMAIN allocated_registers}
  IN /\ Operands(0) /\ open = 0 /\ pseudo_ip < MaxCode
     /\ pseudo_ip' = MaxCode /\ op' = "End"
     /\ b_state' = [b_state EXCEPT !.registers_table = @ \ held]
     /\ allocated_registers' = << >>
     /\ UNCHANGED <<frame_stack, global_stack_offset, machine, open>>

Next ==
  \/ \E v \in Variables : Use(v)
  \/ \E c \in Constants : UseConstant(c)
  \/ \E o \in BinaryOperators : Binary(o)
  \/ \E o \in UnaryOperators : Unary(o)
  \/ GetPointer \/ Dereference \/ GetByArgument
  \/ \E o \in CompoundOperators \cup {"Nop"}, keep \in BOOLEAN : Assign(o, keep)
  \/ EndExpression \/ JumpIf \/ Jump \/ Label
  \/ \E v \in Own : DeclareVariable(v)
  \/ PushFrame \/ PopFrame
  \/ \E id \in LLRegisters : LowLevel(id)
  \/ End

(* The translator is one loop over the pseudo-code (ByteTranslator.cpp). *)
Spec == Init /\ [][Next]_vars /\ WF_vars(Next)

-----------------------------------------------------------------------------
(* Properties. *)

IsFrame(frame) ==
  /\ CASE InRegister(frame) -> frame.data \in 0 .. InvalidRegister
       [] frame.source = "StaticAddress" -> frame.data \in OwnBytes
       [] frame.source = "Symbol" -> frame.data \in Imported
       [] frame.source = "Constant" -> frame.data \in Constants
  /\ frame.dynamic \in Primitives /\ frame.static \in Primitives
  /\ frame.info.depth \in Nat
  /\ frame.info.base \in Bases \cup {"Invalid"}

(* The types of the translator's state; what a frame's data is depends on  *)
(* its source (ValueSource, ByteTranslationInfo.hpp:357-365).              *)
TypeOK ==
  /\ b_state.result = << >> /\ b_state.loaded = << >>
  /\ ~b_state.reported => \A i \in DOMAIN b_state.value_stack :
                             IsFrame(b_state.value_stack[i])
  /\ b_state.registers_table \subseteq Registers
  /\ frame_stack \in Seq([start_address : Nat, size : Nat]) \ {<< >>}
  /\ DOMAIN global_stack_offset \subseteq Own
  /\ \A v \in DOMAIN global_stack_offset : global_stack_offset[v] \in OwnBytes
  /\ DOMAIN allocated_registers \subseteq LLRegisters
  /\ \A id \in DOMAIN allocated_registers : allocated_registers[id] \in Registers
  /\ pseudo_ip \in 0 .. MaxCode /\ open \in 0 .. MaxOperands

HeldByFrames == {i \in 1 .. Len(b_state.value_stack) : InRegister(b_state.value_stack[i])}
HeldByLL == DOMAIN allocated_registers

(* No two operands, and no operand and op_code section, share a register,  *)
(* and every register they have is marked as used, for as long as there    *)
(* are registers: the result of one operation never destroys another that  *)
(* still waits (AllocateFreeGeneral, SetFree in every handler).            *)
RegistersApart ==
  ~b_state.reported /\ ~b_state.out_of_registers =>
    /\ \A i, j \in HeldByFrames :
         i # j => b_state.value_stack[i].data # b_state.value_stack[j].data
    /\ \A x, y \in HeldByLL :
         x # y => allocated_registers[x] # allocated_registers[y]
    /\ \A i \in HeldByFrames, id \in HeldByLL :
         b_state.value_stack[i].data # allocated_registers[id]
    /\ {b_state.value_stack[i].data : i \in HeldByFrames}
         \cup {allocated_registers[id] : id \in HeldByLL}
         \subseteq b_state.registers_table

(* Registers in use that belong to no operand of the statement in progress *)
(* and to no op_code section: nothing will ever free them.                 *)
Lost ==
  LET live == {i \in HeldByFrames : i > Len(b_state.value_stack) - open}
  IN b_state.registers_table
       \ ({b_state.value_stack[i].data : i \in live}
           \cup {allocated_registers[id] : id \in HeldByLL})

LosingStep ==
  \/ JumpIf \/ EndExpression
  \/ \E o \in CompoundOperators \cup {"Nop"}, keep \in BOOLEAN :
       /\ Assign(o, keep)
       /\ keep \/ Top(Popped(b_state)).source = "DynamicAddress"

(* The handlers give back the registers of the operands they use up.  Only *)
(* a condition, an expression without an assignment, an assignment that is *)
(* assigned, one to what a pointer points to, and an error lose a register *)
(* for the rest of the module (BCHControlFlow.cpp:43-54,                   *)
(* BCHDataFlow.cpp:160-165).                                               *)
LosesOnlyThere ==
  [][Lost' \subseteq Lost \/ LosingStep \/ b_state'.reported]_vars

(* The commands do what the pseudo-code means: the operands and the memory *)
(* change as ExpressionPromise says, or a message is printed, or registers *)
(* ran out.                                                                *)
ComputesTheSource == Source!Spec
=============================================================================
