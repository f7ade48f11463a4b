------------------------ MODULE ByteTranslatorMeaning -----------------------
(***************************************************************************)
(* What the proofs about ByteTranslator speak of: the inductive invariants *)
(* TypeInv, ApartInv and Sound, and the predicates they and the lemmas on  *)
(* the handlers are made of.  A frame of the value stack stands for an     *)
(* operand of ExpressionPromise (Stands); a handler replaces operands by   *)
(* others (Replaces), gives registers back (GivesBack) and keeps those of  *)
(* operands apart (KeepsApart); its commands leave an operand on the       *)
(* machine (Turns) or in memory (Assigns).                                 *)
(***************************************************************************)
EXTENDS ByteTranslator

Sources ==
  {"Register", "Pointer", "DynamicAddress", "StaticAddress", "Symbol", "Constant"}

(* The value frames of operands.  The one of a failed load (Invalid) is    *)
(* none of them.                                                           *)
Suits(frame) ==
  /\ InRegister(frame) => frame.data \in 0 .. InvalidRegister
  /\ frame.source = "StaticAddress" => frame.data \in OwnBytes
  /\ frame.source = "Symbol" => frame.data \in Imported
  /\ frame.source = "Constant" => frame.data \in Constants
  /\ IsPointer(frame) \/ frame.source \in {"StaticAddress", "Symbol", "DynamicAddress"} =>
       frame.info.base \in Bases
Frames ==
  {frame \in
     [source : Sources,
      data : 0 .. InvalidRegister \cup OwnBytes \cup Imported \cup Constants,
      dynamic : Primitives, static : Primitives,
      dynamicSize : Nat, staticSize : Nat,
      info : [depth : Nat, base : Bases \cup {"Invalid"}]] :
   Suits(frame)}

-----------------------------------------------------------------------------
(* The states of the translator, and what a handler does to them.          *)

(* The state of the translator, while it handles an operation. *)
Fields(b, stack, table, loaded, reported, out) ==
  /\ b = [value_stack |-> b.value_stack, registers_table |-> b.registers_table,
          result |-> b.result, loaded |-> b.loaded, reported |-> b.reported,
          out_of_registers |-> b.out_of_registers]
  /\ b.value_stack = stack /\ b.registers_table = table /\ b.loaded = loaded
  /\ b.reported = reported /\ b.out_of_registers = out

(* What holds of every state, and what holds while there is no message.    *)
IsState(b) ==
  /\ Fields(b, b.value_stack, b.registers_table, b.loaded, b.reported,
            b.out_of_registers)
  /\ b.registers_table \subseteq Registers
  /\ b.reported \in BOOLEAN /\ b.out_of_registers \in BOOLEAN

Typed(b) ==
  /\ IsState(b)
  /\ b.value_stack \in Seq(Frames)
  /\ b.loaded \in Seq(Frames \cup {Invalid})

(* A message, and the lack of a register, are never taken back. *)
Remembers(b, c) ==
  /\ IsState(c)
  /\ b.reported => c.reported
  /\ b.out_of_registers => c.out_of_registers

(* Only commands, and maybe a message, were added. *)
Quiet(b, c) ==
  /\ Remembers(b, c)
  /\ c.value_stack = b.value_stack /\ c.registers_table = b.registers_table
  /\ c.loaded = b.loaded

(* The registers of the last k operands.                                   *)
Reg(frame) == IF InRegister(frame) THEN {frame.data} \cap Registers ELSE {}
LastPlaces(b, k) == Len(b.value_stack) - k + 1 .. Len(b.value_stack)
Regs(b, k) == UNION {Reg(b.value_stack[i]) : i \in LastPlaces(b, k)}

(* The last k operands became m others, and what is in the table but in    *)
(* none of the operands was there before.                                  *)
Replaces(b, c, k, m) ==
  /\ Remembers(b, c)
  /\ c.value_stack \in Seq(Frames)
  /\ k <= Len(b.value_stack) /\ Len(c.value_stack) = Len(b.value_stack) - k + m
  /\ \A i \in 1 .. Len(b.value_stack) - k : c.value_stack[i] = b.value_stack[i]

GivesBack(b, c, k, m) ==
  c.registers_table \subseteq (b.registers_table \ Regs(b, k)) \cup Regs(c, m)

(* The registers of the operands are in the table, each in one of them;    *)
(* and there were enough.                                                  *)
Apart(b) ==
  /\ \A i \in 1 .. Len(b.value_stack) : Reg(b.value_stack[i]) \subseteq b.registers_table
  /\ \A i, j \in 1 .. Len(b.value_stack) :
       i # j => Reg(b.value_stack[i]) \cap Reg(b.value_stack[j]) = {}
  /\ ~b.out_of_registers =>
       \A i \in 1 .. Len(b.value_stack) :
         InRegister(b.value_stack[i]) => b.value_stack[i].data \in Registers

(* The other operands' registers stay in the table, and the new ones have  *)
(* others.                                                                 *)
KeepsApart(b, c, k, m) ==
  /\ b.registers_table \ Regs(b, k) \subseteq c.registers_table
  /\ Regs(c, m) \subseteq c.registers_table
  /\ Regs(c, m) \cap (b.registers_table \ Regs(b, k)) = {}
  /\ \A i, j \in LastPlaces(c, m) :
       i # j => Reg(c.value_stack[i]) \cap Reg(c.value_stack[j]) = {}
  /\ ~c.out_of_registers =>
       \A i \in LastPlaces(c, m) :
         InRegister(c.value_stack[i]) => c.value_stack[i].data \in Registers

(* The frame f of an operand became g, of the same operand in a register:  *)
(* in the one it had, or in one that was free.                             *)
InItsRegister(f, g, b, c) ==
  /\ g \in Frames /\ g.source \in {"Register", "Pointer"} /\ g.info = f.info
  /\ g.data \in 0 .. InvalidRegister
  /\ InRegister(f) => g.data = f.data /\ c.registers_table = b.registers_table
  /\ ~InRegister(f) =>
       /\ g.data \in Registers \ b.registers_table
       /\ c.registers_table = b.registers_table \cup {g.data}

(* The operand on top became another one, and these are the registers.     *)
OneBecame(b, c, f, new) ==
  /\ Typed(b) /\ b.value_stack # <<>> /\ Remembers(b, c)
  /\ f = Last(b.value_stack) /\ new \in Frames
  /\ c.value_stack = Append(Front(b.value_stack), new)
  /\ c.registers_table \subseteq (b.registers_table \ Reg(f)) \cup Reg(new)
  /\ b.registers_table \ Reg(f) \subseteq c.registers_table
  /\ Reg(f) \subseteq b.registers_table => Reg(new) \subseteq c.registers_table
  /\ Reg(new) \cap (b.registers_table \ Reg(f)) = {}
  /\ ~c.out_of_registers /\ (InRegister(f) => f.data \in Registers) =>
       (InRegister(new) => new.data \in Registers)

(* Both operands were loaded, on the way over the states c and d, the      *)
(* right one's register was given back, and what was made of them is in    *)
(* the left one's.                                                         *)
TwoBecame(b, n, c, d, e, r, l) ==
  /\ Typed(b) /\ IsState(c) /\ IsState(d) /\ Remembers(b, e)
  /\ n \in Nat /\ n = Len(b.value_stack) /\ n >= 2
  /\ InItsRegister(b.value_stack[n], r, b, c)
  /\ InItsRegister(b.value_stack[n - 1], l, c, d)
  /\ e.registers_table = d.registers_table \ {r.data}
  /\ e.value_stack \in Seq(Frames) /\ Len(e.value_stack) = n - 1
  /\ \A i \in 1 .. n - 2 : e.value_stack[i] = b.value_stack[i]
  /\ InRegister(e.value_stack[n - 1]) /\ e.value_stack[n - 1].data = l.data

(* The operands have registers of their own, and none of H, which are in   *)
(* the table as well.                                                      *)
Held(b, H) ==
  /\ Apart(b)
  /\ H \subseteq b.registers_table
  /\ \A i \in 1 .. Len(b.value_stack) : Reg(b.value_stack[i]) \cap H = {}

-----------------------------------------------------------------------------
(* The inductive invariants of types and registers, and the steps.         *)

(* The state between two operations. *)
Rests(b) ==
  /\ IsState(b) /\ b.result = <<>> /\ b.loaded = <<>>
  /\ ~b.reported => b.value_stack \in Seq(Frames)

StackFrame == [start_address : Nat, size : Nat]

ScopesTyped ==
  /\ frame_stack \in Seq(StackFrame) \ {<<>>}
  /\ DOMAIN global_stack_offset \subseteq Own
  /\ \A v \in DOMAIN global_stack_offset : global_stack_offset[v] \in OwnBytes

LLTyped ==
  /\ DOMAIN allocated_registers \subseteq LLRegisters
  /\ \A id \in DOMAIN allocated_registers : allocated_registers[id] \in Registers

TypeInv ==
  /\ Rests(b_state) /\ ScopesTyped /\ LLTyped
  /\ pseudo_ip \in 0 .. MaxCode /\ open \in 0 .. MaxOperands

(* Operands and op_code sections with registers a. *)
ApartFrom(b, a) ==
  /\ Held(b, {a[id] : id \in DOMAIN a})
  /\ \A x, y \in DOMAIN a : x # y => a[x] # a[y]
ApartInv == ~b_state.reported => ApartFrom(b_state, allocated_registers)

(* An assignment that is assigned puts its left operand back, but x ~= y   *)
(* has not taken x away: without this, x may be there twice, and when it   *)
(* is what a pointer points to, so is its register.                        *)
NotTwice == ~("BitNot" \in CompoundOperators /\ CompoundByPointer)

(* What is in the table, and in none of the last n operands, only gets     *)
(* less.                                                                   *)
Frees(b, c, j, n) ==
  /\ n <= Len(c.value_stack)
  /\ c.registers_table \ Regs(c, n) \subseteq b.registers_table \ Regs(b, j)

(* A handler made c of b_state, and left n operands. *)
Operation(o, c, n) ==
  /\ Translate(o, c) /\ open' = n /\ n \in 0 .. MaxOperands
  /\ ~b_state.reported /\ open <= Len(b_state.value_stack)
  /\ IsState(c)
  /\ ~c.reported =>
       /\ c.value_stack \in Seq(Frames)
       /\ NotTwice => \A H : Held(b_state, H) => Held(c, H)
       /\ LosingStep \/ Frees(b_state, c, open, n)

(* What is lost, in terms of registers. *)
LostOf(b, n, a) ==
  b.registers_table
    \ ({b.value_stack[i].data :
          i \in {j \in 1 .. Len(b.value_stack) :
                   InRegister(b.value_stack[j]) /\ j > Len(b.value_stack) - n}}
        \cup {a[id] : id \in DOMAIN a})

(* What the theorems need of every step.                                   *)
StepKeeps ==
  /\ TypeInv'
  /\ NotTwice /\ ApartInv => ApartInv'
  /\ Lost' \subseteq Lost \/ LosingStep \/ b_state'.reported

-----------------------------------------------------------------------------
(* The machine, which carries out the commands.                            *)

MemoryByte == [of : MSLValue, nth : Nat]
Machines == [registers : [Registers -> MSLValue], memory : [Addresses -> MemoryByte]]

(* A register gets a value. *)
Put(m, r, v) == [m EXCEPT !.registers[r] = v]

(* The machines that the commands so far make. *)
IsRun(f, m, commands) ==
  f = [n \in 0 .. Len(commands) |->
         IF n = 0 THEN m ELSE Execute(f[n - 1], commands[n])]

RunOf(m, commands) == CHOOSE f : IsRun(f, m, commands)

(* After the commands of b, the machine is m. *)
Carries(b, m) ==
  /\ \E S : b.result \in Seq(S)
  /\ \E f : IsRun(f, machine, b.result)
  /\ m = Executed(machine, b.result) /\ m \in Machines

(* Every register but those in R, and the memory, are as before. *)
Keeps(m, n, R) ==
  /\ n \in Machines /\ n.memory = m.memory
  /\ \A r \in Registers \ R : n.registers[r] = m.registers[r]

(* What a command of the arithmetic and logic handler computes.            *)
Outcome(o, v, w, p) ==
  CASE o = "ADD" -> Addition(v, w, p)
    [] o = "MUL" -> Product(v, w, p)
    [] o = "Subtract" -> Difference(v, w, p)
    [] o = "Mod" -> Remainder(v, w, p)
    [] o = "Less" -> LessThan(v, w, p)
    [] o = "And" -> Both(v, w)
    [] o = "BitOffsetLeft" -> ShiftedLeft(v, w)

Changed(o, v, p) == IF o = "Negative" THEN Negated(v, p) ELSE Complement(v)

-----------------------------------------------------------------------------
(* What value frames stand for, and what handlers make of them.            *)

(* The type of the operand.                                                *)
Type(f) ==
  IF IsPointer(f) \/ AtFixedAddress(f) \/ f.source = "DynamicAddress" THEN f.info
  ELSE [depth |-> 0, base |-> f.dynamic]

(* The primitive types and the sizes of a frame agree with its type, as    *)
(* far as loads and stores look at them.                                   *)
Shaped(f) ==
  /\ AtFixedAddress(f) =>
       /\ f.static = f.dynamic
       /\ f.dynamic = (IF IsPointer(f) THEN "UInt" ELSE Analog(f.info.base))
       /\ f.dynamicSize = SizeOf(f.info) /\ f.staticSize = SizeOf(f.info)
  /\ f.source = "DynamicAddress" =>
       /\ ~IsPointer(f) /\ f.dynamic = Analog(f.info.base)
       /\ f.dynamicSize = SizeOf(f.info)
  /\ f.source = "Pointer" => IsPointer(f) /\ f.dynamic = "UInt"
  /\ f.source \in {"Register", "Constant"} => ~IsPointer(f)
  /\ f.source = "Constant" => f.dynamic = f.data.prim
  /\ f.source \in {"DynamicAddress", "Pointer"} /\ f.info.base # "Char" =>
       f.staticSize = Size

(* A pointer to a pointer is read as one. *)
Sized(f) == f.info.depth >= 2 => f.dynamicSize = Size

(* A frame that stands for an operand: what it has an address of is there. *)
Stands(m, f) ==
  /\ f \in Frames /\ Shaped(f)
  /\ InRegister(f) => f.data \in Registers
  /\ f.source = "DynamicAddress" => Known(m.registers[f.data])

Meaning(m, f) ==
  CASE AtFixedAddress(f) -> BytesAt(m.memory, AddressIn(Argument(f)), SizeOf(f.info))
    [] f.source = "DynamicAddress" ->
         BytesAt(m.memory, m.registers[f.data].n, SizeOf(f.info))
    [] f.source = "Constant" -> Number(f.data.prim, f.data.n)
    [] OTHER -> m.registers[f.data]

(* g, in a register, stands for what f means and has its type.             *)
TakesOver(g, f) ==
  /\ g \in Frames /\ g.source \in {"Register", "Pointer"} /\ g.data \in Registers
  /\ g.info = f.info /\ g.dynamic = f.dynamic /\ g.dynamicSize = f.dynamicSize
  /\ Shaped(g)

(* The last two operands have registers of their own.                      *)
LastApart(b) ==
  LET n == Len(b.value_stack)
  IN /\ Reg(b.value_stack[n]) \subseteq b.registers_table
     /\ Reg(b.value_stack[n - 1]) \subseteq b.registers_table
     /\ Reg(b.value_stack[n]) \cap Reg(b.value_stack[n - 1]) = {}

(* What has the type p, as what has the type q.                            *)
Cast(v, p, q) == IF p = q THEN v ELSE Converted(v, p, q)

(* What a register of the machine m holds. *)
Holds(m, r) == m.registers[r]

(* The registers i and j, and those that are free.                         *)
Around(b, i, j) == {i, j} \cup (Registers \ b.registers_table)

(* g is in a register. *)
Waits(g) ==
  /\ g \in Frames /\ g.source \in {"Register", "Pointer"} /\ g.data \in Registers
  /\ Shaped(g)

(* The operands o and their frames g.                                      *)
IsFor(k, g, o) ==
  /\ Waits(g) /\ Source!Read(o) = k.registers[g.data]
  /\ Source!Primitive(o.type) = g.dynamic /\ o.type.depth = g.info.depth
  /\ g.info.depth > 0 => o.type = g.info

(* The size of a pointer to a pointer that was moved is that of what was   *)
(* taken from it.                                                          *)
SizedBy(b, new) ==
  new.info.depth >= 2 =>
    new.info = b.loaded[1].info /\ new.dynamicSize = b.loaded[2].dynamicSize

(* The handler made c of b: on top is now, in a register, the operand e,   *)
(* and only the registers R have changed.                                  *)
Gives(b, c, k, R, e) ==
  \E n, new : /\ Carries(c, n) /\ Keeps(k, n, R) /\ Waits(new)
              /\ c.value_stack = Append(b.value_stack, new)
              /\ Operand(n, new) = e /\ SizedBy(b, new)

(* The last two loads of a handler returned l, and before it r.            *)
AreLoaded(b, l, r) == l = b.loaded[1] /\ r = b.loaded[2]

(* The registers that a handler that replaces the last j operands may      *)
(* change: theirs, and those that are free.                                *)
Spare(b, j) == Regs(b, j) \cup (Registers \ b.registers_table)

(* The state b of the translator, and the machine m when its commands are  *)
(* carried out, which has not stored anything: the frames stand for        *)
(* operands.                                                               *)
Works(b, m) ==
  /\ Typed(b) /\ Carries(b, m) /\ m.memory = machine.memory
  /\ \A i \in 1 .. Len(b.value_stack) :
       Stands(m, b.value_stack[i]) /\ Sized(b.value_stack[i])

(* The operand on top.                                                     *)
Upper(b, m) == Operand(m, b.value_stack[Len(b.value_stack)])
Lower(b, m) == Operand(m, b.value_stack[Len(b.value_stack) - 1])

(* A handler replaced the last j operands by e, and stored nothing...      *)
Leaves(b, c, j, m, e) ==
  \E k : /\ Carries(c, k) /\ Keeps(m, k, Spare(b, j))
         /\ Stands(k, Last(c.value_stack)) /\ Operand(k, Last(c.value_stack)) = e

(* ... and the frame of e has the size of a pointer if it points to one.   *)
Turns(b, c, j, m, e) == Leaves(b, c, j, m, e) /\ Sized(Last(c.value_stack))

(* The machine h is k with x stored in the z bytes from A on; only the     *)
(* registers R may have changed too.                                       *)
Writes(k, h, R, A, z, x) ==
  /\ h \in Machines /\ h.memory = WithBytes(k.memory, A, z, x)
  /\ \A r \in Registers \ R : h.registers[r] = k.registers[r]

(* What the first operands of b stand for on m, the same operands of c     *)
(* stand for on h; the last j of b are left out.                           *)
SameBelow(b, c, m, h, j) ==
  \A i \in 1 .. Len(b.value_stack) - j :
    /\ c.value_stack[i] = b.value_stack[i] /\ Stands(h, c.value_stack[i])
    /\ Operand(h, c.value_stack[i]) = Operand(m, b.value_stack[i])

(* An assignment made c of b: x is now in the left operand, which is still *)
(* an operand if it is to be kept.                                         *)
Assigns(b, c, m, keep, x) ==
  LET A == Lower(b, m).place
      j == IF keep THEN 1 ELSE 2
  IN /\ A \in Addresses
     /\ Len(c.value_stack) = Len(b.value_stack) - j
     /\ \E h : /\ Carries(c, h) /\ SameBelow(b, c, m, h, j)
               /\ h.memory =
                    WithBytes(machine.memory, A, Source!SizeOf(Lower(b, m).type), x)

-----------------------------------------------------------------------------
(* From what handlers compute to steps of ExpressionPromise.               *)

(* No message was printed, and there were registers enough. *)
Good(b) == ~b.reported /\ ~b.out_of_registers

(* Between two operations, without a message, every frame stands for an    *)
(* operand.                                                                *)
Meaningful ==
  Good(b_state) =>
    /\ machine \in Machines
    /\ \A i \in 1 .. Len(b_state.value_stack) :
         Stands(machine, b_state.value_stack[i]) /\ Sized(b_state.value_stack[i])

(* The operands of b, on the machine m. *)
Meant(b, m) == [i \in 1 .. Len(b.value_stack) |-> Operand(m, b.value_stack[i])]
MeantBelow(b, m, j) ==
  [i \in 1 .. Len(b.value_stack) - j |-> Operand(m, b.value_stack[i])]

(* Those without the last j of b, and one more. *)
MeantWith(b, m, j, e) == Append(MeantBelow(b, m, j), e)

(* The invariant, and what a step without a message has to do. *)
Sound == TypeInv /\ ApartInv /\ Meaningful
Follows == Meaningful' /\ Source!Next

(* A step between expressions. *)
Betweens ==
  {"EndExpression", "Jump", "DeclareVariable", "PushFrame", "PopFrame", "PushLLOpers", "End"}

(* The programs the translator is right about: no operator that has no     *)
(* code, no assignment ~= or operator of an assignment on what a pointer   *)
(* points to, no assignment to a char that a pointer points to, and no     *)
(* moves of pointers to pointers to char, or of pointers to pointers by    *)
(* what has one byte.                                                      *)
Translatable ==
  /\ "Not" \notin UnaryOperators /\ "BitNot" \notin CompoundOperators
  /\ ~CompoundByPointer /\ ~CharByPointer /\ ~PointersByBytes
=============================================================================
