------------------------------- MODULE VMExec -------------------------------
(***************************************************************************)
(* The virtual machine's execution loop: execute_code_switch of            *)
(* MSLVM/source/execution/vm_execution.cpp with the parts of VMState it    *)
(* works on (vm_types.hpp, vm_stack.hpp, vm_errors.hpp) and the reads and  *)
(* writes of DynamicMemory (vm_memory.hpp, vm_memory.cpp).                 *)
(*                                                                         *)
(* One action is one turn of the loop, from its first line to "IP += 1" or *)
(* to the continue or break that leaves it early.  Registers hold words of *)
(* WordSize values (2^64 in the build), unsigned and wrapping; a word is   *)
(* stored as AccessSize bytes (8), least significant first.  The free list *)
(* behind ALLOCATE_MEMORY and FREE_MEMORY is the module VMHeap: here it    *)
(* may fail or hand out any address it has.                                *)
(*                                                                         *)
(* No instruction the linker emits names IP, FP or FL as an operand, so    *)
(* they are variables of their own; SP is one of the operands (STACK_UP    *)
(* becomes an addition to SP).                                             *)
(***************************************************************************)
EXTENDS Integers, Sequences

CONSTANTS
  General,     (* the general registers                                    *)
  WordSize, AccessSize, ByteSize,
  PlaceValue,  (* what a one in byte i of a word counts for                *)
  StackStart,  (* end of the read-only data, which starts at address 0     *)
  HeapStart, MemoryEnd,
  CallDepth,   (* CALL_STACK_SIZE                                          *)
  ErrorSlots,  (* ERROR_STACK_SIZE                                         *)
  Infinities, NaNs,   (* the words which, read as a double, are no number  *)
  RealZeros,          (* and those which are zero: 0, and -0 with its sign *)
  Alignment,          (* of the heap, to which FREE_MEMORY rounds sizes    *)
  Rod,         (* the read-only data of the script                         *)
  Garbage,     (* what memory that was never written may hold              *)
  Programs     (* the scripts to run                                       *)

VARIABLES
  code,        (* the loaded script                                        *)
  registers, ip, fp, flags,
  call_stack, error_stack,
  mem, status, (* DynamicMemory: its bytes past the code, and its status   *)
  phase        (* running, or how the run ended                            *)

machine == <<registers, ip, fp, flags, call_stack, error_stack, mem, status>>
vars == <<code, machine, phase>>

Word == 0 .. WordSize - 1
Byte == 0 .. ByteSize - 1
Address == 0 .. MemoryEnd - 1
Register == General \cup {"SP"}
Flag == {"ZERO", "GREATER", "LESS", "JUMPED", "STOPPED"}

(* COMPUTE stands for the instructions that only put a word into register   *)
(* x which no property tells from another: arithmetic on doubles, negation,*)
(* bitwise operations and conversions.  DIV and DIV_INTEGER stand for the  *)
(* remainders too, and OTHER for the codes without a case.                 *)
OpCode == {"ADD", "SUB", "MUL", "AND", "OR", "NOT", "COMPUTE",
           "DIV", "DIV_INTEGER", "DIV_REAL",
           "CMP_INTEGER", "CMP_UNSIGNED", "CMP_REAL", "GET_FLAG", "MOV_RR", "MOV_RI", "PUSH", "POP",
           "LOAD_ABSOLUTE", "LOAD_LOCAL", "STORE_LOCAL", "LOAD_BY_ADDRESS",
           "STORE_BY_ADDRESS", "CALC_FRAME_ADDRESS", "ALLOCATE_MEMORY",
           "FREE_MEMORY", "STATIC_COPY", "DYNAMIC_COPY", "GRAB_FRAME", "JMP",
           "JMP_CV", "JMP_CNV", "CALL", "RET", "HALT", "PRINT", "GET_ERROR",
           "OTHER"}

(* VMOperation: its three arguments read as registers (x, y, z) or as      *)
(* immediate words (k, m, n), and GET_FLAG's two masks as one set.         *)
Operation == [op : OpCode, x : Register, y : Register, z : Register,
              k : Word, m : Word, n : Word, mask : SUBSET Flag]

CriticalError == {"InvalidVMMemory", "ZeroDivision", "StackOverflow",
                  "StackUnderflow", "InvalidMemoryAccess",
                  "AttemptOfRODRewriting", "FrameExpansionFailed"}
ErrorCode == CriticalError \cup
             {"NanValue", "InfValue", "FailedMemoryAllocation",
              "FailedMemoryFreeing"}

CallFrame == [sp : Word, fp : Word, ip : Nat]
ErrorFrame == [ip : Nat, fp : Word, sp : Word, code : ErrorCode]

ASSUME WordAssumption ==
  /\ WordSize \in Nat \ {0} /\ AccessSize \in Nat /\ ByteSize \in Nat \ {0}
  /\ PlaceValue \in [0 .. AccessSize - 1 -> Nat \ {0}]
ASSUME LayoutAssumption ==
  /\ StackStart \in Nat /\ HeapStart \in Nat /\ MemoryEnd \in Nat
  /\ StackStart < HeapStart /\ HeapStart < MemoryEnd
  /\ MemoryEnd < WordSize
ASSUME LimitsAssumption == CallDepth \in Nat /\ ErrorSlots \in Nat \ {0}
ASSUME ScriptAssumption ==
  /\ "SP" \notin General
  /\ Infinities \subseteq Word /\ NaNs \subseteq Word
  /\ RealZeros \subseteq Word /\ 0 \in RealZeros
  /\ Alignment \in Nat \ {0}
  /\ Rod \in [0 .. StackStart - 1 -> Byte]
  /\ Garbage \subseteq Byte
  /\ Programs \subseteq Seq(Operation)

-----------------------------------------------------------------------------
(* Words.                                                                  *)

(* Mutation: arithmetic that does not wrap. *)
Wrap_None(i) == i

Wrap(i) == i % WordSize
Signed(w) == IF 2 * w < WordSize THEN w ELSE w - WordSize
Truth(b) == IF b THEN 1 ELSE 0

ByteOf(w, i) == (w \div PlaceValue[i]) % ByteSize

(* At most 8 bytes are read or written at a time. *)
Clamp(n) == IF n > AccessSize THEN AccessSize ELSE n

(* Word w is what Read finds in the n bytes at address a.                  *)
Reads(w, a, n) ==
  \A i \in 0 .. AccessSize - 1 :
    ByteOf(w, i) = IF i < Clamp(n) THEN mem[a + i] ELSE 0

InBlock(a, n) == a + n <= MemoryEnd

CheckIntervals(first, end, a, n) ==
  /\ a >= first
  /\ a < end
  /\ Wrap(a + n) <= end

-----------------------------------------------------------------------------
(* The frame of a turn of the loop.                                        *)

I == code[ip + 1]
sp == registers["SP"]

(* Mutation: an error memory has recorded is looked at after the next      *)
(* instruction instead of before it.                                       *)
Fetch_Late(ops) ==
  /\ phase = "run" /\ ip < Len(code)
  /\ "STOPPED" \notin flags
  /\ I.op \in ops

Fetch(ops) ==
  /\ phase = "run" /\ ip < Len(code)
  /\ status = "NoError"
  /\ "STOPPED" \notin flags
  /\ I.op \in ops

(* JUMPED is cleared at the top of the next turn. *)
Idle == flags \ {"JUMPED"}

Advance ==
  /\ ip' = ip + 1
  /\ flags' = Idle
  /\ UNCHANGED <<fp, call_stack, error_stack, phase, code>>

SetTo(r, w) == registers' = [registers EXCEPT ![r] = w]

(* VMState::Raise for an error of the instruction being executed.  Pushing *)
(* on a full error stack throws, and nothing catches it.                   *)
ErrorStackFull == Len(error_stack) >= ErrorSlots
NewError(i, e) == [ip |-> i, fp |-> fp, sp |-> sp, code |-> e]

Crash == /\ phase' = "crashed"
         /\ UNCHANGED <<code, machine>>

Raise(e) ==
  \/ ErrorStackFull /\ Crash
  \/ /\ ~ErrorStackFull
     /\ error_stack' = Append(error_stack, NewError(ip, e))
     /\ IF e \in CriticalError
        THEN /\ flags' = Idle \cup {"STOPPED"}
             /\ phase' = "done"
             /\ UNCHANGED ip
        ELSE /\ flags' = Idle
             /\ ip' = ip + 1
             /\ UNCHANGED phase
     /\ UNCHANGED <<code, registers, fp, call_stack, mem, status>>

(* The loop ends when IP runs past the code. *)
Exit ==
  /\ phase = "run" /\ ip >= Len(code)
  /\ phase' = "done"
  /\ UNCHANGED <<code, machine>>

(* Mutation: the error is blamed on the instruction after the culprit. *)
ReportStatus_NextInstruction ==
  /\ phase = "run" /\ ip < Len(code)
  /\ status # "NoError"
  /\ \/ ErrorStackFull /\ Crash
     \/ /\ ~ErrorStackFull
        /\ error_stack' = Append(error_stack, NewError(ip, status))
        /\ flags' = Idle \cup {"STOPPED"}
        /\ phase' = "done"
        /\ UNCHANGED <<code, registers, ip, fp, call_stack, mem, status>>

(* The error memory recorded during the last turn is raised at the top of  *)
(* the next one, against the instruction before IP.                        *)
ReportStatus ==
  /\ phase = "run" /\ ip < Len(code)
  /\ status # "NoError"
  /\ \/ ErrorStackFull /\ Crash
     \/ /\ ~ErrorStackFull
        /\ error_stack' = Append(error_stack, NewError(ip - 1, status))
        /\ flags' = Idle \cup {"STOPPED"}
        /\ phase' = "done"
        /\ UNCHANGED <<code, registers, ip, fp, call_stack, mem, status>>

-----------------------------------------------------------------------------
(* Arithmetic, logic and comparison.                                       *)

Result(op, y, z) ==
  CASE op = "ADD" -> Wrap(y + z)
    [] op = "SUB" -> Wrap(y - z)
    [] op = "MUL" -> Wrap(y * z)
    [] op = "AND" -> Truth(y # 0 /\ z # 0)
    [] op = "OR"  -> Truth(y # 0 \/ z # 0)
    [] op = "NOT" -> Truth(y = 0)
    [] OTHER -> 0

Calculate ==
  /\ Fetch({"ADD", "SUB", "MUL", "AND", "OR", "NOT"})
  /\ SetTo(I.x, Result(I.op, registers[I.y], registers[I.z]))
  /\ Advance /\ UNCHANGED <<mem, status>>

Compute ==
  /\ Fetch({"COMPUTE"})
  /\ \E w \in Word : SetTo(I.x, w)
  /\ Advance /\ UNCHANGED <<mem, status>>

(* The most negative integer divided by -1 traps. *)
Traps(y, z) == I.op = "DIV_INTEGER" /\ 2 * y = WordSize /\ z = WordSize - 1

ByZero == registers[I.z] \in (IF I.op = "DIV_REAL" THEN RealZeros ELSE {0})

Divide ==
  /\ Fetch({"DIV", "DIV_INTEGER", "DIV_REAL"})
  /\ \/ ByZero /\ Raise("ZeroDivision")
     \/ /\ ~ByZero
        /\ Traps(registers[I.y], registers[I.z])
        /\ Crash
     \/ /\ ~ByZero
        /\ ~Traps(registers[I.y], registers[I.z])
        /\ \E w \in Word : SetTo(I.x, w)
        /\ Advance /\ UNCHANGED <<mem, status>>

Compared(a, b) ==
  {IF a = b THEN "ZERO" ELSE IF a > b THEN "GREATER" ELSE "LESS"}
Uncompared == Idle \ {"ZERO", "GREATER", "LESS"}

Compare ==
  /\ Fetch({"CMP_UNSIGNED", "CMP_INTEGER"})
  /\ flags' = Uncompared \cup
       IF I.op = "CMP_INTEGER"
       THEN Compared(Signed(registers[I.x]), Signed(registers[I.y]))
       ELSE Compared(registers[I.x], registers[I.y])
  /\ ip' = ip + 1
  /\ UNCHANGED <<code, phase, registers, fp, call_stack, error_stack,
                 mem, status>>

(* Doubles that are not negative are ordered as their words are, which is  *)
(* how the model orders them, but that zeros are equal.  NaN is an error   *)
(* and leaves the flags clear, infinity is an error and is compared all    *)
(* the same.                                                               *)
Rank(w) == IF w \in RealZeros THEN 0 ELSE w

CompareReal ==
  LET Involves(S) == {registers[I.x], registers[I.y]} \cap S # {}
      Error == IF Involves(NaNs) THEN "NanValue" ELSE "InfValue" IN
  /\ Fetch({"CMP_REAL"})
  /\ \/ /\ Involves(NaNs \cup Infinities) /\ ErrorStackFull
        /\ Crash
     \/ /\ Involves(NaNs \cup Infinities) => ~ErrorStackFull
        /\ error_stack' = IF Involves(NaNs \cup Infinities)
                          THEN Append(error_stack, NewError(ip, Error))
                          ELSE error_stack
        /\ flags' = Uncompared \cup
             IF Involves(NaNs) THEN {}
             ELSE Compared(Rank(registers[I.x]), Rank(registers[I.y]))
        /\ ip' = ip + 1
        /\ UNCHANGED <<code, phase, registers, fp, call_stack, mem, status>>

(* A turn starts by clearing JUMPED, so a script never reads it set. *)
GetFlag ==
  /\ Fetch({"GET_FLAG"})
  /\ SetTo(I.x, Truth(Idle \cap I.mask # {}))
  /\ Advance /\ UNCHANGED <<mem, status>>

Move ==
  /\ Fetch({"MOV_RR", "MOV_RI"})
  /\ SetTo(I.x, IF I.op = "MOV_RI" THEN I.m ELSE registers[I.y])
  /\ Advance /\ UNCHANGED <<mem, status>>

-----------------------------------------------------------------------------
(* Memory.                                                                 *)

(* Mutation: DynamicMemory::Write without its first check. *)
Write_Anywhere(a, w, n) ==
  /\ InBlock(a, Clamp(n))
  /\ mem' = [b \in Address |->
               IF b \in a .. (a + Clamp(n) - 1) THEN ByteOf(w, b - a)
               ELSE mem[b]]
  /\ UNCHANGED status

(* DynamicMemory::Write refuses addresses below the stack by setting the   *)
(* status; past the end of the block it is undefined, see OutOfBlock.      *)
Write(a, w, n) ==
  \/ /\ a < StackStart
     /\ status' = "AttemptOfRODRewriting"
     /\ UNCHANGED mem
  \/ /\ a >= StackStart /\ InBlock(a, Clamp(n))
     /\ mem' = [b \in Address |->
                  IF b \in a .. (a + Clamp(n) - 1) THEN ByteOf(w, b - a)
                  ELSE mem[b]]
     /\ UNCHANGED status

InStack(a, n) == CheckIntervals(StackStart, HeapStart, a, n)

Push ==
  /\ Fetch({"PUSH"})
  /\ \/ ~InStack(sp, I.n) /\ Raise("StackOverflow")
     \/ /\ InStack(sp, I.n)
        /\ Write(sp, registers[I.x], I.n)
        /\ SetTo("SP", Wrap(sp + I.n))
        /\ Advance

Pop ==
  LET new_sp == Wrap(sp - I.n) IN
  /\ Fetch({"POP"})
  /\ \/ ~InStack(new_sp, 0) /\ Raise("StackOverflow")
     \/ /\ InStack(new_sp, 0) /\ InBlock(new_sp, Clamp(I.n))
        /\ \E w \in Word :
             /\ Reads(w, new_sp, I.n)
             /\ registers' = [registers EXCEPT ![I.x] = w, !["SP"] = new_sp]
        /\ Advance /\ UNCHANGED <<mem, status>>

(* Where a load looks, and the bounds it checks. *)
LoadAddress ==
  CASE I.op = "LOAD_ABSOLUTE" -> I.m
    [] I.op = "LOAD_LOCAL" -> Wrap(fp + I.m)
    [] OTHER -> registers[I.y]
Loadable ==
  CheckIntervals(0, IF I.op = "LOAD_BY_ADDRESS" THEN MemoryEnd ELSE HeapStart,
                 LoadAddress, I.n)

Load ==
  /\ Fetch({"LOAD_ABSOLUTE", "LOAD_LOCAL", "LOAD_BY_ADDRESS"})
  /\ \/ /\ I.op = "LOAD_BY_ADDRESS" /\ I.n = 0
        /\ SetTo(I.x, 0)
        /\ Advance /\ UNCHANGED <<mem, status>>
     \/ /\ ~(I.op = "LOAD_BY_ADDRESS" /\ I.n = 0)
        /\ ~Loadable
        /\ Raise("InvalidMemoryAccess")
     \/ /\ ~(I.op = "LOAD_BY_ADDRESS" /\ I.n = 0)
        /\ Loadable /\ InBlock(LoadAddress, Clamp(I.n))
        /\ \E w \in Word : Reads(w, LoadAddress, I.n) /\ SetTo(I.x, w)
        /\ Advance /\ UNCHANGED <<mem, status>>

StoreLocal ==
  LET a == Wrap(fp + I.m) IN
  /\ Fetch({"STORE_LOCAL"})
  /\ \/ ~InStack(a, I.n) /\ Raise("InvalidMemoryAccess")
     \/ /\ InStack(a, I.n)
        /\ Write(a, registers[I.x], I.n)
        /\ Advance /\ UNCHANGED registers

(* No bound is checked but the one of Write. *)
StoreByAddress ==
  /\ Fetch({"STORE_BY_ADDRESS"})
  /\ \/ I.n = 0 /\ UNCHANGED <<mem, status>>
     \/ I.n # 0 /\ Write(registers[I.y], registers[I.x], I.n)
  /\ Advance /\ UNCHANGED registers

(* STATIC_COPY takes destination, source and size from the instruction:    *)
(* its k, m and n; DYNAMIC_COPY from the registers x, y and z.             *)
Destination == IF I.op = "STATIC_COPY" THEN I.k ELSE registers[I.x]
Source == IF I.op = "STATIC_COPY" THEN I.m ELSE registers[I.y]
Length == IF I.op = "STATIC_COPY" THEN I.n ELSE registers[I.z]

Overlap ==
  Destination < Source + Length /\ Source < Destination + Length
Copyable ==
  InBlock(Destination, Length) /\ InBlock(Source, Length) /\ ~Overlap

Copy ==
  /\ Fetch({"STATIC_COPY", "DYNAMIC_COPY"})
  /\ \/ /\ Wrap(Destination + Length) > MemoryEnd
        /\ Raise("InvalidMemoryAccess")
     \/ /\ Wrap(Destination + Length) <= MemoryEnd
        /\ Destination < StackStart
        /\ status' = "AttemptOfRODRewriting"
        /\ Advance /\ UNCHANGED <<registers, mem>>
     \/ /\ Wrap(Destination + Length) <= MemoryEnd
        /\ Destination >= StackStart
        /\ Copyable
        /\ mem' = [b \in Address |->
                     IF b \in Destination .. (Destination + Length - 1)
                     THEN mem[Source + (b - Destination)] ELSE mem[b]]
        /\ Advance /\ UNCHANGED <<registers, status>>

CalcFrameAddress ==
  /\ Fetch({"CALC_FRAME_ADDRESS"})
  /\ SetTo(I.x, Wrap(fp + I.m))
  /\ Advance /\ UNCHANGED <<mem, status>>

(* An access past the end of the memory block, or between overlapping      *)
(* bytes of a copy, is undefined in C++: nothing is said of what follows.  *)
Strays ==
  LET Past(a) == ~InBlock(a, Clamp(I.n)) IN
  \/ I.op = "PUSH" /\ InStack(sp, I.n) /\ Past(sp)
  \/ I.op = "POP" /\ InStack(Wrap(sp - I.n), 0) /\ Past(Wrap(sp - I.n))
  \/ /\ I.op \in {"LOAD_ABSOLUTE", "LOAD_LOCAL", "LOAD_BY_ADDRESS"}
     /\ ~(I.op = "LOAD_BY_ADDRESS" /\ I.n = 0)
     /\ Loadable /\ Past(LoadAddress)
  \/ /\ I.op = "STORE_LOCAL"
     /\ InStack(Wrap(fp + I.m), I.n) /\ Past(Wrap(fp + I.m))
  \/ /\ I.op = "STORE_BY_ADDRESS"
     /\ I.n # 0 /\ registers[I.y] >= StackStart /\ Past(registers[I.y])
  \/ /\ I.op \in {"STATIC_COPY", "DYNAMIC_COPY"}
     /\ Wrap(Destination + Length) <= MemoryEnd
     /\ Destination >= StackStart
     /\ ~Copyable

Stray ==
  /\ Fetch(OpCode) /\ Strays
  /\ phase' = "undefined"
  /\ UNCHANGED <<code, machine>>

(* The free list is VMHeap's: it may turn the request down or answer with  *)
(* an address of its range, whose last byte is MemoryEnd.                  *)
AllocateMemory ==
  /\ Fetch({"ALLOCATE_MEMORY"})
  /\ \/ Raise("FailedMemoryAllocation")
     \/ /\ registers[I.y] # 0
        /\ \E a \in HeapStart .. MemoryEnd : SetTo(I.x, a)
        /\ Advance /\ UNCHANGED <<mem, status>>

(* HeapFreeIntervals::Free refuses a block that would end before it starts *)
(* when its size is rounded up.                                            *)
FreeMemory ==
  LET a == registers[I.x]
      n == registers[I.y]
      Outside == a < HeapStart \/ Wrap(a + n) > MemoryEnd
      rounded == (Wrap(n + Alignment - 1) \div Alignment) * Alignment
      Refused == Outside \/ n = 0 \/ Wrap(a + rounded - 1) < a IN
  /\ Fetch({"FREE_MEMORY"})
  /\ \/ Refused /\ Raise("FailedMemoryFreeing")
     \/ /\ ~Refused
        /\ Advance /\ UNCHANGED <<registers, mem, status>>

-----------------------------------------------------------------------------
(* Control flow.                                                           *)

Top == call_stack[Len(call_stack)]
Below == SubSeq(call_stack, 1, Len(call_stack) - 1)

(* Mutation: the caller's stack pointer stays where it was. *)
GrabFrame_FrameOnly ==
  LET new_fp == Wrap(fp - I.n) IN
  /\ Fetch({"GRAB_FRAME"})
  /\ \/ call_stack = <<>> /\ Raise("FrameExpansionFailed")
     \/ /\ call_stack # <<>> /\ new_fp <= HeapStart /\ new_fp < Top.fp
        /\ Raise("FrameExpansionFailed")
     \/ /\ call_stack # <<>> /\ new_fp > HeapStart
        /\ Raise("StackUnderflow")
     \/ /\ call_stack # <<>> /\ new_fp <= HeapStart /\ new_fp >= Top.fp
        /\ fp' = new_fp
        /\ ip' = ip + 1 /\ flags' = Idle
        /\ UNCHANGED <<code, phase, registers, call_stack, error_stack, mem,
                       status>>

(* GRAB_FRAME n moves the base of the current frame, and with it the SP    *)
(* the caller gets back, n bytes down (up for a negative n).               *)
GrabFrame ==
  LET new_fp == Wrap(fp - I.n) IN
  /\ Fetch({"GRAB_FRAME"})
  /\ \/ call_stack = <<>> /\ Raise("FrameExpansionFailed")
     \/ /\ call_stack # <<>> /\ new_fp > HeapStart
        /\ Raise("StackUnderflow")
     \/ /\ call_stack # <<>> /\ new_fp <= HeapStart /\ new_fp < Top.fp
        /\ Raise("FrameExpansionFailed")
     \/ /\ call_stack # <<>> /\ new_fp <= HeapStart /\ new_fp >= Top.fp
        /\ call_stack' = Append(Below, [Top EXCEPT !.sp = Wrap(@ - I.n)])
        /\ fp' = new_fp
        /\ ip' = ip + 1 /\ flags' = Idle
        /\ UNCHANGED <<code, phase, registers, error_stack, mem, status>>

Taken ==
  \/ I.op = "JMP"
  \/ I.op = "JMP_CV" /\ registers[I.y] # 0
  \/ I.op = "JMP_CNV" /\ registers[I.y] = 0

Jump ==
  /\ Fetch({"JMP", "JMP_CV", "JMP_CNV"})
  /\ \/ /\ Taken
        /\ ip' = I.m /\ flags' = Idle \cup {"JUMPED"}
        /\ UNCHANGED <<code, phase, fp, call_stack, error_stack>>
     \/ ~Taken /\ Advance
  /\ UNCHANGED <<registers, mem, status>>

Call ==
  /\ Fetch({"CALL"})
  /\ \/ Len(call_stack) >= CallDepth /\ Raise("StackOverflow")
     \/ /\ Len(call_stack) < CallDepth
        /\ call_stack' = Append(call_stack, [sp |-> sp, fp |-> fp, ip |-> ip])
        /\ fp' = sp
        /\ ip' = I.m /\ flags' = Idle \cup {"JUMPED"}
        /\ UNCHANGED <<code, phase, registers, error_stack, mem, status>>

(* Mutations: the call is executed again; SP is not restored. *)
Ret_Again ==
  /\ Fetch({"RET"})
  /\ \/ call_stack = <<>> /\ Raise("StackUnderflow")
     \/ /\ call_stack # <<>>
        /\ call_stack' = Below
        /\ SetTo("SP", Top.sp)
        /\ fp' = Top.fp
        /\ ip' = Top.ip /\ flags' = Idle
        /\ UNCHANGED <<code, phase, error_stack, mem, status>>

Ret_KeepsStack ==
  /\ Fetch({"RET"})
  /\ \/ call_stack = <<>> /\ Raise("StackUnderflow")
     \/ /\ call_stack # <<>>
        /\ call_stack' = Below
        /\ fp' = Top.fp
        /\ ip' = Top.ip + 1 /\ flags' = Idle
        /\ UNCHANGED <<code, phase, registers, error_stack, mem, status>>

(* JUMPED is not set, so IP moves past the call it was restored to. *)
Ret ==
  /\ Fetch({"RET"})
  /\ \/ call_stack = <<>> /\ Raise("StackUnderflow")
     \/ /\ call_stack # <<>>
        /\ call_stack' = Below
        /\ SetTo("SP", Top.sp)
        /\ fp' = Top.fp
        /\ ip' = Top.ip + 1 /\ flags' = Idle
        /\ UNCHANGED <<code, phase, error_stack, mem, status>>

Halt ==
  /\ Fetch({"HALT"})
  /\ flags' = Idle \cup {"STOPPED"}
  /\ phase' = "done"
  /\ UNCHANGED <<code, registers, ip, fp, call_stack, error_stack, mem, status>>

(* VM_CALL: printing changes nothing here; unknown calls do nothing. *)
VmCall ==
  /\ Fetch({"PRINT", "OTHER"})
  /\ Advance /\ UNCHANGED <<registers, mem, status>>

LastError == error_stack[Len(error_stack)]

(* What a register shows of an error code: no property tells them apart    *)
(* but by "no error at all".                                               *)
CodeWord(e) == IF e = "NoError" THEN 0 ELSE 1

GetError ==
  /\ Fetch({"GET_ERROR"})
  /\ \/ /\ error_stack = <<>>
        /\ SetTo(I.y, CodeWord("NoError"))
        /\ UNCHANGED error_stack
     \/ /\ error_stack # <<>>
        /\ SetTo(I.y, CodeWord(LastError.code))
        /\ error_stack' = SubSeq(error_stack, 1, Len(error_stack) - 1)
  /\ ip' = ip + 1 /\ flags' = Idle
  /\ UNCHANGED <<code, phase, fp, call_stack, mem, status>>

-----------------------------------------------------------------------------
(* clear_vm_state on a script that has just been loaded. *)
Init ==
  /\ code \in Programs
  /\ registers = [r \in Register |-> IF r = "SP" THEN StackStart ELSE 0]
  /\ ip = 0 /\ fp = 0 /\ flags = {}
  /\ call_stack = <<>> /\ error_stack = <<>>
  /\ \E g \in Garbage :
       mem = [a \in Address |-> IF a < StackStart THEN Rod[a] ELSE g]
  /\ status = "NoError"
  /\ phase = "run"

Next ==
  \/ ReportStatus \/ Exit \/ Stray
  \/ Calculate \/ Compute \/ Divide \/ Compare \/ CompareReal \/ GetFlag
  \/ Move \/ Push \/ Pop \/ Load \/ StoreLocal \/ StoreByAddress \/ Copy
  \/ CalcFrameAddress \/ AllocateMemory \/ FreeMemory \/ GrabFrame
  \/ Jump \/ Call \/ Ret \/ Halt \/ VmCall \/ GetError

(* The loop is a plain loop: while it can take a turn it takes one. *)
Spec == Init /\ [][Next]_vars /\ WF_vars(Next)

-----------------------------------------------------------------------------
(* Every variable holds values of its kind. *)
TypeOK ==
  /\ code \in Programs
  /\ registers \in [Register -> Word]
  /\ ip \in Nat /\ fp \in Word /\ flags \subseteq Flag
  /\ call_stack \in Seq(CallFrame) /\ error_stack \in Seq(ErrorFrame)
  /\ mem \in [Address -> Byte]
  /\ status \in {"NoError", "AttemptOfRODRewriting"}
  /\ phase \in {"run", "done", "crashed", "undefined"}

(* The frames on the call stack are chained: what RET will give back as SP *)
(* is the base of the frame it leaves, and each saved FP is the base of    *)
(* the frame below, down to the script's own frame at address 0.  CALL,    *)
(* RET and GRAB_FRAME each move two of these together.                     *)
FrameBase(i) == IF i = 0 THEN 0 ELSE call_stack[i].sp
FrameChain ==
  /\ \A i \in 1 .. Len(call_stack) : call_stack[i].fp = FrameBase(i - 1)
  /\ fp = FrameBase(Len(call_stack))

(* The instructions that can be at fault for an error. *)
Culprits(e) ==
  CASE e = "ZeroDivision" -> {"DIV", "DIV_INTEGER", "DIV_REAL"}
    [] e \in {"NanValue", "InfValue"} -> {"CMP_REAL"}
    [] e = "StackOverflow" -> {"PUSH", "POP", "CALL"}
    [] e = "StackUnderflow" -> {"RET", "GRAB_FRAME"}
    [] e = "FrameExpansionFailed" -> {"GRAB_FRAME"}
    [] e = "FailedMemoryAllocation" -> {"ALLOCATE_MEMORY"}
    [] e = "FailedMemoryFreeing" -> {"FREE_MEMORY"}
    [] e = "AttemptOfRODRewriting" ->
         {"STORE_BY_ADDRESS", "STATIC_COPY", "DYNAMIC_COPY"}
    [] e = "InvalidMemoryAccess" ->
         {"LOAD_ABSOLUTE", "LOAD_LOCAL", "LOAD_BY_ADDRESS", "STORE_LOCAL",
          "STATIC_COPY", "DYNAMIC_COPY"}
    [] OTHER -> {}

(* An error is recorded against the instruction that caused it, also when  *)
(* memory only reports it a turn later.                                    *)
ErrorsNameTheirInstruction ==
  \A i \in 1 .. Len(error_stack) :
    LET e == error_stack[i] IN
    /\ e.ip < Len(code)
    /\ code[e.ip + 1].op \in Culprits(e.code)

(* No instruction changes the read-only data. *)
RodIntact == \A a \in 0 .. StackStart - 1 : mem[a] = Rod[a]

(* Nothing is executed between an illegal write and the stop it causes:    *)
(* registers, memory and call stack stay as the write left them.           *)
RodWriteFreezes ==
  [][status # "NoError" => UNCHANGED <<registers, mem, call_stack, fp>>]_vars

(* A script that reads the error of every fallible instruction at once     *)
(* never has two of them waiting, so the error stack cannot overflow.      *)
Fallible == {"ALLOCATE_MEMORY", "FREE_MEMORY", "CMP_REAL"}
Drains ==
  \A i \in 1 .. Len(code) :
    code[i].op \in Fallible => i < Len(code) /\ code[i + 1].op = "GET_ERROR"
DrainedErrorsDoNotPile == Drains => Len(error_stack) <= 1

(* What the error stack says is so, and it is not lost.                    *)
ErrorsTell == ErrorsNameTheirInstruction /\ DrainedErrorsDoNotPile

(* Calls nest as the documentation tells it, see FramePromise. *)
Frames ==
  INSTANCE FramePromise WITH
    bases <- [i \in 1 .. Len(call_stack) + 1 |->
                IF i <= Len(call_stack) THEN call_stack[i].fp ELSE fp],
    returns <- [i \in DOMAIN call_stack |-> call_stack[i].ip + 1],
    sp <- registers["SP"]
KeepsFramePromise == Frames!Spec

(* A script whose jumps and calls all go forward comes to a stop: RET goes *)
(* back, but never to the call it has returned from.                       *)
GoesForward ==
  \A i \in 1 .. Len(code) :
    code[i].op \in {"JMP", "JMP_CV", "JMP_CNV", "CALL"} => code[i].m >= i
ForwardScriptsStop == GoesForward => <>(phase # "run")

=============================================================================
