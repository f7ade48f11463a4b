---------------------------- MODULE VMExecProofs ----------------------------
(***************************************************************************)
(* Proofs about VMExec, for every word size, memory layout, call and error *)
(* stack size and set of scripts: types, the chain of frames, the          *)
(* read-only data, the error stack, and the promise about frames.          *)
(***************************************************************************)
EXTENDS VMExec, TLAPS, SequenceTheorems

-----------------------------------------------------------------------------
(* Words, bytes and instructions.                                          *)

(* Whatever an instruction computes, wrapped, is a word. *)
LEMMA WrapWord ==
  ASSUME NEW i \in Int
  PROVE  Wrap(i) \in Word
BY WordAssumption DEF Wrap, Word

LEMMA WrapSum ==
  ASSUME NEW a \in Word, NEW b \in Word
  PROVE  Wrap(a + b) \in Word /\ Wrap(a - b) \in Word
<1>1. a + b \in Int /\ a - b \in Int
  BY DEF Word
<1> QED
  BY <1>1, WrapWord

LEMMA WordsAreNaturals ==
  ASSUME NEW w \in Word
  PROVE  w \in Nat
BY WordAssumption DEF Word

(* There is room between address 0 and the end of memory, so a word holds  *)
(* at least 0 and 1.                                                       *)
LEMMA SmallWords ==
  /\ 0 \in Word /\ 1 \in Word
  /\ StackStart \in Word
  /\ \A a \in HeapStart .. MemoryEnd : a \in Word
BY WordAssumption, LayoutAssumption DEF Word

(* A byte of a word fits in a byte of memory. *)
LEMMA ByteOfByte ==
  ASSUME NEW w \in Word, NEW i \in 0 .. AccessSize - 1
  PROVE  ByteOf(w, i) \in Byte
<1> DEFINE q == w \div PlaceValue[i]
<1>1. PlaceValue[i] \in Nat \ {0}
  BY WordAssumption
<1>2. q \in Int
  BY <1>1 DEF Word
<1> HIDE DEF q
<1>3. q % ByteSize \in Byte
  BY <1>2, WordAssumption DEF Byte
<1> QED
  BY <1>3 DEF ByteOf, q

(* The instruction a turn of the loop fetches is one of the script's, and  *)
(* its operands are registers and words.                                   *)
LEMMA FetchedOperation ==
  ASSUME TypeOK, ip < Len(code)
  PROVE  /\ Len(code) \in Nat
         /\ ip + 1 \in 1 .. Len(code) /\ I \in Operation
         /\ I.x \in Register /\ I.y \in Register /\ I.z \in Register
         /\ I.k \in Word /\ I.m \in Word /\ I.n \in Word
         /\ registers[I.x] \in Word /\ registers[I.y] \in Word
         /\ registers[I.z] \in Word
         /\ I.op \in OpCode
<1>1. code \in Seq(Operation)
  BY ScriptAssumption DEF TypeOK
<1>2. ip + 1 \in 1 .. Len(code)
  BY <1>1 DEF TypeOK
<1>3. I \in Operation
  BY <1>1, <1>2 DEF I
<1>4. /\ I.x \in Register /\ I.y \in Register /\ I.z \in Register
      /\ I.k \in Word /\ I.m \in Word /\ I.n \in Word /\ I.op \in OpCode
  BY <1>3 DEF Operation
<1> QED
  BY <1>1, <1>2, <1>3, <1>4 DEF TypeOK

LEMMA StackPointer ==
  ASSUME TypeOK
  PROVE  sp \in Word /\ "SP" \in Register /\ fp \in Word
BY DEF TypeOK, sp, Register

-----------------------------------------------------------------------------
(* What the parts of an action leave of the types.                         *)

LEMMA AdvanceType ==
  ASSUME TypeOK, Advance, registers' \in [Register -> Word],
         mem' \in [Address -> Byte],
         status' \in {"NoError", "AttemptOfRODRewriting"}
  PROVE  TypeOK'
BY DEF TypeOK, Advance, Idle

LEMMA CrashType ==
  ASSUME TypeOK, Crash
  PROVE  TypeOK'
BY DEF TypeOK, Crash, machine

LEMMA NewErrorType ==
  ASSUME TypeOK, NEW i \in Nat, NEW e \in ErrorCode
  PROVE  Append(error_stack, NewError(i, e)) \in Seq(ErrorFrame)
<1>1. NewError(i, e) \in ErrorFrame
  BY StackPointer DEF NewError, ErrorFrame
<1> QED
  BY <1>1 DEF TypeOK

LEMMA RaiseType ==
  ASSUME TypeOK, NEW e \in ErrorCode, Raise(e)
  PROVE  TypeOK'
<1>1. CASE Crash
  BY <1>1, CrashType
<1>2. CASE ~Crash
  <2>1. error_stack' = Append(error_stack, NewError(ip, e))
    BY <1>2 DEF Raise
  <2>2. error_stack' \in Seq(ErrorFrame)
    BY <2>1, NewErrorType DEF TypeOK
  <2>3. ip' \in Nat /\ flags' \subseteq Flag
        /\ phase' \in {"run", "done", "crashed", "undefined"}
    <3>1. CASE e \in CriticalError
      <4>1. flags' = Idle \cup {"STOPPED"} /\ phase' = "done" /\ ip' = ip
        BY <1>2, <3>1, Zenon DEF Raise
      <4> QED
        BY <4>1 DEF TypeOK, Idle, Flag
    <3>2. CASE e \notin CriticalError
      <4>1. flags' = Idle /\ ip' = ip + 1 /\ phase' = phase
        BY <1>2, <3>2, Zenon DEF Raise
      <4> QED
        BY <4>1 DEF TypeOK, Idle
    <3> QED
      BY <3>1, <3>2
  <2> QED
    BY <1>2, <2>2, <2>3 DEF Raise, TypeOK
<1> QED
  BY <1>1, <1>2

(* DynamicMemory::Write puts bytes into bytes, and none below the stack.   *)
LEMMA WriteEffect ==
  ASSUME TypeOK, NEW a \in Word, NEW w \in Word, NEW n \in Word,
         Write(a, w, n)
  PROVE  /\ mem' \in [Address -> Byte]
         /\ \A b \in 0 .. StackStart - 1 : mem'[b] = mem[b]
         /\ \/ status' = status
            \/ status' = "AttemptOfRODRewriting" /\ a < StackStart
<1>1. CASE mem' = mem
  BY <1>1 DEF Write, TypeOK
<1>2. CASE a >= StackStart
  <2>1. mem' = [b \in Address |->
                  IF b \in a .. (a + Clamp(n) - 1) THEN ByteOf(w, b - a)
                  ELSE mem[b]]
        /\ status' = status
    BY <1>2, WordsAreNaturals, LayoutAssumption DEF Write
  <2>2. Clamp(n) \in Nat /\ Clamp(n) <= AccessSize
    BY WordsAreNaturals, WordAssumption DEF Clamp
  <2>3. ASSUME NEW b \in Address, b \in a .. (a + Clamp(n) - 1)
        PROVE  ByteOf(w, b - a) \in Byte
    <3>1. b - a \in 0 .. AccessSize - 1
      BY <2>2, <2>3, WordsAreNaturals, WordAssumption
    <3> QED
      BY <3>1, ByteOfByte
  <2>4. mem' \in [Address -> Byte]
    BY <2>1, <2>3 DEF TypeOK
  <2>5. ASSUME NEW b \in 0 .. StackStart - 1
        PROVE  mem'[b] = mem[b]
    <3>1. b \in Address /\ b < a
      BY <1>2, LayoutAssumption, WordsAreNaturals DEF Address
    <3>2. b \notin a .. (a + Clamp(n) - 1)
      BY <3>1, WordsAreNaturals DEF Address
    <3> QED
      BY <2>1, <3>1, <3>2
  <2> QED
    BY <2>1, <2>4, <2>5
<1> QED
  BY <1>1, <1>2 DEF Write

(* A word put into a register leaves registers full of words. *)
LEMMA SetToType ==
  ASSUME TypeOK, NEW r \in Register, NEW w \in Word, SetTo(r, w)
  PROVE  registers' \in [Register -> Word]
BY DEF SetTo, TypeOK

(* Arithmetic and logic on words gives a word. *)
LEMMA ResultWord ==
  ASSUME NEW op, NEW y \in Word, NEW z \in Word
  PROVE  Result(op, y, z) \in Word
<1>1. y \in Int /\ z \in Int
  BY DEF Word
<1>2. y + z \in Int /\ y - z \in Int /\ y * z \in Int
  BY <1>1
<1>3. Wrap(y + z) \in Word /\ Wrap(y - z) \in Word /\ Wrap(y * z) \in Word
  BY <1>2, WrapWord
<1>4. \A b \in BOOLEAN : Truth(b) \in Word
  BY SmallWords DEF Truth
<1> HIDE DEF Wrap, Truth
<1> QED
  BY <1>3, <1>4, SmallWords DEF Result

(* What the comparisons leave in the flags is flags. *)
LEMMA ComparedType ==
  ASSUME TypeOK, NEW a, NEW b
  PROVE  /\ Idle \subseteq Flag /\ Uncompared \subseteq Flag
         /\ Compared(a, b) \subseteq Flag
BY DEF TypeOK, Idle, Uncompared, Compared, Flag

(* A copy that is carried out moves bytes, to addresses past the read-only *)
(* data.                                                                   *)
LEMMA CopyEffect ==
  ASSUME TypeOK, Copy
  PROVE  /\ mem' \in [Address -> Byte]
         /\ \A b \in 0 .. StackStart - 1 : mem'[b] = mem[b]
         /\ status' \in {"NoError", "AttemptOfRODRewriting"}
<1>1. CASE mem' = mem
  BY <1>1 DEF TypeOK, Copy, Raise, Crash, machine
<1>2. CASE mem' # mem
  <2>1. /\ ip < Len(code)
        /\ Destination >= StackStart /\ Copyable /\ status' = status
        /\ mem' = [b \in Address |->
                     IF b \in Destination .. (Destination + Length - 1)
                     THEN mem[Source + (b - Destination)] ELSE mem[b]]
    BY <1>2 DEF Copy, Raise, Crash, machine, Fetch
  <2>2. Destination \in Nat /\ Source \in Nat /\ Length \in Nat
    BY <2>1, FetchedOperation, WordsAreNaturals DEF Destination, Source, Length
  <2>3. ASSUME NEW b \in Address, b \in Destination .. (Destination + Length - 1)
        PROVE  Source + (b - Destination) \in Address
    BY <2>1, <2>2, <2>3, LayoutAssumption DEF Copyable, InBlock, Address
  <2>4. mem' \in [Address -> Byte]
    BY <2>1, <2>3 DEF TypeOK
  <2>5. ASSUME NEW b \in 0 .. StackStart - 1
        PROVE  mem'[b] = mem[b]
    <3>1. b \in Address /\ b \notin Destination .. (Destination + Length - 1)
      BY <2>1, <2>2, LayoutAssumption DEF Address
    <3> QED
      BY <2>1, <3>1
  <2> QED
    BY <2>1, <2>4, <2>5 DEF TypeOK
<1> QED
  BY <1>1, <1>2

(* A sequence without its last element. *)
LEMMA WithoutLast ==
  ASSUME NEW S, NEW s \in Seq(S), s # <<>>
  PROVE  /\ SubSeq(s, 1, Len(s) - 1) \in Seq(S)
         /\ Len(SubSeq(s, 1, Len(s) - 1)) = Len(s) - 1
         /\ \A i \in 1 .. Len(s) - 1 : SubSeq(s, 1, Len(s) - 1)[i] = s[i]
<1> DEFINE n == Len(s) - 1
           t == SubSeq(s, 1, n)
<1>1. n \in Nat /\ \A i \in 1 .. n : s[i] \in S
  BY EmptySeq
<1> HIDE DEF n
<1>2. /\ t \in Seq(S)
      /\ Len(t) = IF 1 <= n THEN n - 1 + 1 ELSE 0
      /\ \A i \in 1 .. n - 1 + 1 : t[i] = s[1 + i - 1]
  BY <1>1, SubSeqProperties
<1> HIDE DEF t
<1>3. n - 1 + 1 = n /\ \A i \in 1 .. n : 1 + i - 1 = i
  BY <1>1
<1>4. Len(t) = n
  BY <1>1, <1>2, <1>3
<1> QED
  BY <1>2, <1>3, <1>4 DEF n, t

(* What is left of the call stack without its top frame, and with the top  *)
(* frame's SP moved.                                                       *)
LEMMA BelowTop ==
  ASSUME TypeOK, call_stack # <<>>
  PROVE  /\ Len(call_stack) \in Nat \ {0}
         /\ Top \in CallFrame
         /\ Below \in Seq(CallFrame) /\ Len(Below) = Len(call_stack) - 1
         /\ \A i \in 1 .. Len(call_stack) - 1 : Below[i] = call_stack[i]
<1>1. call_stack \in Seq(CallFrame) /\ Len(call_stack) \in Nat \ {0}
  BY EmptySeq DEF TypeOK
<1>2. \A i \in 1 .. Len(call_stack) : call_stack[i] \in CallFrame
  BY <1>1
<1>3. Top \in CallFrame
  BY <1>1, <1>2 DEF Top
<1>4. /\ Below \in Seq(CallFrame) /\ Len(Below) = Len(call_stack) - 1
      /\ \A i \in 1 .. Len(call_stack) - 1 : Below[i] = call_stack[i]
  BY <1>1, WithoutLast DEF Below
<1> QED
  BY <1>1, <1>3, <1>4

LEMMA GrabFrameType ==
  ASSUME TypeOK, GrabFrame
  PROVE  TypeOK'
<1>1. CASE Raise("FrameExpansionFailed") \/ Raise("StackUnderflow")
  BY <1>1, RaiseType DEF ErrorCode, CriticalError
<1>2. CASE ~(Raise("FrameExpansionFailed") \/ Raise("StackUnderflow"))
  <2> DEFINE moved == [Top EXCEPT !.sp = Wrap(@ - I.n)]
  <2>1. /\ ip < Len(code) /\ call_stack # <<>>
        /\ call_stack' = Append(Below, moved)
        /\ fp' = Wrap(fp - I.n) /\ ip' = ip + 1 /\ flags' = Idle
        /\ UNCHANGED <<code, phase, registers, error_stack, mem, status>>
    BY <1>2 DEF GrabFrame, Fetch
  <2>2. Top \in CallFrame /\ Top.sp \in Word
    BY <2>1, BelowTop DEF CallFrame
  <2>3. Wrap(fp - I.n) \in Word /\ Wrap(Top.sp - I.n) \in Word
    BY <2>1, <2>2, FetchedOperation, StackPointer, WrapSum
  <2>4. moved \in CallFrame
    BY <2>2, <2>3 DEF CallFrame
  <2> HIDE DEF moved
  <2>5. call_stack' \in Seq(CallFrame)
    BY <2>1, <2>4, BelowTop, AppendProperties
  <2> QED
    BY <2>1, <2>3, <2>5 DEF TypeOK, Idle
<1> QED
  BY <1>1, <1>2

LEMMA CallType ==
  ASSUME TypeOK, Call
  PROVE  TypeOK'
<1>1. CASE Raise("StackOverflow")
  BY <1>1, RaiseType DEF ErrorCode, CriticalError
<1>2. CASE ~Raise("StackOverflow")
  <2>1. /\ ip < Len(code)
        /\ call_stack' = Append(call_stack, [sp |-> sp, fp |-> fp, ip |-> ip])
        /\ fp' = sp /\ ip' = I.m /\ flags' = Idle \cup {"JUMPED"}
        /\ UNCHANGED <<code, phase, registers, error_stack, mem, status>>
    BY <1>2 DEF Call, Fetch
  <2>2. [sp |-> sp, fp |-> fp, ip |-> ip] \in CallFrame
    BY StackPointer DEF CallFrame, TypeOK
  <2>3. call_stack' \in Seq(CallFrame)
    BY <2>1, <2>2, AppendProperties DEF TypeOK
  <2>4. ip' \in Nat /\ fp' \in Word
    BY <2>1, FetchedOperation, StackPointer, WordsAreNaturals
  <2> QED
    BY <2>1, <2>3, <2>4 DEF TypeOK, Idle, Flag
<1> QED
  BY <1>1, <1>2

LEMMA RetType ==
  ASSUME TypeOK, Ret
  PROVE  TypeOK'
<1>1. CASE Raise("StackUnderflow")
  BY <1>1, RaiseType DEF ErrorCode, CriticalError
<1>2. CASE ~Raise("StackUnderflow")
  <2>1. /\ call_stack # <<>> /\ call_stack' = Below
        /\ SetTo("SP", Top.sp) /\ fp' = Top.fp
        /\ ip' = Top.ip + 1 /\ flags' = Idle
        /\ UNCHANGED <<code, phase, error_stack, mem, status>>
    BY <1>2 DEF Ret
  <2>2. Top.sp \in Word /\ Top.fp \in Word /\ Top.ip \in Nat
    BY <2>1, BelowTop DEF CallFrame
  <2>3. registers' \in [Register -> Word]
    BY <2>1, <2>2, SetToType, StackPointer
  <2>4. call_stack' \in Seq(CallFrame)
    BY <2>1, BelowTop
  <2> QED
    BY <2>1, <2>2, <2>3, <2>4 DEF TypeOK, Idle
<1> QED
  BY <1>1, <1>2

(* An error that memory has recorded and the loop has not yet raised was   *)
(* recorded by the instruction before IP, a store or a copy.               *)
StatusNamesItsInstruction ==
  status # "NoError" =>
    /\ ip \in 1 .. Len(code)
    /\ code[ip].op \in Culprits(status)

(* Every turn of the loop leaves values of their kinds. *)
LEMMA StepType ==
  ASSUME TypeOK, StatusNamesItsInstruction, Next
  PROVE  TypeOK'
<1> USE StackPointer
<1>1. CASE ReportStatus
  <2>1. CASE Crash
    BY <2>1, CrashType
  <2>2. CASE ~Crash
    <3>1. /\ error_stack' = Append(error_stack, NewError(ip - 1, status))
          /\ flags' = Idle \cup {"STOPPED"} /\ phase' = "done"
          /\ UNCHANGED <<code, registers, ip, fp, call_stack, mem, status>>
      BY <1>1, <2>2 DEF ReportStatus
    <3>2. ip - 1 \in Nat /\ status \in ErrorCode
      BY <1>1 DEF ReportStatus, StatusNamesItsInstruction, TypeOK, ErrorCode,
                  CriticalError
    <3>3. error_stack' \in Seq(ErrorFrame)
      BY <3>1, <3>2, NewErrorType
    <3> QED
      BY <3>1, <3>3 DEF TypeOK, Idle, Flag
  <2> QED
    BY <2>1, <2>2
<1>2. CASE Exit \/ Stray
  BY <1>2 DEF Exit, Stray, TypeOK, machine
<1>3. CASE Calculate
  <2>1. ip < Len(code) /\ Advance /\ mem' = mem /\ status' = status
        /\ SetTo(I.x, Result(I.op, registers[I.y], registers[I.z]))
    BY <1>3 DEF Calculate, Fetch
  <2>2. I.x \in Register /\ Result(I.op, registers[I.y], registers[I.z]) \in Word
    BY <2>1, FetchedOperation, ResultWord
  <2> QED
    BY <2>1, <2>2, SetToType, AdvanceType DEF TypeOK
<1>4. CASE Compute
  BY <1>4, FetchedOperation, SetToType, AdvanceType DEF Compute, Fetch, TypeOK
<1>5. CASE Divide
  <2>1. CASE Raise("ZeroDivision")
    BY <2>1, RaiseType DEF ErrorCode, CriticalError
  <2>2. CASE Crash
    BY <2>2, CrashType
  <2>3. CASE ~Raise("ZeroDivision") /\ ~Crash
    BY <1>5, <2>3, FetchedOperation, SetToType, AdvanceType
    DEF Divide, Fetch, TypeOK
  <2> QED
    BY <1>5, <2>1, <2>2, <2>3 DEF Divide
<1>6. CASE Compare
  <2>1. flags' \subseteq Flag
    BY <1>6, ComparedType DEF Compare
  <2> QED
    BY <1>6, <2>1 DEF Compare, TypeOK
<1>7. CASE CompareReal
  <2>1. CASE Crash
    BY <2>1, CrashType
  <2>2. CASE ~Crash
    <3>1. /\ ip' = ip + 1
          /\ UNCHANGED <<code, phase, registers, fp, call_stack, mem, status>>
          /\ flags' \subseteq Flag
      BY <1>7, <2>2, ComparedType DEF CompareReal
    <3>2. error_stack' \in Seq(ErrorFrame)
      BY <1>7, <2>2, NewErrorType DEF CompareReal, TypeOK, ErrorCode
    <3> QED
      BY <3>1, <3>2 DEF TypeOK
  <2> QED
    BY <2>1, <2>2
<1>8. CASE GetFlag
  <2>1. \A b \in BOOLEAN : Truth(b) \in Word
    BY SmallWords DEF Truth
  <2> QED
    BY <1>8, <2>1, FetchedOperation, SetToType, AdvanceType
    DEF GetFlag, Fetch, TypeOK
<1>9. CASE Move
  BY <1>9, FetchedOperation, SetToType, AdvanceType DEF Move, Fetch, TypeOK
<1>10. CASE Push
  <2>1. CASE Raise("StackOverflow")
    BY <2>1, RaiseType DEF ErrorCode, CriticalError
  <2>2. CASE ~Raise("StackOverflow")
    <3>1. /\ ip < Len(code) /\ Write(sp, registers[I.x], I.n)
          /\ SetTo("SP", Wrap(sp + I.n)) /\ Advance
      BY <1>10, <2>2 DEF Push, Fetch
    <3>2. Wrap(sp + I.n) \in Word
      BY <3>1, FetchedOperation, WrapSum
    <3> QED
      BY <3>1, <3>2, FetchedOperation, WriteEffect, SetToType, AdvanceType
      DEF TypeOK
  <2> QED
    BY <2>1, <2>2
<1>11. CASE Pop
  <2>1. CASE Raise("StackOverflow")
    BY <2>1, RaiseType DEF ErrorCode, CriticalError
  <2>2. CASE ~Raise("StackOverflow")
    <3> DEFINE new_sp == Wrap(sp - I.n)
    <3>1. /\ ip < Len(code) /\ Advance /\ mem' = mem /\ status' = status
          /\ \E w \in Word :
               registers' = [registers EXCEPT ![I.x] = w, !["SP"] = new_sp]
      BY <1>11, <2>2 DEF Pop, Fetch
    <3>2. new_sp \in Word
      BY <3>1, FetchedOperation, WrapSum
    <3> HIDE DEF new_sp
    <3>3. registers' \in [Register -> Word]
      BY <3>1, <3>2 DEF TypeOK
    <3> QED
      BY <3>1, <3>3, AdvanceType DEF TypeOK
  <2> QED
    BY <2>1, <2>2
<1>12. CASE Load
  <2>1. CASE Raise("InvalidMemoryAccess")
    BY <2>1, RaiseType DEF ErrorCode, CriticalError
  <2>2. CASE ~Raise("InvalidMemoryAccess")
    BY <1>12, <2>2, FetchedOperation, SmallWords, SetToType, AdvanceType
    DEF Load, Fetch, TypeOK
  <2> QED
    BY <2>1, <2>2
<1>13. CASE StoreLocal
  <2>1. CASE Raise("InvalidMemoryAccess")
    BY <2>1, RaiseType DEF ErrorCode, CriticalError
  <2>2. CASE ~Raise("InvalidMemoryAccess")
    <3>1. /\ ip < Len(code) /\ Write(Wrap(fp + I.m), registers[I.x], I.n)
          /\ registers' = registers /\ Advance
      BY <1>13, <2>2 DEF StoreLocal, Fetch
    <3>2. Wrap(fp + I.m) \in Word
      BY <3>1, FetchedOperation, WrapSum
    <3> QED
      BY <3>1, <3>2, FetchedOperation, WriteEffect, AdvanceType DEF TypeOK
  <2> QED
    BY <2>1, <2>2
<1>14. CASE StoreByAddress
  BY <1>14, FetchedOperation, WriteEffect, AdvanceType
  DEF StoreByAddress, Fetch, TypeOK
<1>15. CASE Copy
  <2>1. CASE Raise("InvalidMemoryAccess")
    BY <2>1, RaiseType DEF ErrorCode, CriticalError
  <2>2. CASE ~Raise("InvalidMemoryAccess")
    <3>1. ip < Len(code) /\ Advance /\ registers' = registers
      BY <1>15, <2>2 DEF Copy, Fetch
    <3>2. mem' \in [Address -> Byte]
      BY <1>15, <2>2, CopyEffect
    <3>3. status' \in {"NoError", "AttemptOfRODRewriting"}
      BY <1>15, <2>2 DEF Copy, TypeOK
    <3> QED
      BY <3>1, <3>2, <3>3, AdvanceType DEF TypeOK
  <2> QED
    BY <2>1, <2>2
<1>16. CASE CalcFrameAddress
  <2>1. Wrap(fp + I.m) \in Word
    BY <1>16, FetchedOperation, WrapSum
    DEF CalcFrameAddress, Fetch
  <2> QED
    BY <1>16, <2>1, FetchedOperation, SetToType, AdvanceType
    DEF CalcFrameAddress, Fetch, TypeOK
<1>17. CASE AllocateMemory
  <2>1. CASE Raise("FailedMemoryAllocation")
    BY <2>1, RaiseType DEF ErrorCode
  <2>2. CASE ~Raise("FailedMemoryAllocation")
    BY <1>17, <2>2, FetchedOperation, SmallWords, SetToType, AdvanceType
    DEF AllocateMemory, Fetch, TypeOK
  <2> QED
    BY <2>1, <2>2
<1>18. CASE FreeMemory
  <2>1. CASE Raise("FailedMemoryFreeing")
    BY <2>1, RaiseType DEF ErrorCode
  <2>2. CASE ~Raise("FailedMemoryFreeing")
    BY <1>18, <2>2, AdvanceType DEF FreeMemory, Fetch, TypeOK
  <2> QED
    BY <2>1, <2>2
<1>19. CASE GrabFrame
  BY <1>19, GrabFrameType
<1>20. CASE Jump
  BY <1>20, FetchedOperation, AdvanceType, WordsAreNaturals
  DEF Jump, Fetch, TypeOK, Idle, Flag
<1>21. CASE Call
  BY <1>21, CallType
<1>22. CASE Ret
  BY <1>22, RetType
<1>23. CASE Halt
  BY <1>23 DEF Halt, TypeOK, Idle, Flag
<1>24. CASE VmCall
  BY <1>24, AdvanceType DEF VmCall, TypeOK
<1>25. CASE GetError
  <2>1. CodeWord(LastError.code) \in Word /\ CodeWord("NoError") \in Word
    BY SmallWords DEF CodeWord
  <2>2. registers' \in [Register -> Word]
    BY <1>25, <2>1, FetchedOperation, SetToType DEF GetError, Fetch
  <2>3. error_stack' \in Seq(ErrorFrame)
    <3>1. CASE error_stack = <<>>
      BY <1>25, <3>1 DEF GetError, TypeOK
    <3>2. CASE error_stack # <<>>
      BY <1>25, <3>2, WithoutLast DEF GetError, TypeOK
    <3> QED
      BY <3>1, <3>2
  <2> QED
    BY <1>25, <2>2, <2>3 DEF GetError, TypeOK, Idle
<1> QED
  BY <1>1, <1>2, <1>3, <1>4, <1>5, <1>6, <1>7, <1>8, <1>9, <1>10, <1>11,
     <1>12, <1>13, <1>14, <1>15, <1>16, <1>17, <1>18, <1>19, <1>20, <1>21,
     <1>22, <1>23, <1>24, <1>25 DEF Next

-----------------------------------------------------------------------------
(* What the actions leave alone: each fact is stated once and serves the   *)
(* proofs of several properties.                                           *)

LEMMA RaiseKeeps ==
  ASSUME NEW e, Raise(e)
  PROVE  UNCHANGED <<code, registers, fp, call_stack, mem, status>>
BY DEF Raise, Crash, machine

(* A turn needs a running loop, and none changes the script. *)
LEMMA TurnsOfTheLoop ==
  ASSUME Next
  PROVE  phase = "run" /\ code' = code
<1> USE RaiseKeeps DEF Fetch, Crash, machine, Advance
<1>1. CASE ReportStatus \/ Exit \/ Stray
  BY <1>1 DEF ReportStatus, Exit, Stray
<1>2. CASE Calculate \/ Compute \/ Divide \/ Compare \/ CompareReal \/ GetFlag
             \/ Move
  BY <1>2 DEF Calculate, Compute, Divide, Compare, CompareReal, GetFlag, Move
<1>3. CASE Push \/ Pop \/ Load \/ StoreLocal \/ StoreByAddress \/ Copy
  BY <1>3 DEF Push, Pop, Load, StoreLocal, StoreByAddress, Copy
<1>4. CASE CalcFrameAddress \/ AllocateMemory \/ FreeMemory
  BY <1>4 DEF CalcFrameAddress, AllocateMemory, FreeMemory
<1>5. CASE GrabFrame \/ Jump \/ Call \/ Ret \/ Halt \/ VmCall \/ GetError
  BY <1>5 DEF GrabFrame, Jump, Call, Ret, Halt, VmCall, GetError
<1> QED
  BY <1>1, <1>2, <1>3, <1>4, <1>5 DEF Next

(* Only CALL, RET and GRAB_FRAME move frames. *)
LEMMA FramesMove ==
  ASSUME Next
  PROVE  \/ UNCHANGED <<fp, call_stack>>
         \/ Call \/ Ret \/ GrabFrame
<1> USE RaiseKeeps DEF Crash, machine, Advance
<1>1. CASE ReportStatus \/ Exit \/ Stray
  BY <1>1 DEF ReportStatus, Exit, Stray
<1>2. CASE Calculate \/ Compute \/ Divide \/ Compare \/ CompareReal \/ GetFlag
             \/ Move
  BY <1>2 DEF Calculate, Compute, Divide, Compare, CompareReal, GetFlag, Move
<1>3. CASE Push \/ Pop \/ Load \/ StoreLocal \/ StoreByAddress \/ Copy
  BY <1>3 DEF Push, Pop, Load, StoreLocal, StoreByAddress, Copy
<1>4. CASE CalcFrameAddress \/ AllocateMemory \/ FreeMemory
  BY <1>4 DEF CalcFrameAddress, AllocateMemory, FreeMemory
<1>5. CASE Jump \/ Halt \/ VmCall \/ GetError
  BY <1>5 DEF Jump, Halt, VmCall, GetError
<1> QED
  BY <1>1, <1>2, <1>3, <1>4, <1>5 DEF Next

(* Only stores, copies and PUSH touch memory. *)
LEMMA MemoryMoves ==
  ASSUME Next
  PROVE  \/ UNCHANGED <<mem, status>>
         \/ Push \/ StoreLocal \/ StoreByAddress \/ Copy
<1> USE RaiseKeeps DEF Crash, machine
<1>1. CASE ReportStatus \/ Exit \/ Stray
  BY <1>1 DEF ReportStatus, Exit, Stray
<1>2. CASE Calculate \/ Compute \/ Divide \/ Compare \/ CompareReal \/ GetFlag
             \/ Move
  BY <1>2 DEF Calculate, Compute, Divide, Compare, CompareReal, GetFlag, Move
<1>3. CASE Pop \/ Load \/ CalcFrameAddress \/ AllocateMemory \/ FreeMemory
  BY <1>3 DEF Pop, Load, CalcFrameAddress, AllocateMemory, FreeMemory
<1>4. CASE GrabFrame \/ Jump \/ Call \/ Ret \/ Halt \/ VmCall \/ GetError
  BY <1>4 DEF GrabFrame, Jump, Call, Ret, Halt, VmCall, GetError
<1> QED
  BY <1>1, <1>2, <1>3, <1>4 DEF Next

(* With an error recorded by memory, the loop fetches nothing more.        *)
LEMMA NothingIsFetched ==
  ASSUME Next, status # "NoError"
  PROVE  ReportStatus \/ Exit
<1> USE DEF Fetch
<1>1. ~Stray /\ ~Calculate /\ ~Compute /\ ~Divide /\ ~Compare /\ ~CompareReal
      /\ ~GetFlag /\ ~Move
  BY DEF Stray, Calculate, Compute, Divide, Compare, CompareReal, GetFlag, Move
<1>2. ~Push /\ ~Pop /\ ~Load /\ ~StoreLocal /\ ~StoreByAddress /\ ~Copy
      /\ ~CalcFrameAddress /\ ~AllocateMemory /\ ~FreeMemory
  BY DEF Push, Pop, Load, StoreLocal, StoreByAddress, Copy, CalcFrameAddress,
         AllocateMemory, FreeMemory
<1>3. ~GrabFrame /\ ~Jump /\ ~Call /\ ~Ret /\ ~Halt /\ ~VmCall /\ ~GetError
  BY DEF GrabFrame, Jump, Call, Ret, Halt, VmCall, GetError
<1> QED
  BY <1>1, <1>2, <1>3 DEF Next

(* How the error stack changes: GET_ERROR takes the newest error off it,   *)
(* an instruction at fault puts one on it - and the script goes on only if *)
(* the error is not critical -, and an error of memory is put on it as the *)
(* script stops.                                                           *)
ErrorRaised(e) ==
  /\ ip < Len(code) /\ status = "NoError" /\ status' = status
  /\ I.op \in Culprits(e)
  /\ error_stack' = Append(error_stack, NewError(ip, e))
  /\ \/ phase' = "done" /\ ip' = ip
     \/ e \notin CriticalError /\ ip' = ip + 1
StatusRaised ==
  /\ status # "NoError" /\ phase' = "done"
  /\ error_stack' = Append(error_stack, NewError(ip - 1, status))

LEMMA RaiseEffect ==
  ASSUME NEW e, Raise(e), Fetch(Culprits(e))
  PROVE  UNCHANGED error_stack \/ ErrorRaised(e)
<1>1. CASE Crash
  BY <1>1 DEF Crash, machine
<1>2. CASE ~Crash
  <2>1. /\ error_stack' = Append(error_stack, NewError(ip, e))
        /\ status' = status
    BY <1>2 DEF Raise
  <2>2. CASE e \in CriticalError
    BY <1>2, <2>1, <2>2, Zenon DEF Raise, Fetch, ErrorRaised
  <2>3. CASE e \notin CriticalError
    BY <1>2, <2>1, <2>3, Zenon DEF Raise, Fetch, ErrorRaised
  <2> QED
    BY <2>2, <2>3
<1> QED
  BY <1>1, <1>2

LEMMA ErrorsMove ==
  ASSUME Next
  PROVE  \/ UNCHANGED error_stack
         \/ GetError
         \/ \E e \in ErrorCode : ErrorRaised(e)
         \/ StatusRaised
<1> USE DEF Fetch
<1> USE DEF ErrorCode, CriticalError
<1>1. CASE ReportStatus \/ Exit \/ Stray
  BY <1>1 DEF ReportStatus, Exit, Stray, Crash, machine, StatusRaised
<1>2. CASE Calculate \/ Compute \/ Compare \/ GetFlag \/ Move
             \/ CalcFrameAddress \/ StoreByAddress
  BY <1>2 DEF Calculate, Compute, Compare, GetFlag, Move, CalcFrameAddress,
              StoreByAddress, Advance
<1>3. CASE Jump \/ Halt \/ VmCall
  BY <1>3 DEF Jump, Halt, VmCall, Advance
<1>4. CASE Divide
  <2>1. CASE Raise("ZeroDivision")
    BY <1>4, <2>1, RaiseEffect DEF Divide, Culprits
  <2> QED
    BY <1>4, <2>1 DEF Divide, Advance, Crash, machine
<1>5. CASE Push
  BY <1>5, RaiseEffect DEF Push, Culprits, Advance
<1>6. CASE Pop
  BY <1>6, RaiseEffect DEF Pop, Culprits, Advance
<1>7. CASE Load
  BY <1>7, RaiseEffect DEF Load, Culprits, Advance
<1>8. CASE StoreLocal
  BY <1>8, RaiseEffect DEF StoreLocal, Culprits, Advance
<1>9. CASE Copy
  BY <1>9, RaiseEffect DEF Copy, Culprits, Advance
<1>10. CASE AllocateMemory
  BY <1>10, RaiseEffect DEF AllocateMemory, Culprits, Advance
<1>11. CASE FreeMemory
  BY <1>11, RaiseEffect DEF FreeMemory, Culprits, Advance
<1>12. CASE GrabFrame
  BY <1>12, RaiseEffect DEF GrabFrame, Culprits
<1>13. CASE Call
  BY <1>13, RaiseEffect DEF Call, Culprits
<1>14. CASE Ret
  BY <1>14, RaiseEffect DEF Ret, Culprits
<1>15. CASE CompareReal
  <2>1. CASE Crash
    BY <2>1 DEF Crash, machine
  <2>2. CASE ~Crash /\ error_stack' # error_stack
    <3>1. PICK e \in {"NanValue", "InfValue"} :
            /\ error_stack' = Append(error_stack, NewError(ip, e))
            /\ ip < Len(code) /\ status = "NoError" /\ I.op \in {"CMP_REAL"}
            /\ status' = status /\ ip' = ip + 1
      BY <1>15, <2>2 DEF CompareReal
    <3> QED
      BY <3>1 DEF ErrorRaised, Culprits
  <2> QED
    BY <2>1, <2>2
<1> QED
  BY <1>1, <1>2, <1>3, <1>4, <1>5, <1>6, <1>7, <1>8, <1>9, <1>10, <1>11,
     <1>12, <1>13, <1>14, <1>15 DEF Next

-----------------------------------------------------------------------------
(* Type correctness.                                                       *)

LEMMA StatusStep ==
  ASSUME TypeOK, StatusNamesItsInstruction, Next
  PROVE  StatusNamesItsInstruction'
<1> USE DEF StatusNamesItsInstruction
<1>0. code' = code
  BY TurnsOfTheLoop
<1>1. CASE status # "NoError"
  <2>1. ip' = ip /\ status' = status
    BY <1>1, NothingIsFetched DEF ReportStatus, Exit, Crash, machine
  <2> QED
    BY <1>0, <2>1
<1>2. CASE status = "NoError" /\ status' # "NoError"
  <2>1. Push \/ StoreLocal \/ StoreByAddress \/ Copy
    BY <1>2, MemoryMoves
  <2>2. ip < Len(code)
    BY <2>1 DEF Push, StoreLocal, StoreByAddress, Copy, Fetch
  <2>3. ASSUME NEW a \in Word, NEW w \in Word, Write(a, w, I.n)
        PROVE  status' = "AttemptOfRODRewriting" /\ a < StackStart
    BY <1>2, <2>2, <2>3, FetchedOperation, WriteEffect
  <2>4. I.op \in Culprits("AttemptOfRODRewriting")
        /\ status' = "AttemptOfRODRewriting" /\ ip' = ip + 1
    <3>1. CASE Push
      <4>1. Write(sp, registers[I.x], I.n) /\ sp >= StackStart
        BY <1>2, <3>1, RaiseKeeps DEF Push, InStack, CheckIntervals
      <4> QED
        BY <2>2, <2>3, <4>1, FetchedOperation, StackPointer, LayoutAssumption,
           WordsAreNaturals
    <3>2. CASE StoreLocal
      <4> DEFINE a == Wrap(fp + I.m)
      <4>1. Write(a, registers[I.x], I.n) /\ a >= StackStart
        BY <1>2, <3>2, RaiseKeeps DEF StoreLocal, InStack, CheckIntervals
      <4>2. a \in Word
        BY <2>2, FetchedOperation, StackPointer, WrapSum
      <4> HIDE DEF a
      <4> QED
        BY <2>2, <2>3, <4>1, <4>2, FetchedOperation, LayoutAssumption,
           WordsAreNaturals
    <3>3. CASE StoreByAddress
      <4>1. Write(registers[I.y], registers[I.x], I.n) /\ Advance
            /\ I.op = "STORE_BY_ADDRESS"
        BY <1>2, <3>3 DEF StoreByAddress, Fetch
      <4> QED
        BY <2>2, <2>3, <4>1, FetchedOperation DEF Culprits, Advance
    <3>4. CASE Copy
      <4>1. status' = "AttemptOfRODRewriting" /\ Advance
            /\ I.op \in {"STATIC_COPY", "DYNAMIC_COPY"}
        BY <1>2, <3>4, RaiseKeeps DEF Copy, Fetch
      <4> QED
        BY <4>1 DEF Culprits, Advance
    <3> QED
      BY <2>1, <3>1, <3>2, <3>3, <3>4
  <2>5. ip' \in 1 .. Len(code)
    BY <2>2, <2>4, FetchedOperation
  <2> QED
    BY <1>0, <2>4, <2>5 DEF I
<1> QED
  BY <1>1, <1>2

(* The two facts hold together: a recorded error is blamed on ip - 1, which *)
(* is a natural number only because some instruction came before.          *)
Typed == TypeOK /\ StatusNamesItsInstruction

LEMMA TypedAlways == Spec => []Typed
<1>1. Init => Typed
  <2> SUFFICES ASSUME Init
               PROVE  Typed
    OBVIOUS
  <2>1. registers \in [Register -> Word] /\ fp \in Word
    BY SmallWords DEF Init
  <2>2. mem \in [Address -> Byte]
    BY ScriptAssumption, LayoutAssumption DEF Init, Address
  <2>3. call_stack \in Seq(CallFrame) /\ error_stack \in Seq(ErrorFrame)
    BY EmptySeq DEF Init
  <2> QED
    BY <2>1, <2>2, <2>3 DEF Init, Typed, TypeOK, StatusNamesItsInstruction
<1>2. Typed /\ [Next]_vars => Typed'
  <2>1. ASSUME Typed, Next
        PROVE  Typed'
    BY <2>1, StepType, StatusStep DEF Typed
  <2>2. ASSUME Typed, UNCHANGED vars
        PROVE  Typed'
    BY <2>2 DEF vars, machine, Typed, TypeOK, StatusNamesItsInstruction
  <2> QED
    BY <2>1, <2>2
<1> QED
  BY <1>1, <1>2, PTL DEF Spec

(* Every variable of the machine always holds a value of its kind: no      *)
(* register, frame or byte of memory leaves its range, and an error names  *)
(* an instruction by a natural number though it is one before IP.          *)
THEOREM TypeCorrect == Spec => []TypeOK
<1>1. Typed => TypeOK
  BY DEF Typed
<1> QED
  BY <1>1, TypedAlways, PTL

-----------------------------------------------------------------------------
(* Memory.                                                                 *)

(* No instruction changes the read-only data of the script, whatever       *)
(* address, size or overlap a store or a copy is given.                    *)
THEOREM ReadOnlyDataStays == Spec => []RodIntact
<1>1. Init => RodIntact
  BY LayoutAssumption DEF Init, RodIntact, Address
<1>2. Typed /\ RodIntact /\ [Next]_vars => RodIntact'
  <2> SUFFICES ASSUME Typed, RodIntact, [Next]_vars,
                      NEW b \in 0 .. StackStart - 1
               PROVE  mem'[b] = mem[b]
    BY DEF RodIntact
  <2> USE DEF Typed
  <2>1. CASE UNCHANGED mem
    BY <2>1
  <2>2. CASE mem' # mem
    <3>1. Push \/ StoreLocal \/ StoreByAddress \/ Copy
      BY <2>2, MemoryMoves DEF vars, machine
    <3>2. ip < Len(code)
      BY <3>1 DEF Push, StoreLocal, StoreByAddress, Copy, Fetch
    <3>3. CASE Push
      BY <2>2, <3>2, <3>3, FetchedOperation, StackPointer, WriteEffect, RaiseKeeps
      DEF Push
    <3>4. CASE StoreLocal
      BY <2>2, <3>2, <3>4, FetchedOperation, StackPointer, WrapSum, WriteEffect,
         RaiseKeeps
      DEF StoreLocal
    <3>5. CASE StoreByAddress
      BY <2>2, <3>2, <3>5, FetchedOperation, WriteEffect DEF StoreByAddress
    <3>6. CASE Copy
      BY <3>6, CopyEffect
    <3> QED
      BY <3>1, <3>3, <3>4, <3>5, <3>6
  <2> QED
    BY <2>1, <2>2
<1> QED
  BY <1>1, <1>2, TypedAlways, PTL DEF Spec

(* From a refused write to the stop it causes nothing is executed: the     *)
(* registers, memory, frames and call stack the write left are final.      *)
THEOREM RefusedWriteFreezes == Spec => RodWriteFreezes
<1>1. [Next]_vars =>
        [status # "NoError" => UNCHANGED <<registers, mem, call_stack, fp>>]_vars
  <2>1. ASSUME Next, status # "NoError"
        PROVE  UNCHANGED <<registers, mem, call_stack, fp>>
    BY <2>1, NothingIsFetched DEF ReportStatus, Exit, Crash, machine
  <2> QED
    BY <2>1
<1> QED
  BY <1>1, PTL DEF Spec, RodWriteFreezes

-----------------------------------------------------------------------------
(* Frames.                                                                 *)

LEMMA CallChains ==
  ASSUME TypeOK, FrameChain, Call, ~UNCHANGED <<fp, call_stack>>
  PROVE  FrameChain'
<1> DEFINE new == [sp |-> sp, fp |-> fp, ip |-> ip]
<1>0. PICK n \in Nat : n = Len(call_stack)
  BY DEF TypeOK
<1>1. call_stack' = Append(call_stack, new) /\ fp' = sp
  BY RaiseKeeps DEF Call
<1>2. new \in CallFrame /\ call_stack \in Seq(CallFrame)
  BY StackPointer DEF CallFrame, TypeOK
<1>3. /\ n \in Nat /\ Len(call_stack') = n + 1
      /\ \A i \in 1 .. n : call_stack'[i] = call_stack[i]
      /\ call_stack'[n + 1] = new
  BY <1>0, <1>1, <1>2, AppendProperties
<1>4. new.fp = fp /\ new.sp = sp
  OBVIOUS
<1> HIDE DEF new
<1>5. ASSUME NEW i \in 0 .. n
      PROVE  (FrameBase(i))' = FrameBase(i)
  BY <1>3, <1>5 DEF FrameBase
<1>6. ASSUME NEW i \in 1 .. n + 1
      PROVE  call_stack'[i].fp = (FrameBase(i - 1))'
  BY <1>0, <1>3, <1>4, <1>5, <1>6 DEF FrameChain
<1>7. fp' = (FrameBase(n + 1))'
  BY <1>1, <1>3, <1>4 DEF FrameBase
<1> QED
  BY <1>0, <1>3, <1>6, <1>7 DEF FrameChain

LEMMA RetChains ==
  ASSUME TypeOK, FrameChain, Ret, ~UNCHANGED <<fp, call_stack>>
  PROVE  FrameChain'
<1>0. PICK n \in Nat : n = Len(call_stack)
  BY DEF TypeOK
<1>1. call_stack # <<>> /\ call_stack' = Below /\ fp' = Top.fp
  BY RaiseKeeps DEF Ret
<1>2. /\ n \in Nat \ {0} /\ Len(call_stack') = n - 1
      /\ \A i \in 1 .. n - 1 : call_stack'[i] = call_stack[i]
  BY <1>0, <1>1, BelowTop
<1>3. ASSUME NEW i \in 0 .. n - 1
      PROVE  (FrameBase(i))' = FrameBase(i)
  BY <1>2, <1>3 DEF FrameBase
<1>4. ASSUME NEW i \in 1 .. n - 1
      PROVE  call_stack'[i].fp = (FrameBase(i - 1))'
  BY <1>0, <1>2, <1>3, <1>4 DEF FrameChain
<1>5. fp' = (FrameBase(n - 1))'
  BY <1>0, <1>1, <1>2, <1>3 DEF FrameChain, Top
<1> QED
  BY <1>0, <1>2, <1>4, <1>5 DEF FrameChain

LEMMA GrabFrameChains ==
  ASSUME TypeOK, FrameChain, GrabFrame, ~UNCHANGED <<fp, call_stack>>
  PROVE  FrameChain'
<1>0. PICK n \in Nat : n = Len(call_stack)
  BY DEF TypeOK
<1> DEFINE moved == [Top EXCEPT !.sp = Wrap(@ - I.n)]
<1>1. /\ ip < Len(code) /\ call_stack # <<>>
      /\ call_stack' = Append(Below, moved) /\ fp' = Wrap(fp - I.n)
  BY RaiseKeeps DEF GrabFrame, Fetch
<1>2. /\ n \in Nat \ {0} /\ Len(Below) = n - 1 /\ Below \in Seq(CallFrame)
      /\ \A i \in 1 .. n - 1 : Below[i] = call_stack[i]
      /\ Top \in CallFrame
  BY <1>0, <1>1, BelowTop
<1>3. Wrap(Top.sp - I.n) \in Word
  BY <1>1, <1>2, FetchedOperation, WrapSum DEF CallFrame
<1>4. moved \in CallFrame /\ moved.fp = Top.fp /\ moved.sp = Wrap(Top.sp - I.n)
  BY <1>2, <1>3 DEF CallFrame
<1>5. Top.sp = fp
  BY <1>0, <1>2 DEF FrameChain, FrameBase, Top
<1> HIDE DEF moved
<1>6. /\ Len(call_stack') = n
      /\ \A i \in 1 .. n - 1 : call_stack'[i] = call_stack[i]
      /\ call_stack'[n] = moved
  BY <1>1, <1>2, <1>4, AppendProperties
<1>7. Top = call_stack[n]
  BY <1>0 DEF Top
<1>8. ASSUME NEW i \in 0 .. n - 1
      PROVE  (FrameBase(i))' = FrameBase(i)
  BY <1>2, <1>6, <1>8 DEF FrameBase
<1>9. ASSUME NEW i \in 1 .. n
      PROVE  call_stack'[i].fp = (FrameBase(i - 1))'
  <2>1. call_stack'[i].fp = call_stack[i].fp
    BY <1>2, <1>4, <1>6, <1>7, <1>9
  <2> QED
    BY <1>0, <1>2, <1>8, <1>9, <2>1 DEF FrameChain
<1>10. fp' = (FrameBase(n))'
  BY <1>1, <1>2, <1>4, <1>5, <1>6 DEF FrameBase
<1> QED
  BY <1>0, <1>6, <1>9, <1>10 DEF FrameChain

(* The saved frame pointers and stack pointers chain the frames down to    *)
(* address 0.                                                              *)
THEOREM FramesAreChained == Spec => []FrameChain
<1>1. Init => FrameChain
  BY EmptySeq DEF Init, FrameChain, FrameBase
<1>2. Typed /\ FrameChain /\ [Next]_vars => FrameChain'
  <2> SUFFICES ASSUME Typed, FrameChain, [Next]_vars
               PROVE  FrameChain'
    OBVIOUS
  <2> USE DEF Typed
  <2>1. CASE UNCHANGED <<fp, call_stack>>
    BY <2>1 DEF FrameChain, FrameBase
  <2>2. CASE Call /\ ~UNCHANGED <<fp, call_stack>>
    BY <2>2, CallChains
  <2>3. CASE Ret /\ ~UNCHANGED <<fp, call_stack>>
    BY <2>3, RetChains
  <2>4. CASE GrabFrame /\ ~UNCHANGED <<fp, call_stack>>
    BY <2>4, GrabFrameChains
  <2> QED
    BY <2>1, <2>2, <2>3, <2>4, FramesMove DEF vars, machine
<1> QED
  BY <1>1, <1>2, TypedAlways, PTL DEF Spec

-----------------------------------------------------------------------------
(* Errors.                                                                 *)

(* In a draining script an error that waits is about to be read: the loop  *)
(* stands at a GET_ERROR, and memory has recorded no other error.          *)
WaitingErrorIsReadNext ==
  Drains /\ phase = "run" /\ error_stack # <<>> =>
    /\ status = "NoError" /\ ip < Len(code)
    /\ I.op = "GET_ERROR"

LEMMA ReadErrorShortens ==
  ASSUME TypeOK, GetError
  PROVE  \/ error_stack = <<>> /\ error_stack' = <<>>
         \/ /\ Len(error_stack) \in Nat \ {0}
            /\ Len(error_stack') = Len(error_stack) - 1
            /\ \A i \in 1 .. Len(error_stack) - 1 :
                 error_stack'[i] = error_stack[i]
<1>1. error_stack \in Seq(ErrorFrame)
  BY DEF TypeOK
<1>2. CASE error_stack = <<>>
  BY <1>2 DEF GetError
<1>3. CASE error_stack # <<>>
  <2>1. error_stack' = SubSeq(error_stack, 1, Len(error_stack) - 1)
    BY <1>3 DEF GetError
  <2> QED
    BY <1>1, <1>3, <2>1, WithoutLast, EmptySeq
<1> QED
  BY <1>2, <1>3

(* An appended error blames the instruction it was made for.               *)
LEMMA AppendedError ==
  ASSUME TypeOK, NEW i \in Nat, NEW e \in ErrorCode,
         error_stack' = Append(error_stack, NewError(i, e))
  PROVE  /\ Len(error_stack) \in Nat
         /\ Len(error_stack') = Len(error_stack) + 1
         /\ \A j \in 1 .. Len(error_stack) : error_stack'[j] = error_stack[j]
         /\ error_stack'[Len(error_stack) + 1].ip = i
         /\ error_stack'[Len(error_stack) + 1].code = e
<1>1. error_stack \in Seq(ErrorFrame) /\ NewError(i, e) \in ErrorFrame
  BY StackPointer DEF TypeOK, NewError, ErrorFrame
<1>2. NewError(i, e).ip = i /\ NewError(i, e).code = e
  BY DEF NewError
<1> QED
  BY <1>1, <1>2, AppendProperties

LEMMA BlameStep ==
  ASSUME Typed, ErrorsNameTheirInstruction, Next
  PROVE  ErrorsNameTheirInstruction'
<1> USE DEF Typed
<1>1. code' = code
  BY TurnsOfTheLoop
<1>2. CASE UNCHANGED error_stack
  BY <1>1, <1>2 DEF ErrorsNameTheirInstruction
<1>3. CASE GetError
  BY <1>1, <1>3, ReadErrorShortens DEF ErrorsNameTheirInstruction
<1>4. ASSUME NEW i \in Nat, NEW e \in ErrorCode,
             error_stack' = Append(error_stack, NewError(i, e)),
             i < Len(code), code[i + 1].op \in Culprits(e)
      PROVE  ErrorsNameTheirInstruction'
  <2> SUFFICES ASSUME NEW j \in 1 .. Len(error_stack')
               PROVE  /\ error_stack'[j].ip < Len(code)
                      /\ code[error_stack'[j].ip + 1].op
                           \in Culprits(error_stack'[j].code)
    BY <1>1 DEF ErrorsNameTheirInstruction
  <2>1. CASE j = Len(error_stack) + 1
    BY <1>4, <2>1, AppendedError
  <2>2. CASE j \in 1 .. Len(error_stack)
    BY <1>4, <2>2, AppendedError DEF ErrorsNameTheirInstruction
  <2> QED
    BY <1>4, <2>1, <2>2, AppendedError
<1>5. ASSUME NEW e \in ErrorCode, ErrorRaised(e)
      PROVE  ErrorsNameTheirInstruction'
  BY <1>4, <1>5 DEF ErrorRaised, I, TypeOK
<1>6. CASE StatusRaised
  <2>1. ip - 1 \in Nat /\ ip - 1 < Len(code) /\ status \in ErrorCode
        /\ code[ip].op \in Culprits(status) /\ ip = (ip - 1) + 1
    BY <1>6 DEF StatusRaised, StatusNamesItsInstruction, TypeOK, ErrorCode,
                CriticalError
  <2> QED
    BY <1>4, <1>6, <2>1 DEF StatusRaised
<1> QED
  BY <1>2, <1>3, <1>5, <1>6, ErrorsMove

(* At a GET_ERROR the loop can do nothing else. *)
LEMMA OnlyGetErrorReads ==
  ASSUME Next, status = "NoError", ip < Len(code), ip \in Nat, Len(code) \in Nat,
         I.op = "GET_ERROR"
  PROVE  GetError
<1> USE DEF Fetch
<1>1. ~ReportStatus /\ ~Exit /\ ~Stray
  BY DEF ReportStatus, Exit, Stray, Strays
<1>2. ~Calculate /\ ~Compute /\ ~Divide /\ ~Compare /\ ~CompareReal
      /\ ~GetFlag /\ ~Move
  BY DEF Calculate, Compute, Divide, Compare, CompareReal, GetFlag, Move
<1>3. ~Push /\ ~Pop /\ ~Load /\ ~StoreLocal /\ ~StoreByAddress /\ ~Copy
      /\ ~CalcFrameAddress /\ ~AllocateMemory /\ ~FreeMemory
  BY DEF Push, Pop, Load, StoreLocal, StoreByAddress, Copy, CalcFrameAddress,
         AllocateMemory, FreeMemory
<1>4. ~GrabFrame /\ ~Jump /\ ~Call /\ ~Ret /\ ~Halt /\ ~VmCall
  BY DEF GrabFrame, Jump, Call, Ret, Halt, VmCall
<1> QED
  BY <1>1, <1>2, <1>3, <1>4 DEF Next

LEMMA DrainStep ==
  ASSUME Typed, WaitingErrorIsReadNext, DrainedErrorsDoNotPile, Next
  PROVE  WaitingErrorIsReadNext' /\ DrainedErrorsDoNotPile'
<1> SUFFICES ASSUME Drains
             PROVE  WaitingErrorIsReadNext' /\ DrainedErrorsDoNotPile'
  BY TurnsOfTheLoop DEF WaitingErrorIsReadNext, DrainedErrorsDoNotPile, Drains
<1> USE DEF Typed
<1>0. phase = "run" /\ code' = code /\ error_stack \in Seq(ErrorFrame)
  BY TurnsOfTheLoop DEF TypeOK
(* The error that waits is read. *)
<1>1. CASE error_stack # <<>>
  <2>1. status = "NoError" /\ ip < Len(code) /\ I.op = "GET_ERROR"
    BY <1>0, <1>1 DEF WaitingErrorIsReadNext
  <2>2. Len(error_stack) = 1
    BY <1>0, <1>1, EmptySeq DEF DrainedErrorsDoNotPile
  <2>3. GetError
    BY <2>1, FetchedOperation, OnlyGetErrorReads DEF TypeOK
  <2>4. Len(error_stack') = 0 /\ error_stack' \in Seq(ErrorFrame)
    BY <1>1, <2>2, <2>3, ReadErrorShortens, StepType DEF TypeOK
  <2> QED
    BY <2>4, EmptySeq DEF WaitingErrorIsReadNext, DrainedErrorsDoNotPile
(* The first error waits in front of its GET_ERROR, or stops the script. *)
<1>2. CASE error_stack = <<>>
  <2>0. Len(error_stack) = 0
    BY <1>2, EmptySeq
  <2>1. CASE UNCHANGED error_stack \/ GetError
    <3>1. error_stack' = <<>>
      BY <1>2, <2>1 DEF GetError
    <3> QED
      BY <3>1, EmptySeq DEF WaitingErrorIsReadNext, DrainedErrorsDoNotPile
  <2>2. CASE \E e \in ErrorCode : ErrorRaised(e)
    <3>1. PICK e \in ErrorCode : ErrorRaised(e)
      BY <2>2
    <3>2. Len(error_stack') = 1
      BY <2>0, <3>1, AppendedError DEF ErrorRaised, TypeOK
    <3>3. CASE phase' = "done"
      BY <3>2, <3>3 DEF WaitingErrorIsReadNext, DrainedErrorsDoNotPile
    <3>4. CASE e \notin CriticalError /\ ip' = ip + 1
      <4>1. I.op \in Fallible
        BY <3>1, <3>4 DEF ErrorRaised, Culprits, Fallible, ErrorCode, CriticalError
      <4>2. ip + 1 \in 1 .. Len(code)
        BY <3>1, FetchedOperation DEF ErrorRaised
      <4>3. ip + 1 < Len(code) /\ code[ip + 2].op = "GET_ERROR"
        BY <4>1, <4>2 DEF Drains, I, TypeOK
      <4>4. status' = "NoError"
        BY <3>1 DEF ErrorRaised
      <4>5. I'.op = "GET_ERROR" /\ ip' < Len(code')
        BY <1>0, <3>4, <4>3 DEF I, TypeOK
      <4> QED
        BY <3>2, <4>4, <4>5 DEF WaitingErrorIsReadNext, DrainedErrorsDoNotPile
    <3> QED
      BY <3>1, <3>3, <3>4 DEF ErrorRaised
  <2>3. CASE StatusRaised
    <3>1. Len(error_stack') = 1
      BY <2>0, <2>3, AppendedError
      DEF StatusRaised, StatusNamesItsInstruction, TypeOK, ErrorCode, CriticalError
    <3> QED
      BY <2>3, <3>1
      DEF StatusRaised, WaitingErrorIsReadNext, DrainedErrorsDoNotPile
  <2> QED
    BY <2>1, <2>2, <2>3, ErrorsMove
<1> QED
  BY <1>1, <1>2

(* Every error on the error stack names the instruction that is at fault,  *)
(* and a script that reads the outcome of its fallible instructions at     *)
(* once never has two errors waiting.                                      *)
THEOREM ErrorsAreTold == Spec => []ErrorsTell
<1> DEFINE Inv == ErrorsNameTheirInstruction /\ WaitingErrorIsReadNext
                  /\ DrainedErrorsDoNotPile
<1>1. Init => Inv
  BY EmptySeq DEF Init, ErrorsNameTheirInstruction, WaitingErrorIsReadNext,
                  DrainedErrorsDoNotPile
<1>2. Typed /\ Inv /\ [Next]_vars => Inv'
  <2>1. ASSUME Typed, Inv, Next
        PROVE  Inv'
    BY <2>1, BlameStep, DrainStep
  <2>2. ASSUME Inv, UNCHANGED vars
        PROVE  Inv'
    BY <2>2 DEF vars, machine, ErrorsNameTheirInstruction, Drains,
                WaitingErrorIsReadNext, DrainedErrorsDoNotPile, I
  <2> QED
    BY <2>1, <2>2
<1>3. Inv => ErrorsTell
  BY DEF ErrorsTell
<1> QED
  BY <1>1, <1>2, <1>3, TypedAlways, PTL DEF Spec

-----------------------------------------------------------------------------
(* The promise about frames, step by step.                                 *)

(* The frames of call stack cs and frame pointer f, as FramePromise sees   *)
(* them.                                                                   *)
BasesOf(cs, f) ==
  [i \in 1 .. Len(cs) + 1 |-> IF i <= Len(cs) THEN cs[i].fp ELSE f]
ReturnsOf(cs) == [i \in DOMAIN cs |-> cs[i].ip + 1]

LEMMA FunctionIsSequence ==
  ASSUME NEW S, NEW n \in Nat, NEW f \in [1 .. n -> S]
  PROVE  f \in Seq(S) /\ Len(f) = n
OBVIOUS

LEMMA FramesAreSequences ==
  ASSUME NEW cs \in Seq(CallFrame), NEW f \in Word,
         NEW n \in Nat, n = Len(cs)
  PROVE  /\ BasesOf(cs, f) \in Seq(Word) /\ Len(BasesOf(cs, f)) = n + 1
         /\ \A i \in 1 .. n : BasesOf(cs, f)[i] = cs[i].fp
         /\ BasesOf(cs, f)[n + 1] = f
         /\ ReturnsOf(cs) \in Seq(Nat) /\ Len(ReturnsOf(cs)) = n
         /\ \A i \in 1 .. n : ReturnsOf(cs)[i] = cs[i].ip + 1
<1>1. \A i \in 1 .. n : cs[i].fp \in Word /\ cs[i].ip \in Nat
  <2>1. \A i \in 1 .. n : cs[i] \in CallFrame
    OBVIOUS
  <2> QED
    BY <2>1 DEF CallFrame
<1>2. BasesOf(cs, f) \in [1 .. n + 1 -> Word]
  BY <1>1 DEF BasesOf
<1>3. ReturnsOf(cs) \in [1 .. n -> Nat]
  BY <1>1 DEF ReturnsOf
<1>4. /\ \A i \in 1 .. n : BasesOf(cs, f)[i] = cs[i].fp
      /\ BasesOf(cs, f)[n + 1] = f
  BY DEF BasesOf
<1>5. \A i \in 1 .. n : ReturnsOf(cs)[i] = cs[i].ip + 1
  BY DEF ReturnsOf
<1>6. BasesOf(cs, f) \in Seq(Word) /\ Len(BasesOf(cs, f)) = n + 1
  BY <1>2, FunctionIsSequence, n + 1 \in Nat, Zenon
<1>7. ReturnsOf(cs) \in Seq(Nat) /\ Len(ReturnsOf(cs)) = n
  BY <1>3, FunctionIsSequence, Zenon
<1> QED
  BY <1>4, <1>5, <1>6, <1>7

LEMMA SequenceGrows ==
  ASSUME NEW S, NEW s \in Seq(S), NEW e \in S, NEW t \in Seq(S),
         NEW n \in Nat, Len(s) = n, Len(t) = n + 1,
         \A i \in 1 .. n : t[i] = s[i], t[n + 1] = e
  PROVE  t = Append(s, e)
<1>1. /\ Append(s, e) \in Seq(S) /\ Len(Append(s, e)) = n + 1
      /\ \A i \in 1 .. n + 1 : Append(s, e)[i] = t[i]
  BY AppendProperties
<1> QED
  BY <1>1, SeqEqual

LEMMA SequenceShrinks ==
  ASSUME NEW S, NEW s \in Seq(S), NEW t \in Seq(S),
         NEW n \in Nat \ {0}, Len(s) = n, Len(t) = n - 1,
         \A i \in 1 .. n - 1 : t[i] = s[i]
  PROVE  t = SubSeq(s, 1, Len(s) - 1)
<1> DEFINE u == SubSeq(s, 1, Len(s) - 1)
<1>1. s # <<>>
  BY EmptySeq
<1>2. /\ u \in Seq(S) /\ Len(u) = n - 1
      /\ \A i \in 1 .. n - 1 : u[i] = t[i]
  BY <1>1, WithoutLast
<1> HIDE DEF u
<1>3. t = u
  BY <1>2, SeqEqual
<1> QED
  BY <1>3 DEF u

LEMMA CallOpensFrame ==
  ASSUME TypeOK, TypeOK', Call, ~UNCHANGED <<fp, call_stack>>
  PROVE  /\ BasesOf(call_stack, fp)' = Append(BasesOf(call_stack, fp), sp)
         /\ ReturnsOf(call_stack)' = Append(ReturnsOf(call_stack), ip + 1)
         /\ sp' = sp
<1>0. PICK n \in Nat : n = Len(call_stack)
  BY DEF TypeOK
<1> DEFINE new == [sp |-> sp, fp |-> fp, ip |-> ip]
<1>1. /\ call_stack' = Append(call_stack, new) /\ fp' = sp
      /\ registers' = registers
  BY RaiseKeeps DEF Call
<1>2. new \in CallFrame /\ call_stack \in Seq(CallFrame)
  BY StackPointer DEF CallFrame, TypeOK
<1>3. /\ Len(call_stack') = n + 1
      /\ \A i \in 1 .. n : call_stack'[i] = call_stack[i]
      /\ call_stack'[n + 1] = new
  BY <1>0, <1>1, <1>2, AppendProperties
<1>4. new.fp = fp /\ new.ip = ip /\ ip + 1 \in Nat
  BY DEF TypeOK
<1>5. /\ call_stack' \in Seq(CallFrame) /\ call_stack \in Seq(CallFrame)
      /\ fp' \in Word /\ fp \in Word
  BY DEF TypeOK
<1> HIDE DEF new
<1> DEFINE b == BasesOf(call_stack, fp)
           c == BasesOf(call_stack', fp')
           r == ReturnsOf(call_stack)
           t == ReturnsOf(call_stack')
<1>6. /\ b \in Seq(Word) /\ Len(b) = n + 1
      /\ \A i \in 1 .. n : b[i] = call_stack[i].fp
      /\ b[n + 1] = fp
      /\ r \in Seq(Nat) /\ Len(r) = n
      /\ \A i \in 1 .. n : r[i] = call_stack[i].ip + 1
  <2>1. b \in Seq(Word) /\ Len(b) = n + 1
    BY <1>0, <1>5, FramesAreSequences
  <2>2. \A i \in 1 .. n : b[i] = call_stack[i].fp
    BY <1>0, <1>5, FramesAreSequences
  <2>3. b[n + 1] = fp
    BY <1>0, <1>5, FramesAreSequences
  <2>4. r \in Seq(Nat) /\ Len(r) = n
    BY <1>0, <1>5, FramesAreSequences
  <2>5. \A i \in 1 .. n : r[i] = call_stack[i].ip + 1
    BY <1>0, <1>5, FramesAreSequences
  <2> QED
    BY <2>1, <2>2, <2>3, <2>4, <2>5
<1>7. /\ c \in Seq(Word) /\ Len(c) = n + 2
      /\ \A i \in 1 .. n + 1 : c[i] = call_stack'[i].fp
      /\ c[n + 2] = fp'
      /\ t \in Seq(Nat) /\ Len(t) = n + 1
      /\ \A i \in 1 .. n + 1 : t[i] = call_stack'[i].ip + 1
  <2>1. n + 1 \in Nat /\ n + 1 + 1 = n + 2
    OBVIOUS
  <2> QED
    BY <1>3, <1>5, <2>1, FramesAreSequences
<1> HIDE DEF b, c, r, t
<1>8. c = Append(b, sp)
  <2>1. ASSUME NEW i \in 1 .. n + 1
        PROVE  c[i] = b[i]
    <3>1. CASE i \in 1 .. n
      BY <1>3, <1>6, <1>7, <3>1
    <3>2. CASE i = n + 1
      BY <1>3, <1>4, <1>6, <1>7, <3>2
    <3> QED
      BY <3>1, <3>2
  <2>2. n + 1 \in Nat /\ n + 1 + 1 = n + 2 /\ c[n + 2] = sp /\ sp \in Word
    BY <1>1, <1>7, StackPointer
  <2> QED
    BY <1>6, <1>7, <2>1, <2>2, SequenceGrows
<1>9. t = Append(r, ip + 1)
  <2>1. ASSUME NEW i \in 1 .. n
        PROVE  t[i] = r[i]
    <3>1. i \in 1 .. n + 1 /\ call_stack'[i] = call_stack[i]
      BY <1>3
    <3> QED
      BY <1>6, <1>7, <3>1, Zenon
  <2>2. t[n + 1] = ip + 1
    BY <1>3, <1>4, <1>7
  <2> QED
    BY <1>4, <1>6, <1>7, <2>1, <2>2, SequenceGrows
<1> QED
  BY <1>1, <1>8, <1>9 DEF b, c, r, t, sp

LEMMA RetClosesFrame ==
  ASSUME TypeOK, TypeOK', FrameChain, Ret, ~UNCHANGED <<fp, call_stack>>
  PROVE  LET bases == BasesOf(call_stack, fp)
             returns == ReturnsOf(call_stack) IN
         /\ Len(bases) > 1
         /\ BasesOf(call_stack, fp)' = SubSeq(bases, 1, Len(bases) - 1)
         /\ sp' = bases[Len(bases)]
         /\ ip' = returns[Len(returns)]
         /\ ReturnsOf(call_stack)' = SubSeq(returns, 1, Len(returns) - 1)
<1>1. /\ call_stack # <<>> /\ call_stack' = Below /\ fp' = Top.fp
      /\ SetTo("SP", Top.sp) /\ ip' = Top.ip + 1
  BY RaiseKeeps DEF Ret
<1>0. PICK n \in Nat \ {0} : n = Len(call_stack)
  BY <1>1, BelowTop
<1>2. /\ Len(call_stack') = n - 1
      /\ \A i \in 1 .. n - 1 : call_stack'[i] = call_stack[i]
      /\ Top = call_stack[n]
  BY <1>0, <1>1, BelowTop DEF Top
<1>3. sp' = Top.sp /\ Top.sp = fp
  BY <1>0, <1>1, <1>2, StackPointer DEF FrameChain, FrameBase, SetTo, TypeOK, sp
<1>5. /\ call_stack' \in Seq(CallFrame) /\ call_stack \in Seq(CallFrame)
      /\ fp' \in Word /\ fp \in Word
  BY DEF TypeOK
<1> DEFINE b == BasesOf(call_stack, fp)
           c == BasesOf(call_stack', fp')
           r == ReturnsOf(call_stack)
           t == ReturnsOf(call_stack')
<1>6. /\ b \in Seq(Word) /\ Len(b) = n + 1
      /\ \A i \in 1 .. n : b[i] = call_stack[i].fp
      /\ b[n + 1] = fp
      /\ r \in Seq(Nat) /\ Len(r) = n
      /\ \A i \in 1 .. n : r[i] = call_stack[i].ip + 1
  <2>1. /\ b \in Seq(Word) /\ Len(b) = n + 1
        /\ \A i \in 1 .. n : b[i] = call_stack[i].fp
    BY <1>0, <1>5, FramesAreSequences
  <2>2. b[n + 1] = fp
    BY <1>0, <1>5, FramesAreSequences
  <2>3. /\ r \in Seq(Nat) /\ Len(r) = n
        /\ \A i \in 1 .. n : r[i] = call_stack[i].ip + 1
    BY <1>0, <1>5, FramesAreSequences
  <2> QED
    BY <2>1, <2>2, <2>3
<1>7. /\ c \in Seq(Word) /\ Len(c) = n
      /\ \A i \in 1 .. n - 1 : c[i] = call_stack'[i].fp
      /\ c[n] = fp'
      /\ t \in Seq(Nat) /\ Len(t) = n - 1
      /\ \A i \in 1 .. n - 1 : t[i] = call_stack'[i].ip + 1
  <2>1. n - 1 \in Nat /\ n - 1 + 1 = n
    OBVIOUS
  <2> QED
    BY <1>2, <1>5, <2>1, FramesAreSequences
<1> HIDE DEF b, c, r, t
<1>8. c = SubSeq(b, 1, Len(b) - 1)
  <2>1. ASSUME NEW i \in 1 .. n
        PROVE  c[i] = b[i]
    <3>1. CASE i \in 1 .. n - 1
      BY <1>2, <1>6, <1>7, <3>1
    <3>2. CASE i = n
      BY <1>1, <1>2, <1>6, <1>7, <3>2
    <3> QED
      BY <3>1, <3>2
  <2>2. n + 1 \in Nat \ {0} /\ n + 1 - 1 = n
    OBVIOUS
  <2> QED
    BY <1>6, <1>7, <2>1, <2>2, SequenceShrinks
<1>9. t = SubSeq(r, 1, Len(r) - 1)
  <2>1. ASSUME NEW i \in 1 .. n - 1
        PROVE  t[i] = r[i]
    <3>1. i \in 1 .. n /\ call_stack'[i] = call_stack[i]
      BY <1>2
    <3> QED
      BY <1>6, <1>7, <3>1, Zenon
  <2> QED
    BY <1>6, <1>7, <2>1, SequenceShrinks
<1>10. Len(b) > 1 /\ sp' = b[Len(b)] /\ ip' = r[Len(r)]
  BY <1>1, <1>2, <1>3, <1>6
<1> QED
  BY <1>8, <1>9, <1>10 DEF b, c, r, t

LEMMA GrabFrameMovesBase ==
  ASSUME TypeOK, TypeOK', FrameChain, GrabFrame, ~UNCHANGED <<fp, call_stack>>
  PROVE  LET bases == BasesOf(call_stack, fp)
             next == BasesOf(call_stack, fp)' IN
         /\ Len(bases) > 1 /\ Len(next) = Len(bases)
         /\ SubSeq(next, 1, Len(bases) - 1) = SubSeq(bases, 1, Len(bases) - 1)
         /\ next[Len(bases)] >= bases[Len(bases) - 1]
         /\ ReturnsOf(call_stack)' = ReturnsOf(call_stack)
         /\ sp' = sp
<1> DEFINE moved == [Top EXCEPT !.sp = Wrap(@ - I.n)]
<1>1. /\ ip < Len(code) /\ call_stack # <<>>
      /\ call_stack' = Append(Below, moved) /\ fp' >= Top.fp
      /\ registers' = registers
  BY RaiseKeeps DEF GrabFrame, Fetch
<1>0. PICK n \in Nat \ {0} : n = Len(call_stack)
  BY <1>1, BelowTop
<1>2. /\ Len(Below) = n - 1 /\ Below \in Seq(CallFrame)
      /\ \A i \in 1 .. n - 1 : Below[i] = call_stack[i]
      /\ Top \in CallFrame /\ Top = call_stack[n]
  BY <1>0, <1>1, BelowTop DEF Top
<1>3. Wrap(Top.sp - I.n) \in Word
  BY <1>1, <1>2, FetchedOperation, WrapSum DEF CallFrame
<1>4. moved \in CallFrame /\ moved.fp = Top.fp /\ moved.ip = Top.ip
  BY <1>2, <1>3 DEF CallFrame
<1> HIDE DEF moved
<1>5. /\ Len(call_stack') = n
      /\ \A i \in 1 .. n - 1 : call_stack'[i] = call_stack[i]
      /\ call_stack'[n] = moved
  BY <1>1, <1>2, <1>4, AppendProperties
<1>6. ASSUME NEW i \in 1 .. n
      PROVE  /\ call_stack'[i].fp = call_stack[i].fp
             /\ call_stack'[i].ip = call_stack[i].ip
  BY <1>2, <1>4, <1>5
<1>7. /\ call_stack' \in Seq(CallFrame) /\ call_stack \in Seq(CallFrame)
      /\ fp' \in Word /\ fp \in Word
  BY DEF TypeOK
<1> DEFINE b == BasesOf(call_stack, fp)
           c == BasesOf(call_stack', fp')
           r == ReturnsOf(call_stack)
           t == ReturnsOf(call_stack')
<1>8. /\ b \in Seq(Word) /\ Len(b) = n + 1
      /\ \A i \in 1 .. n : b[i] = call_stack[i].fp
      /\ r \in Seq(Nat) /\ Len(r) = n
      /\ \A i \in 1 .. n : r[i] = call_stack[i].ip + 1
  BY <1>0, <1>7, FramesAreSequences
<1>9. /\ c \in Seq(Word) /\ Len(c) = n + 1
      /\ \A i \in 1 .. n : c[i] = call_stack'[i].fp
      /\ c[n + 1] = fp'
      /\ t \in Seq(Nat) /\ Len(t) = n
      /\ \A i \in 1 .. n : t[i] = call_stack'[i].ip + 1
  BY <1>5, <1>7, FramesAreSequences
<1> HIDE DEF b, c, r, t
<1>10. \A i \in 1 .. n : c[i] = b[i] /\ t[i] = r[i]
  BY <1>6, <1>8, <1>9
<1>11. t = r
  BY <1>8, <1>9, <1>10, SeqEqual
<1>12. SubSeq(c, 1, n) = SubSeq(b, 1, n)
  <2>1. \A i \in 1 .. n : c[i] \in Word /\ b[i] \in Word
    BY <1>8, <1>9
  <2> DEFINE u == SubSeq(c, 1, n)
             v == SubSeq(b, 1, n)
  <2>2. /\ u \in Seq(Word) /\ Len(u) = n /\ \A i \in 1 .. n : u[i] = c[i]
    <3>1. u = SubSeq(c, 1, Len(c) - 1) /\ Len(c) - 1 = n /\ c # <<>>
      BY <1>9, EmptySeq
    <3> HIDE DEF u
    <3> QED
      BY <1>9, <3>1, WithoutLast
  <2>3. /\ v \in Seq(Word) /\ Len(v) = n /\ \A i \in 1 .. n : v[i] = b[i]
    <3>1. v = SubSeq(b, 1, Len(b) - 1) /\ Len(b) - 1 = n /\ b # <<>>
      BY <1>8, EmptySeq
    <3> HIDE DEF v
    <3> QED
      BY <1>8, <3>1, WithoutLast
  <2> HIDE DEF u, v
  <2>4. u = v
    BY <1>10, <2>2, <2>3, SeqEqual
  <2> QED
    BY <2>4 DEF u, v
<1>13. Len(b) > 1 /\ c[Len(b)] >= b[Len(b) - 1]
  BY <1>1, <1>2, <1>8, <1>9
<1>14. Len(b) - 1 = n
  BY <1>8
<1> QED
  BY <1>1, <1>8, <1>9, <1>11, <1>12, <1>13, <1>14 DEF b, c, r, t, sp

(* Calls, returns and GRAB_FRAME do to the frames what FramePromise says,  *)
(* and nothing else moves a frame: a step of the loop is a step of the     *)
(* promise.                                                                *)
THEOREM FramePromiseKept == Spec => KeepsFramePromise
<1>1. Init => Frames!Init
  <2> SUFFICES ASSUME Init
               PROVE  Frames!Init
    OBVIOUS
  <2>1. BasesOf(call_stack, fp) = <<0>>
    BY EmptySeq DEF Init, BasesOf
  <2>2. ReturnsOf(call_stack) = <<>>
    BY DEF Init, ReturnsOf
  <2>3. registers["SP"] \in Nat /\ ip = 0
    BY LayoutAssumption DEF Init, Register
  <2> QED
    BY <2>1, <2>2, <2>3 DEF Frames!Init, BasesOf, ReturnsOf
<1>2. Typed /\ Typed' /\ FrameChain /\ [Next]_vars => [Frames!Next]_(Frames!vars)
  <2> SUFFICES ASSUME Typed, Typed', FrameChain, [Next]_vars
               PROVE  Frames!Next
    OBVIOUS
  <2> USE DEF Typed, BasesOf, ReturnsOf
  <2>1. CASE UNCHANGED <<fp, call_stack>>
    BY <2>1 DEF Frames!Next, Frames!Work
  <2>2. CASE Call /\ ~UNCHANGED <<fp, call_stack>>
    BY <2>2, CallOpensFrame DEF Frames!Next, Frames!Call, sp
  <2>3. CASE Ret /\ ~UNCHANGED <<fp, call_stack>>
    BY <2>3, RetClosesFrame DEF Frames!Next, Frames!Return, Frames!Last,
                                Frames!Callers, sp
  <2>4. CASE GrabFrame /\ ~UNCHANGED <<fp, call_stack>>
    BY <2>4, GrabFrameMovesBase DEF Frames!Next, Frames!Grab, Frames!Callers, sp
  <2> QED
    BY <2>1, <2>2, <2>3, <2>4, FramesMove DEF vars, machine
<1> QED
  BY <1>1, <1>2, TypedAlways, FramesAreChained, PTL
  DEF Spec, KeepsFramePromise, Frames!Spec
=============================================================================
