------------------------ MODULE ByteTranslatorProofs ------------------------
(***************************************************************************)
(* Proofs about ByteTranslator, for every number of registers, every set   *)
(* of variables and types, and programs of any length.                     *)
(*                                                                         *)
(* What every handler does to the operands and the table of registers is   *)
(* stated once: it replaces the last operands by new ones (Replaces), it   *)
(* keeps no register that the new ones do not have (GivesBack), and if the *)
(* operands had registers of their own before, they do afterwards          *)
(* (KeepsApart).  The theorems follow from that for each action.           *)
(*                                                                         *)
(* The second half follows the machine through the commands of a handler   *)
(* (Carries), and says what each handler turns its operands into, in the   *)
(* words of ExpressionPromise (Turns): the refinement is at the end.       *)
(***************************************************************************)
EXTENDS ByteTranslatorMeaning, TLAPS, SequenceTheorems, WellFoundedInduction

-----------------------------------------------------------------------------
(* Facts of sequences and numbers.                                         *)

(* Every set of natural numbers has a least one. *)
LEMMA LeastNatural ==
  ASSUME NEW T, T \subseteq Nat, T # {}
  PROVE  \E n \in T : \A m \in T : n <= m
<1> DEFINE R == OpToRel(<, Nat)
<1>1. IsWellFoundedOn(R, Nat)
  BY NatLessThanWellFounded
<1>2. \A m \in Nat, n \in Nat : m < n => <<m, n>> \in R
  BY DEF OpToRel
<1> HIDE DEF R
<1>3. PICK n \in T : \A m \in T : ~(<<m, n>> \in R)
  BY <1>1, WFMin
<1>4. \A m \in T : ~(m < n)
  BY <1>2, <1>3
<1> QED
  BY <1>4

(* A sequence without its last element. *)
LEMMA WithoutLast ==
  ASSUME NEW S, NEW s \in Seq(S), s # <<>>
  PROVE  /\ Front(s) \in Seq(S)
         /\ Len(Front(s)) = Len(s) - 1
         /\ \A i \in 1 .. Len(s) - 1 : Front(s)[i] = s[i]
         /\ Len(s) \in Nat \ {0} /\ Last(s) = s[Len(s)] /\ Last(s) \in S
<1> DEFINE n == Len(s) - 1
           t == SubSeq(s, 1, n)
<1>1. n \in Nat /\ n + 1 = Len(s) /\ \A i \in 1 .. n + 1 : s[i] \in S
  BY EmptySeq
<1> HIDE DEF n
<1>2. /\ t \in Seq(S)
      /\ Len(t) = IF 1 <= n THEN n - 1 + 1 ELSE 0
      /\ \A i \in 1 .. n - 1 + 1 : t[i] = s[1 + i - 1]
  BY <1>1, SubSeqProperties
<1> HIDE DEF t
<1>3. n - 1 + 1 = n /\ \A i \in 1 .. n : 1 + i - 1 = i
  BY <1>1
<1>4. Len(t) = n
  BY <1>1, <1>2, <1>3
<1>5. Front(s) = t
  BY DEF Front, t, n
<1>6. Len(s) \in Nat \ {0} /\ Last(s) = s[Len(s)] /\ Last(s) \in S
  BY <1>1 DEF Last
<1>7. Len(s) - 1 = n
  BY DEF n
<1> QED
  BY <1>2, <1>3, <1>4, <1>5, <1>6, <1>7

-----------------------------------------------------------------------------
(* The small steps of the handlers.                                        *)

(* Registers are numbers, the first free one is free, if there is one. *)
LEMMA FirstFree ==
  ASSUME NEW b, IsState(b)
  PROVE  /\ FindFreeGeneral(b) \in 0 .. InvalidRegister
         /\ FreeRegisters(b) = {} <=> FindFreeGeneral(b) = InvalidRegister
         /\ FindFreeGeneral(b) # InvalidRegister =>
              FindFreeGeneral(b) \in Registers \ b.registers_table
<1>1. GeneralRegisters \in Nat \ {0}
  BY TranslatorAssumption
<1>2. InvalidRegister \notin Registers /\ Registers \subseteq 0 .. InvalidRegister
      /\ Registers \subseteq Nat /\ InvalidRegister \in 0 .. InvalidRegister
  BY <1>1 DEF InvalidRegister, Registers
<1>3. CASE FreeRegisters(b) = {}
  BY <1>2, <1>3 DEF FindFreeGeneral
<1>4. CASE FreeRegisters(b) # {}
  <2>1. FreeRegisters(b) \subseteq Registers \ b.registers_table
    BY DEF FreeRegisters
  <2>2. \E r \in FreeRegisters(b) : \A s \in FreeRegisters(b) : r <= s
    BY <1>2, <1>4, <2>1, LeastNatural
  <2>3. FindFreeGeneral(b) \in FreeRegisters(b)
    BY <1>4, <2>2 DEF FindFreeGeneral
  <2> QED
    BY <1>2, <1>4, <2>1, <2>3
<1> QED
  BY <1>3, <1>4

(* What the functions on the state do to its fields. *)
LEMMA Small ==
  ASSUME NEW b, IsState(b)
  PROVE  /\ \A f : Fields(Pushed(b, f), Append(b.value_stack, f), b.registers_table,
                          b.loaded, b.reported, b.out_of_registers)
         /\ Fields(Popped(b), Front(b.value_stack), b.registers_table,
                   b.loaded, b.reported, b.out_of_registers)
         /\ Fields(Reported(b), b.value_stack, b.registers_table,
                   b.loaded, TRUE, b.out_of_registers)
         /\ \A c : Fields(Emitted(b, c), b.value_stack, b.registers_table,
                          b.loaded, b.reported, b.out_of_registers)
         /\ \A f : Fields(Returned(b, f), b.value_stack, b.registers_table,
                          << f >> \o b.loaded, b.reported, b.out_of_registers)
         /\ \A r : Fields(Freed(b, r), b.value_stack, b.registers_table \ {r},
                          b.loaded, b.reported, b.out_of_registers)
<1>1. \A f : Fields(Pushed(b, f), Append(b.value_stack, f), b.registers_table,
                    b.loaded, b.reported, b.out_of_registers)
  <2> SUFFICES ASSUME NEW f
               PROVE  Fields(Pushed(b, f), Append(b.value_stack, f), b.registers_table,
                             b.loaded, b.reported, b.out_of_registers)
    OBVIOUS
  <2>1. Pushed(b, f) =
          [value_stack |-> Append(b.value_stack, f), registers_table |-> b.registers_table,
           result |-> b.result, loaded |-> b.loaded, reported |-> b.reported,
           out_of_registers |-> b.out_of_registers]
    <3>1. b = [value_stack |-> b.value_stack, registers_table |-> b.registers_table,
               result |-> b.result, loaded |-> b.loaded, reported |-> b.reported,
               out_of_registers |-> b.out_of_registers]
      BY DEF IsState, Fields
    <3> QED
      BY <3>1, SMTT(30) DEF Pushed
  <2> QED
    BY <2>1 DEF Fields
<1>2. Fields(Popped(b), Front(b.value_stack), b.registers_table,
             b.loaded, b.reported, b.out_of_registers)
  BY DEF IsState, Fields, Popped
<1>3. Fields(Reported(b), b.value_stack, b.registers_table,
             b.loaded, TRUE, b.out_of_registers)
  <2>1. \A x :
          LET c == [b EXCEPT !.reported = x]
          IN Fields(c, b.value_stack, b.registers_table, b.loaded, x, b.out_of_registers)
    BY DEF IsState, Fields
  <2> QED
    BY <2>1 DEF Reported
<1>4. \A c : Fields(Emitted(b, c), b.value_stack, b.registers_table,
                    b.loaded, b.reported, b.out_of_registers)
  BY DEF IsState, Fields, Emitted
<1>5. \A f : Fields(Returned(b, f), b.value_stack, b.registers_table,
                    << f >> \o b.loaded, b.reported, b.out_of_registers)
  <2>1. \A x :
          LET c == [b EXCEPT !.loaded = x]
          IN Fields(c, b.value_stack, b.registers_table, x, b.reported, b.out_of_registers)
    BY DEF IsState, Fields
  <2> QED
    BY <2>1 DEF Returned
<1>6. \A r : Fields(Freed(b, r), b.value_stack, b.registers_table \ {r},
                    b.loaded, b.reported, b.out_of_registers)
  BY DEF IsState, Fields, Freed
<1> QED
  BY <1>1, <1>2, <1>3, <1>4, <1>5, <1>6

(* Allocating takes the first free register, or notes that there is none. *)
LEMMA Allocating ==
  ASSUME NEW b, IsState(b)
  PROVE  /\ FindFreeGeneral(b) # InvalidRegister =>
              Fields(Allocated(b), b.value_stack,
                     b.registers_table \cup {FindFreeGeneral(b)},
                     b.loaded, b.reported, b.out_of_registers)
         /\ FindFreeGeneral(b) = InvalidRegister =>
              Fields(Allocated(b), b.value_stack, b.registers_table,
                     b.loaded, b.reported, TRUE)
<1>1. CASE FreeRegisters(b) = {}
  <2>1. Allocated(b) = [b EXCEPT !.out_of_registers = TRUE]
    BY <1>1 DEF Allocated
  <2> QED
    BY <1>1, <2>1, FirstFree DEF IsState, Fields
<1>2. CASE FreeRegisters(b) # {}
  <2>1. Allocated(b) = [b EXCEPT !.registers_table = @ \cup {FindFreeGeneral(b)}]
    BY <1>2 DEF Allocated
  <2> QED
    BY <1>2, <2>1, FirstFree DEF IsState, Fields
<1> QED
  BY <1>1, <1>2

(* A state with given fields is one. *)
LEMMA FieldsMakeState ==
  ASSUME NEW c, NEW s, NEW t \in SUBSET Registers, NEW l,
         NEW r \in BOOLEAN, NEW o \in BOOLEAN, Fields(c, s, t, l, r, o)
  PROVE  IsState(c)
BY DEF IsState, Fields

(* What a frame has, and what makes one. *)
LEMMA FrameFields ==
  ASSUME NEW f \in Frames
  PROVE  /\ f = [source |-> f.source, data |-> f.data, dynamic |-> f.dynamic,
                 static |-> f.static,
                 dynamicSize |-> f.dynamicSize, staticSize |-> f.staticSize,
                 info |-> f.info]
         /\ f.info = [depth |-> f.info.depth, base |-> f.info.base]
         /\ f.source \in Sources
         /\ f.data \in 0 .. InvalidRegister \cup OwnBytes \cup Imported \cup Constants
         /\ f.dynamic \in Primitives /\ f.static \in Primitives
         /\ f.dynamicSize \in Nat /\ f.staticSize \in Nat
         /\ f.info \in [depth : Nat, base : Bases \cup {"Invalid"}]
         /\ f.info.depth \in Nat /\ f.info.base \in Bases \cup {"Invalid"}
         /\ Suits(f)
BY DEF Frames

(* A record with the right fields that suits its source is a frame.        *)
LEMMA MakesFrame ==
  ASSUME NEW f, NEW s \in Sources,
         NEW d \in 0 .. InvalidRegister \cup OwnBytes \cup Imported \cup Constants,
         NEW p \in Primitives, NEW q \in Primitives, NEW x \in Nat, NEW y \in Nat,
         NEW i \in [depth : Nat, base : Bases \cup {"Invalid"}],
         f = [source |-> s, data |-> d, dynamic |-> p, static |-> q,
              dynamicSize |-> x, staticSize |-> y, info |-> i],
         Suits(f)
  PROVE  f \in Frames
BY DEF Frames

(* A frame whose operand is in a register or behind one. *)
LEMMA MakesRegisterFrame ==
  ASSUME NEW f, NEW s \in {"Register", "Pointer", "DynamicAddress"},
         NEW d \in 0 .. InvalidRegister,
         NEW p \in Primitives, NEW q \in Primitives, NEW x \in Nat, NEW y \in Nat,
         NEW i \in [depth : Nat, base : Bases \cup {"Invalid"}],
         i.depth > 0 \/ s = "DynamicAddress" => i.base \in Bases,
         f = [source |-> s, data |-> d, dynamic |-> p, static |-> q,
              dynamicSize |-> x, staticSize |-> y, info |-> i]
  PROVE  f \in Frames /\ InRegister(f)
<1>1. Suits(f)
  BY DEF Suits, InRegister, IsPointer
<1> QED
  BY <1>1, MakesFrame DEF Sources, InRegister

(* Types without pointers suit every frame. *)
LEMMA NoTypeIsType ==
  /\ NoType \in [depth : Nat, base : Bases \cup {"Invalid"}]
  /\ ~(NoType.depth > 0)
BY DEF NoType

(* Commands and messages change nothing else. *)
LEMMA QuietSteps ==
  ASSUME NEW b, IsState(b)
  PROVE  /\ Quiet(b, b)
         /\ \A c : Quiet(b, Emitted(b, c)) /\ Emitted(b, c).reported = b.reported
         /\ Quiet(b, Reported(b)) /\ Reported(b).reported
         /\ \A p, q, r : Quiet(b, Conversion(b, p, q, r))
<1>1. \A c : Quiet(b, Emitted(b, c)) /\ Emitted(b, c).reported = b.reported
  <2> SUFFICES ASSUME NEW c
               PROVE  Quiet(b, Emitted(b, c)) /\ Emitted(b, c).reported = b.reported
    OBVIOUS
  <2>1. Fields(Emitted(b, c), b.value_stack, b.registers_table,
               b.loaded, b.reported, b.out_of_registers)
    BY Small
  <2> QED
    BY <2>1, FieldsMakeState DEF Quiet, Remembers, Fields, IsState
<1>2. Quiet(b, Reported(b)) /\ Reported(b).reported
  <2>1. Fields(Reported(b), b.value_stack, b.registers_table,
               b.loaded, TRUE, b.out_of_registers)
    BY Small
  <2>2. IsState(Reported(b))
    BY <2>1, FieldsMakeState DEF IsState
  <2> QED
    BY <2>1, <2>2 DEF Quiet, Remembers, Fields, IsState
<1>3. Quiet(b, b)
  BY DEF Quiet, Remembers
<1>4. \A p, q, r : Quiet(b, Conversion(b, p, q, r))
  BY <1>1, <1>3 DEF Conversion
<1> QED
  BY <1>1, <1>2, <1>3, <1>4

(* Quiet, and Remembers, hold over two steps if they hold over each.       *)
LEMMA QuietTwice ==
  ASSUME NEW b, NEW c, NEW d, Quiet(b, c), Quiet(c, d)
  PROVE  Quiet(b, d)
BY DEF Quiet, Remembers

(* Two calls one after the other leave alone what each leaves alone.       *)
LEMMA RemembersTwice ==
  ASSUME NEW b, NEW c, NEW d, Remembers(b, c), Remembers(c, d)
  PROVE  Remembers(b, d)
BY DEF Remembers

(* The steps that forget nothing. *)
LEMMA SmallRemember ==
  ASSUME NEW b, IsState(b)
  PROVE  /\ \A f : Remembers(b, Pushed(b, f))
         /\ Remembers(b, Popped(b))
         /\ Remembers(b, Reported(b)) /\ Reported(b).reported
         /\ \A c : Remembers(b, Emitted(b, c))
         /\ \A f : Remembers(b, Returned(b, f))
         /\ \A r : Remembers(b, Freed(b, r))
         /\ Remembers(b, Allocated(b))
         /\ Remembers(b, b)
         /\ \A p, q, r : Remembers(b, Conversion(b, p, q, r))
<1>1. \A f : Remembers(b, Pushed(b, f))
  <2> SUFFICES ASSUME NEW f PROVE Remembers(b, Pushed(b, f))
    OBVIOUS
  <2>1. Fields(Pushed(b, f), Append(b.value_stack, f), b.registers_table,
               b.loaded, b.reported, b.out_of_registers)
    BY Small
  <2> QED
    BY <2>1, FieldsMakeState DEF Remembers, Fields, IsState
<1>2. Remembers(b, Popped(b))
  <2>1. Fields(Popped(b), Front(b.value_stack), b.registers_table,
               b.loaded, b.reported, b.out_of_registers)
    BY Small
  <2> QED
    BY <2>1, FieldsMakeState DEF Remembers, Fields, IsState
<1>3. \A f : Remembers(b, Returned(b, f))
  <2> SUFFICES ASSUME NEW f PROVE Remembers(b, Returned(b, f))
    OBVIOUS
  <2>1. Fields(Returned(b, f), b.value_stack, b.registers_table,
               << f >> \o b.loaded, b.reported, b.out_of_registers)
    BY Small
  <2> QED
    BY <2>1, FieldsMakeState DEF Remembers, Fields, IsState
<1>4. \A r : Remembers(b, Freed(b, r))
  <2> SUFFICES ASSUME NEW r PROVE Remembers(b, Freed(b, r))
    OBVIOUS
  <2>1. Fields(Freed(b, r), b.value_stack, b.registers_table \ {r},
               b.loaded, b.reported, b.out_of_registers)
    BY Small
  <2>2. b.registers_table \ {r} \in SUBSET Registers
    BY DEF IsState
  <2> QED
    BY <2>1, <2>2, FieldsMakeState DEF Remembers, Fields, IsState
<1>5. Remembers(b, Allocated(b))
  <2>1. CASE FindFreeGeneral(b) # InvalidRegister
    <3>1. Fields(Allocated(b), b.value_stack,
                 b.registers_table \cup {FindFreeGeneral(b)},
                 b.loaded, b.reported, b.out_of_registers)
      BY <2>1, Allocating
    <3>2. b.registers_table \cup {FindFreeGeneral(b)} \in SUBSET Registers
      BY <2>1, FirstFree DEF IsState
    <3> QED
      BY <3>1, <3>2, FieldsMakeState DEF Remembers, Fields, IsState
  <2>2. CASE FindFreeGeneral(b) = InvalidRegister
    <3>1. Fields(Allocated(b), b.value_stack, b.registers_table,
                 b.loaded, b.reported, TRUE)
      BY <2>2, Allocating
    <3>2. IsState(Allocated(b))
      BY <3>1, FieldsMakeState DEF IsState
    <3> QED
      BY <3>1, <3>2 DEF Remembers, Fields, IsState
  <2> QED
    BY <2>1, <2>2
<1>6. Remembers(b, Reported(b)) /\ Reported(b).reported
  BY QuietSteps DEF Quiet
<1>7. \A c : Remembers(b, Emitted(b, c))
  BY QuietSteps DEF Quiet
<1>8. Remembers(b, b)
  BY DEF Remembers
<1>9. \A p, q, r : Remembers(b, Conversion(b, p, q, r))
  BY QuietSteps DEF Quiet
<1> QED
  BY <1>1, <1>2, <1>3, <1>4, <1>5, <1>6, <1>7, <1>8, <1>9

(* A frame with fields changed. *)
LEMMA ChangedFrame ==
  ASSUME NEW f \in Frames
  PROVE  /\ \A s : [f EXCEPT !.source = s] =
              [source |-> s, data |-> f.data, dynamic |-> f.dynamic,
               static |-> f.static,
               dynamicSize |-> f.dynamicSize, staticSize |-> f.staticSize,
               info |-> f.info]
         /\ \A r : [f EXCEPT !.data = r] =
              [source |-> f.source, data |-> r, dynamic |-> f.dynamic,
               static |-> f.static,
               dynamicSize |-> f.dynamicSize, staticSize |-> f.staticSize,
               info |-> f.info]
         /\ \A s, p : [f EXCEPT !.source = s, !.dynamic = p] =
              [source |-> s, data |-> f.data, dynamic |-> p,
               static |-> f.static,
               dynamicSize |-> f.dynamicSize, staticSize |-> f.staticSize,
               info |-> f.info]
         /\ \A p, x, q, y, i :
              [f EXCEPT !.dynamic = p, !.dynamicSize = x, !.static = q,
                        !.staticSize = y, !.info = i] =
              [source |-> f.source, data |-> f.data, dynamic |-> p,
               static |-> q, dynamicSize |-> x, staticSize |-> y, info |-> i]
<1> DEFINE D == 0 .. InvalidRegister \cup OwnBytes \cup Imported \cup Constants
           T == [depth : Nat, base : Bases \cup {"Invalid"}]
<1>0. f \in [source : Sources, data : D, dynamic : Primitives, static : Primitives,
            dynamicSize : Nat, staticSize : Nat, info : T]
  BY DEF Frames
<1> HIDE DEF D, T
<1>1. \A s : [f EXCEPT !.source = s] =
        [source |-> s, data |-> f.data, dynamic |-> f.dynamic,
         static |-> f.static,
         dynamicSize |-> f.dynamicSize, staticSize |-> f.staticSize,
         info |-> f.info]
  BY <1>0
<1>2. \A r : [f EXCEPT !.data = r] =
        [source |-> f.source, data |-> r, dynamic |-> f.dynamic,
         static |-> f.static,
         dynamicSize |-> f.dynamicSize, staticSize |-> f.staticSize,
         info |-> f.info]
  BY <1>0
<1>3. \A s, p : [f EXCEPT !.source = s, !.dynamic = p] =
        [source |-> s, data |-> f.data, dynamic |-> p,
         static |-> f.static,
         dynamicSize |-> f.dynamicSize, staticSize |-> f.staticSize,
         info |-> f.info]
  <2> SUFFICES ASSUME NEW s, NEW p
               PROVE  [f EXCEPT !.source = s, !.dynamic = p] =
                        [source |-> s, data |-> f.data, dynamic |-> p,
                         static |-> f.static,
                         dynamicSize |-> f.dynamicSize, staticSize |-> f.staticSize,
                         info |-> f.info]
    OBVIOUS
  <2> DEFINE g == [f EXCEPT !.source = s]
  <2>1. g = [source |-> s, data |-> f.data, dynamic |-> f.dynamic,
             static |-> f.static,
             dynamicSize |-> f.dynamicSize, staticSize |-> f.staticSize,
             info |-> f.info]
    BY <1>1
  <2>2. [f EXCEPT !.source = s, !.dynamic = p] = [g EXCEPT !.dynamic = p]
    OBVIOUS
  <2> HIDE DEF g
  <2> QED
    BY <2>1, <2>2
<1>4. \A p, x, q, y, i :
        [f EXCEPT !.dynamic = p, !.dynamicSize = x, !.static = q,
                  !.staticSize = y, !.info = i] =
        [source |-> f.source, data |-> f.data, dynamic |-> p,
         static |-> q, dynamicSize |-> x, staticSize |-> y, info |-> i]
  <2> SUFFICES ASSUME NEW p, NEW x, NEW q, NEW y, NEW i
               PROVE  [f EXCEPT !.dynamic = p, !.dynamicSize = x, !.static = q,
                                !.staticSize = y, !.info = i] =
                        [source |-> f.source, data |-> f.data, dynamic |-> p,
                         static |-> q, dynamicSize |-> x, staticSize |-> y,
                         info |-> i]
    OBVIOUS
  <2>1. PICK g1 : g1 = [f EXCEPT !.dynamic = p]
    OBVIOUS
  <2>2. g1 = [source |-> f.source, data |-> f.data, dynamic |-> p,
              static |-> f.static, dynamicSize |-> f.dynamicSize,
              staticSize |-> f.staticSize, info |-> f.info]
    BY <1>0, <2>1
  <2>3. PICK g2 : g2 = [g1 EXCEPT !.dynamicSize = x]
    OBVIOUS
  <2>4. g2 = [source |-> f.source, data |-> f.data, dynamic |-> p,
              static |-> f.static, dynamicSize |-> x,
              staticSize |-> f.staticSize, info |-> f.info]
    BY <2>2, <2>3
  <2>5. PICK g3 : g3 = [g2 EXCEPT !.static = q]
    OBVIOUS
  <2>6. g3 = [source |-> f.source, data |-> f.data, dynamic |-> p,
              static |-> q, dynamicSize |-> x,
              staticSize |-> f.staticSize, info |-> f.info]
    BY <2>4, <2>5
  <2>7. PICK g4 : g4 = [g3 EXCEPT !.staticSize = y]
    OBVIOUS
  <2>8. g4 = [source |-> f.source, data |-> f.data, dynamic |-> p,
              static |-> q, dynamicSize |-> x, staticSize |-> y, info |-> f.info]
    BY <2>6, <2>7
  <2>9. [f EXCEPT !.dynamic = p, !.dynamicSize = x, !.static = q,
                  !.staticSize = y, !.info = i] = [g4 EXCEPT !.info = i]
    BY <2>1, <2>3, <2>5, <2>7
  <2> QED
    BY <2>8, <2>9
<1> QED
  BY <1>1, <1>2, <1>3, <1>4

-----------------------------------------------------------------------------
(* GenerateLoadCommand.                                                    *)

(* Loading takes no message back, whatever is on the stack.                *)
LEMMA LoadRemembers ==
  ASSUME NEW b, IsState(b)
  PROVE  Remembers(b, Load(b))
<1>1. ASSUME NEW c, IsState(c), NEW f
      PROVE  Remembers(c, LoadedTop(c, f))
  <2>1. ASSUME NEW command, NEW g
        PROVE  Remembers(c, LoadedFrom(c, f, command, g))
    <3> DEFINE a == Allocated(c)
    <3>1. Remembers(c, a) /\ IsState(a)
      BY <1>1, SmallRemember DEF Remembers
    <3>2. \A h : Remembers(c, Returned(Reported(a), h))
      <4>1. Remembers(a, Reported(a)) /\ IsState(Reported(a))
        BY <3>1, SmallRemember DEF Remembers
      <4>2. \A h : Remembers(Reported(a), Returned(Reported(a), h))
        BY <4>1, SmallRemember
      <4> QED
        BY <3>1, <4>1, <4>2, RemembersTwice
    <3>3. \A e, h : Remembers(c, Returned(Emitted(a, e), h))
      <4>1. \A e : Remembers(a, Emitted(a, e)) /\ IsState(Emitted(a, e))
        BY <3>1, SmallRemember DEF Remembers
      <4>2. \A e, h : Remembers(Emitted(a, e), Returned(Emitted(a, e), h))
        BY <4>1, SmallRemember
      <4> QED
        BY <3>1, <4>1, <4>2, RemembersTwice
    <3> QED
      BY <3>2, <3>3 DEF LoadedFrom, LoadedInto
  <2>2. \A e, h : Remembers(c, Returned(Emitted(c, e), h))
    <3>1. \A e : Remembers(c, Emitted(c, e)) /\ IsState(Emitted(c, e))
      BY <1>1, SmallRemember DEF Remembers
    <3>2. \A e, h : Remembers(Emitted(c, e), Returned(Emitted(c, e), h))
      BY <3>1, SmallRemember
    <3> QED
      BY <3>1, <3>2, RemembersTwice
  <2>3. \A h : Remembers(c, Returned(c, h))
    BY <1>1, SmallRemember
  <2> QED
    BY <2>1, <2>2, <2>3 DEF LoadedTop
<1>2. CASE b.value_stack = <<>>
  <2>1. Remembers(b, Reported(b)) /\ IsState(Reported(b))
    BY SmallRemember DEF Remembers
  <2>2. Remembers(Reported(b), Returned(Reported(b), Invalid))
    BY <2>1, SmallRemember
  <2> QED
    BY <1>2, <2>1, <2>2, RemembersTwice DEF Load
<1>3. CASE b.value_stack # <<>>
  <2>1. Remembers(b, Popped(b)) /\ IsState(Popped(b))
    BY SmallRemember DEF Remembers
  <2> QED
    BY <1>1, <1>3, <2>1, RemembersTwice DEF Load
<1> QED
  BY <1>2, <1>3

(* The operand on top left the stack, and its new frame is returned. *)
LEMMA LoadEffect ==
  ASSUME NEW b, Typed(b), b.value_stack # <<>>, ~Load(b).reported
  PROVE  LET c == Load(b)
             g == c.loaded[1]
         IN /\ Typed(c) /\ c.value_stack = Front(b.value_stack)
            /\ c.loaded = << g >> \o b.loaded
            /\ c.out_of_registers = b.out_of_registers
            /\ InItsRegister(Last(b.value_stack), g, b, c)
<1> DEFINE c == Load(b)
           f == Last(b.value_stack)
           p == Popped(b)
<1>0. IsState(b) /\ f \in Frames
  BY WithoutLast DEF Typed
<1>1. /\ Fields(p, Front(b.value_stack), b.registers_table,
                b.loaded, b.reported, b.out_of_registers)
      /\ IsState(p)
  BY <1>0, Small, SmallRemember DEF Remembers
<1>2. c = LoadedTop(p, f)
  BY DEF Load, Top
<1>3. ASSUME NEW d, IsState(d), NEW g \in Frames, c = Returned(d, g),
             d.value_stack = p.value_stack, d.loaded = p.loaded,
             d.out_of_registers = p.out_of_registers,
             InItsRegister(f, g, p, d)
      PROVE  /\ Typed(c) /\ c.value_stack = Front(b.value_stack)
             /\ c.loaded = << g >> \o b.loaded /\ c.loaded[1] = g
             /\ c.out_of_registers = b.out_of_registers
             /\ InItsRegister(f, c.loaded[1], b, c)
  <2>1. /\ Fields(c, d.value_stack, d.registers_table, << g >> \o d.loaded,
                  d.reported, d.out_of_registers)
        /\ IsState(c)
    BY <1>3, Small, SmallRemember DEF Remembers
  <2>2. d.value_stack = Front(b.value_stack) /\ d.loaded = b.loaded
    BY <1>1, <1>3 DEF Fields
  <2>3. Front(b.value_stack) \in Seq(Frames)
    BY WithoutLast DEF Typed
  <2>4. /\ << g >> \o b.loaded \in Seq(Frames \cup {Invalid})
        /\ (<< g >> \o b.loaded)[1] = g
    <3> DEFINE S == Frames \cup {Invalid}
    <3>1. << g >> \in Seq(S) /\ b.loaded \in Seq(S) /\ g \in S
      BY DEF Typed
    <3> HIDE DEF S
    <3>2. Len(<< g >>) = 1 /\ Len(b.loaded) \in Nat /\ << g >>[1] = g
      BY <3>1
    <3>3. << g >> \o b.loaded \in Seq(S) /\ (<< g >> \o b.loaded)[1] = g
      BY <3>1, <3>2, ConcatProperties
    <3> QED
      BY <3>3 DEF S
  <2>5. c.value_stack = Front(b.value_stack) /\ c.loaded = << g >> \o b.loaded
        /\ c.registers_table = d.registers_table
        /\ c.out_of_registers = b.out_of_registers
    BY <1>1, <1>3, <2>1, <2>2 DEF Fields
  <2>6. Typed(c)
    BY <2>1, <2>3, <2>4, <2>5 DEF Typed
  <2>7. p.registers_table = b.registers_table
    BY <1>1 DEF Fields
  <2>8. InItsRegister(f, c.loaded[1], b, c)
    BY <1>3, <2>4, <2>5, <2>7 DEF InItsRegister
  <2> QED
    BY <2>4, <2>5, <2>6, <2>8
<1>4. CASE f.source = "DynamicAddress"
  <2> DEFINE g == [f EXCEPT !.source = "Register"]
             d == Emitted(p, <<"LOAD_DYNAMIC", f.data, f.data, f.dynamicSize>>)
  <2>1. c = Returned(d, g)
    BY <1>2, <1>4 DEF LoadedTop, AtFixedAddress
  <2>2. Quiet(p, d) /\ Fields(d, p.value_stack, p.registers_table,
               p.loaded, p.reported, p.out_of_registers)
    BY <1>1, Small, QuietSteps
  <2>3. g \in Frames /\ InItsRegister(f, g, p, d)
    <3>1. g = [source |-> "Register", data |-> f.data, dynamic |-> f.dynamic,
               static |-> f.static,
               dynamicSize |-> f.dynamicSize, staticSize |-> f.staticSize,
               info |-> f.info]
      BY <1>0, ChangedFrame
    <3> HIDE DEF g
    <3>2. /\ f.data \in 0 .. InvalidRegister
          /\ f.info.depth > 0 => f.info.base \in Bases
          /\ InRegister(f)
      BY <1>0, <1>4, FrameFields DEF Suits, InRegister, IsPointer
    <3>3. g \in Frames
      BY <1>0, <3>1, <3>2, FrameFields, MakesRegisterFrame
    <3> QED
      BY <2>2, <3>1, <3>2, <3>3 DEF InItsRegister, Fields
  <2> HIDE DEF g, d
  <2> QED
    BY <1>3, <2>1, <2>2, <2>3 DEF Quiet, Remembers, Fields
<1>5. ASSUME NEW command, NEW s \in {"Register", "Pointer"},
             NEW q \in Primitives, NEW loaded, ~InRegister(f),
             loaded = [source |-> s, data |-> f.data, dynamic |-> q,
                       static |-> f.static,
                       dynamicSize |-> f.dynamicSize, staticSize |-> f.staticSize,
                       info |-> f.info],
             c = LoadedFrom(p, f, command, loaded)
      PROVE  \E g \in Frames : \E d :
               /\ IsState(d) /\ c = Returned(d, g)
               /\ d.value_stack = p.value_stack /\ d.loaded = p.loaded
               /\ d.out_of_registers = p.out_of_registers
               /\ InItsRegister(f, g, p, d)
  <2> DEFINE r == FindFreeGeneral(p)
             a == Allocated(p)
             d == Emitted(a, <<command, Argument(f), r, f.dynamicSize>>)
             g == [loaded EXCEPT !.data = r]
  <2>1. /\ IsState(a) /\ Quiet(a, d) /\ IsState(d)
        /\ Fields(d, a.value_stack, a.registers_table,
                  a.loaded, a.reported, a.out_of_registers)
    <3>1. IsState(a)
      BY <1>1, SmallRemember DEF Remembers
    <3> QED
      BY <3>1, Small, QuietSteps DEF Quiet, Remembers
  <2>2. r # InvalidRegister
    <3>1. SUFFICES ASSUME r = InvalidRegister PROVE FALSE
      OBVIOUS
    <3>2. c = Returned(Reported(a), Invalid)
      BY <1>5, <3>1 DEF LoadedFrom, LoadedInto
    <3>3. IsState(Reported(a)) /\ Reported(a).reported
      BY <2>1, SmallRemember DEF Remembers
    <3>4. c.reported
      BY <3>2, <3>3, SmallRemember DEF Remembers
    <3> QED
      BY <3>4
  <2>3. /\ Fields(a, p.value_stack, p.registers_table \cup {r},
                  p.loaded, p.reported, p.out_of_registers)
        /\ r \in Registers \ p.registers_table /\ r \in 0 .. InvalidRegister
    BY <1>1, <2>2, Allocating, FirstFree
  <2>4. c = Returned(d, g)
    BY <1>5, <2>2 DEF LoadedFrom, LoadedInto
  <2>5. g = [source |-> s, data |-> r, dynamic |-> q,
             static |-> f.static,
             dynamicSize |-> f.dynamicSize, staticSize |-> f.staticSize,
             info |-> f.info]
    BY <1>5
  <2> HIDE DEF g, d, r, a
  <2>6. g \in Frames
    <3>1. f.info.depth > 0 => f.info.base \in Bases
      BY <1>0, FrameFields DEF Suits, IsPointer
    <3> QED
      BY <1>0, <2>3, <2>5, <3>1, FrameFields, MakesRegisterFrame
  <2>7. /\ d.value_stack = p.value_stack /\ d.loaded = p.loaded
        /\ d.out_of_registers = p.out_of_registers
        /\ d.registers_table = p.registers_table \cup {r}
    BY <2>1, <2>3 DEF Fields
  <2>8. InItsRegister(f, g, p, d)
    BY <1>5, <2>3, <2>5, <2>6, <2>7 DEF InItsRegister
  <2> QED
    BY <2>1, <2>4, <2>6, <2>7, <2>8
<1>6. CASE AtFixedAddress(f)
  <2>1. ~InRegister(f)
    BY <1>6 DEF AtFixedAddress, InRegister
  <2>2. PICK loaded :
          /\ c = LoadedFrom(p, f, "LOAD_STATIC", loaded)
          /\ loaded = IF IsPointer(f)
                      THEN [f EXCEPT !.source = "Pointer", !.dynamic = "UInt"]
                      ELSE [f EXCEPT !.source = "Register", !.dynamic = f.static]
    BY <1>2, <1>6 DEF LoadedTop, AtFixedAddress
  <2>3. \E s \in {"Register", "Pointer"}, q \in Primitives :
          loaded = [source |-> s, data |-> f.data, dynamic |-> q,
                    static |-> f.static,
                    dynamicSize |-> f.dynamicSize, staticSize |-> f.staticSize,
                    info |-> f.info]
    <3>1. f.static \in Primitives /\ "UInt" \in Primitives
      BY <1>0, FrameFields DEF Primitives
    <3>2. CASE IsPointer(f)
      <4>1. loaded = [source |-> "Pointer", data |-> f.data, dynamic |-> "UInt",
                      static |-> f.static,
                      dynamicSize |-> f.dynamicSize, staticSize |-> f.staticSize,
                      info |-> f.info]
        BY <1>0, <2>2, <3>2, ChangedFrame
      <4> QED
        BY <3>1, <4>1
    <3>3. CASE ~IsPointer(f)
      <4>1. loaded = [source |-> "Register", data |-> f.data, dynamic |-> f.static,
                      static |-> f.static,
                      dynamicSize |-> f.dynamicSize, staticSize |-> f.staticSize,
                      info |-> f.info]
        BY <1>0, <2>2, <3>3, ChangedFrame
      <4> QED
        BY <3>1, <4>1
    <3> QED
      BY <3>2, <3>3
  <2>4. c = LoadedFrom(p, f, "LOAD_STATIC", loaded)
    BY <2>2
  <2> QED
    BY <1>3, <1>5, <2>1, <2>3, <2>4
<1>7. CASE f.source = "Constant"
  <2>1. ~InRegister(f)
    BY <1>7 DEF InRegister
  <2>2. c = LoadedFrom(p, f, "LOAD_CONST_STATIC", [f EXCEPT !.source = "Register"])
    BY <1>2, <1>7 DEF LoadedTop, AtFixedAddress
  <2>3. [f EXCEPT !.source = "Register"] =
          [source |-> "Register", data |-> f.data, dynamic |-> f.dynamic,
           static |-> f.static,
           dynamicSize |-> f.dynamicSize, staticSize |-> f.staticSize,
           info |-> f.info]
    BY <1>0, ChangedFrame
  <2>4. f.dynamic \in Primitives
    BY <1>0, FrameFields
  <2>5. \E loaded : /\ c = LoadedFrom(p, f, "LOAD_CONST_STATIC", loaded)
                    /\ \E s \in {"Register", "Pointer"}, q \in Primitives :
                         loaded = [source |-> s, data |-> f.data, dynamic |-> q,
                                   static |-> f.static,
                                   dynamicSize |-> f.dynamicSize, staticSize |-> f.staticSize,
                                   info |-> f.info]
    BY <2>2, <2>3, <2>4
  <2> QED
    BY <1>3, <1>5, <2>1, <2>5
<1>8. CASE f.source \in {"Register", "Pointer"}
  <2>1. c = Returned(p, f)
    BY <1>2, <1>8 DEF LoadedTop, AtFixedAddress
  <2>2. InItsRegister(f, f, p, p)
    BY <1>0, <1>8, FrameFields DEF InItsRegister, InRegister, Suits
  <2> QED
    BY <1>0, <1>1, <1>3, <2>1, <2>2
<1>9. f.source \in Sources
  BY <1>0, FrameFields
<1> QED
  BY <1>4, <1>6, <1>7, <1>8, <1>9 DEF Sources, AtFixedAddress

-----------------------------------------------------------------------------
(* The arithmetic and logic handler.                                       *)

(* Bringing the operands to one type, or scaling by the size of an         *)
(* element, only adds commands: the register for the size is never marked. *)
LEMMA UnifiedIsQuiet ==
  ASSUME NEW b, IsState(b), NEW l, NEW r
  PROVE  Quiet(b, Unified(b, l, r))
BY QuietSteps DEF Unified

(* The size of an element is multiplied in a register that is free before  *)
(* and after.                                                              *)
LEMMA ScaledIsQuiet ==
  ASSUME NEW b, IsState(b), NEW l, NEW r, NEW prim
  PROVE  Quiet(b, Scaled(b, l, r, prim))
<1> DEFINE register == FindFreeGeneral(b)
           checked == IF "Real" \in {l.dynamic, r.dynamic} THEN Reported(b) ELSE b
           noted == [checked EXCEPT !.out_of_registers = @ \/ register = InvalidRegister]
           first == <<"LOAD_CONST_STATIC", <<"Constant", [prim |-> "UInt", n |-> AlignedSize(l.info.base)]>>, register, Size>>
           second == <<"MUL", prim, r.data, r.data, register>>
           emitted == Emitted(Emitted(noted, first), second)
<1>1. Scaled(b, l, r, prim) = Freed(emitted, register)
  BY DEF Scaled
<1>2. Quiet(b, checked) /\ IsState(checked)
  BY QuietSteps DEF Quiet, Remembers
<1>3. Quiet(checked, noted) /\ IsState(noted)
  <2> DEFINE x == checked.out_of_registers \/ register = InvalidRegister
  <2> HIDE DEF checked, register
  <2>1. \A y : LET c == [checked EXCEPT !.out_of_registers = y]
               IN Fields(c, checked.value_stack, checked.registers_table,
                         checked.loaded, checked.reported, y)
    BY <1>2 DEF IsState, Fields
  <2>2. noted = [checked EXCEPT !.out_of_registers = x]
    OBVIOUS
  <2>3. Fields(noted, checked.value_stack, checked.registers_table,
               checked.loaded, checked.reported, x)
    BY <2>1, <2>2
  <2>4. x \in BOOLEAN /\ (checked.out_of_registers => x)
    BY <1>2 DEF IsState
  <2> HIDE DEF x, noted
  <2>5. IsState(noted)
    BY <1>2, <2>3, <2>4, FieldsMakeState DEF IsState
  <2> QED
    BY <2>3, <2>4, <2>5 DEF Quiet, Remembers, Fields
<1> HIDE DEF checked, noted, first, second
<1>4. Quiet(b, emitted) /\ IsState(emitted)
  <2>1. Quiet(noted, Emitted(noted, first)) /\ IsState(Emitted(noted, first))
    BY <1>3, QuietSteps DEF Quiet, Remembers
  <2>2. Quiet(Emitted(noted, first), emitted) /\ IsState(emitted)
    BY <2>1, QuietSteps DEF Quiet, Remembers
  <2> QED
    BY <1>2, <1>3, <2>1, <2>2, QuietTwice
<1> HIDE DEF emitted
<1>5. register \notin b.registers_table
  <2>1. InvalidRegister \notin Registers
    BY TranslatorAssumption DEF InvalidRegister, Registers
  <2> QED
    BY <2>1, FirstFree DEF IsState
<1>6. Fields(Freed(emitted, register), emitted.value_stack,
             emitted.registers_table \ {register}, emitted.loaded,
             emitted.reported, emitted.out_of_registers)
  BY <1>4, Small
<1>7. emitted.registers_table \ {register} = emitted.registers_table
  BY <1>4, <1>5 DEF Quiet
<1>8. Quiet(emitted, Freed(emitted, register))
  <2>1. IsState(Freed(emitted, register))
    BY <1>4, SmallRemember DEF Remembers
  <2> HIDE DEF register
  <2> QED
    BY <1>4, <1>6, <1>7, <2>1 DEF Quiet, Remembers, Fields, IsState
<1> QED
  BY <1>1, <1>4, <1>8, QuietTwice

(* A command uses up the register r, and the operand "new" is pushed. *)
LEMMA CommandGives ==
  ASSUME NEW b, Typed(b), NEW q, Quiet(b, q), NEW e, NEW r, NEW new \in Frames
  PROVE  LET c == Pushed(Freed(Emitted(q, e), r), new)
         IN /\ Typed(c) /\ Remembers(b, c)
            /\ c.value_stack = Append(b.value_stack, new)
            /\ c.loaded = b.loaded
            /\ c.registers_table = b.registers_table \ {r}
<1> DEFINE d == Emitted(q, e)
           f == Freed(d, r)
           c == Pushed(f, new)
<1>1. Quiet(b, d) /\ IsState(d)
  <2>1. Quiet(q, d)
    BY QuietSteps DEF Quiet, Remembers
  <2> QED
    BY <2>1, QuietTwice DEF Quiet, Remembers
<1> HIDE DEF d
<1>2. /\ Fields(f, d.value_stack, d.registers_table \ {r}, d.loaded,
                d.reported, d.out_of_registers)
      /\ Remembers(d, f) /\ IsState(f)
  BY <1>1, Small, SmallRemember DEF Remembers
<1> HIDE DEF f
<1>3. /\ Fields(c, Append(f.value_stack, new), f.registers_table, f.loaded,
                f.reported, f.out_of_registers)
      /\ Remembers(f, c) /\ IsState(c)
  BY <1>2, Small, SmallRemember DEF Remembers
<1>4. Remembers(b, c)
  BY <1>1, <1>2, <1>3, RemembersTwice DEF Quiet
<1>5. /\ c.value_stack = Append(b.value_stack, new)
      /\ c.loaded = b.loaded
      /\ c.registers_table = b.registers_table \ {r}
  BY <1>1, <1>2, <1>3 DEF Fields, Quiet
<1>6. Append(b.value_stack, new) \in Seq(Frames)
  BY AppendProperties DEF Typed
<1>7. Typed(c)
  BY <1>3, <1>5, <1>6 DEF Typed
<1> QED
  BY <1>4, <1>5, <1>7 DEF c, f, d

(* The common type of two primitive types is one of them.                  *)
LEMMA CommonIsPrimitive ==
  ASSUME NEW p \in Primitives, NEW q \in Primitives
  PROVE  Common(p, q) \in Primitives
BY DEF Common

(* The frames of results. *)
LEMMA ResultIsFrame ==
  ASSUME NEW l \in Frames, NEW r \in Frames, l.source \in {"Register", "Pointer"},
         NEW x \in Nat
  PROVE  /\ ResultFrame(l, r) \in Frames /\ ResultFrame(l, r).data = l.data
         /\ ResultFrame(l, r).source \in {"Register", "Pointer"}
         /\ NumberFrame(l.data, x) \in Frames /\ NumberFrame(l.data, x).data = l.data
         /\ NumberFrame(l.data, x).source \in {"Register", "Pointer"}
<1>1. l.data \in 0 .. InvalidRegister
  BY FrameFields DEF Suits, InRegister
<1>2. ResultFrame(l, r) \in Frames /\ ResultFrame(l, r).data = l.data
      /\ ResultFrame(l, r).source \in {"Register", "Pointer"}
  <2> DEFINE kind == IF LeftConverts(l, r) THEN r ELSE l
             p == Common(l.dynamic, r.dynamic)
             y == IF LeftConverts(l, r) THEN l.dynamicSize ELSE r.dynamicSize
  <2>1. kind \in Frames /\ y \in Nat
    BY FrameFields
  <2>2. p \in Primitives
    BY FrameFields, CommonIsPrimitive
  <2>3. ResultFrame(l, r) =
          [l EXCEPT !.dynamic = p, !.dynamicSize = y, !.static = kind.static,
                    !.staticSize = kind.staticSize, !.info = kind.info]
    BY DEF ResultFrame
  <2> HIDE DEF kind, p, y
  <2>4. ResultFrame(l, r) =
          [source |-> l.source, data |-> l.data, dynamic |-> p,
           static |-> kind.static, dynamicSize |-> y,
           staticSize |-> kind.staticSize, info |-> kind.info]
    <3>1. \A a, z, q, u, i :
            [l EXCEPT !.dynamic = a, !.dynamicSize = z, !.static = q,
                      !.staticSize = u, !.info = i] =
            [source |-> l.source, data |-> l.data, dynamic |-> a,
             static |-> q, dynamicSize |-> z, staticSize |-> u, info |-> i]
      BY ChangedFrame, Zenon
    <3> QED
      BY <2>3, <3>1, Zenon
  <2>5. /\ kind.static \in Primitives /\ kind.staticSize \in Nat
        /\ kind.info \in [depth : Nat, base : Bases \cup {"Invalid"}]
        /\ kind.info.depth > 0 => kind.info.base \in Bases
    BY <2>1, FrameFields DEF Suits, IsPointer
  <2> QED
    BY <1>1, <2>1, <2>2, <2>4, <2>5, MakesRegisterFrame
<1>3. NumberFrame(l.data, x) \in Frames /\ NumberFrame(l.data, x).data = l.data
      /\ NumberFrame(l.data, x).source \in {"Register", "Pointer"}
  <2>1. NumberFrame(l.data, x) =
          [source |-> "Register", data |-> l.data, dynamic |-> "UInt",
           static |-> "UInt", dynamicSize |-> x, staticSize |-> x, info |-> NoType]
    BY DEF NumberFrame, ValueFrame
  <2>2. "UInt" \in Primitives
    BY DEF Primitives
  <2> QED
    BY <1>1, <2>1, <2>2, NoTypeIsType, MakesRegisterFrame
<1> QED
  BY <1>2, <1>3

(* An arithmetic or logic command takes no message back.                   *)
LEMMA ComputedRemembers ==
  ASSUME NEW b, IsState(b), NEW o
  PROVE  Remembers(b, Computed(b, o))
<1> DEFINE l == b.loaded[1]
           r == b.loaded[2]
           p == Common(l.dynamic, r.dynamic)
<1>1. ASSUME NEW q, Remembers(b, q), NEW e, NEW new
      PROVE  Remembers(b, Pushed(Freed(Emitted(q, e), r.data), new))
  <2>1. Remembers(q, Emitted(q, e)) /\ IsState(Emitted(q, e))
    BY <1>1, SmallRemember DEF Remembers
  <2>2. /\ Remembers(Emitted(q, e), Freed(Emitted(q, e), r.data))
        /\ IsState(Freed(Emitted(q, e), r.data))
    BY <2>1, SmallRemember DEF Remembers
  <2>3. Remembers(Freed(Emitted(q, e), r.data),
                  Pushed(Freed(Emitted(q, e), r.data), new))
    BY <2>2, SmallRemember
  <2> QED
    BY <1>1, <2>1, <2>2, <2>3, RemembersTwice
<1>2. Remembers(b, b) /\ Remembers(b, Reported(b))
  BY SmallRemember
<1>3. Remembers(b, Unified(b, l, r)) /\ IsState(Unified(b, l, r))
  BY UnifiedIsQuiet DEF Quiet, Remembers
<1>4. Remembers(b, Scaled(Unified(b, l, r), l, r, p))
  BY <1>3, ScaledIsQuiet, RemembersTwice DEF Quiet
<1> HIDE DEF l, r, p
<1> QED
  BY <1>1, <1>2, <1>3, <1>4 DEF Computed, l, r, p

(* Both operands are in registers: the result is in the left one's, and    *)
(* the right one's is given back.                                          *)
LEMMA ComputedEffect ==
  ASSUME NEW b, Typed(b), NEW o \in BinaryOperators, ~Computed(b, o).reported,
         b.loaded[1] \in Frames, b.loaded[1].source \in {"Register", "Pointer"},
         b.loaded[2] \in Frames
  PROVE  LET c == Computed(b, o)
         IN \E new \in Frames :
              /\ new.source \in {"Register", "Pointer"}
              /\ new.data = b.loaded[1].data
              /\ Typed(c) /\ Remembers(b, c)
              /\ c.value_stack = Append(b.value_stack, new)
              /\ c.loaded = b.loaded
              /\ c.registers_table = b.registers_table \ {b.loaded[2].data}
<1> DEFINE l == b.loaded[1]
           r == b.loaded[2]
           p == Common(l.dynamic, r.dynamic)
           c == Computed(b, o)
           result == ResultFrame(l, r)
           number(x) == NumberFrame(l.data, x)
           sizes == {LogicResultSize, l.dynamicSize}
<1>1. \E q, e, new :
        /\ Quiet(b, q) /\ new \in {result} \cup {number(x) : x \in sizes}
        /\ c = Pushed(Freed(Emitted(q, e), r.data), new)
  <2>1. Quiet(b, b)
    BY QuietSteps DEF Typed
  <2>2. Quiet(b, Unified(b, l, r)) /\ IsState(Unified(b, l, r))
    BY UnifiedIsQuiet DEF Typed, Quiet, Remembers
  <2>3. Quiet(b, Scaled(Unified(b, l, r), l, r, p))
    BY <2>2, ScaledIsQuiet, QuietTwice
  <2>4. c # Reported(b)
    BY SmallRemember DEF Typed
  <2> HIDE DEF l, r, p, result
  <2>5. CASE o = "Subtract"
    BY <2>2, <2>3, <2>5 DEF Computed, c, l, r, p, result
  <2>6. CASE o = "Mod"
    BY <2>2, <2>4, <2>6 DEF Computed, c, l, r, p, result
  <2>7. CASE o = "Less"
    BY <2>2, <2>7 DEF Computed, c, l, r, p, number, sizes
  <2>8. CASE o = "BitOffsetLeft"
    BY <2>1, <2>4, <2>8 DEF Computed, c, l, r, p, number, sizes
  <2>9. CASE o = "And"
    BY <2>1, <2>9 DEF Computed, c, l, r, p, number, sizes
  <2> QED
    BY <2>5, <2>6, <2>7, <2>8, <2>9 DEF BinaryOperators
<1>2. PICK q, e, new :
        /\ Quiet(b, q) /\ new \in {result} \cup {number(x) : x \in sizes}
        /\ c = Pushed(Freed(Emitted(q, e), r.data), new)
  BY <1>1
<1>3. new \in Frames /\ new.data = l.data /\ new.source \in {"Register", "Pointer"}
  <2>1. \A x \in sizes : x \in Nat
    <3>1. l.dynamicSize \in Nat /\ LogicResultSize \in Nat
      BY FrameFields DEF LogicResultSize
    <3> QED
      BY <3>1, Zenon
  <2>2. new = result \/ \E x \in sizes : new = number(x)
    BY <1>2
  <2> QED
    BY <2>1, <2>2, ResultIsFrame
<1> HIDE DEF l, r, c
<1>4. /\ Typed(c) /\ Remembers(b, c)
      /\ c.value_stack = Append(b.value_stack, new)
      /\ c.loaded = b.loaded
      /\ c.registers_table = b.registers_table \ {r.data}
  BY <1>2, <1>3, CommandGives
<1> QED
  BY <1>3, <1>4 DEF l, r, c

-----------------------------------------------------------------------------
(* The registers of the last operands.                                     *)

(* The registers of the last operand, and of the last two.                 *)
LEMMA LastFrames ==
  ASSUME NEW b, NEW n \in Nat, n = Len(b.value_stack)
  PROVE  /\ Regs(b, 0) = {}
         /\ n >= 1 => Regs(b, 1) = Reg(b.value_stack[n]) /\ LastPlaces(b, 1) = {n}
         /\ n >= 2 => /\ Regs(b, 2) = Reg(b.value_stack[n - 1]) \cup Reg(b.value_stack[n])
                      /\ LastPlaces(b, 2) = {n - 1, n}
<1>1. LastPlaces(b, 0) = {}
  BY DEF LastPlaces
<1>2. n >= 1 => LastPlaces(b, 1) = {n}
  BY DEF LastPlaces
<1>3. n >= 2 => LastPlaces(b, 2) = {n - 1, n}
  BY DEF LastPlaces
<1> QED
  BY <1>1, <1>2, <1>3 DEF Regs

(* The same of two operands at once, as it is mostly needed.               *)
LEMMA LastTwo ==
  ASSUME NEW b, NEW n \in Nat, n = Len(b.value_stack), n >= 2
  PROVE  /\ Regs(b, 1) = Reg(b.value_stack[n])
         /\ Regs(b, 2) = Reg(b.value_stack[n - 1]) \cup Reg(b.value_stack[n])
<1>1. n >= 1
  OBVIOUS
<1> QED
  BY <1>1, LastFrames

(* Operands without the one on top. *)
LEMMA WithoutTop ==
  ASSUME NEW s \in Seq(Frames), NEW n \in Nat, n = Len(s), s # <<>>
  PROVE  /\ n >= 1 /\ Front(s) \in Seq(Frames) /\ Len(Front(s)) = n - 1
         /\ \A i \in 1 .. n - 1 : Front(s)[i] = s[i]
         /\ Last(s) = s[n] /\ s[n] \in Frames
<1> DEFINE F == Frames
<1>1. s \in Seq(F)
  OBVIOUS
<1> HIDE DEF F
<1>2. /\ Front(s) \in Seq(F) /\ Len(Front(s)) = Len(s) - 1
      /\ \A i \in 1 .. Len(s) - 1 : Front(s)[i] = s[i]
      /\ Len(s) \in Nat \ {0} /\ Last(s) = s[Len(s)] /\ Last(s) \in F
  BY <1>1, WithoutLast
<1>3. n \in Nat \ {0}
  BY <1>2
<1>4. n >= 1
  BY <1>3
<1> QED
  BY <1>2, <1>4 DEF F

(* An operand and the frame with its register. *)
LEMMA RegisterOf ==
  ASSUME NEW f, NEW g, NEW b, NEW c, InItsRegister(f, g, b, c), IsState(b)
  PROVE  /\ InRegister(g) /\ Reg(g) = {g.data} \cap Registers
         /\ Reg(f) \subseteq Reg(g)
         /\ b.registers_table \subseteq c.registers_table
         /\ c.registers_table \subseteq b.registers_table \cup Reg(g)
         /\ Reg(g) \cap (b.registers_table \ Reg(f)) = {}
         /\ Reg(f) \subseteq b.registers_table => Reg(g) \subseteq c.registers_table
         /\ (InRegister(f) => f.data \in Registers) => g.data \in Registers
BY DEF InItsRegister, Reg, InRegister, IsState

(* A frame with the same register. *)
LEMMA SameRegister ==
  ASSUME NEW f, NEW g, InRegister(f), InRegister(g), f.data = g.data
  PROVE  Reg(f) = Reg(g)
BY DEF Reg

(* One operand that became another in this way is one that was replaced.   *)
LEMMA OneReplaced ==
  ASSUME NEW b, NEW c, NEW f, NEW new, OneBecame(b, c, f, new)
  PROVE  /\ Replaces(b, c, 1, 1) /\ GivesBack(b, c, 1, 1)
         /\ Apart(b) => KeepsApart(b, c, 1, 1)
         /\ c.value_stack \in Seq(Frames) /\ Last(c.value_stack) = new
<1> USE DEF OneBecame
<1> DEFINE s == b.value_stack
           u == c.value_stack
<1>1. PICK n \in Nat : n = Len(s)
  BY DEF Typed
<1>2. /\ Front(s) \in Seq(Frames) /\ Len(Front(s)) = n - 1 /\ n >= 1
      /\ \A i \in 1 .. n - 1 : Front(s)[i] = s[i]
      /\ f = s[n]
  BY <1>1, WithoutTop DEF Typed
<1>3. /\ u \in Seq(Frames) /\ Len(u) = n /\ u[n] = new /\ Last(u) = new
      /\ \A i \in 1 .. n - 1 : u[i] = s[i]
  <2> DEFINE F == Frames
             v == Front(s)
  <2>1. v \in Seq(F) /\ new \in F /\ u = Append(v, new)
    BY <1>2
  <2> HIDE DEF F, v, u
  <2>2. /\ u \in Seq(F) /\ Len(u) = Len(v) + 1 /\ u[Len(v) + 1] = new
        /\ \A i \in 1 .. Len(v) : u[i] = v[i]
    BY <2>1, AppendProperties
  <2>3. Len(v) = n - 1 /\ \A i \in 1 .. n - 1 : v[i] = s[i]
    BY <1>2 DEF v
  <2>4. n - 1 + 1 = n
    BY <1>1
  <2>5. Len(u) = n /\ u[n] = new /\ Last(u) = new
    BY <2>2, <2>3, <2>4 DEF Last
  <2>6. \A i \in 1 .. n - 1 : u[i] = s[i]
    BY <2>2, <2>3
  <2> QED
    BY <2>2, <2>5, <2>6 DEF F
<1>4. Replaces(b, c, 1, 1)
  BY <1>1, <1>2, <1>3 DEF Replaces
<1>5. Regs(b, 1) = Reg(f) /\ Regs(c, 1) = Reg(new) /\ LastPlaces(c, 1) = {n}
  <2>1. Regs(b, 1) = Reg(s[n])
    BY <1>1, <1>2, LastFrames
  <2>2. Regs(c, 1) = Reg(u[n]) /\ LastPlaces(c, 1) = {n}
    BY <1>1, <1>2, <1>3, LastFrames
  <2> QED
    BY <1>2, <1>3, <2>1, <2>2
<1>6. GivesBack(b, c, 1, 1)
  BY <1>5 DEF GivesBack
<1>7. ASSUME Apart(b)
      PROVE  KeepsApart(b, c, 1, 1)
  <2>1. /\ Reg(f) \subseteq b.registers_table
        /\ ~b.out_of_registers => (InRegister(f) => f.data \in Registers)
    BY <1>1, <1>2, <1>7 DEF Apart
  <2>2. ASSUME ~c.out_of_registers, InRegister(u[n])
        PROVE  u[n].data \in Registers
    BY <1>3, <2>1, <2>2 DEF Remembers, Typed, IsState
  <2> QED
    BY <1>5, <2>1, <2>2 DEF KeepsApart
<1> QED
  BY <1>3, <1>4, <1>6, <1>7

(* One operand went into its register, and what was made of it is there. *)
LEMMA OneLoaded ==
  ASSUME NEW b, NEW c, NEW d, NEW f, NEW g, NEW new,
         Typed(b), b.value_stack # <<>>, Remembers(b, c), f = Last(b.value_stack),
         InItsRegister(f, g, b, d), c.registers_table = d.registers_table,
         new \in Frames, InRegister(new), new.data = g.data,
         c.value_stack = Append(Front(b.value_stack), new)
  PROVE  OneBecame(b, c, f, new)
<1>1. IsState(b)
  BY DEF Typed
<1>2. Reg(new) = Reg(g)
  BY <1>1, SameRegister, RegisterOf
<1>3. /\ d.registers_table \subseteq b.registers_table \cup Reg(g)
      /\ b.registers_table \subseteq d.registers_table
      /\ Reg(g) \cap (b.registers_table \ Reg(f)) = {}
      /\ Reg(f) \subseteq Reg(g)
      /\ Reg(f) \subseteq b.registers_table => Reg(g) \subseteq d.registers_table
      /\ (InRegister(f) => f.data \in Registers) => g.data \in Registers
  BY <1>1, RegisterOf
<1> QED
  BY <1>2, <1>3 DEF OneBecame

(* Two operands are loaded, the one on top first. *)
LEMMA TwoLoads ==
  ASSUME NEW b, Typed(b), NEW n \in Nat, n = Len(b.value_stack), n >= 2,
         ~Load(Load(b)).reported
  PROVE  LET c == Load(b)
             d == Load(c)
         IN /\ Typed(d) /\ Remembers(b, d) /\ d.out_of_registers = b.out_of_registers
            /\ Len(d.value_stack) = n - 2
            /\ \A i \in 1 .. n - 2 : d.value_stack[i] = b.value_stack[i]
            /\ InItsRegister(b.value_stack[n], d.loaded[2], b, c)
            /\ InItsRegister(b.value_stack[n - 1], d.loaded[1], c, d)
            /\ IsState(c) /\ d.loaded[1] \in Frames /\ d.loaded[2] \in Frames
<1> DEFINE c == Load(b)
           d == Load(c)
<1>1. Remembers(b, c) /\ IsState(c)
  BY LoadRemembers DEF Typed, Remembers
<1>2. Remembers(c, d) /\ ~c.reported
  BY <1>1, LoadRemembers DEF Remembers
<1>3. b.value_stack # <<>>
  BY DEF Typed
<1>4. /\ Typed(c) /\ c.value_stack = Front(b.value_stack)
      /\ c.loaded = << c.loaded[1] >> \o b.loaded
      /\ c.out_of_registers = b.out_of_registers
      /\ InItsRegister(Last(b.value_stack), c.loaded[1], b, c)
  BY <1>2, <1>3, LoadEffect
<1> DEFINE s == b.value_stack
           u == c.value_stack
           v == d.value_stack
<1> HIDE DEF c
<1>5. /\ Len(u) = n - 1 /\ \A i \in 1 .. n - 1 : u[i] = s[i]
      /\ Last(s) = s[n]
  BY <1>3, <1>4, WithoutTop DEF Typed
<1>6. u # <<>>
  BY <1>5
<1>7. /\ Typed(d) /\ v = Front(u)
      /\ d.loaded = << d.loaded[1] >> \o c.loaded
      /\ d.out_of_registers = c.out_of_registers
      /\ InItsRegister(Last(u), d.loaded[1], c, d)
  BY <1>4, <1>6, LoadEffect DEF c
<1> HIDE DEF d
<1>8. /\ Len(v) = n - 1 - 1 /\ \A i \in 1 .. n - 1 - 1 : v[i] = u[i]
      /\ Last(u) = u[n - 1]
  <2>1. n - 1 \in Nat /\ u \in Seq(Frames)
    BY <1>4 DEF Typed
  <2>2. n - 1 = Len(u)
    BY <1>5
  <2>3. /\ Len(Front(u)) = n - 1 - 1 /\ Last(u) = u[n - 1]
        /\ \A i \in 1 .. n - 1 - 1 : Front(u)[i] = u[i]
    <3> HIDE DEF u
    <3> QED
      BY <1>6, <2>1, <2>2, WithoutTop
  <2> QED
    BY <1>7, <2>3
<1>9. /\ n - 1 - 1 = n - 2 /\ n - 1 \in 1 .. n - 1
      /\ \A i \in 1 .. n - 2 : i \in 1 .. n - 1
  OBVIOUS
<1>10. /\ Len(v) = n - 2 /\ \A i \in 1 .. n - 2 : v[i] = s[i]
       /\ Last(u) = s[n - 1]
  BY <1>5, <1>8, <1>9
<1>11. d.loaded[2] = c.loaded[1]
  <2> DEFINE S == Frames \cup {Invalid}
             g == d.loaded[1]
  <2>1. << g >> \in Seq(S) /\ c.loaded \in Seq(S) /\ g \in S
    BY <1>4, <1>7 DEF Typed, InItsRegister
  <2>2. Len(c.loaded) \in Nat /\ Len(c.loaded) >= 1
    <3>1. c.loaded[1] \in S /\ b.loaded \in Seq(S)
      BY <1>4 DEF InItsRegister, Typed
    <3> HIDE DEF S
    <3>2. << c.loaded[1] >> \in Seq(S) /\ Len(<< c.loaded[1] >>) = 1
      BY <3>1
    <3>3. Len(<< c.loaded[1] >> \o b.loaded) = 1 + Len(b.loaded) /\ Len(b.loaded) \in Nat
      BY <3>1, <3>2, ConcatProperties
    <3>4. Len(c.loaded) = 1 + Len(b.loaded)
      BY <1>4, <3>3, Zenon
    <3> QED
      BY <3>3, <3>4
  <2>3. d.loaded = << g >> \o c.loaded
    BY <1>7
  <2> HIDE DEF S, g
  <2>4. Len(<< g >>) = 1
    OBVIOUS
  <2>5. (<< g >> \o c.loaded)[2] = c.loaded[2 - 1]
    BY <2>1, <2>2, <2>4, ConcatProperties
  <2>6. 2 - 1 = 1
    OBVIOUS
  <2> QED
    BY <2>3, <2>5, <2>6, Zenon
<1>12. Remembers(b, d)
  BY <1>1, <1>2, RemembersTwice DEF d
<1> QED
  BY <1>1, <1>4, <1>5, <1>7, <1>10, <1>11, <1>12 DEF c, d, InItsRegister

(* Two operands that became one: their registers are back, or the new one  *)
(* has them.                                                               *)
LEMMA TwoReplaced ==
  ASSUME NEW b, NEW n, NEW c, NEW d, NEW e, NEW r, NEW l,
         TwoBecame(b, n, c, d, e, r, l)
  PROVE  /\ Replaces(b, e, 2, 1) /\ GivesBack(b, e, 2, 1)
         /\ Apart(b) => KeepsApart(b, e, 2, 1)
<1> DEFINE s == b.value_stack
           f == s[n]
           h == s[n - 1]
           T == b.registers_table
           U == c.registers_table
           V == d.registers_table
           W == e.registers_table
           new == e.value_stack[n - 1]
<1> USE DEF TwoBecame
<1>1. n - 2 + 1 = n - 1 /\ n - 1 \in Nat /\ n - 1 >= 1
  OBVIOUS
<1>2. Replaces(b, e, 2, 1)
  BY <1>1 DEF Replaces
<1>3. /\ Regs(b, 2) = Reg(h) \cup Reg(f)
      /\ Regs(e, 1) = Reg(l) /\ LastPlaces(e, 1) = {n - 1}
  <2>1. Reg(new) = Reg(l)
    BY SameRegister, RegisterOf
  <2>2. Regs(b, 2) = Reg(h) \cup Reg(f)
    BY LastFrames
  <2>3. Regs(e, 1) = Reg(e.value_stack[n - 1]) /\ LastPlaces(e, 1) = {n - 1}
    BY <1>1, LastFrames
  <2> QED
    BY <2>1, <2>2, <2>3
<1>4. IsState(b)
  BY DEF Typed
<1>5. /\ Reg(r) = {r.data} \cap Registers /\ Reg(f) \subseteq Reg(r)
      /\ T \subseteq U /\ U \subseteq T \cup Reg(r)
      /\ Reg(r) \cap (T \ Reg(f)) = {}
      /\ Reg(f) \subseteq T => Reg(r) \subseteq U
  BY <1>4, RegisterOf
<1>6. /\ Reg(l) = {l.data} \cap Registers /\ Reg(h) \subseteq Reg(l)
      /\ U \subseteq V /\ V \subseteq U \cup Reg(l)
      /\ Reg(l) \cap (U \ Reg(h)) = {}
      /\ Reg(h) \subseteq U => Reg(l) \subseteq V
  BY RegisterOf
<1>7. W = V \ Reg(r) /\ V \subseteq Registers
  BY <1>5 DEF IsState
<1>8. GivesBack(b, e, 2, 1)
  BY <1>3, <1>5, <1>6, <1>7 DEF GivesBack
<1>9. ASSUME Apart(b)
      PROVE  KeepsApart(b, e, 2, 1)
  <2>1. /\ Reg(f) \subseteq T /\ Reg(h) \subseteq T /\ Reg(f) \cap Reg(h) = {}
        /\ ~b.out_of_registers => (InRegister(h) => h.data \in Registers)
    <3>1. n \in 1 .. Len(s) /\ n - 1 \in 1 .. Len(s) /\ n # n - 1
      BY <1>1
    <3> QED
      BY <1>9, <3>1 DEF Apart
  <2>2. T \ Regs(b, 2) \subseteq W
    BY <1>3, <1>5, <1>6, <1>7
  <2>3. Reg(l) \cap Reg(r) = {}
    <3>1. CASE InRegister(h)
      <4>1. Reg(l) = Reg(h)
        BY <3>1, <1>6 DEF InItsRegister, Reg
      <4> QED
        BY <1>5, <2>1, <4>1
    <3>2. CASE ~InRegister(h)
      <4>1. l.data \notin U
        BY <3>2 DEF InItsRegister
      <4> QED
        BY <1>5, <1>6, <2>1, <4>1
    <3> QED
      BY <3>1, <3>2
  <2>4. Regs(e, 1) \subseteq W
    BY <1>3, <1>5, <1>6, <1>7, <2>1, <2>3
  <2>5. Regs(e, 1) \cap (T \ Regs(b, 2)) = {}
    BY <1>3, <1>5, <1>6
  <2>6. ASSUME ~e.out_of_registers
        PROVE  new.data \in Registers
    BY <2>1, <2>6, RegisterOf DEF Remembers
  <2> QED
    BY <1>3, <2>2, <2>4, <2>5, <2>6 DEF KeepsApart
<1> QED
  BY <1>2, <1>8, <1>9

(* A binary operator puts its result in place of its operands.             *)
LEMMA BinaryEffect ==
  ASSUME NEW b, Typed(b), NEW o \in BinaryOperators, Len(b.value_stack) >= 2,
         ~BinaryOperation(b, o).reported
  PROVE  LET c == BinaryOperation(b, o)
         IN /\ Typed(c) /\ Replaces(b, c, 2, 1) /\ GivesBack(b, c, 2, 1)
            /\ Apart(b) => KeepsApart(b, c, 2, 1)
            /\ Last(c.value_stack).source \in {"Register", "Pointer"}
            /\ InRegister(b.value_stack[Len(b.value_stack) - 1]) =>
                 Last(c.value_stack).data = b.value_stack[Len(b.value_stack) - 1].data
<1> DEFINE c == Load(b)
           d == Load(c)
           e == BinaryOperation(b, o)
<1>1. PICK n \in Nat : n = Len(b.value_stack)
  BY DEF Typed
<1>2. e = Computed(d, o)
  BY DEF BinaryOperation
<1>3. IsState(d)
  BY LoadRemembers DEF Typed, Remembers
<1>4. ~d.reported
  BY <1>2, <1>3, ComputedRemembers DEF Remembers
<1>5. /\ Typed(d) /\ Remembers(b, d) /\ d.out_of_registers = b.out_of_registers
      /\ Len(d.value_stack) = n - 2
      /\ \A i \in 1 .. n - 2 : d.value_stack[i] = b.value_stack[i]
      /\ InItsRegister(b.value_stack[n], d.loaded[2], b, c)
      /\ InItsRegister(b.value_stack[n - 1], d.loaded[1], c, d)
      /\ IsState(c) /\ d.loaded[1] \in Frames /\ d.loaded[2] \in Frames
  BY <1>1, <1>4, TwoLoads
<1> HIDE DEF c, d, e
<1>6. d.loaded[1].source \in {"Register", "Pointer"}
  BY <1>5 DEF InItsRegister
<1>7. PICK new \in Frames :
        /\ new.source \in {"Register", "Pointer"}
        /\ new.data = d.loaded[1].data
        /\ Typed(e) /\ Remembers(d, e)
        /\ e.value_stack = Append(d.value_stack, new)
        /\ e.loaded = d.loaded
        /\ e.registers_table = d.registers_table \ {d.loaded[2].data}
  BY <1>2, <1>5, <1>6, ComputedEffect DEF e
<1>8. Remembers(b, e)
  BY <1>5, <1>7, RemembersTwice
<1>9. /\ e.value_stack \in Seq(Frames) /\ Len(e.value_stack) = n - 1
      /\ \A i \in 1 .. n - 2 : e.value_stack[i] = b.value_stack[i]
      /\ e.value_stack[n - 1] = new /\ Last(e.value_stack) = new
  <2> DEFINE F == Frames
             u == d.value_stack
             v == e.value_stack
  <2>1. u \in Seq(F) /\ new \in F /\ v \in Seq(F) /\ v = Append(u, new)
    BY <1>5, <1>7 DEF Typed
  <2>2. Len(u) = n - 2 /\ n - 2 + 1 = n - 1
    BY <1>1, <1>5
  <2> HIDE DEF F, v, u
  <2>3. /\ Len(v) = Len(u) + 1 /\ v[Len(u) + 1] = new
        /\ \A i \in 1 .. Len(u) : v[i] = u[i]
    BY <2>1, AppendProperties
  <2>4. Len(v) = n - 1 /\ v[n - 1] = new /\ Last(v) = new
    BY <2>2, <2>3 DEF Last
  <2>5. \A i \in 1 .. n - 2 : v[i] = u[i]
    BY <2>2, <2>3
  <2> QED
    BY <1>5, <2>1, <2>4, <2>5 DEF F, u, v
<1>10. InRegister(new)
  BY <1>7 DEF InRegister
<1>11. TwoBecame(b, n, c, d, e, d.loaded[2], d.loaded[1])
  <2>1. n >= 2
    BY <1>1
  <2> QED
    BY <1>1, <1>3, <1>5, <1>7, <1>8, <1>9, <1>10, <2>1 DEF TwoBecame
<1>12. /\ Replaces(b, e, 2, 1) /\ GivesBack(b, e, 2, 1)
       /\ Apart(b) => KeepsApart(b, e, 2, 1)
  BY <1>11, TwoReplaced
<1>13. InRegister(b.value_stack[n - 1]) => new.data = b.value_stack[n - 1].data
  BY <1>5, <1>7 DEF InItsRegister
<1> QED
  BY <1>1, <1>7, <1>9, <1>12, <1>13 DEF e

(* Applied to the loaded operand, a unary operator leaves it in its        *)
(* register.                                                               *)
LEMMA AppliedRemembers ==
  ASSUME NEW b, IsState(b), NEW o \in {"Negative", "BitNot"}
  PROVE  Remembers(b, Applied(b, o))
<1>1. \A e, f : Remembers(b, Pushed(Emitted(b, e), f))
  <2>1. \A e : Remembers(b, Emitted(b, e)) /\ IsState(Emitted(b, e))
    BY SmallRemember DEF Remembers
  <2>2. \A e, f : Remembers(Emitted(b, e), Pushed(Emitted(b, e), f))
    BY <2>1, SmallRemember
  <2> QED
    BY <2>1, <2>2, RemembersTwice
<1>2. Remembers(b, Reported(b))
  BY SmallRemember
<1>3. CASE o = "Negative"
  BY <1>1, <1>2, <1>3 DEF Applied
<1>4. CASE o = "BitNot"
  BY <1>1, <1>4 DEF Applied
<1> QED
  BY <1>3, <1>4

(* What the unary operators that have code do.                             *)
LEMMA UnaryEffect ==
  ASSUME NEW b, Typed(b), NEW o \in {"Negative", "BitNot"}, b.value_stack # <<>>,
         ~UnaryOperation(b, o).reported
  PROVE  LET c == UnaryOperation(b, o)
         IN /\ Typed(c) /\ Replaces(b, c, 1, 1) /\ GivesBack(b, c, 1, 1)
            /\ Apart(b) => KeepsApart(b, c, 1, 1)
            /\ Last(c.value_stack).source \in {"Register", "Pointer"}
<1> DEFINE c == Load(b)
           e == UnaryOperation(b, o)
           g == c.loaded[1]
<1>1. e = Applied(c, o)
  BY DEF UnaryOperation
<1>2. IsState(c) /\ Remembers(b, c)
  BY LoadRemembers DEF Typed, Remembers
<1>3. ~c.reported
  BY <1>1, <1>2, AppliedRemembers DEF Remembers
<1>4. /\ Typed(c) /\ c.value_stack = Front(b.value_stack)
      /\ InItsRegister(Last(b.value_stack), g, b, c)
  BY <1>3, LoadEffect
<1> HIDE DEF c, e, g
<1>5. PICK x : e = Pushed(Emitted(c, x), g)
  <2>1. e # Reported(c)
    BY <1>2, SmallRemember DEF e
  <2>2. CASE o = "Negative"
    BY <1>1, <2>1, <2>2 DEF Applied, g
  <2>3. CASE o = "BitNot"
    BY <1>1, <2>3 DEF Applied, g
  <2> QED
    BY <2>2, <2>3
<1> DEFINE d == Emitted(c, x)
<1>6. Quiet(c, d) /\ IsState(d)
  BY <1>2, QuietSteps DEF Quiet, Remembers
<1> HIDE DEF d
<1>7. /\ Fields(e, Append(d.value_stack, g), d.registers_table,
                d.loaded, d.reported, d.out_of_registers)
      /\ Remembers(d, e) /\ IsState(e)
  BY <1>5, <1>6, Small, SmallRemember DEF Remembers, d
<1>8. /\ e.value_stack = Append(Front(b.value_stack), g)
      /\ e.registers_table = c.registers_table /\ e.loaded = c.loaded
  BY <1>4, <1>6, <1>7 DEF Quiet, Fields
<1>9. g \in Frames /\ InRegister(g) /\ g.source \in {"Register", "Pointer"}
  BY <1>4 DEF InItsRegister, InRegister
<1>10. Typed(e) /\ Last(e.value_stack) = g
  <2> DEFINE F == Frames
             u == Front(b.value_stack)
  <2>1. u \in Seq(F) /\ g \in F
    BY <1>4, <1>9 DEF Typed
  <2> HIDE DEF F, u
  <2>2. /\ Append(u, g) \in Seq(F) /\ Len(Append(u, g)) = Len(u) + 1
        /\ Append(u, g)[Len(u) + 1] = g
    BY <2>1, AppendProperties
  <2>3. Last(Append(u, g)) = g
    BY <2>2 DEF Last
  <2> QED
    BY <1>4, <1>7, <1>8, <2>2, <2>3 DEF Typed, F, u
<1>11. Remembers(b, e)
  BY <1>2, <1>6, <1>7, RemembersTwice DEF Quiet
<1>12. OneBecame(b, e, Last(b.value_stack), g)
  BY <1>4, <1>8, <1>9, <1>11, OneLoaded
<1>13. /\ Replaces(b, e, 1, 1) /\ GivesBack(b, e, 1, 1)
       /\ Apart(b) => KeepsApart(b, e, 1, 1)
  BY <1>12, OneReplaced
<1> QED
  BY <1>9, <1>10, <1>13 DEF e

-----------------------------------------------------------------------------
(* The handler of pointers.                                                *)

(* The frames of a pointer to an operand, and of what is behind one. *)
LEMMA PointerToFrame ==
  ASSUME NEW s, NEW d, NEW p, NEW q, NEW x, NEW y, NEW k, NEW t, NEW f,
         f = [source |-> s, data |-> d, dynamic |-> p, static |-> q,
              dynamicSize |-> x, staticSize |-> y,
              info |-> [depth |-> k, base |-> t]]
  PROVE  PointerTo(f) =
           [source |-> "Pointer", data |-> d, dynamic |-> "UInt", static |-> q,
            dynamicSize |-> Size, staticSize |-> y,
            info |-> [depth |-> k + 1, base |-> t]]
<1> DEFINE g == [f EXCEPT !.info.depth = @ + 1]
           h == [g EXCEPT !.source = "Pointer"]
           u == [h EXCEPT !.dynamic = "UInt"]
<1>1. PointerTo(f) = [u EXCEPT !.dynamicSize = Size]
  BY DEF PointerTo
<1>2. g = [source |-> s, data |-> d, dynamic |-> p, static |-> q,
           dynamicSize |-> x, staticSize |-> y,
           info |-> [depth |-> k + 1, base |-> t]]
  OBVIOUS
<1> HIDE DEF g
<1>3. h = [source |-> "Pointer", data |-> d, dynamic |-> p, static |-> q,
           dynamicSize |-> x, staticSize |-> y,
           info |-> [depth |-> k + 1, base |-> t]]
  BY <1>2
<1> HIDE DEF h
<1>4. u = [source |-> "Pointer", data |-> d, dynamic |-> "UInt", static |-> q,
           dynamicSize |-> x, staticSize |-> y,
           info |-> [depth |-> k + 1, base |-> t]]
  BY <1>3
<1> HIDE DEF u
<1> QED
  BY <1>1, <1>4

(* What a type is taken for, and how many bytes it has.                    *)
LEMMA SizesOfBases ==
  ASSUME NEW p \in Bases
  PROVE  /\ Analog(p) \in Primitives
         /\ AlignedSize(p) \in Nat \ {0} /\ Size \in Nat \ {0}
BY TranslatorAssumption DEF Bases, Analog, AlignedSize, Primitives

(* The frame behind a pointer: a pointer again, or what is at an address.  *)
LEMMA DereferencedFrame ==
  ASSUME NEW f \in Frames, f.info.depth > 0
  PROVE  /\ f.info.depth > 1 =>
              Dereferenced(f) =
                [source |-> f.source, data |-> f.data, dynamic |-> f.dynamic,
                 static |-> f.static,
                 dynamicSize |-> f.dynamicSize, staticSize |-> f.staticSize,
                 info |-> [depth |-> f.info.depth - 1, base |-> f.info.base]]
         /\ f.info.depth = 1 =>
              Dereferenced(f) =
                [source |-> "DynamicAddress", data |-> f.data,
                 dynamic |-> Analog(f.info.base), static |-> f.static,
                 dynamicSize |-> AlignedSize(f.info.base), staticSize |-> f.staticSize,
                 info |-> [depth |-> 0, base |-> f.info.base]]
<1> DEFINE k == f.info.depth - 1
<1>1. k \in Nat /\ f.info.depth \in Nat /\ (k > 0 <=> f.info.depth > 1)
  <2>1. f.info.depth \in Nat
    BY FrameFields
  <2> QED
    BY <2>1
<1>2. \A m : [f EXCEPT !.info.depth = m] =
        [source |-> f.source, data |-> f.data, dynamic |-> f.dynamic,
         static |-> f.static,
         dynamicSize |-> f.dynamicSize, staticSize |-> f.staticSize,
         info |-> [depth |-> m, base |-> f.info.base]]
  BY DEF Frames
<1>3. CASE f.info.depth > 1
  <2>1. Dereferenced(f) = [f EXCEPT !.info.depth = k]
    BY <1>1, <1>3 DEF Dereferenced
  <2> HIDE DEF k
  <2>2. Dereferenced(f) =
          [source |-> f.source, data |-> f.data, dynamic |-> f.dynamic,
           static |-> f.static,
           dynamicSize |-> f.dynamicSize, staticSize |-> f.staticSize,
           info |-> [depth |-> k, base |-> f.info.base]]
    BY <1>2, <2>1, Zenon
  <2> QED
    BY <1>3, <2>2 DEF k
<1>4. CASE f.info.depth = 1
  <2> DEFINE g == [f EXCEPT !.info.depth = 0]
             h == [g EXCEPT !.source = "DynamicAddress"]
             u == [h EXCEPT !.dynamic = Analog(f.info.base)]
  <2>1. Dereferenced(f) = [u EXCEPT !.dynamicSize = AlignedSize(f.info.base)]
    BY <1>1, <1>4 DEF Dereferenced
  <2>2. g = [source |-> f.source, data |-> f.data, dynamic |-> f.dynamic,
             static |-> f.static,
             dynamicSize |-> f.dynamicSize, staticSize |-> f.staticSize,
             info |-> [depth |-> 0, base |-> f.info.base]]
    BY <1>2
  <2> HIDE DEF g
  <2>3. h = [source |-> "DynamicAddress", data |-> f.data, dynamic |-> f.dynamic,
             static |-> f.static,
             dynamicSize |-> f.dynamicSize, staticSize |-> f.staticSize,
             info |-> [depth |-> 0, base |-> f.info.base]]
    BY <2>2
  <2> HIDE DEF h
  <2>4. u = [source |-> "DynamicAddress", data |-> f.data,
             dynamic |-> Analog(f.info.base), static |-> f.static,
             dynamicSize |-> f.dynamicSize, staticSize |-> f.staticSize,
             info |-> [depth |-> 0, base |-> f.info.base]]
    BY <2>3
  <2> HIDE DEF u
  <2> QED
    BY <1>4, <2>1, <2>4
<1> QED
  BY <1>3, <1>4

(* What follows a pointer in a register is in that register, or behind it. *)
LEMMA DereferencedIsFrame ==
  ASSUME NEW f \in Frames, f.info.depth > 0, f.source \in {"Register", "Pointer"}
  PROVE  /\ Dereferenced(f) \in Frames /\ InRegister(Dereferenced(f))
         /\ Dereferenced(f).data = f.data
<1>1. /\ f.data \in 0 .. InvalidRegister /\ f.info.base \in Bases
      /\ f.info.depth \in Nat /\ f.static \in Primitives /\ f.dynamic \in Primitives
      /\ f.dynamicSize \in Nat /\ f.staticSize \in Nat
  BY FrameFields DEF Suits, InRegister, IsPointer
<1>2. CASE f.info.depth > 1
  <2> DEFINE i == [depth |-> f.info.depth - 1, base |-> f.info.base]
  <2>1. i \in [depth : Nat, base : Bases \cup {"Invalid"}] /\ i.base \in Bases
    BY <1>1, <1>2
  <2>2. Dereferenced(f) =
          [source |-> f.source, data |-> f.data, dynamic |-> f.dynamic,
           static |-> f.static,
           dynamicSize |-> f.dynamicSize, staticSize |-> f.staticSize,
           info |-> i]
    BY <1>2, DereferencedFrame
  <2> HIDE DEF i
  <2> QED
    BY <1>1, <2>1, <2>2, MakesRegisterFrame
<1>3. CASE f.info.depth = 1
  <2> DEFINE i == [depth |-> 0, base |-> f.info.base]
  <2>1. i \in [depth : Nat, base : Bases \cup {"Invalid"}] /\ i.base \in Bases
    BY <1>1
  <2>2. Dereferenced(f) =
          [source |-> "DynamicAddress", data |-> f.data,
           dynamic |-> Analog(f.info.base), static |-> f.static,
           dynamicSize |-> AlignedSize(f.info.base), staticSize |-> f.staticSize,
           info |-> i]
    BY <1>3, DereferencedFrame
  <2> HIDE DEF i
  <2>3. Analog(f.info.base) \in Primitives /\ AlignedSize(f.info.base) \in Nat
    BY <1>1, SizesOfBases
  <2> QED
    BY <1>1, <2>1, <2>2, <2>3, MakesRegisterFrame
<1> QED
  BY <1>1, <1>2, <1>3

(* & x.  The address goes into a register that was free; when there was    *)
(* none, the lack is noted.                                                *)
LEMMA PointerTakenEffect ==
  ASSUME NEW b, Typed(b), b.value_stack # <<>>, ~PointerTaken(b).reported
  PROVE  LET c == PointerTaken(b)
         IN /\ IsState(c) /\ c.loaded = b.loaded
            /\ \E f, new : OneBecame(b, c, f, new)
<1> DEFINE c == PointerTaken(b)
           f == Last(b.value_stack)
           p == Popped(b)
<1>0. IsState(b) /\ f \in Frames
  BY WithoutLast DEF Typed
<1>1. /\ Fields(p, Front(b.value_stack), b.registers_table,
                b.loaded, b.reported, b.out_of_registers)
      /\ IsState(p) /\ Remembers(b, p)
  BY <1>0, Small, SmallRemember DEF Remembers
<1>2. /\ f.info = [depth |-> f.info.depth, base |-> f.info.base]
      /\ f.info.depth \in Nat /\ f.static \in Primitives
      /\ f.staticSize \in Nat /\ Size \in Nat
      /\ f = [source |-> f.source, data |-> f.data, dynamic |-> f.dynamic,
              static |-> f.static,
              dynamicSize |-> f.dynamicSize, staticSize |-> f.staticSize,
              info |-> f.info]
  BY <1>0, FrameFields, TranslatorAssumption
<1> DEFINE i == [depth |-> f.info.depth + 1, base |-> f.info.base]
           Pointer(r) == [source |-> "Pointer", data |-> r, dynamic |-> "UInt",
                          static |-> f.static,
                          dynamicSize |-> Size, staticSize |-> f.staticSize,
                          info |-> i]
<1>3. ASSUME NEW r \in 0 .. InvalidRegister, f.info.base \in Bases
      PROVE  /\ Pointer(r) \in Frames /\ InRegister(Pointer(r)) /\ Pointer(r).data = r
  <2>1. i \in [depth : Nat, base : Bases \cup {"Invalid"}] /\ i.base \in Bases
    BY <1>2, <1>3
  <2>2. "UInt" \in Primitives
    BY DEF Primitives
  <2> HIDE DEF i
  <2> QED
    BY <1>2, <1>3, <2>1, <2>2, MakesRegisterFrame
<1>4. CASE AtFixedAddress(f)
  <2> DEFINE r == FindFreeGeneral(p)
             a == Allocated(p)
             d == Emitted(a, <<"LEA_STATIC", Argument(f), r>>)
             g == [f EXCEPT !.data = r]
  <2>1. c = Pushed(d, PointerTo(g))
    BY <1>4 DEF PointerTaken, Top, AtFixedAddress
  <2>2. g = [source |-> f.source, data |-> r, dynamic |-> f.dynamic,
             static |-> f.static,
             dynamicSize |-> f.dynamicSize, staticSize |-> f.staticSize,
             info |-> f.info]
    BY <1>0, ChangedFrame
  <2>3. PointerTo(g) = Pointer(r)
    <3> HIDE DEF g, r
    <3>1. g = [source |-> f.source, data |-> r, dynamic |-> f.dynamic,
               static |-> f.static,
               dynamicSize |-> f.dynamicSize, staticSize |-> f.staticSize,
               info |-> [depth |-> f.info.depth, base |-> f.info.base]]
      BY <1>2, <2>2
    <3> QED
      BY <3>1, PointerToFrame
  <2>4. r \in 0 .. InvalidRegister /\ f.info.base \in Bases /\ ~InRegister(f)
    BY <1>0, <1>1, <1>4, FirstFree, FrameFields DEF Suits, AtFixedAddress, InRegister
  <2>5. Pointer(r) \in Frames /\ InRegister(Pointer(r)) /\ Pointer(r).data = r
    BY <1>3, <2>4
  <2>6. Remembers(p, a) /\ IsState(a)
    BY <1>1, SmallRemember DEF Remembers
  <2>7. Quiet(a, d) /\ IsState(d)
    BY <2>6, QuietSteps DEF Quiet, Remembers
  <2> DEFINE new == Pointer(r)
  <2> HIDE DEF a, d, g, Pointer, r
  <2>8. /\ Fields(c, Append(d.value_stack, new), d.registers_table,
                  d.loaded, d.reported, d.out_of_registers)
        /\ Remembers(d, c) /\ IsState(c)
    BY <2>1, <2>3, <2>7, Small, SmallRemember DEF Remembers
  <2>9. Remembers(b, c)
    BY <1>1, <2>6, <2>7, <2>8, RemembersTwice DEF Quiet
  <2>10. /\ a.value_stack = Front(b.value_stack) /\ a.loaded = b.loaded
         /\ r # InvalidRegister => /\ r \in Registers \ b.registers_table
                                   /\ a.registers_table = b.registers_table \cup {r}
         /\ r = InvalidRegister => /\ a.registers_table = b.registers_table
                                   /\ a.out_of_registers = TRUE
    BY <1>1, Allocating, FirstFree DEF Fields, a, r
  <2>11. /\ c.value_stack = Append(Front(b.value_stack), new) /\ c.loaded = b.loaded
         /\ c.registers_table = a.registers_table
         /\ c.out_of_registers = d.out_of_registers
    BY <2>7, <2>8, <2>10 DEF Fields, Quiet
  <2>12. Reg(f) = {} /\ Reg(new) = {r} \cap Registers
    BY <2>4, <2>5 DEF Reg
  <2>13. InvalidRegister \notin Registers
    BY TranslatorAssumption DEF InvalidRegister, Registers
  <2>14. ~c.out_of_registers => r # InvalidRegister
    BY <2>7, <2>10, <2>11 DEF Quiet, Remembers
  <2>15. OneBecame(b, c, f, new)
    <3>1. CASE r = InvalidRegister
      BY <2>5, <2>9, <2>10, <2>11, <2>12, <2>13, <2>14, <3>1 DEF OneBecame
    <3>2. CASE r # InvalidRegister
      BY <2>5, <2>9, <2>10, <2>11, <2>12, <3>2 DEF OneBecame
    <3> QED
      BY <3>1, <3>2
  <2> QED
    BY <2>8, <2>11, <2>15
<1>5. CASE f.source = "DynamicAddress"
  <2>1. c = Pushed(p, PointerTo(f))
    BY <1>5 DEF PointerTaken, Top, AtFixedAddress
  <2>2. PointerTo(f) = Pointer(f.data)
    <3>1. f = [source |-> f.source, data |-> f.data, dynamic |-> f.dynamic,
               static |-> f.static,
               dynamicSize |-> f.dynamicSize, staticSize |-> f.staticSize,
               info |-> [depth |-> f.info.depth, base |-> f.info.base]]
      BY <1>2
    <3> QED
      BY <3>1, PointerToFrame
  <2>3. f.data \in 0 .. InvalidRegister /\ f.info.base \in Bases /\ InRegister(f)
    BY <1>0, <1>5, FrameFields DEF Suits, InRegister
  <2> DEFINE new == Pointer(f.data)
  <2>4. new \in Frames /\ InRegister(new) /\ new.data = f.data
    BY <1>3, <2>3
  <2> HIDE DEF Pointer
  <2>5. /\ Fields(c, Append(p.value_stack, new), p.registers_table,
                  p.loaded, p.reported, p.out_of_registers)
        /\ Remembers(p, c) /\ IsState(c)
    BY <1>1, <2>1, <2>2, Small, SmallRemember DEF Remembers
  <2>6. Remembers(b, c)
    BY <1>1, <2>5, RemembersTwice
  <2>7. /\ c.value_stack = Append(Front(b.value_stack), new) /\ c.loaded = b.loaded
        /\ c.registers_table = b.registers_table
    BY <1>1, <2>5 DEF Fields
  <2>8. Reg(new) = Reg(f)
    BY <2>3, <2>4, SameRegister
  <2>9. OneBecame(b, c, f, new)
    BY <2>3, <2>4, <2>6, <2>7, <2>8 DEF OneBecame
  <2> QED
    BY <2>5, <2>7, <2>9
<1>6. CASE ~AtFixedAddress(f) /\ f.source # "DynamicAddress"
  <2>1. c = Reported(p)
    BY <1>6 DEF PointerTaken, Top
  <2> QED
    BY <1>1, <2>1, SmallRemember
<1> QED
  BY <1>4, <1>5, <1>6

(* What Behind pushes. *)
LEMMA BehindPushes ==
  ASSUME NEW b, IsState(b), NEW g
  PROVE  \E q : Quiet(b, q) /\ Behind(b, g) = Pushed(q, Dereferenced(g))
<1>1. Quiet(b, b) /\ \A e : Quiet(b, Emitted(b, e))
  BY QuietSteps
<1> QED
  BY <1>1 DEF Behind

(* What follows for the other fields of the state.                         *)
LEMMA BehindRemembers ==
  ASSUME NEW b, IsState(b), NEW g
  PROVE  /\ Remembers(b, Behind(b, g))
         /\ Behind(b, g).value_stack = Append(b.value_stack, Dereferenced(g))
         /\ Behind(b, g).registers_table = b.registers_table
         /\ Behind(b, g).loaded = b.loaded
<1>1. PICK q : Quiet(b, q) /\ Behind(b, g) = Pushed(q, Dereferenced(g))
  BY BehindPushes
<1> DEFINE h == Dereferenced(g)
           c == Pushed(q, h)
<1>2. IsState(q) /\ Remembers(b, q)
  BY <1>1 DEF Quiet, Remembers
<1> HIDE DEF h
<1>3. /\ Fields(c, Append(q.value_stack, h), q.registers_table, q.loaded,
                q.reported, q.out_of_registers)
      /\ Remembers(q, c)
  BY <1>2, Small, SmallRemember
<1>4. Remembers(b, c)
  BY <1>2, <1>3, RemembersTwice
<1>5. /\ c.value_stack = Append(b.value_stack, h)
      /\ c.registers_table = b.registers_table /\ c.loaded = b.loaded
  BY <1>1, <1>3 DEF Fields, Quiet
<1> QED
  BY <1>1, <1>4, <1>5 DEF h

(* What is behind a pointer that is in a register takes its place. *)
LEMMA BehindLoaded ==
  ASSUME NEW b, Typed(b), b.value_stack # <<>>, NEW d, IsState(d), Remembers(b, d),
         d.value_stack = Front(b.value_stack),
         NEW f, f = Last(b.value_stack), f.info.depth > 0,
         NEW g, InItsRegister(f, g, b, d)
  PROVE  OneBecame(b, Behind(d, g), f, Dereferenced(g))
<1> DEFINE c == Behind(d, g)
           new == Dereferenced(g)
<1>1. g \in Frames /\ g.info.depth > 0 /\ g.source \in {"Register", "Pointer"}
  BY DEF InItsRegister
<1>2. new \in Frames /\ InRegister(new) /\ new.data = g.data
  BY <1>1, DereferencedIsFrame
<1>3. /\ Remembers(d, c) /\ c.value_stack = Append(d.value_stack, new)
      /\ c.registers_table = d.registers_table
  BY BehindRemembers
<1> HIDE DEF c, new
<1>4. Remembers(b, c)
  BY <1>3, RemembersTwice
<1>5. OneBecame(b, c, f, new)
  BY <1>2, <1>3, <1>4, OneLoaded
<1> QED
  BY <1>5 DEF c, new

(* What is behind a pointer is in the register of the pointer, or behind   *)
(* it.                                                                     *)
LEMMA PointerFollowedEffect ==
  ASSUME NEW b, Typed(b), b.value_stack # <<>>, Last(b.value_stack).info.depth > 0,
         ~PointerFollowed(b).reported
  PROVE  LET c == PointerFollowed(b)
         IN \E f, new : OneBecame(b, c, f, new)
<1> DEFINE c == PointerFollowed(b)
           f == Last(b.value_stack)
<1>0. IsState(b) /\ f \in Frames
  BY WithoutLast DEF Typed
<1>1. CASE AtFixedAddress(f) \/ f.source = "DynamicAddress"
  <2> DEFINE d == Load(b)
             g == d.loaded[1]
  <2>1. c = Followed(d, g)
    BY <1>1 DEF PointerFollowed, FollowedLoaded, Top, AtFixedAddress
  <2>2. IsState(d) /\ Remembers(b, d)
    BY <1>0, LoadRemembers DEF Remembers
  <2>3. Remembers(d, c)
    <3> HIDE DEF d, g
    <3>1. Remembers(d, Reported(d)) /\ Remembers(d, Behind(d, g))
      BY <2>2, SmallRemember, BehindRemembers
    <3> QED
      BY <2>1, <3>1 DEF Followed
  <2>4. ~d.reported
    BY <2>3 DEF Remembers
  <2>5. d.value_stack = Front(b.value_stack) /\ InItsRegister(f, g, b, d)
    BY <2>4, LoadEffect
  <2> HIDE DEF d, g
  <2>6. c = Behind(d, g)
    BY <2>1, <2>5 DEF Followed, InItsRegister
  <2>7. OneBecame(b, c, f, Dereferenced(g))
    BY <2>2, <2>5, <2>6, BehindLoaded
  <2> QED
    BY <2>7
<1>2. CASE ~(AtFixedAddress(f) \/ f.source = "DynamicAddress")
  <2> DEFINE d == Popped(b)
  <2>1. c = Followed(d, f)
    BY <1>2 DEF PointerFollowed, Top, AtFixedAddress
  <2>2. /\ IsState(d) /\ Remembers(b, d)
        /\ Fields(d, Front(b.value_stack), b.registers_table, b.loaded,
                  b.reported, b.out_of_registers)
    BY <1>0, Small, SmallRemember DEF Remembers
  <2>3. f.source \in {"Register", "Pointer"}
    <3>1. CASE f.source \notin {"Register", "Pointer"}
      <4>1. c = Reported(d)
        BY <2>1, <3>1 DEF Followed
      <4> QED
        BY <2>2, <4>1, SmallRemember
    <3> QED
      BY <3>1
  <2>4. c = Behind(d, f)
    BY <2>1, <2>3 DEF Followed
  <2>5. InItsRegister(f, f, b, d)
    <3>1. f.data \in 0 .. InvalidRegister /\ InRegister(f)
      BY <1>0, <2>3, FrameFields DEF Suits, InRegister
    <3> QED
      BY <1>0, <2>2, <2>3, <3>1 DEF InItsRegister, Fields
  <2>6. d.value_stack = Front(b.value_stack)
    BY <2>2 DEF Fields
  <2> HIDE DEF d
  <2>7. OneBecame(b, c, f, Dereferenced(f))
    BY <2>2, <2>4, <2>5, <2>6, BehindLoaded
  <2> QED
    BY <2>7
<1> QED
  BY <1>1, <1>2

(* a[i]: the index gives its register back.                                *)
LEMMA IndexedEffect ==
  ASSUME NEW b, Typed(b), Len(b.value_stack) >= 2,
         b.value_stack[Len(b.value_stack) - 1].info.depth > 0,
         ~Indexed(b).reported
  PROVE  LET e == Indexed(b)
         IN \E n, c, d, r, l : TwoBecame(b, n, c, d, e, r, l)
<1> DEFINE c == Load(b)
           d == Load(c)
           e == Indexed(b)
           l == d.loaded[1]
           r == d.loaded[2]
           scaled == IF l.info.base # "Invalid" THEN Scaled(d, l, r, r.dynamic) ELSE d
           x == <<"ADD", r.dynamic, l.data, l.data, r.data>>
           y == Freed(Emitted(scaled, x), r.data)
<1>1. PICK n \in Nat : n = Len(b.value_stack) /\ n >= 2
  BY DEF Typed
<1>2. e = Element(d)
  BY DEF Indexed
<1>3. IsState(d)
  BY LoadRemembers DEF Typed, Remembers
<1>4. Quiet(d, scaled) /\ IsState(scaled)
  <2> HIDE DEF c, d, l, r
  <2>1. Quiet(d, d) /\ Quiet(d, Scaled(d, l, r, r.dynamic))
    BY <1>3, QuietSteps, ScaledIsQuiet
  <2>2. Quiet(d, scaled)
    BY <2>1
  <2> QED
    BY <2>2 DEF Quiet, Remembers
<1>5. Quiet(d, Emitted(scaled, x)) /\ IsState(Emitted(scaled, x))
  <2> HIDE DEF scaled, x
  <2>1. Quiet(scaled, Emitted(scaled, x)) /\ IsState(Emitted(scaled, x))
    <3>1. Quiet(scaled, Emitted(scaled, x))
      BY <1>4, QuietSteps
    <3> QED
      BY <3>1 DEF Quiet, Remembers
  <2> QED
    BY <1>4, <2>1, QuietTwice
<1>6. /\ Fields(y, d.value_stack, d.registers_table \ {r.data}, d.loaded,
                Emitted(scaled, x).reported, Emitted(scaled, x).out_of_registers)
      /\ Remembers(d, y) /\ IsState(y)
  <2>1. /\ Fields(y, Emitted(scaled, x).value_stack,
                  Emitted(scaled, x).registers_table \ {r.data},
                  Emitted(scaled, x).loaded,
                  Emitted(scaled, x).reported, Emitted(scaled, x).out_of_registers)
        /\ Remembers(Emitted(scaled, x), y)
    BY <1>5, Small, SmallRemember
  <2> HIDE DEF scaled, x, d, r
  <2>2. Remembers(d, y)
    BY <1>5, <2>1, RemembersTwice DEF Quiet
  <2> QED
    BY <1>5, <2>1, <2>2 DEF Quiet, Remembers
<1>7. e = IF l.source \in {"Pointer", "Register"} THEN Behind(y, l) ELSE Reported(d)
  BY <1>2 DEF Element
<1> HIDE DEF y, scaled, x
<1>8. Remembers(d, e)
  <2>1. Remembers(y, Behind(y, l)) /\ Remembers(d, Reported(d))
    BY <1>3, <1>6, BehindRemembers, SmallRemember
  <2> QED
    BY <1>6, <1>7, <2>1, RemembersTwice
<1>9. ~d.reported
  BY <1>8 DEF Remembers
<1>10. /\ Typed(d) /\ Remembers(b, d) /\ d.out_of_registers = b.out_of_registers
       /\ Len(d.value_stack) = n - 2
       /\ \A i \in 1 .. n - 2 : d.value_stack[i] = b.value_stack[i]
       /\ InItsRegister(b.value_stack[n], r, b, c)
       /\ InItsRegister(b.value_stack[n - 1], l, c, d)
       /\ IsState(c) /\ l \in Frames /\ r \in Frames
  BY <1>1, <1>9, TwoLoads
<1> HIDE DEF c, d, e, l, r
<1>11. e = Behind(y, l)
  BY <1>7, <1>10 DEF InItsRegister
<1> DEFINE new == Dereferenced(l)
<1>12. /\ Remembers(y, e) /\ e.value_stack = Append(y.value_stack, new)
       /\ e.registers_table = y.registers_table
  BY <1>6, <1>11, BehindRemembers
<1>13. new \in Frames /\ InRegister(new) /\ new.data = l.data
  <2>1. l.info.depth > 0 /\ l.source \in {"Register", "Pointer"}
    BY <1>1, <1>10 DEF InItsRegister
  <2> QED
    BY <1>10, <2>1, DereferencedIsFrame
<1> HIDE DEF new
<1>14. /\ e.value_stack = Append(d.value_stack, new)
       /\ e.registers_table = d.registers_table \ {r.data}
       /\ Remembers(b, e)
  BY <1>6, <1>8, <1>10, <1>12, RemembersTwice DEF Fields
<1>15. /\ e.value_stack \in Seq(Frames) /\ Len(e.value_stack) = n - 1
       /\ \A i \in 1 .. n - 2 : e.value_stack[i] = b.value_stack[i]
       /\ e.value_stack[n - 1] = new
  <2> DEFINE F == Frames
             u == d.value_stack
             v == e.value_stack
  <2>1. u \in Seq(F) /\ new \in F /\ v = Append(u, new)
    BY <1>10, <1>13, <1>14 DEF Typed
  <2>2. Len(u) = n - 2 /\ n - 2 + 1 = n - 1
    BY <1>1, <1>10
  <2> HIDE DEF F, v, u
  <2>3. /\ v \in Seq(F) /\ Len(v) = Len(u) + 1 /\ v[Len(u) + 1] = new
        /\ \A i \in 1 .. Len(u) : v[i] = u[i]
    BY <2>1, AppendProperties
  <2>4. Len(v) = n - 1 /\ v[n - 1] = new
    BY <2>2, <2>3
  <2>5. \A i \in 1 .. n - 2 : v[i] = u[i]
    BY <2>2, <2>3
  <2> QED
    BY <1>10, <2>3, <2>4, <2>5 DEF F, u, v
<1>16. TwoBecame(b, n, c, d, e, r, l)
  BY <1>1, <1>3, <1>10, <1>13, <1>14, <1>15 DEF TwoBecame
<1> QED
  BY <1>16 DEF e

-----------------------------------------------------------------------------
(* Operands of a program, and registers H that others have.                *)

(* Operands that are replaced by others with registers of their own stay   *)
(* apart from each other and from what else is in the table.               *)
LEMMA StaysHeld ==
  ASSUME NEW b, NEW c, NEW k \in Nat, NEW m \in Nat, NEW H, Typed(b),
         Replaces(b, c, k, m), KeepsApart(b, c, k, m), Held(b, H)
  PROVE  Held(c, H)
<1> DEFINE s == b.value_stack
           u == c.value_stack
           T == b.registers_table
           U == c.registers_table
<1>1. PICK n \in Nat : n = Len(s)
  BY DEF Typed
<1>2. PICK l \in Nat : l = Len(u)
  <2>1. u \in Seq(Frames)
    BY DEF Replaces
  <2> QED
    BY <2>1
<1>3. k <= n /\ l = n - k + m /\ \A i \in 1 .. n - k : u[i] = s[i]
  BY <1>1, <1>2 DEF Replaces
<1>4. ASSUME NEW i \in 1 .. n - k
      PROVE  /\ i \in 1 .. n /\ u[i] = s[i]
             /\ Reg(u[i]) \subseteq T \ Regs(b, k)
             /\ Reg(u[i]) \cap H = {}
             /\ ~c.out_of_registers => (InRegister(u[i]) => u[i].data \in Registers)
  <2>1. i \in 1 .. n /\ u[i] = s[i]
    BY <1>1, <1>3
  <2>2. \A j \in LastPlaces(b, k) : j \in 1 .. n /\ i # j
    BY <1>1, <1>3 DEF LastPlaces
  <2>3. Reg(s[i]) \cap Regs(b, k) = {}
    BY <1>1, <2>1, <2>2 DEF Held, Apart, Regs
  <2>4. ~c.out_of_registers => ~b.out_of_registers
    BY DEF Replaces, Remembers, Typed, IsState
  <2> QED
    BY <1>1, <2>1, <2>3, <2>4 DEF Held, Apart
<1>5. ASSUME NEW i \in 1 .. l, i \notin 1 .. n - k
      PROVE  i \in LastPlaces(c, m) /\ Reg(u[i]) \subseteq Regs(c, m)
  <2>1. i \in LastPlaces(c, m)
    BY <1>2, <1>3, <1>5 DEF LastPlaces
  <2> QED
    BY <2>1 DEF Regs
<1>6. T \ Regs(b, k) \subseteq U /\ Regs(c, m) \subseteq U
      /\ Regs(c, m) \cap (T \ Regs(b, k)) = {}
  BY DEF KeepsApart
<1>7. ASSUME NEW i \in 1 .. l
      PROVE  Reg(u[i]) \subseteq U
  <2>1. CASE i \in 1 .. n - k
    BY <1>4, <1>6, <2>1
  <2>2. CASE i \notin 1 .. n - k
    BY <1>5, <1>6, <2>2
  <2> QED
    BY <2>1, <2>2
<1>8. ASSUME NEW i \in 1 .. l, NEW j \in 1 .. l, i # j
      PROVE  Reg(u[i]) \cap Reg(u[j]) = {}
  <2>1. CASE i \in 1 .. n - k /\ j \in 1 .. n - k
    BY <1>1, <1>4, <1>8, <2>1 DEF Held, Apart
  <2>2. CASE i \in 1 .. n - k /\ j \notin 1 .. n - k
    BY <1>4, <1>5, <1>6, <2>2
  <2>3. CASE i \notin 1 .. n - k /\ j \in 1 .. n - k
    BY <1>4, <1>5, <1>6, <2>3
  <2>4. CASE i \notin 1 .. n - k /\ j \notin 1 .. n - k
    BY <1>5, <1>8, <2>4 DEF KeepsApart
  <2> QED
    BY <2>1, <2>2, <2>3, <2>4
<1>9. ASSUME NEW i \in 1 .. l, ~c.out_of_registers, InRegister(u[i])
      PROVE  u[i].data \in Registers
  <2>1. CASE i \in 1 .. n - k
    BY <1>4, <1>9, <2>1
  <2>2. CASE i \notin 1 .. n - k
    BY <1>5, <1>9, <2>2 DEF KeepsApart
  <2> QED
    BY <2>1, <2>2
<1>10. H \subseteq T \ Regs(b, k)
  <2>1. \A i \in LastPlaces(b, k) : i \in 1 .. n
    BY <1>1, <1>3 DEF LastPlaces
  <2> QED
    BY <1>1, <2>1 DEF Held, Regs
<1>11. ASSUME NEW i \in 1 .. l
       PROVE  Reg(u[i]) \cap H = {}
  <2>1. CASE i \in 1 .. n - k
    BY <1>4, <2>1
  <2>2. CASE i \notin 1 .. n - k
    BY <1>5, <1>6, <1>10, <2>2
  <2> QED
    BY <2>1, <2>2
<1>12. Apart(c)
  BY <1>2, <1>7, <1>8, <1>9 DEF Apart
<1> QED
  BY <1>2, <1>6, <1>10, <1>11, <1>12 DEF Held

(* One operand became another, and k became one. *)
LEMMA ReplacesTwice ==
  ASSUME NEW b, NEW p, NEW a, NEW k \in {1, 2}, Typed(b), Typed(p),
         Replaces(b, p, 1, 1), GivesBack(b, p, 1, 1),
         Replaces(p, a, k, 1), GivesBack(p, a, k, 1),
         Len(b.value_stack) >= 2
  PROVE  Replaces(b, a, k, 1) /\ GivesBack(b, a, k, 1)
<1> DEFINE s == b.value_stack
           t == p.value_stack
<1>1. PICK n \in Nat : n = Len(s) /\ n >= 2
  BY DEF Typed
<1>2. /\ Len(t) = n /\ \A i \in 1 .. n - 1 : t[i] = s[i]
      /\ Len(a.value_stack) = n - k + 1
      /\ \A i \in 1 .. n - k : a.value_stack[i] = t[i]
  BY <1>1 DEF Replaces
<1>3. \A i \in 1 .. n - k : i \in 1 .. n - 1
  BY <1>1
<1>4. Remembers(b, a)
  BY RemembersTwice DEF Replaces
<1>5. Replaces(b, a, k, 1)
  BY <1>1, <1>2, <1>3, <1>4 DEF Replaces
<1>6. Regs(p, 1) \subseteq Regs(p, k) /\ Regs(b, k) \subseteq Regs(b, 1) \cup Regs(p, k)
  <2>1. Regs(b, 1) = Reg(s[n]) /\ Regs(b, 2) = Reg(s[n - 1]) \cup Reg(s[n])
    BY <1>1, LastTwo
  <2>2. Regs(p, 1) = Reg(t[n]) /\ Regs(p, 2) = Reg(t[n - 1]) \cup Reg(t[n])
    BY <1>1, <1>2, LastTwo
  <2>3. t[n - 1] = s[n - 1]
    BY <1>1, <1>2
  <2> QED
    BY <2>1, <2>2, <2>3
<1>7. GivesBack(b, a, k, 1)
  BY <1>6 DEF GivesBack
<1> QED
  BY <1>5, <1>7

-----------------------------------------------------------------------------
(* The handler of assignments.                                             *)

(* Every operator remembers. *)
LEMMA HandleRemembers ==
  ASSUME NEW b, IsState(b), NEW o \in BinaryOperators \cup {"Negative", "BitNot", "Not"}
  PROVE  Remembers(b, Handle(b, o))
<1>1. Remembers(b, Reported(b)) /\ Remembers(b, b)
  BY SmallRemember
<1>2. CASE o \in BinaryOperators
  <2> DEFINE d == Load(Load(b))
  <2>1. Remembers(b, d) /\ IsState(d)
    BY LoadRemembers, RemembersTwice DEF Remembers
  <2>2. Remembers(d, Computed(d, o))
    BY <1>2, <2>1, ComputedRemembers
  <2>3. Remembers(b, Computed(d, o))
    BY <2>1, <2>2, RemembersTwice
  <2> QED
    BY <1>1, <1>2, <2>3 DEF Handle, BinaryOperation
<1>3. CASE o \notin BinaryOperators
  <2>1. Handle(b, o) = IF o = "Not" THEN b ELSE Applied(Load(b), o)
    BY <1>3 DEF Handle, UnaryOperation
  <2>2. CASE o = "Not"
    BY <1>1, <2>1, <2>2
  <2>3. CASE o # "Not"
    <3>1. Remembers(b, Load(b)) /\ IsState(Load(b))
      BY LoadRemembers DEF Remembers
    <3>2. Remembers(Load(b), Applied(Load(b), o))
      BY <1>3, <2>3, <3>1, AppliedRemembers
    <3> QED
      BY <2>1, <2>3, <3>1, <3>2, RemembersTwice
  <2> QED
    BY <2>2, <2>3
<1> QED
  BY <1>2, <1>3

(* Storing adds commands, or a message. *)
LEMMA StoredIsQuiet ==
  ASSUME NEW b, IsState(b), NEW left, NEW right
  PROVE  /\ Quiet(b, Stored(b, left, right))
         /\ ~Stored(b, left, right).reported =>
              AtFixedAddress(left) \/ left.source = "DynamicAddress"
<1> DEFINE q == Fitted(b, left, right)
<1>1. Quiet(b, q) /\ IsState(q)
  BY QuietSteps DEF Fitted, Quiet, Remembers
<1> HIDE DEF q
<1>2. /\ \A x : Quiet(q, Emitted(q, x))
      /\ Quiet(q, Reported(q)) /\ Reported(q).reported
  BY <1>1, QuietSteps
<1>3. CASE AtFixedAddress(left)
  <2>1. Stored(b, left, right)
          = Emitted(q, <<"STORE_STATIC", Argument(left), right.data, left.staticSize>>)
    BY <1>3 DEF Stored, q, AtFixedAddress
  <2> QED
    BY <1>1, <1>2, <1>3, <2>1, QuietTwice
<1>4. CASE left.source = "DynamicAddress"
  <2>1. Stored(b, left, right) =
          Emitted(q, <<"STORE_DYNAMIC", left.data, right.data, left.staticSize>>)
    BY <1>4 DEF Stored, q, AtFixedAddress
  <2> QED
    BY <1>1, <1>2, <1>4, <2>1, QuietTwice
<1>5. CASE ~AtFixedAddress(left) /\ left.source # "DynamicAddress"
  <2>1. Stored(b, left, right) = Reported(q)
    BY <1>5 DEF Stored, q
  <2> QED
    BY <1>1, <1>2, <2>1, QuietTwice
<1> QED
  BY <1>3, <1>4, <1>5

(* What AssignR leaves on the stack stays there; Assign frees the register *)
(* of the value, and takes a left operand that was only looked at away.    *)
LEMMA StoredInEffect ==
  ASSUME NEW b, IsState(b), NEW left, NEW o, NEW keep \in BOOLEAN
  PROVE  LET c == StoredIn(b, left, o, keep)
         IN /\ Remembers(b, c)
            /\ ~c.reported =>
               /\ AtFixedAddress(left) \/ left.source = "DynamicAddress"
               /\ keep => /\ c.value_stack = b.value_stack
                          /\ c.registers_table = b.registers_table
               /\ ~keep =>
                    /\ c.value_stack = IF o = "Nop" THEN Front(b.value_stack)
                                       ELSE b.value_stack
                    /\ c.registers_table = b.registers_table \ {b.loaded[1].data}
<1> DEFINE c == StoredIn(b, left, o, keep)
           q == Stored(b, left, b.loaded[1])
           d == IF o = "Nop" THEN Popped(q) ELSE q
           r == q.loaded[1].data
<1>1. /\ Quiet(b, q) /\ IsState(q) /\ Remembers(b, q)
      /\ ~q.reported => AtFixedAddress(left) \/ left.source = "DynamicAddress"
  BY StoredIsQuiet DEF Quiet, Remembers
<1>2. c = IF keep \/ q.reported THEN q ELSE Freed(d, r)
  BY DEF StoredIn, Dropped
<1> HIDE DEF c, q
<1>3. /\ Remembers(q, d) /\ IsState(d)
      /\ d.registers_table = q.registers_table
      /\ d.value_stack = IF o = "Nop" THEN Front(q.value_stack) ELSE q.value_stack
  BY <1>1, Small, SmallRemember DEF Fields, Remembers
<1> HIDE DEF d, r
<1>4. /\ Remembers(d, Freed(d, r))
      /\ Freed(d, r).value_stack = d.value_stack
      /\ Freed(d, r).registers_table = d.registers_table \ {r}
  <2>1. Fields(Freed(d, r), d.value_stack, d.registers_table \ {r},
               d.loaded, d.reported, d.out_of_registers)
    BY <1>3, Small
  <2>2. Remembers(d, Freed(d, r))
    BY <1>3, SmallRemember
  <2> QED
    BY <2>1, <2>2 DEF Fields
<1>5. q.value_stack = b.value_stack /\ q.registers_table = b.registers_table
      /\ r = b.loaded[1].data
  BY <1>1 DEF Quiet, r
<1>6. Remembers(b, c)
  BY <1>1, <1>2, <1>3, <1>4, RemembersTwice
<1>7. CASE keep \/ q.reported
  BY <1>1, <1>2, <1>5, <1>6, <1>7 DEF c
<1>8. CASE ~keep /\ ~q.reported
  BY <1>1, <1>2, <1>3, <1>4, <1>5, <1>6, <1>8 DEF c
<1> QED
  BY <1>7, <1>8

(* An operand that is in its register is loaded by taking it. *)
LEMMA LoadTakes ==
  ASSUME NEW b, Typed(b), b.value_stack # <<>>,
         Last(b.value_stack).source \in {"Register", "Pointer"}
  PROVE  LET c == Load(b)
         IN /\ c.value_stack = Front(b.value_stack)
            /\ c.registers_table = b.registers_table
            /\ c.loaded[1] = Last(b.value_stack)
            /\ Remembers(b, c) /\ c.out_of_registers = b.out_of_registers
<1> DEFINE f == Last(b.value_stack)
           p == Popped(b)
           c == Load(b)
<1>1. c = Returned(p, f)
  BY DEF Load, Top, LoadedTop, AtFixedAddress
<1>2. /\ Fields(p, Front(b.value_stack), b.registers_table,
                b.loaded, b.reported, b.out_of_registers)
      /\ Remembers(b, p) /\ IsState(p)
  BY Small, SmallRemember DEF Typed, Remembers
<1>3. /\ Fields(c, p.value_stack, p.registers_table, << f >> \o p.loaded,
                p.reported, p.out_of_registers)
      /\ Remembers(p, c)
  BY <1>1, <1>2, Small, SmallRemember
<1>4. (<< f >> \o b.loaded)[1] = f
  <2> DEFINE S == Frames \cup {Invalid}
  <2>1. f \in S /\ b.loaded \in Seq(S)
    BY WithoutLast DEF Typed
  <2> HIDE DEF S, f
  <2>2. << f >> \in Seq(S) /\ Len(<< f >>) = 1 /\ << f >>[1] = f
    BY <2>1
  <2>3. (<< f >> \o b.loaded)[1] = << f >>[1]
    BY <2>1, <2>2, ConcatProperties
  <2> QED
    BY <2>2, <2>3
<1> QED
  BY <1>2, <1>3, <1>4, RemembersTwice DEF Fields

(* x o= e evaluates x o e, or ~e, in the registers of the operands.        *)
LEMMA OperatorEvaluated ==
  ASSUME NEW b, Typed(b), Len(b.value_stack) >= 2,
         NEW o \in BinaryOperators \cup {"BitNot"},
         ~Handle(Pushed(Load(b), Load(b).loaded[1]), o).reported
  PROVE  LET a == Handle(Pushed(Load(b), Load(b).loaded[1]), o)
             k == IF o = "BitNot" THEN 1 ELSE 2
             h == b.value_stack[Len(b.value_stack) - 1]
         IN /\ Typed(a) /\ Replaces(b, a, k, 1) /\ GivesBack(b, a, k, 1)
            /\ \A H : Held(b, H) => Held(a, H)
            /\ Last(a.value_stack).source \in {"Register", "Pointer"}
            /\ o # "BitNot" /\ InRegister(h) => Last(a.value_stack).data = h.data
<1> DEFINE s == b.value_stack
           c == Load(b)
           r == c.loaded[1]
           p == Pushed(c, r)
           a == Handle(p, o)
           k == IF o = "BitNot" THEN 1 ELSE 2
           h == s[Len(s) - 1]
<1>1. Remembers(b, c) /\ IsState(c)
  BY LoadRemembers DEF Typed, Remembers
<1>2. /\ Fields(p, Append(c.value_stack, r), c.registers_table,
                c.loaded, c.reported, c.out_of_registers)
      /\ Remembers(c, p) /\ IsState(p)
  <2> HIDE DEF c, r
  <2> QED
    BY <1>1, Small, SmallRemember DEF Remembers
<1>3. Remembers(p, a)
  <2> HIDE DEF p
  <2> QED
    BY <1>2, HandleRemembers
<1>4. ~c.reported
  BY <1>2, <1>3 DEF Remembers
<1>5. s # <<>>
  BY DEF Typed
<1>6. /\ Typed(c) /\ c.value_stack = Front(s) /\ r \in Frames
      /\ InItsRegister(Last(s), r, b, c)
  BY <1>4, <1>5, LoadEffect DEF InItsRegister
<1> HIDE DEF c, r, p, a
<1>7. InRegister(r) /\ p.value_stack = Append(Front(s), r)
      /\ p.registers_table = c.registers_table /\ p.loaded = c.loaded
  BY <1>2, <1>6 DEF Fields, InItsRegister, InRegister
<1>8. Remembers(b, p)
  BY <1>1, <1>2, RemembersTwice
<1>9. OneBecame(b, p, Last(s), r)
  BY <1>5, <1>6, <1>7, <1>8, OneLoaded
<1>10. /\ Replaces(b, p, 1, 1) /\ GivesBack(b, p, 1, 1)
       /\ Apart(b) => KeepsApart(b, p, 1, 1)
       /\ p.value_stack \in Seq(Frames)
  BY <1>9, OneReplaced
<1>11. Typed(p)
  BY <1>2, <1>6, <1>7, <1>10 DEF Typed
<1>12. /\ Len(p.value_stack) = Len(s) /\ p.value_stack # <<>>
       /\ p.value_stack[Len(s) - 1] = h
  <2>1. PICK n \in Nat : n = Len(s) /\ n >= 2
    BY DEF Typed
  <2>2. /\ Len(p.value_stack) = n
        /\ \A i \in 1 .. n - 1 : p.value_stack[i] = s[i]
    BY <1>10, <2>1 DEF Replaces
  <2> QED
    BY <2>1, <2>2
<1>13. /\ Typed(a) /\ Replaces(p, a, k, 1) /\ GivesBack(p, a, k, 1)
       /\ Apart(p) => KeepsApart(p, a, k, 1)
       /\ Last(a.value_stack).source \in {"Register", "Pointer"}
       /\ o # "BitNot" /\ InRegister(h) => Last(a.value_stack).data = h.data
  <2>1. CASE o = "BitNot"
    <3>1. o \notin BinaryOperators
      BY <2>1 DEF BinaryOperators
    <3>2. a = UnaryOperation(p, o)
      BY <3>1 DEF a, Handle
    <3>3. ~UnaryOperation(p, o).reported
      BY <3>2 DEF a, p, c, r
    <3> QED
      BY <1>11, <1>12, <2>1, <3>2, <3>3, UnaryEffect
  <2>2. CASE o # "BitNot"
    <3>1. o \in BinaryOperators
      BY <2>2
    <3>2. Len(p.value_stack) >= 2
      BY <1>12
    <3>3. a = BinaryOperation(p, o)
      <4>1. ~(Len(p.value_stack) < 2)
        BY <1>11, <3>2 DEF Typed
      <4> QED
        BY <3>1, <4>1 DEF a, Handle
    <3>4. ~BinaryOperation(p, o).reported
      BY <3>3 DEF a, p, c, r
    <3> QED
      BY <1>11, <1>12, <2>2, <3>1, <3>2, <3>3, <3>4, BinaryEffect
  <2> QED
    BY <2>1, <2>2
<1>14. Replaces(b, a, k, 1) /\ GivesBack(b, a, k, 1)
  BY <1>10, <1>11, <1>13, ReplacesTwice
<1>15. ASSUME NEW H, Held(b, H)
       PROVE  Held(a, H)
  <2>1. Held(p, H)
    BY <1>10, <1>15, StaysHeld DEF Held
  <2> QED
    BY <1>11, <1>13, <2>1, StaysHeld DEF Held
<1> QED
  BY <1>13, <1>14, <1>15 DEF a, p, c, r

(* x = e: the value's register is given back, or kept for the next.        *)
LEMMA CopiedEffect ==
  ASSUME NEW b, Typed(b), Len(b.value_stack) >= 2, NEW keep \in BOOLEAN,
         ~Assigned(b, "Nop", keep).reported
  PROVE  LET e == Assigned(b, "Nop", keep)
             h == b.value_stack[Len(b.value_stack) - 1]
         IN /\ Remembers(b, e) /\ e.value_stack \in Seq(Frames)
            /\ ~keep /\ h.source # "DynamicAddress" =>
                 e.registers_table \subseteq b.registers_table \ Regs(b, 2)
            /\ \A H : Held(b, H) => Held(e, H)
<1> DEFINE s == b.value_stack
           T == b.registers_table
           c == Load(b)
           left == Top(c)
           e == Assigned(b, "Nop", keep)
           u == e.value_stack
<1>1. PICK n \in Nat : n = Len(s) /\ n >= 2 /\ n - 1 \in Nat /\ n - 2 \in Nat
  BY DEF Typed
<1>2. e = StoredIn(c, left, "Nop", keep)
  BY DEF Assigned, AssignedLoaded, Evaluated
<1>3. IsState(c) /\ Remembers(b, c)
  BY LoadRemembers DEF Typed, Remembers
<1> HIDE DEF c, e, left
<1>4. /\ Remembers(c, e)
      /\ AtFixedAddress(left) \/ left.source = "DynamicAddress"
      /\ keep => u = c.value_stack /\ e.registers_table = c.registers_table
      /\ ~keep => /\ u = Front(c.value_stack)
                  /\ e.registers_table = c.registers_table \ {c.loaded[1].data}
  BY <1>2, <1>3, StoredInEffect DEF e
<1>5. ~c.reported
  BY <1>4 DEF Remembers, e
<1> DEFINE r == c.loaded[1]
           f == s[n]
           h == s[n - 1]
<1>6. s # <<>>
  BY <1>1
<1>7. /\ Typed(c) /\ c.value_stack = Front(s) /\ InItsRegister(Last(s), r, b, c)
  BY <1>5, <1>6, LoadEffect DEF c
<1>8. /\ Front(s) \in Seq(Frames) /\ Len(Front(s)) = n - 1
      /\ \A i \in 1 .. n - 1 : Front(s)[i] = s[i]
      /\ Last(s) = f
  BY <1>1, <1>6, WithoutTop DEF Typed
<1>9. /\ left = h /\ Front(Front(s)) \in Seq(Frames) /\ Len(Front(Front(s))) = n - 2
      /\ \A i \in 1 .. n - 2 : Front(Front(s))[i] = s[i]
  <2> DEFINE v == Front(s)
  <2>0. v \in Seq(Frames) /\ n - 1 = Len(v) /\ \A i \in 1 .. n - 1 : v[i] = s[i]
    BY <1>8
  <2> HIDE DEF v
  <2>1. v # <<>>
    BY <1>1, <2>0
  <2>2. /\ Front(v) \in Seq(Frames) /\ Len(Front(v)) = n - 1 - 1
        /\ \A i \in 1 .. n - 1 - 1 : Front(v)[i] = v[i]
        /\ Last(v) = v[n - 1]
    BY <1>1, <2>0, <2>1, WithoutTop
  <2>3. n - 1 - 1 = n - 2 /\ n - 1 \in 1 .. n - 1
        /\ \A i \in 1 .. n - 2 : i \in 1 .. n - 1
    BY <1>1
  <2>4. left = Last(v)
    BY <1>7 DEF left, Top, v
  <2> QED
    BY <2>0, <2>2, <2>3, <2>4 DEF v
<1>10. Remembers(b, e)
  BY <1>3, <1>4, RemembersTwice
<1> DEFINE m == IF keep THEN 1 ELSE 0
<1>11. Replaces(b, e, 2, m)
  <2>1. CASE keep
    <3>1. n - 2 + 1 = n - 1 /\ \A i \in 1 .. n - 2 : i \in 1 .. n - 1
      BY <1>1
    <3> QED
      BY <1>1, <1>4, <1>7, <1>8, <1>10, <2>1, <3>1 DEF Replaces
  <2>2. CASE ~keep
    BY <1>1, <1>4, <1>7, <1>9, <1>10, <2>2 DEF Replaces
  <2> QED
    BY <2>1, <2>2
<1>12. /\ Regs(b, 2) = Reg(h) \cup Reg(f) /\ Regs(b, 1) = Reg(f)
       /\ keep => Regs(e, 1) = Reg(h) /\ LastPlaces(e, 1) = {n - 1} /\ u[n - 1] = h
       /\ Regs(e, 0) = {} /\ LastPlaces(e, 0) = {}
  <2>1. Regs(b, 2) = Reg(h) \cup Reg(f) /\ Regs(b, 1) = Reg(f)
    BY <1>1, LastTwo
  <2>2. LastPlaces(e, 0) = {} /\ Regs(e, 0) = {}
    <3>1. u \in Seq(Frames)
      BY <1>11 DEF Replaces
    <3>2. Len(u) \in Nat
      BY <3>1
    <3> QED
      BY <3>2 DEF LastPlaces, Regs
  <2>3. ASSUME keep
        PROVE  Regs(e, 1) = Reg(h) /\ LastPlaces(e, 1) = {n - 1} /\ u[n - 1] = h
    <3>1. n - 1 = Len(u) /\ n - 1 >= 1 /\ u[n - 1] = h
      BY <1>1, <1>4, <1>7, <1>8, <2>3
    <3>2. Regs(e, 1) = Reg(u[n - 1]) /\ LastPlaces(e, 1) = {n - 1}
      BY <1>1, <3>1, LastFrames
    <3> QED
      BY <3>1, <3>2
  <2> QED
    BY <2>1, <2>2, <2>3
<1>13. /\ InRegister(r) /\ Reg(r) = {r.data} \cap Registers /\ Reg(f) \subseteq Reg(r)
       /\ T \subseteq c.registers_table
       /\ c.registers_table \subseteq T \cup Reg(r)
       /\ Reg(r) \cap (T \ Reg(f)) = {}
       /\ T \subseteq Registers /\ c.registers_table \subseteq Registers
  <2>1. IsState(b)
    BY DEF Typed
  <2> QED
    BY <1>3, <1>7, <1>8, <2>1, RegisterOf DEF IsState
<1>14. ASSUME ~keep, h.source # "DynamicAddress"
       PROVE  e.registers_table \subseteq T \ Regs(b, 2)
  <2>1. Reg(h) = {}
    BY <1>4, <1>9, <1>14 DEF AtFixedAddress, Reg, InRegister
  <2>2. e.registers_table = c.registers_table \ Reg(r)
    BY <1>4, <1>13, <1>14
  <2> QED
    BY <1>12, <1>13, <2>1, <2>2
<1>15. ASSUME Apart(b)
       PROVE  KeepsApart(b, e, 2, m)
  <2>1. /\ Reg(h) \subseteq T /\ Reg(h) \cap Reg(f) = {}
        /\ ~b.out_of_registers => (InRegister(h) => h.data \in Registers)
    <3>1. n \in 1 .. n /\ n - 1 \in 1 .. n /\ n # n - 1
      BY <1>1
    <3> QED
      BY <1>1, <1>15, <3>1 DEF Apart
  <2>2. CASE keep
    <3>1. ~e.out_of_registers => ~b.out_of_registers
      BY <1>10 DEF Remembers, Typed, IsState
    <3> QED
      BY <1>4, <1>12, <1>13, <2>1, <2>2, <3>1 DEF KeepsApart
  <2>3. CASE ~keep
    <3>1. e.registers_table = c.registers_table \ Reg(r)
      BY <1>4, <1>13, <2>3
    <3> QED
      BY <1>12, <1>13, <2>3, <3>1 DEF KeepsApart
  <2> QED
    BY <2>2, <2>3
<1>16. ASSUME NEW H, Held(b, H)
       PROVE  Held(e, H)
  <2>1. m \in Nat /\ Apart(b)
    BY <1>16 DEF Held
  <2> QED
    BY <1>11, <1>15, <1>16, <2>1, StaysHeld
<1> QED
  BY <1>1, <1>10, <1>11, <1>14, <1>16 DEF Replaces, e

(* x o= e: the register of the value is given back; what was made of x is  *)
(* kept for the next.                                                      *)
LEMMA CompoundEffect ==
  ASSUME NEW b, Typed(b), Len(b.value_stack) >= 2, NEW keep \in BOOLEAN,
         NEW o \in BinaryOperators \cup {"BitNot"},
         ~Assigned(b, o, keep).reported
  PROVE  LET e == Assigned(b, o, keep)
             h == b.value_stack[Len(b.value_stack) - 1]
         IN /\ Remembers(b, e) /\ e.value_stack \in Seq(Frames)
            /\ ~keep /\ h.source # "DynamicAddress" =>
                 e.registers_table \subseteq b.registers_table \ Regs(b, 2)
            /\ (o = "BitNot" /\ keep => h.source # "DynamicAddress") =>
                 \A H : Held(b, H) => Held(e, H)
<1> DEFINE s == b.value_stack
           c == Load(b)
           left == Top(c)
           a == Handle(Pushed(c, c.loaded[1]), o)
           d == Load(a)
           q == IF keep THEN Pushed(d, left) ELSE d
           e == Assigned(b, o, keep)
           u == e.value_stack
<1>1. PICK n \in Nat : n = Len(s) /\ n >= 2 /\ n - 1 \in Nat /\ n - 2 \in Nat
  BY DEF Typed
<1>2. e = StoredIn(q, left, o, keep) /\ o # "Nop"
  BY DEF Assigned, AssignedLoaded, Evaluated, BinaryOperators
<1>3. IsState(c) /\ Remembers(b, c)
  BY LoadRemembers DEF Typed, Remembers
<1>4. IsState(a) /\ Remembers(c, a)
  <2> HIDE DEF c
  <2>1. /\ Remembers(c, Pushed(c, c.loaded[1])) /\ IsState(Pushed(c, c.loaded[1]))
    BY <1>3, SmallRemember DEF Remembers
  <2>2. Remembers(Pushed(c, c.loaded[1]), a)
    BY <2>1, HandleRemembers
  <2> QED
    BY <2>1, <2>2, RemembersTwice DEF Remembers
<1> HIDE DEF a
<1>5. IsState(d) /\ Remembers(a, d)
  BY <1>4, LoadRemembers DEF Remembers
<1> HIDE DEF c, d, left
<1>6. /\ Remembers(d, q) /\ IsState(q) /\ q.registers_table = d.registers_table
      /\ q.value_stack = IF keep THEN Append(d.value_stack, left) ELSE d.value_stack
      /\ q.loaded = d.loaded
  <2>1. /\ Fields(Pushed(d, left), Append(d.value_stack, left), d.registers_table,
                  d.loaded, d.reported, d.out_of_registers)
        /\ Remembers(d, Pushed(d, left)) /\ Remembers(d, d)
    BY <1>5, Small, SmallRemember
  <2> QED
    BY <2>1 DEF Fields, Remembers
<1> HIDE DEF q, e
<1>7. /\ Remembers(q, e)
      /\ AtFixedAddress(left) \/ left.source = "DynamicAddress"
      /\ u = q.value_stack
      /\ keep => e.registers_table = q.registers_table
      /\ ~keep => e.registers_table = q.registers_table \ {q.loaded[1].data}
  BY <1>2, <1>6, StoredInEffect DEF e
<1>8. Remembers(a, e) /\ Remembers(b, e)
  BY <1>3, <1>4, <1>5, <1>6, <1>7, RemembersTwice
<1>9. ~a.reported
  BY <1>8 DEF Remembers, e
<1> DEFINE k == IF o = "BitNot" THEN 1 ELSE 2
           f == s[n]
           h == s[n - 1]
           t == a.value_stack
           g == Last(t)
<1>10. /\ Typed(a) /\ Replaces(b, a, k, 1) /\ GivesBack(b, a, k, 1)
       /\ \A H : Held(b, H) => Held(a, H)
       /\ g.source \in {"Register", "Pointer"}
       /\ o # "BitNot" /\ InRegister(h) => g.data = h.data
  BY <1>1, <1>9, OperatorEvaluated DEF a, c
<1>11. left = h
  <2>1. ~c.reported /\ s # <<>>
    BY <1>1, <1>4, <1>9 DEF Remembers
  <2>2. c.value_stack = Front(s) /\ Typed(c)
    BY <2>1, LoadEffect DEF c
  <2>3. /\ Front(s) \in Seq(Frames) /\ Len(Front(s)) = n - 1
        /\ \A i \in 1 .. n - 1 : Front(s)[i] = s[i]
    BY <1>1, <2>1, WithoutTop DEF Typed
  <2> DEFINE v == Front(s)
  <2> HIDE DEF v
  <2>4. v \in Seq(Frames) /\ n - 1 = Len(v) /\ v # <<>> /\ v[n - 1] = h
    <3>1. v \in Seq(Frames) /\ n - 1 = Len(v) /\ v[n - 1] = h
      BY <1>1, <2>3 DEF v
    <3> QED
      BY <1>1, <3>1
  <2>5. Last(v) = v[n - 1]
    BY <1>1, <2>4, WithoutTop
  <2> QED
    BY <2>2, <2>4, <2>5 DEF left, Top, v
<1>12. PICK l \in Nat : l = Len(t) /\ l >= 1 /\ l - 1 \in Nat /\ t # <<>>
  <2>1. Len(t) = n - k + 1 /\ n - k + 1 >= 1
    BY <1>1, <1>10 DEF Replaces
  <2>2. t \in Seq(Frames)
    BY <1>10 DEF Typed
  <2>3. PICK l \in Nat : l = Len(t)
    BY <2>2
  <2>4. t # <<>>
    <3>1. Len(t) # 0
      BY <1>1, <2>1
    <3> HIDE DEF t
    <3> QED
      BY <3>1
  <2> QED
    BY <2>1, <2>3, <2>4
<1>13. /\ Front(t) \in Seq(Frames) /\ Len(Front(t)) = l - 1
       /\ \A i \in 1 .. l - 1 : Front(t)[i] = t[i]
       /\ g = t[l] /\ g \in Frames
  BY <1>10, <1>12, WithoutTop DEF Typed
<1>14. /\ d.value_stack = Front(t) /\ d.registers_table = a.registers_table
       /\ d.loaded[1] = g
  BY <1>10, <1>12, LoadTakes DEF d
<1>15. InRegister(g) /\ Reg(g) = {g.data} \cap Registers
  BY <1>10 DEF InRegister, Reg
<1>16. /\ ~keep => /\ u = Front(t)
                   /\ e.registers_table = a.registers_table \ Reg(g)
       /\ keep => u = Append(Front(t), h) /\ e.registers_table = a.registers_table
  <2>1. a.registers_table \subseteq Registers
    BY <1>4 DEF IsState
  <2> QED
    BY <1>6, <1>7, <1>11, <1>14, <1>15, <2>1
<1>17. h \in Frames
  <2> DEFINE F == Frames
  <2>1. s \in Seq(F) /\ n - 1 \in 1 .. Len(s)
    BY <1>1 DEF Typed
  <2> HIDE DEF F
  <2>2. h \in F
    BY <2>1
  <2> QED
    BY <2>2 DEF F
<1> DEFINE m == IF keep THEN 1 ELSE 0
<1>18. /\ Replaces(a, e, 1, m)
       /\ keep => Len(u) = l /\ u[l] = h
  <2>1. CASE ~keep
    <3>1. l - 1 + 0 = l - 1
      BY <1>12
    <3> QED
      BY <1>8, <1>12, <1>13, <1>16, <2>1, <3>1 DEF Replaces
  <2>2. CASE keep
    <3> DEFINE F == Frames
               v == Front(t)
    <3>1. v \in Seq(F) /\ h \in F /\ u = Append(v, h) /\ Len(v) = l - 1
          /\ l - 1 + 1 = l
      BY <1>12, <1>13, <1>16, <1>17, <2>2
    <3> HIDE DEF F, v, u, h
    <3>2. /\ u \in Seq(F) /\ Len(u) = Len(v) + 1 /\ u[Len(v) + 1] = h
          /\ \A i \in 1 .. Len(v) : u[i] = v[i]
      BY <3>1, AppendProperties
    <3>3. u \in Seq(F) /\ Len(u) = l /\ u[l] = h /\ \A i \in 1 .. l - 1 : u[i] = v[i]
      BY <3>1, <3>2
    <3>4. \A i \in 1 .. l - 1 : u[i] = t[i]
      BY <1>13, <3>3 DEF v
    <3> QED
      BY <1>8, <1>12, <2>2, <3>1, <3>3, <3>4 DEF Replaces, F, u
  <2> QED
    BY <2>1, <2>2
<1>19. /\ Regs(a, 1) = Reg(g) /\ Regs(b, 2) = Reg(h) \cup Reg(f) /\ Regs(b, 1) = Reg(f)
       /\ keep => Regs(e, 1) = Reg(h) /\ LastPlaces(e, 1) = {l}
       /\ Regs(e, 0) = {} /\ LastPlaces(e, 0) = {}
  <2>1. Regs(a, 1) = Reg(t[l])
    BY <1>12, LastFrames
  <2>2. Regs(b, 2) = Reg(h) \cup Reg(f) /\ Regs(b, 1) = Reg(f)
    BY <1>1, LastTwo
  <2>3. LastPlaces(e, 0) = {} /\ Regs(e, 0) = {}
    <3>1. u \in Seq(Frames)
      BY <1>18 DEF Replaces
    <3>2. Len(u) \in Nat
      BY <3>1
    <3> QED
      BY <3>2 DEF LastPlaces, Regs
  <2>4. ASSUME keep
        PROVE  Regs(e, 1) = Reg(h) /\ LastPlaces(e, 1) = {l}
    <3>1. l = Len(u) /\ l >= 1 /\ u[l] = h
      BY <1>12, <1>18, <2>4
    <3>2. Regs(e, 1) = Reg(u[l]) /\ LastPlaces(e, 1) = {l}
      BY <1>12, <3>1, LastFrames
    <3> QED
      BY <3>1, <3>2
  <2> QED
    BY <1>13, <2>1, <2>2, <2>3, <2>4
<1>20. ASSUME ~keep, h.source # "DynamicAddress"
       PROVE  e.registers_table \subseteq b.registers_table \ Regs(b, 2)
  <2>1. Reg(h) = {}
    BY <1>7, <1>11, <1>20 DEF AtFixedAddress, Reg, InRegister
  <2>2. Regs(b, k) = Regs(b, 2)
    BY <1>19, <2>1
  <2> QED
    BY <1>10, <1>16, <1>19, <1>20, <2>2 DEF GivesBack
<1>21. ASSUME Apart(a), o = "BitNot" /\ keep => h.source # "DynamicAddress"
       PROVE  KeepsApart(a, e, 1, m)
  <2>1. CASE ~keep
    BY <1>16, <1>19, <2>1 DEF KeepsApart
  <2>2. CASE keep
    <3>1. /\ Reg(g) \subseteq a.registers_table
          /\ ~a.out_of_registers => g.data \in Registers
      <4>1. l \in 1 .. l
        BY <1>12
      <4> QED
        BY <1>12, <1>13, <1>15, <1>21, <4>1 DEF Apart
    <3>2. /\ Reg(h) \subseteq Reg(g)
          /\ InRegister(h) => h.data = g.data
      <4>1. CASE AtFixedAddress(h)
        BY <4>1 DEF AtFixedAddress, Reg, InRegister
      <4>2. CASE h.source = "DynamicAddress"
        BY <1>10, <1>15, <1>21, <2>2, <4>2, SameRegister DEF InRegister
      <4> QED
        BY <1>7, <1>11, <4>1, <4>2
    <3>3. ~e.out_of_registers => ~a.out_of_registers
      BY <1>4, <1>8 DEF Remembers, IsState
    <3> QED
      BY <1>16, <1>18, <1>19, <2>2, <3>1, <3>2, <3>3 DEF KeepsApart
  <2> QED
    BY <2>1, <2>2
<1>22. ASSUME NEW H, Held(b, H), o = "BitNot" /\ keep => h.source # "DynamicAddress"
       PROVE  Held(e, H)
  <2>1. Held(a, H) /\ Apart(a) /\ m \in Nat /\ 1 \in Nat
    BY <1>10, <1>22 DEF Held
  <2> QED
    BY <1>10, <1>18, <1>21, <1>22, <2>1, StaysHeld
<1> QED
  BY <1>1, <1>8, <1>18, <1>20, <1>22 DEF Replaces, e

-----------------------------------------------------------------------------
(* Every handler leaves a state of the translator behind.                  *)

(* An assignment takes no message back.                                    *)
LEMMA AssignedRemembers ==
  ASSUME NEW b, IsState(b), NEW o \in BinaryOperators \cup {"BitNot", "Nop"},
         NEW keep \in BOOLEAN
  PROVE  Remembers(b, Assigned(b, o, keep))
<1> DEFINE c == Load(b)
           left == Top(c)
           d == Evaluated(c, left, o, keep)
<1>1. Assigned(b, o, keep) = StoredIn(d, left, o, keep)
  BY DEF Assigned, AssignedLoaded
<1>2. Remembers(b, c) /\ IsState(c)
  BY LoadRemembers DEF Remembers
<1> HIDE DEF c, left
<1>3. Remembers(c, d)
  <2> DEFINE p == Pushed(c, c.loaded[1])
             a == Handle(p, o)
             l == Load(a)
  <2>1. CASE o = "Nop"
    BY <1>2, <2>1, SmallRemember DEF Evaluated
  <2>2. CASE o # "Nop"
    <3>1. d = IF keep THEN Pushed(l, left) ELSE l
      BY <2>2 DEF Evaluated
    <3>2. Remembers(c, p) /\ IsState(p)
      BY <1>2, SmallRemember DEF Remembers
    <3> HIDE DEF p
    <3>3. Remembers(p, a) /\ IsState(a)
      BY <2>2, <3>2, HandleRemembers DEF Remembers
    <3> HIDE DEF a
    <3>4. Remembers(a, l) /\ IsState(l)
      BY <3>3, LoadRemembers DEF Remembers
    <3> HIDE DEF l
    <3>5. Remembers(l, Pushed(l, left))
      BY <3>4, SmallRemember
    <3> QED
      BY <3>1, <3>2, <3>3, <3>4, <3>5, RemembersTwice
  <2> QED
    BY <2>1, <2>2
<1>4. IsState(d)
  BY <1>3 DEF Remembers
<1> HIDE DEF d
<1>5. Remembers(d, StoredIn(d, left, o, keep))
  BY <1>4, StoredInEffect
<1> QED
  BY <1>1, <1>2, <1>3, <1>5, RemembersTwice

(* Neither do the operations on pointers.                                  *)
LEMMA PointersRemember ==
  ASSUME NEW b, IsState(b)
  PROVE  /\ Remembers(b, PointerTaken(b))
         /\ Remembers(b, PointerFollowed(b))
         /\ Remembers(b, Indexed(b))
<1> DEFINE p == Popped(b)
           c == Load(b)
<1>1. /\ Remembers(b, p) /\ IsState(p)
      /\ Remembers(b, c) /\ IsState(c)
  BY SmallRemember, LoadRemembers DEF Remembers
<1>2. \A q, f : IsState(q) => Remembers(q, Followed(q, f))
  <2> SUFFICES ASSUME NEW q, NEW f, IsState(q)
               PROVE  Remembers(q, Followed(q, f))
    OBVIOUS
  <2> QED
    BY SmallRemember, BehindRemembers DEF Followed
<1>3. Remembers(b, PointerTaken(b))
  <2> DEFINE f == Top(b)
             a == Allocated(p)
             x == <<"LEA_STATIC", Argument(f), FindFreeGeneral(p)>>
             d == Emitted(a, x)
  <2>1. \/ PointerTaken(b) = Pushed(d, PointerTo([f EXCEPT !.data = FindFreeGeneral(p)]))
        \/ PointerTaken(b) = Pushed(p, PointerTo(f))
        \/ PointerTaken(b) = Reported(p)
    BY DEF PointerTaken, AtFixedAddress
  <2> HIDE DEF p
  <2>2. Remembers(p, a) /\ IsState(a)
    BY <1>1, SmallRemember DEF Remembers
  <2> HIDE DEF a, x
  <2>3. Remembers(a, d) /\ IsState(d)
    BY <2>2, SmallRemember DEF Remembers
  <2> HIDE DEF d
  <2>4. /\ \A g : Remembers(d, Pushed(d, g)) /\ Remembers(p, Pushed(p, g))
        /\ Remembers(p, Reported(p))
    BY <1>1, <2>3, SmallRemember
  <2>5. \A g : Remembers(p, Pushed(d, g))
    BY <2>2, <2>3, <2>4, RemembersTwice
  <2> QED
    BY <1>1, <2>1, <2>4, <2>5, RemembersTwice
<1>4. Remembers(b, PointerFollowed(b))
  <2>1. \/ PointerFollowed(b) = Followed(c, c.loaded[1])
        \/ PointerFollowed(b) = Followed(p, Top(b))
    BY DEF PointerFollowed, FollowedLoaded
  <2> HIDE DEF c, p
  <2> QED
    BY <1>1, <1>2, <2>1, RemembersTwice
<1>5. Remembers(b, Indexed(b))
  <2> DEFINE d == Load(c)
             l == d.loaded[1]
             r == d.loaded[2]
             scaled == IF l.info.base # "Invalid" THEN Scaled(d, l, r, r.dynamic) ELSE d
             e == Emitted(scaled, <<"ADD", r.dynamic, l.data, l.data, r.data>>)
             y == Freed(e, r.data)
  <2>1. Indexed(b) = IF l.source \in {"Pointer", "Register"} THEN Behind(y, l)
                     ELSE Reported(d)
    BY DEF Indexed, Element
  <2> HIDE DEF c
  <2>2. Remembers(c, d) /\ IsState(d)
    BY <1>1, LoadRemembers DEF Remembers
  <2> HIDE DEF d
  <2>3. Remembers(d, scaled) /\ IsState(scaled)
    BY <2>2, ScaledIsQuiet, SmallRemember DEF Quiet, Remembers
  <2> HIDE DEF scaled
  <2>4. Remembers(scaled, e) /\ IsState(e)
    BY <2>3, SmallRemember DEF Remembers
  <2> HIDE DEF e
  <2>5. Remembers(e, y) /\ IsState(y)
    BY <2>4, SmallRemember DEF Remembers
  <2> HIDE DEF y
  <2>6. Remembers(y, Behind(y, l)) /\ Remembers(d, Reported(d))
    BY <2>2, <2>5, BehindRemembers, SmallRemember
  <2> HIDE DEF l
  <2>7. Remembers(d, Behind(y, l))
    BY <2>3, <2>4, <2>5, <2>6, RemembersTwice
  <2> QED
    BY <1>1, <2>1, <2>2, <2>6, <2>7, RemembersTwice
<1> QED
  BY <1>3, <1>4, <1>5

-----------------------------------------------------------------------------
(* From what handlers do to steps of the translator.                       *)

(* What is left of a state when its result has been taken. *)
LEMMA Clearing ==
  ASSUME NEW c, IsState(c)
  PROVE  LET d == [c EXCEPT !.result = <<>>, !.loaded = <<>>]
         IN /\ IsState(d) /\ d.result = <<>>
            /\ Fields(d, c.value_stack, c.registers_table, <<>>,
                      c.reported, c.out_of_registers)
            /\ \A H : Held(c, H) <=> Held(d, H)
            /\ \A n : Regs(d, n) = Regs(c, n)
<1> DEFINE e == [c EXCEPT !.result = <<>>]
           d == [e EXCEPT !.loaded = <<>>]
<1>1. c = [value_stack |-> c.value_stack, registers_table |-> c.registers_table,
           result |-> c.result, loaded |-> c.loaded, reported |-> c.reported,
           out_of_registers |-> c.out_of_registers]
  BY DEF IsState, Fields
<1>2. e = [value_stack |-> c.value_stack, registers_table |-> c.registers_table,
           result |-> <<>>, loaded |-> c.loaded, reported |-> c.reported,
           out_of_registers |-> c.out_of_registers]
  BY <1>1
<1> HIDE DEF e
<1>3. d = [value_stack |-> c.value_stack, registers_table |-> c.registers_table,
           result |-> <<>>, loaded |-> <<>>, reported |-> c.reported,
           out_of_registers |-> c.out_of_registers]
  BY <1>2
<1>4. d = [c EXCEPT !.result = <<>>, !.loaded = <<>>]
  BY <1>1, <1>3
<1> HIDE DEF d
<1>5. /\ d.value_stack = c.value_stack /\ d.registers_table = c.registers_table
      /\ d.result = <<>> /\ d.loaded = <<>> /\ d.reported = c.reported
      /\ d.out_of_registers = c.out_of_registers
  BY <1>3
<1>6. Fields(d, c.value_stack, c.registers_table, <<>>, c.reported, c.out_of_registers)
  BY <1>3, <1>5 DEF Fields
<1>7. IsState(d)
  BY <1>5, <1>6 DEF IsState, Fields
<1>8. \A H : Held(c, H) <=> Held(d, H)
  BY <1>5 DEF Held, Apart
<1>9. \A n : Regs(d, n) = Regs(c, n)
  BY <1>5 DEF Regs, LastPlaces
<1> QED
  BY <1>4, <1>5, <1>6, <1>7, <1>8, <1>9

(* After an operation the translator rests again.                          *)
LEMMA OperationRests ==
  ASSUME TypeInv, NEW o, NEW c, NEW n, Operation(o, c, n)
  PROVE  /\ Rests(b_state') /\ b_state'.reported = c.reported
         /\ pseudo_ip' \in 0 .. MaxCode /\ open' \in 0 .. MaxOperands
<1>1. /\ b_state' = [c EXCEPT !.result = <<>>, !.loaded = <<>>]
      /\ pseudo_ip < MaxCode /\ pseudo_ip' = pseudo_ip + 1
  BY DEF Operation, Translate
<1>2. MaxCode \in Nat /\ pseudo_ip \in 0 .. MaxCode
  BY TranslatorAssumption DEF TypeInv
<1>3. /\ IsState(b_state') /\ b_state'.result = <<>>
      /\ Fields(b_state', c.value_stack, c.registers_table, <<>>,
                c.reported, c.out_of_registers)
  BY <1>1, Clearing DEF Operation
<1>4. Rests(b_state') /\ b_state'.reported = c.reported
  BY <1>3 DEF Rests, Fields, Operation
<1> QED
  BY <1>1, <1>2, <1>4 DEF Operation

(* An operation that is no business of op_code sections keeps registers    *)
(* apart.                                                                  *)
LEMMA OperationApart ==
  ASSUME TypeInv, ApartInv, NotTwice, NEW o, NEW c, NEW n, Operation(o, c, n),
         UNCHANGED allocated_registers
  PROVE  ApartInv'
<1> DEFINE a == allocated_registers
           H == {a[id] : id \in DOMAIN a}
<1>1. /\ IsState(c) /\ b_state' = [c EXCEPT !.result = <<>>, !.loaded = <<>>]
      /\ ~c.reported => (Held(b_state, H) => Held(c, H))
      /\ ~b_state.reported
  BY DEF Operation, Translate
<1>2. /\ b_state'.reported = c.reported
      /\ Held(c, H) => Held(b_state', H)
  BY <1>1, Clearing DEF Fields
<1>3. ApartFrom(b_state, a)
  BY <1>1 DEF ApartInv
<1>4. ~c.reported => ApartFrom(b_state', a)
  BY <1>1, <1>2, <1>3 DEF ApartFrom
<1> QED
  BY <1>2, <1>4 DEF ApartInv

(* The definition of Lost, with the registers of operands as a set.        *)
LEMMA LostIs ==
  ASSUME NEW b, IsState(b), b.value_stack \in Seq(Frames),
         NEW n \in Nat, n <= Len(b.value_stack), NEW a
  PROVE  LostOf(b, n, a) = (b.registers_table \ Regs(b, n)) \ {a[id] : id \in DOMAIN a}
<1> DEFINE s == b.value_stack
           A == {a[id] : id \in DOMAIN a}
           live == {j \in 1 .. Len(s) : InRegister(s[j]) /\ j > Len(s) - n}
<1>1. PICK l \in Nat : l = Len(s)
  OBVIOUS
<1>2. \A j : j \in live <=> j \in LastPlaces(b, n) /\ InRegister(s[j])
  BY <1>1 DEF LastPlaces
<1>3. b.registers_table \subseteq Registers
  BY DEF IsState
<1> HIDE DEF live, A
<1>4. ASSUME NEW x \in b.registers_table
      PROVE  x \in {s[i].data : i \in live} <=> x \in Regs(b, n)
  BY <1>2, <1>3, <1>4 DEF Regs, Reg
<1>5. LostOf(b, n, a) = b.registers_table \ ({s[i].data : i \in live} \cup A)
  BY DEF LostOf, live, A
<1> QED
  BY <1>4, <1>5 DEF A

(* An operation that gives registers back loses none.                      *)
LEMMA OperationLoses ==
  ASSUME TypeInv, NEW o, NEW c, NEW n, Operation(o, c, n),
         UNCHANGED allocated_registers
  PROVE  Lost' \subseteq Lost \/ LosingStep \/ b_state'.reported
<1> SUFFICES ASSUME ~c.reported, ~LosingStep
             PROVE  Lost' \subseteq Lost
  BY OperationRests
<1> DEFINE a == allocated_registers
           d == [c EXCEPT !.result = <<>>, !.loaded = <<>>]
<1>1. /\ IsState(c) /\ b_state' = d /\ open' = n /\ n \in Nat
      /\ c.value_stack \in Seq(Frames) /\ Frees(b_state, c, open, n)
      /\ ~b_state.reported /\ open <= Len(b_state.value_stack)
  BY TranslatorAssumption DEF Operation, Translate
<1>2. /\ IsState(d) /\ d.value_stack = c.value_stack
      /\ d.registers_table = c.registers_table /\ Regs(d, n) = Regs(c, n)
  BY <1>1, Clearing DEF Fields
<1> HIDE DEF d
<1>3. Lost' = LostOf(d, n, a)
  BY <1>1 DEF Lost, LostOf, HeldByFrames, HeldByLL
<1>4. Lost = LostOf(b_state, open, a)
  BY DEF Lost, LostOf, HeldByFrames, HeldByLL
<1>5. LostOf(d, n, a) = (c.registers_table \ Regs(c, n)) \ {a[id] : id \in DOMAIN a}
  BY <1>1, <1>2, LostIs DEF Frees
<1>6. LostOf(b_state, open, a)
        = (b_state.registers_table \ Regs(b_state, open)) \ {a[id] : id \in DOMAIN a}
  <2>1. open \in Nat /\ IsState(b_state) /\ b_state.value_stack \in Seq(Frames)
    BY <1>1, TranslatorAssumption DEF TypeInv, Rests
  <2> QED
    BY <1>1, <2>1, LostIs
<1> QED
  BY <1>1, <1>3, <1>4, <1>5, <1>6 DEF Frees

(* A handler that gives back the registers of the operands it replaced. *)
LEMMA GivesBackFrees ==
  ASSUME NEW b, NEW c, NEW k \in Nat, NEW m \in Nat, NEW j \in Nat, Typed(b),
         Replaces(b, c, k, m), GivesBack(b, c, k, m),
         k <= j, j <= Len(b.value_stack)
  PROVE  Frees(b, c, j, j - k + m)
<1> DEFINE s == b.value_stack
           u == c.value_stack
<1>1. PICK n \in Nat : n = Len(s)
  BY DEF Typed
<1>2. /\ Len(u) = n - k + m /\ j <= n
      /\ \A i \in 1 .. n - k : u[i] = s[i]
  BY <1>1 DEF Replaces
<1>3. /\ LastPlaces(c, j - k + m) = n - j + 1 .. n - k + m
      /\ LastPlaces(c, m) = n - k + 1 .. n - k + m
      /\ LastPlaces(b, k) = n - k + 1 .. n
      /\ LastPlaces(b, j) = n - j + 1 .. n
  BY <1>1, <1>2 DEF LastPlaces
<1>4. LastPlaces(c, m) \subseteq LastPlaces(c, j - k + m)
  BY <1>3
<1>5. Regs(c, m) \subseteq Regs(c, j - k + m)
  BY <1>4 DEF Regs
<1>6. ASSUME NEW x, x \in c.registers_table, x \notin Regs(c, j - k + m)
      PROVE  x \in b.registers_table /\ x \notin Regs(b, j)
  <2>1. x \in b.registers_table /\ x \notin Regs(b, k)
    BY <1>5, <1>6 DEF GivesBack
  <2>2. ASSUME NEW i \in LastPlaces(b, j), x \in Reg(s[i])
        PROVE  FALSE
    <3>1. i \notin LastPlaces(b, k)
      BY <2>1, <2>2 DEF Regs
    <3>2. i \in 1 .. n - k /\ i \in LastPlaces(c, j - k + m)
      BY <1>1, <1>2, <1>3, <3>1
    <3>3. x \in Reg(u[i])
      BY <1>2, <2>2, <3>2
    <3> QED
      BY <1>6, <3>2, <3>3 DEF Regs
  <2> QED
    BY <2>1, <2>2 DEF Regs
<1> QED
  BY <1>1, <1>2, <1>6 DEF Frees


-----------------------------------------------------------------------------
(* The steps of the translator, one by one.                                *)

(* An operand that ExpressionPromise takes for a pointer is one.           *)
LEMMA OperandTypes ==
  ASSUME b_state.value_stack \in Seq(Frames),
         NEW n \in Nat, n = Len(b_state.value_stack)
  PROVE  /\ n >= 1 /\ ~Source!Numeric(Right) => b_state.value_stack[n].info.depth > 0
         /\ n >= 2 /\ ~Source!Numeric(Left) => b_state.value_stack[n - 1].info.depth > 0
<1>1. PICK to : to = [i \in 1 .. n |-> Operand(machine, b_state.value_stack[i])]
  OBVIOUS
<1>2. Right = to[Len(to)] /\ Left = to[Len(to) - 1]
  BY <1>1, Zenon DEF Right, Left, Source!Right, Source!Left, Source!Count
<1>3. ASSUME NEW f \in Frames, ~(f.info.depth > 0)
      PROVE  Operand(machine, f).type.depth = 0
  <2>1. f.info.depth = 0 /\ ~IsPointer(f)
    <3>1. f.info.depth \in Nat
      BY <1>3, FrameFields
    <3>2. f.info.depth = 0
      BY <1>3, <3>1
    <3> QED
      BY <3>2 DEF IsPointer
  <2>2. AtFixedAddress(f) => Operand(machine, f).type = f.info
    BY DEF Operand, AtFixedAddress
  <2>3. f.source = "DynamicAddress" => Operand(machine, f).type = f.info
    BY DEF Operand, AtFixedAddress
  <2>4. ~AtFixedAddress(f) /\ f.source # "DynamicAddress" =>
          Operand(machine, f).type = [depth |-> 0, base |-> f.dynamic]
    BY <2>1 DEF Operand
  <2> QED
    BY <2>1, <2>2, <2>3, <2>4
<1>4. Len(to) = n /\ \A i \in 1 .. n : to[i] = Operand(machine, b_state.value_stack[i])
  BY <1>1
<1>5. \A i \in 1 .. n : b_state.value_stack[i] \in Frames
  OBVIOUS
<1> QED
  BY <1>2, <1>3, <1>4, <1>5 DEF Source!Numeric

(* Without a message, the state between two operations is typed.           *)
LEMMA StateIsTyped ==
  ASSUME TypeInv, ~b_state.reported
  PROVE  Typed(b_state)
BY DEF TypeInv, Rests, Typed

(* What is enough of a handler that keeps registers apart and gives them   *)
(* back.                                                                   *)
LEMMA GoodHandler ==
  ASSUME TypeInv, ~b_state.reported, open <= Len(b_state.value_stack),
         NEW c, NEW k \in Nat, NEW m \in Nat, k <= open,
         Replaces(b_state, c, k, m), GivesBack(b_state, c, k, m),
         Apart(b_state) => KeepsApart(b_state, c, k, m)
  PROVE  /\ c.value_stack \in Seq(Frames)
         /\ \A H : Held(b_state, H) => Held(c, H)
         /\ Frees(b_state, c, open, open - k + m)
<1>1. Typed(b_state) /\ open \in Nat
  BY StateIsTyped, TranslatorAssumption DEF TypeInv
<1>2. \A H : Held(b_state, H) => Held(c, H)
  BY <1>1, StaysHeld DEF Held
<1>3. Frees(b_state, c, open, open - k + m)
  BY <1>1, GivesBackFrees
<1> QED
  BY <1>2, <1>3 DEF Replaces

(* A handler that leaves operands and registers alone.                     *)
LEMMA QuietHandler ==
  ASSUME TypeInv, ~b_state.reported, open <= Len(b_state.value_stack),
         NEW c, Quiet(b_state, c)
  PROVE  /\ c.value_stack \in Seq(Frames)
         /\ \A H : Held(b_state, H) => Held(c, H)
         /\ Frees(b_state, c, open, open)
<1>1. Typed(b_state) /\ open \in Nat
  BY StateIsTyped, TranslatorAssumption DEF TypeInv
<1>2. /\ c.value_stack = b_state.value_stack
      /\ c.registers_table = b_state.registers_table
      /\ b_state.out_of_registers => c.out_of_registers
      /\ c.value_stack \in Seq(Frames) /\ IsState(c)
      /\ b_state.out_of_registers \in BOOLEAN /\ c.out_of_registers \in BOOLEAN
  BY <1>1 DEF Quiet, Remembers, Typed, IsState
<1>3. \A H : Held(b_state, H) => Held(c, H)
  BY <1>2 DEF Held, Apart
<1>4. Frees(b_state, c, open, open)
  BY <1>2 DEF Frees, Regs, LastPlaces
<1> QED
  BY <1>2, <1>3, <1>4

(* An operand that has no register is pushed.                              *)
LEMMA PushHandler ==
  ASSUME TypeInv, ~b_state.reported, open <= Len(b_state.value_stack),
         NEW f \in Frames, ~InRegister(f)
  PROVE  LET c == Pushed(b_state, f)
         IN /\ IsState(c) /\ c.value_stack \in Seq(Frames)
            /\ \A H : Held(b_state, H) => Held(c, H)
            /\ Frees(b_state, c, open, open + 1)
<1> DEFINE b == b_state
           s == b.value_stack
           c == Pushed(b, f)
           F == Frames
<1>1. Typed(b) /\ IsState(b) /\ s \in Seq(F) /\ open \in Nat
  BY StateIsTyped, TranslatorAssumption DEF TypeInv, Typed
<1>2. /\ Fields(c, Append(s, f), b.registers_table, b.loaded, b.reported,
                b.out_of_registers)
      /\ Remembers(b, c) /\ IsState(c)
  BY <1>1, Small, SmallRemember DEF Remembers
<1> HIDE DEF c, F
<1>3. PICK n \in Nat : n = Len(s)
  BY <1>1
<1>4. /\ c.value_stack = Append(s, f) /\ c.value_stack \in Seq(F)
      /\ Len(c.value_stack) = n + 1 /\ c.value_stack[n + 1] = f
      /\ \A i \in 1 .. n : c.value_stack[i] = s[i]
      /\ c.registers_table = b.registers_table
  BY <1>1, <1>2, <1>3 DEF Fields, F
<1>5. Replaces(b, c, 0, 1)
  BY <1>2, <1>3, <1>4 DEF Replaces, F
<1>6. Regs(b, 0) = {} /\ Regs(c, 1) = {} /\ LastPlaces(c, 1) = {n + 1}
  <2>1. Regs(b, 0) = {}
    BY <1>3, LastFrames
  <2>2. n + 1 \in Nat /\ n + 1 >= 1
    OBVIOUS
  <2>3. Regs(c, 1) = Reg(c.value_stack[n + 1]) /\ LastPlaces(c, 1) = {n + 1}
    BY <1>4, <2>2, LastFrames
  <2> QED
    BY <1>4, <2>1, <2>3 DEF Reg
<1>7. GivesBack(b, c, 0, 1) /\ KeepsApart(b, c, 0, 1)
  BY <1>4, <1>6 DEF GivesBack, KeepsApart
<1>8. 0 <= open /\ open - 0 + 1 = open + 1
  BY <1>1
<1>9. /\ c.value_stack \in Seq(Frames)
      /\ \A H : Held(b, H) => Held(c, H)
      /\ Frees(b, c, open, open - 0 + 1)
  BY <1>5, <1>7, <1>8, GoodHandler
<1> QED
  BY <1>2, <1>8, <1>9 DEF c

(* Use and UseConstant push an operand that has no register.               *)
LEMMA UseStep ==
  ASSUME TypeInv, NEW v \in Variables, Use(v)
  PROVE  /\ \E o, c, n : Operation(o, c, n)
         /\ InScope
<1> DEFINE own == v \in DOMAIN global_stack_offset
           prim == IF TypeOf[v].depth > 0 THEN "UInt" ELSE Analog(TypeOf[v].base)
           size == SizeOf(TypeOf[v])
           f == ValueFrame(IF own THEN "StaticAddress" ELSE "Symbol",
                           IF own THEN global_stack_offset[v] ELSE v, prim, TypeOf[v],
                           size)
           c == Pushed(b_state, f)
<1>1. /\ Operands(0) /\ (own \/ v \in Imported)
      /\ InExpression("Use", c, open + 1)
  BY DEF Use
<1>2. /\ TypeOf[v] \in [depth : Nat, base : Bases]
      /\ own => global_stack_offset[v] \in OwnBytes
  BY TranslatorAssumption DEF TypeInv, ScopesTyped
<1>3. f \in Frames /\ ~InRegister(f)
  <2>1. prim \in Primitives /\ size \in Nat
    <3>1. /\ Analog(TypeOf[v].base) \in Primitives /\ AlignedSize(TypeOf[v].base) \in Nat
          /\ Size \in Nat
      BY <1>2, SizesOfBases
    <3> QED
      BY <3>1 DEF Primitives, SizeOf
  <2>2. TypeOf[v] \in [depth : Nat, base : Bases \cup {"Invalid"}]
    BY <1>2
  <2> DEFINE i == TypeOf[v]
  <2>3. i.base \in Bases
    BY <1>2
  <2> HIDE DEF i, prim, size
  <2> DEFINE s == IF own THEN "StaticAddress" ELSE "Symbol"
             d == IF own THEN global_stack_offset[v] ELSE v
  <2>4. f = [source |-> s, data |-> d, dynamic |-> prim, static |-> prim,
             dynamicSize |-> size, staticSize |-> size, info |-> i]
    BY DEF ValueFrame, i
  <2>5. /\ s \in {"StaticAddress", "Symbol"}
        /\ s = "StaticAddress" => d \in OwnBytes
        /\ s = "Symbol" => d \in Imported
    BY <1>1, <1>2
  <2> HIDE DEF f, s, d
  <2>6. Suits(f) /\ ~InRegister(f)
    BY <2>3, <2>4, <2>5 DEF Suits, InRegister
  <2>7. s \in Sources /\ d \in 0 .. InvalidRegister \cup OwnBytes \cup Imported \cup Constants
    BY <2>5 DEF Sources
  <2> QED
    BY <2>1, <2>2, <2>4, <2>6, <2>7, MakesFrame DEF i
<1> HIDE DEF f, c, own
<1>4. /\ ~b_state.reported /\ open \in Nat /\ open <= Len(b_state.value_stack)
      /\ open + 1 \in 0 .. MaxOperands
      /\ Translate("Use", c) /\ open' = open + 1 /\ InScope
  <2>1. open \in Nat
    BY TranslatorAssumption DEF TypeInv
  <2>2. Len(b_state.value_stack) \in Nat
    BY <1>1 DEF Operands, TypeInv, Rests
  <2> QED
    BY <1>1, <2>1, <2>2, TranslatorAssumption DEF Operands, InExpression
<1>5. /\ IsState(c) /\ c.value_stack \in Seq(Frames)
      /\ \A H : Held(b_state, H) => Held(c, H)
      /\ Frees(b_state, c, open, open + 1)
  BY <1>3, <1>4, PushHandler DEF c
<1>6. Operation("Use", c, open + 1)
  BY <1>4, <1>5 DEF Operation
<1> QED
  BY <1>4, <1>6

(* A constant has no register either.                                      *)
LEMMA UseConstantStep ==
  ASSUME TypeInv, NEW k \in Constants, UseConstant(k)
  PROVE  /\ \E o, c, n : Operation(o, c, n)
         /\ InScope
<1> DEFINE f == ValueFrame("Constant", k, k.prim, NoType, k.size)
           c == Pushed(b_state, f)
<1>1. Operands(0) /\ InExpression("UseConstant", c, open + 1)
  BY DEF UseConstant
<1>2. f \in Frames /\ ~InRegister(f)
  <2>1. k.prim \in Primitives /\ k.size \in Nat
    BY TranslatorAssumption
  <2>2. f = [source |-> "Constant", data |-> k, dynamic |-> k.prim,
             static |-> k.prim, dynamicSize |-> k.size, staticSize |-> k.size,
             info |-> NoType]
    BY DEF ValueFrame
  <2> HIDE DEF f
  <2>3. Suits(f) /\ ~InRegister(f)
    BY <2>2, NoTypeIsType DEF Suits, InRegister, IsPointer
  <2>4. "Constant" \in Sources
    BY DEF Sources
  <2> QED
    BY <2>1, <2>2, <2>3, <2>4, NoTypeIsType, MakesFrame
<1> HIDE DEF f
<1>3. /\ ~b_state.reported /\ open \in Nat /\ open <= Len(b_state.value_stack)
      /\ open + 1 \in 0 .. MaxOperands
      /\ Translate("UseConstant", c) /\ open' = open + 1 /\ InScope
  <2>1. open \in Nat
    BY TranslatorAssumption DEF TypeInv
  <2>2. Len(b_state.value_stack) \in Nat
    BY <1>1 DEF Operands, TypeInv, Rests
  <2> QED
    BY <1>1, <2>1, <2>2, TranslatorAssumption DEF Operands, InExpression
<1>4. /\ IsState(c) /\ c.value_stack \in Seq(Frames)
      /\ \A H : Held(b_state, H) => Held(c, H)
      /\ Frees(b_state, c, open, open + 1)
  BY <1>2, <1>3, PushHandler
<1> HIDE DEF c
<1>5. Operation("UseConstant", c, open + 1)
  BY <1>3, <1>4 DEF Operation
<1> QED
  BY <1>3, <1>5

(* What all operations inside expressions have in common.                  *)
LEMMA InExpressionIs ==
  ASSUME TypeInv, NEW o, NEW c, NEW n, NEW k \in 1 .. 3, Operands(k),
         n \in {open - 1, open, 0}, InExpression(o, c, n),
         Remembers(b_state, c),
         ~c.reported => /\ c.value_stack \in Seq(Frames)
                        /\ \A H : Held(b_state, H) => Held(c, H)
                        /\ LosingStep \/ Frees(b_state, c, open, n)
  PROVE  Operation(o, c, n) /\ InScope
<1>1. open \in 0 .. MaxOperands /\ MaxOperands \in Nat /\ open >= k
  BY TranslatorAssumption DEF TypeInv, Operands
<1>2. Len(b_state.value_stack) \in Nat
  BY DEF Operands, TypeInv, Rests
<1>3. /\ ~b_state.reported /\ open <= Len(b_state.value_stack)
      /\ n \in 0 .. MaxOperands
      /\ Translate(o, c) /\ open' = n /\ InScope
  BY <1>1, <1>2 DEF Operands, InExpression
<1> QED
  BY <1>3 DEF Operation, Remembers

(* The state a step with an operand starts in.                             *)
LEMMA WithOperands ==
  ASSUME TypeInv, NEW k \in 1 .. 3, Operands(k)
  PROVE  /\ ~b_state.reported /\ Typed(b_state) /\ IsState(b_state)
         /\ open \in Nat /\ k <= open /\ open <= Len(b_state.value_stack)
         /\ Len(b_state.value_stack) \in Nat /\ k <= Len(b_state.value_stack)
         /\ b_state.value_stack \in Seq(Frames) /\ b_state.value_stack # <<>>
<1>1. Typed(b_state) /\ ~b_state.reported
  BY StateIsTyped DEF Operands
<1>2. /\ b_state.value_stack \in Seq(Frames) /\ IsState(b_state)
      /\ Len(b_state.value_stack) \in Nat /\ open \in Nat
  BY <1>1, TranslatorAssumption DEF Typed, TypeInv
<1> QED
  BY <1>1, <1>2 DEF Operands

(* The result of a binary operator takes the place of its two operands.    *)
LEMMA BinaryStep ==
  ASSUME TypeInv, NEW o \in BinaryOperators, Binary(o)
  PROVE  /\ \E i, c, n : Operation(i, c, n)
         /\ InScope
<1> DEFINE c == Handle(b_state, o)
<1>1. Operands(2) /\ InExpression(o, c, open - 1)
  BY DEF Binary
<1>2. /\ ~b_state.reported /\ Typed(b_state) /\ IsState(b_state)
      /\ open \in Nat /\ 2 <= open /\ open <= Len(b_state.value_stack)
      /\ Len(b_state.value_stack) \in Nat /\ 2 <= Len(b_state.value_stack)
  BY <1>1, WithOperands
<1>3. Remembers(b_state, c)
  BY <1>2, HandleRemembers
<1>4. c = BinaryOperation(b_state, o)
  BY <1>2 DEF Handle
<1> HIDE DEF c
<1>5. ASSUME ~c.reported
      PROVE  /\ c.value_stack \in Seq(Frames)
             /\ \A H : Held(b_state, H) => Held(c, H)
             /\ Frees(b_state, c, open, open - 1)
  <2>1. /\ Replaces(b_state, c, 2, 1) /\ GivesBack(b_state, c, 2, 1)
        /\ Apart(b_state) => KeepsApart(b_state, c, 2, 1)
    BY <1>2, <1>4, <1>5, BinaryEffect
  <2>2. open - 2 + 1 = open - 1
    BY <1>2
  <2>3. /\ c.value_stack \in Seq(Frames)
        /\ \A H : Held(b_state, H) => Held(c, H)
        /\ Frees(b_state, c, open, open - 2 + 1)
    BY <1>2, <2>1, GoodHandler
  <2> QED
    BY <2>2, <2>3
<1>6. Operation(o, c, open - 1) /\ InScope
  BY <1>1, <1>3, <1>5, InExpressionIs
<1> QED
  BY <1>6

(* The result of a unary operator takes the place of its operand; Not has  *)
(* no code.                                                                *)
LEMMA UnaryStep ==
  ASSUME TypeInv, NEW o \in UnaryOperators, Unary(o)
  PROVE  /\ \E i, c, n : Operation(i, c, n)
         /\ InScope
<1> DEFINE c == Handle(b_state, o)
<1>1. Operands(1) /\ InExpression(o, c, open)
  BY DEF Unary
<1>2. /\ ~b_state.reported /\ Typed(b_state) /\ IsState(b_state)
      /\ open \in Nat /\ 1 <= open /\ open <= Len(b_state.value_stack)
      /\ b_state.value_stack # <<>>
  BY <1>1, WithOperands
<1>3. o \in {"Negative", "BitNot", "Not"} /\ o \notin BinaryOperators
  BY TranslatorAssumption DEF BinaryOperators
<1>4. Remembers(b_state, c)
  BY <1>2, <1>3, HandleRemembers
<1>5. c = UnaryOperation(b_state, o)
  BY <1>3 DEF Handle
<1> HIDE DEF c
<1>6. ASSUME ~c.reported
      PROVE  /\ c.value_stack \in Seq(Frames)
             /\ \A H : Held(b_state, H) => Held(c, H)
             /\ Frees(b_state, c, open, open)
  <2>1. CASE o = "Not"
    <3>1. c = b_state
      BY <1>5, <2>1 DEF UnaryOperation
    <3>2. Quiet(b_state, c)
      BY <1>2, <3>1, QuietSteps
    <3> QED
      BY <1>2, <3>2, QuietHandler
  <2>2. CASE o # "Not"
    <3>1. o \in {"Negative", "BitNot"}
      BY <1>3, <2>2
    <3>2. /\ Replaces(b_state, c, 1, 1) /\ GivesBack(b_state, c, 1, 1)
          /\ Apart(b_state) => KeepsApart(b_state, c, 1, 1)
      BY <1>2, <1>5, <1>6, <3>1, UnaryEffect
    <3>3. open - 1 + 1 = open
      BY <1>2
    <3>4. /\ c.value_stack \in Seq(Frames)
          /\ \A H : Held(b_state, H) => Held(c, H)
          /\ Frees(b_state, c, open, open - 1 + 1)
      BY <1>2, <3>2, GoodHandler
    <3> QED
      BY <3>3, <3>4
  <2> QED
    BY <2>1, <2>2
<1>7. Operation(o, c, open) /\ InScope
  BY <1>1, <1>4, <1>6, InExpressionIs
<1> QED
  BY <1>7

(* One operand becomes another, as GetPointer and Dereference have it.     *)
LEMMA OneBecomesStep ==
  ASSUME TypeInv, NEW o, NEW c, Operands(1), InExpression(o, c, open),
         Remembers(b_state, c),
         ~c.reported => \E f, new : OneBecame(b_state, c, f, new)
  PROVE  Operation(o, c, open) /\ InScope
<1>1. /\ ~b_state.reported /\ open \in Nat /\ 1 <= open
      /\ open <= Len(b_state.value_stack)
  BY WithOperands
<1>2. ASSUME ~c.reported
      PROVE  /\ c.value_stack \in Seq(Frames)
             /\ \A H : Held(b_state, H) => Held(c, H)
             /\ Frees(b_state, c, open, open)
  <2>1. /\ Replaces(b_state, c, 1, 1) /\ GivesBack(b_state, c, 1, 1)
        /\ Apart(b_state) => KeepsApart(b_state, c, 1, 1)
    BY <1>2, OneReplaced
  <2>2. open - 1 + 1 = open
    BY <1>1
  <2>3. /\ c.value_stack \in Seq(Frames)
        /\ \A H : Held(b_state, H) => Held(c, H)
        /\ Frees(b_state, c, open, open - 1 + 1)
    BY <1>1, <2>1, GoodHandler
  <2> QED
    BY <2>2, <2>3
<1> QED
  BY <1>2, InExpressionIs

(* The address of an operand is in a register: its own, or a new one.      *)
LEMMA GetPointerStep ==
  ASSUME TypeInv, GetPointer
  PROVE  /\ \E i, c, n : Operation(i, c, n)
         /\ InScope
<1> DEFINE c == PointerTaken(b_state)
<1>1. Operands(1) /\ InExpression("GetPointer", c, open)
  BY DEF GetPointer
<1>2. Typed(b_state) /\ IsState(b_state) /\ b_state.value_stack # <<>>
  BY <1>1, WithOperands
<1>3. Remembers(b_state, c)
  BY <1>2, PointersRemember
<1>4. ~c.reported => \E f, new : OneBecame(b_state, c, f, new)
  BY <1>2, PointerTakenEffect
<1> HIDE DEF c
<1>5. Operation("GetPointer", c, open) /\ InScope
  BY <1>1, <1>3, <1>4, OneBecomesStep
<1> QED
  BY <1>5

(* What a pointer points to keeps the register of the pointer.             *)
LEMMA DereferenceStep ==
  ASSUME TypeInv, Dereference
  PROVE  /\ \E i, c, n : Operation(i, c, n)
         /\ InScope
<1> DEFINE c == PointerFollowed(b_state)
           s == b_state.value_stack
<1>1. Operands(1) /\ InExpression("Dereference", c, open) /\ ~Source!Numeric(Right)
  BY DEF Dereference
<1>2. /\ Typed(b_state) /\ IsState(b_state) /\ s # <<>>
      /\ s \in Seq(Frames) /\ Len(s) \in Nat /\ 1 <= Len(s)
  BY <1>1, WithOperands
<1>3. Last(s).info.depth > 0
  BY <1>1, <1>2, OperandTypes DEF Last
<1>4. Remembers(b_state, c)
  BY <1>2, PointersRemember
<1>5. ~c.reported => \E f, new : OneBecame(b_state, c, f, new)
  BY <1>2, <1>3, PointerFollowedEffect
<1> HIDE DEF c
<1>6. Operation("Dereference", c, open) /\ InScope
  BY <1>1, <1>4, <1>5, OneBecomesStep
<1> QED
  BY <1>6

(* The element takes the register of the pointer, and the index gives its  *)
(* own back.                                                               *)
LEMMA GetByArgumentStep ==
  ASSUME TypeInv, GetByArgument
  PROVE  /\ \E i, c, n : Operation(i, c, n)
         /\ InScope
<1> DEFINE c == Indexed(b_state)
           s == b_state.value_stack
<1>1. Operands(2) /\ InExpression("GetByArgument", c, open - 1) /\ ~Source!Numeric(Left)
  BY DEF GetByArgument
<1>2. /\ ~b_state.reported /\ Typed(b_state) /\ IsState(b_state)
      /\ open \in Nat /\ 2 <= open /\ open <= Len(s)
      /\ s \in Seq(Frames) /\ Len(s) \in Nat /\ 2 <= Len(s)
  BY <1>1, WithOperands
<1>3. s[Len(s) - 1].info.depth > 0
  BY <1>1, <1>2, OperandTypes
<1>4. Remembers(b_state, c)
  BY <1>2, PointersRemember
<1>5. ASSUME ~c.reported
      PROVE  /\ c.value_stack \in Seq(Frames)
             /\ \A H : Held(b_state, H) => Held(c, H)
             /\ Frees(b_state, c, open, open - 1)
  <2>1. \E n, x, d, r, l : TwoBecame(b_state, n, x, d, c, r, l)
    BY <1>2, <1>3, <1>5, IndexedEffect
  <2> HIDE DEF c
  <2>2. /\ Replaces(b_state, c, 2, 1) /\ GivesBack(b_state, c, 2, 1)
        /\ Apart(b_state) => KeepsApart(b_state, c, 2, 1)
    BY <2>1, TwoReplaced
  <2>3. open - 2 + 1 = open - 1
    BY <1>2
  <2>4. /\ c.value_stack \in Seq(Frames)
        /\ \A H : Held(b_state, H) => Held(c, H)
        /\ Frees(b_state, c, open, open - 2 + 1)
    BY <1>2, <2>2, GoodHandler
  <2> QED
    BY <2>3, <2>4
<1> HIDE DEF c
<1>6. Operation("GetByArgument", c, open - 1) /\ InScope
  BY <1>1, <1>4, <1>5, InExpressionIs
<1> QED
  BY <1>6

(* The operand that is loaded and not put back: its register stays in the  *)
(* table.                                                                  *)
LEMMA LoadedAway ==
  ASSUME NEW b, Typed(b), b.value_stack # <<>>, NEW c, Quiet(Load(b), c), ~c.reported
  PROVE  /\ c.value_stack \in Seq(Frames)
         /\ \A H : Held(b, H) => Held(c, H)
<1> DEFINE d == Load(b)
           s == b.value_stack
           f == Last(s)
           g == d.loaded[1]
<1>1. IsState(b) /\ s \in Seq(Frames)
  BY DEF Typed
<1>2. Remembers(b, d)
  BY <1>1, LoadRemembers
<1>3. ~d.reported
  BY DEF Quiet, Remembers
<1>4. /\ Typed(d) /\ d.value_stack = Front(s)
      /\ InItsRegister(f, g, b, d)
  BY <1>3, LoadEffect
<1> HIDE DEF d, g
<1>5. Quiet(d, c)
  BY DEF d
<1>6. /\ c.value_stack = Front(s) /\ c.registers_table = d.registers_table
      /\ Remembers(b, c)
  BY <1>2, <1>4, <1>5, RemembersTwice DEF Quiet
<1>7. PICK n \in Nat : n = Len(s)
  BY <1>1
<1>8. /\ n >= 1 /\ Front(s) \in Seq(Frames) /\ Len(Front(s)) = n - 1
      /\ \A i \in 1 .. n - 1 : Front(s)[i] = s[i]
      /\ f = s[n]
  BY <1>1, <1>7, WithoutTop
<1>9. Replaces(b, c, 1, 0)
  <2>1. n - 1 + 0 = n - 1
    BY <1>7
  <2> QED
    BY <1>6, <1>7, <1>8, <2>1 DEF Replaces
<1>10. KeepsApart(b, c, 1, 0)
  <2>1. Regs(b, 1) = Reg(f)
    BY <1>7, <1>8, LastFrames
  <2>2. b.registers_table \subseteq c.registers_table
    BY <1>1, <1>4, <1>6, RegisterOf
  <2>3. n - 1 \in Nat /\ n - 1 = Len(c.value_stack)
    BY <1>6, <1>8
  <2>4. Regs(c, 0) = {}
    BY <2>3, LastFrames
  <2>5. LastPlaces(c, 0) = {}
    BY <2>3 DEF LastPlaces
  <2> QED
    BY <2>1, <2>2, <2>4, <2>5 DEF KeepsApart
<1>11. \A H : Held(b, H) => Held(c, H)
  BY <1>9, <1>10, StaysHeld
<1> QED
  BY <1>6, <1>8, <1>11

(* A condition is loaded for the jump, and its register stays in the       *)
(* table.                                                                  *)
LEMMA JumpIfStep ==
  ASSUME TypeInv, JumpIf
  PROVE  /\ \E i, c, n : Operation(i, c, n)
         /\ InScope
<1> DEFINE d == Load(b_state)
           x == <<"JMPCV", d.loaded[1].data>>
           c == Emitted(d, x)
<1>1. Operands(1) /\ InExpression("JumpIf", c, 0)
  BY DEF JumpIf
<1>2. /\ Typed(b_state) /\ IsState(b_state) /\ b_state.value_stack # <<>>
  BY <1>1, WithOperands
<1>3. Remembers(b_state, d) /\ IsState(d)
  BY <1>2, LoadRemembers DEF Remembers
<1> HIDE DEF x
<1>4. Quiet(d, c) /\ Remembers(b_state, c)
  <2> HIDE DEF d
  <2>1. Quiet(d, c)
    BY <1>3, QuietSteps
  <2> QED
    BY <1>3, <2>1, RemembersTwice DEF Quiet
<1> HIDE DEF c
<1>5. ~c.reported => /\ c.value_stack \in Seq(Frames)
                     /\ \A H : Held(b_state, H) => Held(c, H)
  BY <1>2, <1>4, LoadedAway
<1>6. LosingStep
  BY DEF LosingStep
<1>7. Operation("JumpIf", c, 0) /\ InScope
  BY <1>1, <1>4, <1>5, <1>6, InExpressionIs
<1> QED
  BY <1>7

(* An assignment keeps registers apart, except for x ~= y that is          *)
(* assigned, which leaves x on the stack twice; and one to a fixed address *)
(* that is not assigned gives all registers back.                          *)
LEMMA AssignStep ==
  ASSUME TypeInv, NEW o \in CompoundOperators \cup {"Nop"}, NEW keep \in BOOLEAN,
         Assign(o, keep)
  PROVE  /\ \E i, c, n : Operation(i, c, n)
         /\ InScope
<1> DEFINE c == Assigned(b_state, o, keep)
           s == b_state.value_stack
           h == s[Len(s) - 1]
           i == IF keep THEN "AssignR" ELSE "Assign"
           n == IF keep THEN open - 1 ELSE 0
<1>1. /\ Operands(IF keep THEN 3 ELSE 2) /\ (keep \/ open = 2)
      /\ o # "Nop" /\ Top(Popped(b_state)).source = "DynamicAddress" => CompoundByPointer
      /\ Translate(i, c) /\ open' = n /\ InScope
  BY DEF Assign
<1>2. /\ ~b_state.reported /\ Typed(b_state) /\ IsState(b_state)
      /\ open \in Nat /\ 2 <= open /\ open <= Len(s)
      /\ s \in Seq(Frames) /\ Len(s) \in Nat /\ 2 <= Len(s)
  BY <1>1, WithOperands
<1>3. o \in BinaryOperators \cup {"BitNot", "Nop"}
  BY TranslatorAssumption
<1>4. Remembers(b_state, c)
  BY <1>2, <1>3, AssignedRemembers
<1>5. Top(Popped(b_state)) = h
  <2>1. Popped(b_state).value_stack = Front(s)
    BY <1>2, Small DEF Fields
  <2>2. PICK l \in Nat : l = Len(s)
    BY <1>2
  <2>3. /\ Front(s) \in Seq(Frames) /\ Len(Front(s)) = l - 1
        /\ \A j \in 1 .. l - 1 : Front(s)[j] = s[j]
    BY <1>2, <2>2, WithoutTop
  <2>4. Last(Front(s)) = s[l - 1]
    BY <1>2, <2>2, <2>3 DEF Last
  <2> QED
    BY <2>1, <2>2, <2>4 DEF Top
<1>6. LosingStep \/ (~keep /\ h.source # "DynamicAddress")
  BY <1>5 DEF LosingStep
<1> HIDE DEF c
<1>7. ASSUME ~c.reported
      PROVE  /\ Remembers(b_state, c) /\ c.value_stack \in Seq(Frames)
             /\ ~keep /\ h.source # "DynamicAddress" =>
                  c.registers_table \subseteq b_state.registers_table \ Regs(b_state, 2)
             /\ NotTwice => \A H : Held(b_state, H) => Held(c, H)
  <2>1. CASE o = "Nop"
    BY <1>2, <1>7, <2>1, CopiedEffect DEF c
  <2>2. CASE o # "Nop"
    <3>1. o \in BinaryOperators \cup {"BitNot"}
      BY <1>3, <2>2
    <3>2. /\ Remembers(b_state, c) /\ c.value_stack \in Seq(Frames)
          /\ ~keep /\ h.source # "DynamicAddress" =>
               c.registers_table \subseteq b_state.registers_table \ Regs(b_state, 2)
          /\ (o = "BitNot" /\ keep => h.source # "DynamicAddress") =>
               \A H : Held(b_state, H) => Held(c, H)
      BY <1>2, <1>7, <3>1, CompoundEffect DEF c
    <3>3. NotTwice => (o = "BitNot" /\ keep => h.source # "DynamicAddress")
      BY <1>1, <1>5, <2>2 DEF NotTwice
    <3> QED
      BY <3>2, <3>3
  <2> QED
    BY <2>1, <2>2
<1>8. ~c.reported /\ ~LosingStep => Frees(b_state, c, open, n)
  <2> SUFFICES ASSUME ~c.reported, ~LosingStep
               PROVE  Frees(b_state, c, open, n)
    OBVIOUS
  <2>1. ~keep /\ h.source # "DynamicAddress" /\ n = 0 /\ open = 2
    BY <1>1, <1>6
  <2>2. c.registers_table \subseteq b_state.registers_table \ Regs(b_state, 2)
    BY <1>7, <2>1
  <2>3. 0 <= Len(c.value_stack)
    BY <1>7
  <2> HIDE DEF n
  <2> QED
    BY <2>1, <2>2, <2>3 DEF Frees
<1>9. n \in 0 .. MaxOperands
  BY <1>2, TranslatorAssumption DEF TypeInv
<1> HIDE DEF n, i
<1>10. Operation(i, c, n)
  BY <1>1, <1>2, <1>4, <1>7, <1>8, <1>9 DEF Operation, Remembers
<1> QED
  BY <1>1, <1>10

(* Between statements only commands are added.                             *)
LEMMA StatementStep ==
  ASSUME TypeInv, NEW o, NEW c, Statement(o, c), Quiet(b_state, c)
  PROVE  Operation(o, c, 0)
<1>1. /\ Operands(0) /\ open = 0 /\ Translate(o, c) /\ open' = open
  BY DEF Statement
<1>2. /\ ~b_state.reported /\ Typed(b_state) /\ Len(b_state.value_stack) \in Nat
  BY <1>1, StateIsTyped DEF Operands, Typed
<1>3. open <= Len(b_state.value_stack) /\ 0 \in 0 .. MaxOperands
  BY <1>1, <1>2, TranslatorAssumption
<1>4. /\ c.value_stack \in Seq(Frames)
      /\ \A H : Held(b_state, H) => Held(c, H)
      /\ Frees(b_state, c, open, open)
  BY <1>2, <1>3, QuietHandler
<1> QED
  BY <1>1, <1>2, <1>3, <1>4 DEF Operation, Quiet, Remembers

(* Jumps and labels are commands and nothing else.                         *)
LEMMA JumpStep ==
  ASSUME TypeInv, Jump \/ Label
  PROVE  /\ \E o, c, n : Operation(o, c, n)
         /\ InScope
<1>1. PICK x : Statement("Jump", Emitted(b_state, x)) /\ InScope
  BY DEF Jump, Label
<1>2. Quiet(b_state, Emitted(b_state, x))
  BY QuietSteps DEF TypeInv, Rests
<1>3. Operation("Jump", Emitted(b_state, x), 0)
  BY <1>1, <1>2, StatementStep
<1> QED
  BY <1>1, <1>3

(* The variable gets the next free bytes of the innermost scope.           *)
LEMMA DeclareVariableStep ==
  ASSUME TypeInv, NEW v \in Own, DeclareVariable(v)
  PROVE  /\ \E o, c, n : Operation(o, c, n)
         /\ UNCHANGED allocated_registers /\ ScopesTyped'
<1> DEFINE frame == Last(frame_stack)
           n == Len(frame_stack)
           size == SizeOf(TypeOf[v])
           x == <<"STACK_UP", size>>
           free == NextFreeAddress(frame)
<1>1. /\ Statement("DeclareVariable", Emitted(b_state, x))
      /\ free + size <= StackSize
      /\ frame_stack' = [frame_stack EXCEPT ![n].size = @ + size]
      /\ global_stack_offset' = Inserted(global_stack_offset, v, free)
      /\ UNCHANGED allocated_registers
  BY DEF DeclareVariable
<1>6. size \in Nat \ {0}
  <2>1. v \in Variables /\ TypeOf[v].base \in Bases
    BY TranslatorAssumption DEF Variables
  <2> QED
    BY <2>1, SizesOfBases DEF SizeOf
<1>7. free \in OwnBytes
  <2>1. frame_stack \in Seq(StackFrame) /\ frame_stack # <<>>
    BY DEF TypeInv, ScopesTyped
  <2>2. frame \in StackFrame
    BY <2>1 DEF Last
  <2>3. free \in Nat
    BY <2>2 DEF NextFreeAddress, StackFrame
  <2> HIDE DEF free, size
  <2> QED
    BY <1>1, <1>6, <2>3, TranslatorAssumption DEF OwnBytes
<1>2. Quiet(b_state, Emitted(b_state, x))
  BY QuietSteps DEF TypeInv, Rests
<1>3. Operation("DeclareVariable", Emitted(b_state, x), 0)
  BY <1>1, <1>2, StatementStep
<1>4. frame_stack' \in Seq(StackFrame) \ {<<>>}
  <2>1. frame_stack \in Seq(StackFrame) /\ frame_stack # <<>>
    BY DEF TypeInv, ScopesTyped
  <2>2. n \in 1 .. Len(frame_stack) /\ frame_stack[n] \in StackFrame
    BY <2>1
  <2>3. [frame_stack[n] EXCEPT !.size = @ + size] \in StackFrame
    <3>1. ASSUME NEW f \in StackFrame
          PROVE  [f EXCEPT !.size = @ + size] \in StackFrame
      <4> HIDE DEF size
      <4> QED
        BY <1>6 DEF StackFrame
    <3> QED
      BY <2>2, <3>1
  <2> DEFINE g == [frame_stack[n] EXCEPT !.size = @ + size]
  <2>4. frame_stack' = [frame_stack EXCEPT ![n] = g]
    BY <1>1
  <2> HIDE DEF g, n
  <2>5. [frame_stack EXCEPT ![n] = g] \in Seq(StackFrame)
    BY <2>1, <2>2, <2>3, ExceptSeq DEF g
  <2>6. Len(frame_stack') = Len(frame_stack)
    BY <2>1, <2>2, <2>4, <2>3, ExceptSeq DEF g
  <2> QED
    BY <2>1, <2>2, <2>4, <2>5, <2>6
<1>5. /\ DOMAIN global_stack_offset' \subseteq Own
      /\ \A w \in DOMAIN global_stack_offset' : global_stack_offset'[w] \in OwnBytes
  <2>1. /\ DOMAIN global_stack_offset \subseteq Own
        /\ \A w \in DOMAIN global_stack_offset : global_stack_offset[w] \in OwnBytes
    BY DEF TypeInv, ScopesTyped
  <2> HIDE DEF free
  <2>2. global_stack_offset' =
          [w \in DOMAIN global_stack_offset \cup {v} |->
             IF w = v THEN free ELSE global_stack_offset[w]]
    BY <1>1 DEF Inserted
  <2> QED
    BY <1>7, <2>1, <2>2
<1> QED
  BY <1>1, <1>3, <1>4, <1>5 DEF ScopesTyped

(* A new scope begins where the one around it ends.                        *)
LEMMA PushFrameStep ==
  ASSUME TypeInv, PushFrame
  PROVE  /\ \E o, c, n : Operation(o, c, n)
         /\ UNCHANGED allocated_registers /\ ScopesTyped'
<1> DEFINE start == NextFreeAddress(Last(frame_stack))
           f == [start_address |-> start, size |-> 0]
<1>1. /\ Statement("PushFrame", b_state)
      /\ frame_stack' = Append(frame_stack, f)
      /\ UNCHANGED <<global_stack_offset, allocated_registers>>
  BY DEF PushFrame, OpenFrame
<1>2. Quiet(b_state, b_state)
  BY QuietSteps DEF TypeInv, Rests
<1>3. Operation("PushFrame", b_state, 0)
  BY <1>1, <1>2, StatementStep
<1>4. frame_stack' \in Seq(StackFrame) \ {<<>>}
  <2>1. frame_stack \in Seq(StackFrame) /\ frame_stack # <<>>
    BY DEF TypeInv, ScopesTyped
  <2>2. Last(frame_stack) \in StackFrame
    BY <2>1 DEF Last
  <2>3. f \in StackFrame
    BY <2>2 DEF NextFreeAddress, StackFrame
  <2> HIDE DEF f
  <2> QED
    BY <1>1, <2>1, <2>3
<1> QED
  BY <1>1, <1>3, <1>4 DEF ScopesTyped, TypeInv

(* The variables of the scope are gone with it.                            *)
LEMMA PopFrameStep ==
  ASSUME TypeInv, PopFrame
  PROVE  /\ \E o, c, n : Operation(o, c, n)
         /\ UNCHANGED allocated_registers /\ ScopesTyped'
<1> DEFINE still == {v \in DOMAIN global_stack_offset :
                       global_stack_offset[v] < Last(frame_stack).start_address}
<1>1. /\ Statement("PopFrame", b_state) /\ Len(frame_stack) > 1
      /\ frame_stack' = Front(frame_stack)
      /\ global_stack_offset' = [v \in still |-> global_stack_offset[v]]
      /\ UNCHANGED allocated_registers
  BY DEF PopFrame
<1>2. Quiet(b_state, b_state)
  BY QuietSteps DEF TypeInv, Rests
<1>3. Operation("PopFrame", b_state, 0)
  BY <1>1, <1>2, StatementStep
<1>4. frame_stack' \in Seq(StackFrame) \ {<<>>}
  <2>1. frame_stack \in Seq(StackFrame) /\ frame_stack # <<>>
    BY DEF TypeInv, ScopesTyped
  <2>2. Front(frame_stack) \in Seq(StackFrame) /\ Len(Front(frame_stack)) = Len(frame_stack) - 1
    BY <2>1, WithoutLast
  <2> QED
    BY <1>1, <2>1, <2>2
<1>5. /\ DOMAIN global_stack_offset' \subseteq Own
      /\ \A w \in DOMAIN global_stack_offset' : global_stack_offset'[w] \in OwnBytes
  <2>1. /\ DOMAIN global_stack_offset \subseteq Own
        /\ \A w \in DOMAIN global_stack_offset : global_stack_offset[w] \in OwnBytes
    BY DEF TypeInv, ScopesTyped
  <2>2. still \subseteq DOMAIN global_stack_offset
    OBVIOUS
  <2> HIDE DEF still
  <2> QED
    BY <1>1, <2>1, <2>2
<1> QED
  BY <1>1, <1>3, <1>4, <1>5 DEF ScopesTyped

(* An operation of a statement keeps all that.                             *)
LEMMA OperationKeeps ==
  ASSUME TypeInv, \E o, c, n : Operation(o, c, n),
         UNCHANGED allocated_registers, ScopesTyped'
  PROVE  StepKeeps
<1>1. PICK o, c, n : Operation(o, c, n)
  OBVIOUS
<1>2. TypeInv'
  <2>1. LLTyped'
    BY DEF TypeInv, LLTyped
  <2>2. Rests(b_state') /\ pseudo_ip' \in 0 .. MaxCode /\ open' \in 0 .. MaxOperands
    BY <1>1, OperationRests
  <2> QED
    BY <2>1, <2>2 DEF TypeInv
<1>3. NotTwice /\ ApartInv => ApartInv'
  BY <1>1, OperationApart
<1>4. Lost' \subseteq Lost \/ LosingStep \/ b_state'.reported
  BY <1>1, OperationLoses
<1> QED
  BY <1>2, <1>3, <1>4 DEF StepKeeps

(* Operations that leave the scopes alone.                                 *)
LEMMA InScopeKeeps ==
  ASSUME TypeInv, InScope
  PROVE  UNCHANGED allocated_registers /\ ScopesTyped'
BY DEF InScope, TypeInv, ScopesTyped

(* An expression that is a statement: only the operands are forgotten.     *)
LEMMA EndExpressionKeeps ==
  ASSUME TypeInv, EndExpression
  PROVE  StepKeeps
<1>1. /\ b_state' = b_state /\ pseudo_ip' = pseudo_ip /\ open' = 0 /\ InScope
      /\ LosingStep
  BY DEF EndExpression, LosingStep
<1>2. UNCHANGED allocated_registers /\ ScopesTyped'
  BY <1>1, InScopeKeeps
<1>3. TypeInv'
  <2>1. 0 \in 0 .. MaxOperands
    BY TranslatorAssumption
  <2>2. LLTyped' /\ Rests(b_state')
    BY <1>1, <1>2 DEF TypeInv, LLTyped
  <2> QED
    BY <1>1, <1>2, <2>1, <2>2 DEF TypeInv
<1>4. ApartInv => ApartInv'
  BY <1>1, <1>2 DEF ApartInv
<1> QED
  BY <1>1, <1>3, <1>4 DEF StepKeeps

(* The first use of a register of an op_code section takes register r,     *)
(* which nobody had.                                                       *)
LEMMA RegisterGiven ==
  ASSUME NEW b, Typed(b), NEW c, NEW r \in Registers \ b.registers_table,
         Fields(c, b.value_stack, b.registers_table \cup {r}, b.loaded, b.reported,
                b.out_of_registers),
         NEW H, Held(b, H)
  PROVE  Held(c, H \cup {r})
<1>1. /\ c.value_stack = b.value_stack
      /\ c.registers_table = b.registers_table \cup {r}
      /\ c.out_of_registers = b.out_of_registers
  BY DEF Fields
<1>2. /\ Apart(b) /\ H \subseteq b.registers_table
      /\ \A i \in 1 .. Len(b.value_stack) : Reg(b.value_stack[i]) \cap H = {}
  BY DEF Held
<1>3. \A i \in 1 .. Len(b.value_stack) : Reg(b.value_stack[i]) \subseteq b.registers_table
  BY <1>2 DEF Apart
<1>4. Apart(c)
  BY <1>1, <1>2 DEF Apart
<1>5. \A i \in 1 .. Len(b.value_stack) : Reg(b.value_stack[i]) \cap (H \cup {r}) = {}
  BY <1>2, <1>3
<1> QED
  BY <1>1, <1>2, <1>4, <1>5 DEF Held

(* An operation of an op_code section: on a register it has, with none     *)
(* left, and on one that is free.                                          *)
LEMMA LowLevelKeeps ==
  ASSUME TypeInv, NEW id \in LLRegisters, LowLevel(id)
  PROVE  StepKeeps
<1> DEFINE a == allocated_registers
           A == {a[x] : x \in DOMAIN a}
           had == id \in DOMAIN a
           b == IF had THEN b_state ELSE Allocated(b_state)
           register == IF had THEN a[id] ELSE FindFreeGeneral(b_state)
           none == register = InvalidRegister
           x == <<"MOVRI", IF none THEN 0 ELSE register>>
           c == Emitted(IF none THEN Reported(b) ELSE b, x)
           new == Inserted(a, id, register)
<1>1. /\ Statement("PushLLOpers", c)
      /\ a' = IF had \/ none THEN a ELSE new
      /\ UNCHANGED <<frame_stack, global_stack_offset>>
  BY DEF LowLevel
<1>2. /\ ~b_state.reported /\ Typed(b_state) /\ IsState(b_state)
      /\ open = 0 /\ Translate("PushLLOpers", c) /\ open' = open
  BY <1>1, StateIsTyped DEF Statement, Operands, Typed
<1>3. ScopesTyped'
  BY <1>1 DEF TypeInv, ScopesTyped
<1> HIDE DEF x
<1>4. CASE had
  <2>1. c = Emitted(b_state, x) /\ UNCHANGED allocated_registers
    <3>1. a[id] \in Registers
      BY <1>4 DEF TypeInv, LLTyped
    <3>2. ~none
      BY <1>4, <3>1, TranslatorAssumption DEF Registers, InvalidRegister
    <3> QED
      BY <1>1, <1>4, <3>2
  <2>2. Quiet(b_state, c)
    BY <1>2, <2>1, QuietSteps
  <2>3. Operation("PushLLOpers", c, 0)
    BY <1>1, <2>2, StatementStep
  <2> QED
    BY <1>3, <2>1, <2>3, OperationKeeps
<1>5. CASE ~had /\ none
  <2> DEFINE e == Allocated(b_state)
             r == Reported(e)
  <2>1. c = Emitted(r, x) /\ UNCHANGED allocated_registers
    BY <1>1, <1>5
  <2>2. IsState(e)
    BY <1>2, SmallRemember DEF Remembers
  <2> HIDE DEF e
  <2>3. IsState(r) /\ r.reported
    BY <2>2, SmallRemember DEF Remembers
  <2> HIDE DEF r
  <2>4. IsState(c) /\ c.reported
    BY <2>1, <2>3, SmallRemember DEF Remembers
  <2> HIDE DEF c
  <2>5. 0 \in 0 .. MaxOperands /\ open <= Len(b_state.value_stack)
    BY <1>1, <1>2, TranslatorAssumption DEF Statement, Operands
  <2>6. Operation("PushLLOpers", c, 0)
    BY <1>2, <2>4, <2>5 DEF Operation
  <2> QED
    BY <1>3, <2>1, <2>6, OperationKeeps
<1>6. CASE ~had /\ ~none
  <2> DEFINE r == FindFreeGeneral(b_state)
             e == Allocated(b_state)
             d == [c EXCEPT !.result = <<>>, !.loaded = <<>>]
  <2>1. /\ c = Emitted(e, x) /\ a' = Inserted(a, id, r) /\ r # InvalidRegister
    BY <1>1, <1>6
  <2>2. /\ r \in Registers \ b_state.registers_table
        /\ Fields(e, b_state.value_stack, b_state.registers_table \cup {r},
                  b_state.loaded, b_state.reported, b_state.out_of_registers)
    BY <1>2, <2>1, FirstFree, Allocating
  <2>3. IsState(e)
    BY <1>2, SmallRemember DEF Remembers
  <2> HIDE DEF e
  <2>4. /\ Fields(c, b_state.value_stack, b_state.registers_table \cup {r},
                  b_state.loaded, b_state.reported, b_state.out_of_registers)
        /\ IsState(c)
    <3>1. /\ Fields(c, e.value_stack, e.registers_table, e.loaded, e.reported,
                    e.out_of_registers)
          /\ Remembers(e, c)
      BY <2>1, <2>3, Small, SmallRemember
    <3> QED
      BY <2>2, <3>1 DEF Fields, Remembers
  <2> HIDE DEF c, r
  <2>5. b_state' = d /\ pseudo_ip < MaxCode /\ pseudo_ip' = pseudo_ip + 1
    BY <1>2 DEF Translate
  <2>6. /\ IsState(d) /\ d.result = <<>>
        /\ Fields(d, c.value_stack, c.registers_table, <<>>, c.reported,
                  c.out_of_registers)
        /\ \A H : Held(c, H) <=> Held(d, H)
        /\ \A n : Regs(d, n) = Regs(c, n)
    BY <2>4, Clearing
  <2> HIDE DEF d
  <2>7. /\ d.value_stack = b_state.value_stack /\ d.loaded = <<>>
        /\ d.registers_table = b_state.registers_table \cup {r}
        /\ d.value_stack \in Seq(Frames)
    BY <1>2, <2>4, <2>6 DEF Fields, Typed
  <2>8. a' = [k \in DOMAIN a \cup {id} |-> IF k = id THEN r ELSE a[k]]
    BY <2>1 DEF Inserted
  <2>9. TypeInv'
    <3>1. Rests(b_state')
      BY <2>5, <2>6, <2>7 DEF Rests
    <3>2. LLTyped'
      BY <2>2, <2>8 DEF TypeInv, LLTyped
    <3>3. pseudo_ip' \in 0 .. MaxCode /\ open' \in 0 .. MaxOperands
      BY <1>2, <2>5, TranslatorAssumption DEF TypeInv
    <3> QED
      BY <1>3, <3>1, <3>2, <3>3 DEF TypeInv
  <2>10. {a'[k] : k \in DOMAIN a'} = A \cup {r}
    BY <1>6, <2>8
  <2> HIDE DEF A
  <2>11. ApartInv => ApartInv'
    <3> SUFFICES ASSUME ApartInv
                 PROVE  ApartFrom(b_state', a')
      BY DEF ApartInv
    <3>1. ApartFrom(b_state, a)
      BY <1>2 DEF ApartInv
    <3>2. Held(b_state, A) /\ \A k, l \in DOMAIN a : k # l => a[k] # a[l]
      BY <3>1 DEF ApartFrom, A
    <3>3. Held(d, A \cup {r})
      BY <1>2, <2>2, <2>4, <2>6, <3>2, RegisterGiven
    <3>4. \A k \in DOMAIN a : a[k] # r
      BY <2>2, <3>2 DEF Held, A
    <3>5. \A k, l \in DOMAIN a' : k # l => a'[k] # a'[l]
      BY <2>8, <3>2, <3>4
    <3> QED
      BY <2>5, <2>10, <3>3, <3>5 DEF ApartFrom
  <2>12. Lost' \subseteq Lost
    <3>1. Lost' = LostOf(d, 0, a')
      BY <1>2, <2>5 DEF Lost, LostOf, HeldByFrames, HeldByLL
    <3>2. Lost = LostOf(b_state, 0, a)
      BY <1>2 DEF Lost, LostOf, HeldByFrames, HeldByLL
    <3>3. Len(b_state.value_stack) \in Nat /\ b_state.value_stack \in Seq(Frames)
      BY <1>2 DEF Typed
    <3>4. LostOf(d, 0, a') = (d.registers_table \ Regs(d, 0)) \ (A \cup {r})
      <4>1. 0 \in Nat /\ 0 <= Len(d.value_stack)
        BY <2>7, <3>3
      <4>2. LostOf(d, 0, a')
              = (d.registers_table \ Regs(d, 0)) \ {a'[k] : k \in DOMAIN a'}
        BY <2>6, <2>7, <4>1, LostIs
      <4> QED
        BY <2>10, <4>2
    <3>5. LostOf(b_state, 0, a) = (b_state.registers_table \ Regs(b_state, 0)) \ A
      BY <1>2, <3>3, LostIs DEF A
    <3>6. Regs(d, 0) = {} /\ Regs(b_state, 0) = {}
      BY <2>7, <3>3, LastFrames
    <3> QED
      BY <2>7, <3>1, <3>2, <3>4, <3>5, <3>6
  <2> QED
    BY <2>9, <2>11, <2>12 DEF StepKeeps
<1> QED
  BY <1>4, <1>5, <1>6

(* The end of the module gives back the registers of op_code sections.     *)
LEMMA EndKeeps ==
  ASSUME TypeInv, End
  PROVE  StepKeeps
<1> DEFINE b == b_state
           s == b.value_stack
           a == allocated_registers
           A == {a[x] : x \in DOMAIN a}
           d == [b EXCEPT !.registers_table = @ \ A]
<1>1. /\ Operands(0) /\ open = 0 /\ pseudo_ip' = MaxCode
      /\ b_state' = d /\ a' = <<>> /\ open' = open
      /\ UNCHANGED <<frame_stack, global_stack_offset>>
  BY DEF End
<1>2. /\ ~b.reported /\ Typed(b) /\ IsState(b) /\ s \in Seq(Frames) /\ Len(s) \in Nat
      /\ b.result = <<>> /\ b.loaded = <<>>
  BY <1>1, StateIsTyped DEF Operands, Typed, TypeInv, Rests
<1> HIDE DEF A
<1>3. d = [value_stack |-> s, registers_table |-> b.registers_table \ A,
           result |-> b.result, loaded |-> b.loaded, reported |-> b.reported,
           out_of_registers |-> b.out_of_registers]
  <2>1. b = [value_stack |-> s, registers_table |-> b.registers_table,
             result |-> b.result, loaded |-> b.loaded, reported |-> b.reported,
             out_of_registers |-> b.out_of_registers]
    BY <1>2 DEF IsState, Fields
  <2> QED
    BY <2>1
<1> HIDE DEF d
<1>4. /\ d.value_stack = s /\ d.registers_table = b.registers_table \ A
      /\ d.result = <<>> /\ d.loaded = <<>> /\ d.reported = b.reported
      /\ d.out_of_registers = b.out_of_registers /\ IsState(d)
  BY <1>2, <1>3 DEF IsState, Fields
<1>5. DOMAIN a' = {} /\ {a'[x] : x \in DOMAIN a'} = {}
  BY <1>1
<1>6. TypeInv'
  <2>1. Rests(b_state')
    BY <1>1, <1>2, <1>4 DEF Rests
  <2>2. LLTyped' /\ ScopesTyped'
    BY <1>1, <1>5 DEF TypeInv, LLTyped, ScopesTyped
  <2>3. pseudo_ip' \in 0 .. MaxCode /\ open' \in 0 .. MaxOperands
    BY <1>1, TranslatorAssumption DEF TypeInv
  <2> QED
    BY <2>1, <2>2, <2>3 DEF TypeInv
<1>7. ApartInv => ApartInv'
  <2> SUFFICES ASSUME ApartInv
               PROVE  ApartFrom(b_state', a')
    BY DEF ApartInv
  <2>1. Held(b, A)
    BY <1>2 DEF ApartInv, ApartFrom, A
  <2>2. Apart(d)
    BY <1>4, <2>1 DEF Held, Apart
  <2>3. Held(d, {})
    BY <2>2 DEF Held
  <2> QED
    BY <1>1, <1>5, <2>3 DEF ApartFrom
<1>8. Lost' \subseteq Lost
  <2>1. Lost' = LostOf(d, 0, a')
    BY <1>1 DEF Lost, LostOf, HeldByFrames, HeldByLL
  <2>2. Lost = LostOf(b, 0, a)
    BY <1>1 DEF Lost, LostOf, HeldByFrames, HeldByLL
  <2>3. LostOf(d, 0, a') = (d.registers_table \ Regs(d, 0)) \ {a'[x] : x \in DOMAIN a'}
    BY <1>2, <1>4, LostIs
  <2>4. LostOf(b, 0, a) = (b.registers_table \ Regs(b, 0)) \ A
    BY <1>2, LostIs DEF A
  <2>5. Regs(d, 0) = {} /\ Regs(b, 0) = {}
    BY <1>2, <1>4, LastFrames
  <2> QED
    BY <1>4, <1>5, <2>1, <2>2, <2>3, <2>4, <2>5
<1> QED
  BY <1>6, <1>7, <1>8 DEF StepKeeps

(* All steps.                                                              *)
LEMMA NextKeeps ==
  ASSUME TypeInv, Next
  PROVE  StepKeeps
<1>1. ASSUME NEW v \in Variables, Use(v)
      PROVE  StepKeeps
  BY <1>1, UseStep, InScopeKeeps, OperationKeeps
<1>2. ASSUME NEW c \in Constants, UseConstant(c)
      PROVE  StepKeeps
  BY <1>2, UseConstantStep, InScopeKeeps, OperationKeeps
<1>3. ASSUME NEW o \in BinaryOperators, Binary(o)
      PROVE  StepKeeps
  BY <1>3, BinaryStep, InScopeKeeps, OperationKeeps
<1>4. ASSUME NEW o \in UnaryOperators, Unary(o)
      PROVE  StepKeeps
  BY <1>4, UnaryStep, InScopeKeeps, OperationKeeps
<1>5. CASE GetPointer
  BY <1>5, GetPointerStep, InScopeKeeps, OperationKeeps
<1>6. CASE Dereference
  BY <1>6, DereferenceStep, InScopeKeeps, OperationKeeps
<1>7. CASE GetByArgument
  BY <1>7, GetByArgumentStep, InScopeKeeps, OperationKeeps
<1>8. ASSUME NEW o \in CompoundOperators \cup {"Nop"}, NEW keep \in BOOLEAN,
             Assign(o, keep)
      PROVE  StepKeeps
  BY <1>8, AssignStep, InScopeKeeps, OperationKeeps
<1>9. CASE EndExpression
  BY <1>9, EndExpressionKeeps
<1>10. CASE JumpIf
  BY <1>10, JumpIfStep, InScopeKeeps, OperationKeeps
<1>11. CASE Jump \/ Label
  BY <1>11, JumpStep, InScopeKeeps, OperationKeeps
<1>12. ASSUME NEW v \in Own, DeclareVariable(v)
       PROVE  StepKeeps
  BY <1>12, DeclareVariableStep, OperationKeeps
<1>13. CASE PushFrame
  BY <1>13, PushFrameStep, OperationKeeps
<1>14. CASE PopFrame
  BY <1>14, PopFrameStep, OperationKeeps
<1>15. ASSUME NEW id \in LLRegisters, LowLevel(id)
       PROVE  StepKeeps
  BY <1>15, LowLevelKeeps
<1>16. CASE End
  BY <1>16, EndKeeps
<1> QED
  BY <1>1, <1>2, <1>3, <1>4, <1>5, <1>6, <1>7, <1>8, <1>9, <1>10, <1>11, <1>12,
     <1>13, <1>14, <1>15, <1>16 DEF Next

(* The state the translator starts in.                                     *)
LEMMA InitTyped == Init => TypeInv /\ ApartInv
<1> SUFFICES ASSUME Init
             PROVE  TypeInv /\ ApartInv
  OBVIOUS
<1>1. /\ b_state = [value_stack |-> <<>>, registers_table |-> {}, result |-> <<>>,
                    loaded |-> <<>>, reported |-> FALSE, out_of_registers |-> FALSE]
      /\ frame_stack = << [start_address |-> 0, size |-> 0] >>
      /\ global_stack_offset = <<>> /\ allocated_registers = <<>>
      /\ pseudo_ip = 0 /\ open = 0
  BY DEF Init
<1>2. /\ b_state.value_stack = <<>> /\ b_state.registers_table = {}
      /\ b_state.result = <<>> /\ b_state.loaded = <<>>
      /\ IsState(b_state)
  BY <1>1 DEF IsState, Fields
<1>3. Rests(b_state)
  BY <1>2 DEF Rests
<1>4. ScopesTyped
  <2>1. [start_address |-> 0, size |-> 0] \in StackFrame
    BY DEF StackFrame
  <2> QED
    BY <1>1, <2>1 DEF ScopesTyped
<1>5. LLTyped
  BY <1>1 DEF LLTyped
<1>6. TypeInv
  BY <1>1, <1>3, <1>4, <1>5, TranslatorAssumption DEF TypeInv
<1>7. ApartFrom(b_state, allocated_registers)
  BY <1>1, <1>2 DEF ApartFrom, Held, Apart
<1> QED
  BY <1>6, <1>7 DEF ApartInv

-----------------------------------------------------------------------------
(* The theorems.                                                           *)

(* The inductive invariant: types, with which the others are proved.       *)
THEOREM TypeInvariant == Spec => []TypeInv
<1>1. Init => TypeInv
  BY InitTyped
<1>2. TypeInv /\ [Next]_vars => TypeInv'
  <2>1. TypeInv /\ Next => TypeInv'
    BY NextKeeps DEF StepKeeps
  <2>2. TypeInv /\ UNCHANGED vars => TypeInv'
    BY DEF vars, TypeInv, Rests, ScopesTyped, LLTyped
  <2> QED
    BY <2>1, <2>2
<1> QED
  BY <1>1, <1>2, PTL DEF Spec

(* Whatever the program, the state of the translator has its types: every  *)
(* operand's data is what its source says (a register, a place, a name, a  *)
(* constant), only registers are marked as used, and declared variables    *)
(* lie in the module's bytes (ByteTranslationState, ValueFrame).           *)
THEOREM TypeCorrect == Spec => []TypeOK
<1>1. TypeInv => TypeOK
  <2> SUFFICES ASSUME TypeInv
               PROVE  TypeOK
    OBVIOUS
  <2>1. \A f \in Frames : IsFrame(f)
    <3> SUFFICES ASSUME NEW f \in Frames
                 PROVE  IsFrame(f)
      OBVIOUS
    <3>1. /\ f.source \in Sources /\ Suits(f)
          /\ f.dynamic \in Primitives /\ f.static \in Primitives
          /\ f.info.depth \in Nat /\ f.info.base \in Bases \cup {"Invalid"}
      BY FrameFields
    <3>2. CASE InRegister(f)
      BY <3>1, <3>2 DEF IsFrame, Suits, InRegister
    <3>3. CASE f.source = "StaticAddress"
      BY <3>1, <3>3 DEF IsFrame, Suits, InRegister
    <3>4. CASE f.source = "Symbol"
      BY <3>1, <3>4 DEF IsFrame, Suits, InRegister
    <3>5. CASE f.source = "Constant"
      BY <3>1, <3>5 DEF IsFrame, Suits, InRegister
    <3> QED
      BY <3>1, <3>2, <3>3, <3>4, <3>5 DEF Sources, InRegister
  <2>2. ~b_state.reported =>
          \A i \in DOMAIN b_state.value_stack : IsFrame(b_state.value_stack[i])
    <3>1. ~b_state.reported => b_state.value_stack \in Seq(Frames)
      BY DEF TypeInv, Rests
    <3> QED
      BY <2>1, <3>1
  <2> QED
    BY <2>2 DEF TypeOK, TypeInv, Rests, ScopesTyped, LLTyped, IsState, StackFrame
<1> QED
  BY <1>1, TypeInvariant, PTL

(* Operands and op_code sections keep registers of their own, all of them  *)
(* marked as used, for any number of registers and any program that does   *)
(* not use ~= on what a pointer points to (AllocateFreeGeneral, SetFree in *)
(* every handler).  In y = *p ~= e, AssignR puts *p back on the stack,     *)
(* from which ~= had not taken it, and two operands share its register.    *)
THEOREM RegistersStayApart ==
  ASSUME NotTwice
  PROVE  Spec => []RegistersApart
<1>1. Init => ApartInv
  BY InitTyped
<1>2. TypeInv /\ ApartInv /\ [Next]_vars => ApartInv'
  <2>1. TypeInv /\ ApartInv /\ Next => ApartInv'
    BY NextKeeps DEF StepKeeps
  <2>2. ApartInv /\ UNCHANGED vars => ApartInv'
    BY DEF vars, ApartInv
  <2> QED
    BY <2>1, <2>2
<1>3. TypeInv /\ ApartInv => RegistersApart
  <2> SUFFICES ASSUME TypeInv, ApartInv, ~b_state.reported, ~b_state.out_of_registers
               PROVE  RegistersApart
    BY DEF RegistersApart
  <2> DEFINE s == b_state.value_stack
             a == allocated_registers
             A == {a[id] : id \in DOMAIN a}
             T == b_state.registers_table
  <2>1. /\ Apart(b_state) /\ A \subseteq T
        /\ \A i \in 1 .. Len(s) : Reg(s[i]) \cap A = {}
        /\ \A x, y \in DOMAIN a : x # y => a[x] # a[y]
    BY DEF ApartInv, ApartFrom, Held
  <2>2. /\ \A i \in 1 .. Len(s) : Reg(s[i]) \subseteq T
        /\ \A i, j \in 1 .. Len(s) : i # j => Reg(s[i]) \cap Reg(s[j]) = {}
        /\ \A i \in 1 .. Len(s) : InRegister(s[i]) => s[i].data \in Registers
    BY <2>1 DEF Apart
  <2>3. \A i \in HeldByFrames : i \in 1 .. Len(s) /\ Reg(s[i]) = {s[i].data}
    BY <2>2 DEF HeldByFrames, Reg
  <2>4. \A i, j \in HeldByFrames : i # j => s[i].data # s[j].data
    BY <2>2, <2>3
  <2>5. \A i \in HeldByFrames, id \in HeldByLL : s[i].data # a[id]
    BY <2>1, <2>3 DEF HeldByLL
  <2>6. {s[i].data : i \in HeldByFrames} \cup {a[id] : id \in HeldByLL} \subseteq T
    BY <2>1, <2>2, <2>3 DEF HeldByLL
  <2> QED
    BY <2>1, <2>4, <2>5, <2>6 DEF RegistersApart, HeldByLL
<1> QED
  BY <1>1, <1>2, <1>3, TypeInvariant, PTL DEF Spec

(* No step of any program loses a register for the rest of the module,     *)
(* except a condition, an expression without an assignment, an assignment  *)
(* that is assigned or that goes through a pointer, and an error           *)
(* (BCHControlFlow.cpp:43-54, BCHDataFlow.cpp:160-165).                    *)
THEOREM OnlyThereAreRegistersLost == Spec => LosesOnlyThere
<1>1. TypeInv /\ [Next]_vars =>
        [Lost' \subseteq Lost \/ LosingStep \/ b_state'.reported]_vars
  <2>1. TypeInv /\ Next => Lost' \subseteq Lost \/ LosingStep \/ b_state'.reported
    BY NextKeeps DEF StepKeeps
  <2> QED
    BY <2>1
<1> QED
  BY <1>1, TypeInvariant, PTL DEF Spec, LosesOnlyThere

-----------------------------------------------------------------------------
(* The machine, which carries out the commands.                            *)

(* The machines that commands make are determined by them.                 *)
LEMMA OneRun ==
  ASSUME NEW m, NEW s, Len(s) \in Nat, NEW f, NEW g, IsRun(f, m, s), IsRun(g, m, s)
  PROVE  f = g
<1> DEFINE D == 0 .. Len(s)
           Bad == {n \in D : f[n] # g[n]}
<1>1. /\ DOMAIN f = D /\ DOMAIN g = D
      /\ f = [n \in D |-> f[n]] /\ g = [n \in D |-> g[n]]
      /\ \A n \in D : f[n] = IF n = 0 THEN m ELSE Execute(f[n - 1], s[n])
      /\ \A n \in D : g[n] = IF n = 0 THEN m ELSE Execute(g[n - 1], s[n])
  BY DEF IsRun
<1>2. Bad = {}
  <2> SUFFICES ASSUME Bad # {} PROVE FALSE
    OBVIOUS
  <2>0. Bad \subseteq Nat
    OBVIOUS
  <2> HIDE DEF Bad
  <2>1. PICK n \in Bad : \A k \in Bad : n <= k
    BY <2>0, LeastNatural
  <2> USE DEF Bad
  <2>2. n # 0 /\ n \in D
    BY <1>1, <2>1
  <2>3. n - 1 \in D /\ n - 1 \notin Bad
    BY <2>1, <2>2
  <2>4. f[n - 1] = g[n - 1]
    BY <2>3
  <2> QED
    BY <1>1, <2>1, <2>2, <2>4
<1>3. \A n \in D : f[n] = g[n]
  BY <1>2
<1> HIDE DEF D, Bad
<1> QED
  BY <1>1, <1>3

(* The machine after the first command, and so on, is there; and one more  *)
(* command is carried out on the machine that the others left.             *)
LEMMA RunExtends ==
  ASSUME NEW m, NEW s, NEW S, s \in Seq(S), NEW c, NEW f, IsRun(f, m, s)
  PROVE  IsRun([n \in 0 .. Len(s) + 1 |->
                  IF n = Len(s) + 1 THEN Execute(f[Len(s)], c) ELSE f[n]],
               m, Append(s, c))
<1> DEFINE k == Len(s)
           t == Append(s, c)
           g == [n \in 0 .. k + 1 |-> IF n = k + 1 THEN Execute(f[k], c) ELSE f[n]]
<1>1. /\ k \in Nat /\ Len(t) = k + 1 /\ t[k + 1] = c
      /\ \A n \in 1 .. k : t[n] = s[n]
  <2>1. s \in Seq(S \cup {c}) /\ c \in S \cup {c}
    OBVIOUS
  <2> QED
    BY <2>1, AppendProperties
<1>2. \A n \in 0 .. k : f[n] = IF n = 0 THEN m ELSE Execute(f[n - 1], s[n])
  BY DEF IsRun
<1>3. \A n \in 0 .. k + 1 : g[n] = IF n = 0 THEN m ELSE Execute(g[n - 1], t[n])
  <2> SUFFICES ASSUME NEW n \in 0 .. k + 1
               PROVE  g[n] = IF n = 0 THEN m ELSE Execute(g[n - 1], t[n])
    OBVIOUS
  <2>1. CASE n = k + 1
    <3>1. g[n] = Execute(f[k], c) /\ g[n - 1] = f[k] /\ t[n] = c /\ n # 0
      BY <1>1, <2>1
    <3> QED
      BY <3>1
  <2>2. CASE n = 0
    BY <1>1, <1>2, <2>2
  <2>3. CASE n \in 1 .. k
    <3>1. g[n] = f[n] /\ g[n - 1] = f[n - 1] /\ t[n] = s[n]
      BY <1>1, <2>3
    <3> QED
      BY <1>2, <2>3, <3>1
  <2> QED
    BY <1>1, <2>1, <2>2, <2>3
<1>4. g = [n \in 0 .. k + 1 |-> g[n]]
  OBVIOUS
<1> HIDE DEF g
<1>5. g = [n \in 0 .. k + 1 |-> IF n = 0 THEN m ELSE Execute(g[n - 1], t[n])]
  BY <1>3, <1>4
<1>6. IsRun(g, m, t)
  BY <1>1, <1>5 DEF IsRun
<1> QED
  BY <1>6 DEF g

(* Executed is the last of these machines.                                 *)
LEMMA ExecutedIs ==
  ASSUME NEW m, NEW s, Len(s) \in Nat, NEW f, IsRun(f, m, s)
  PROVE  Executed(m, s) = f[Len(s)]
<1>1. IsRun(RunOf(m, s), m, s)
  BY DEF RunOf
<1>2. RunOf(m, s) = f
  BY <1>1, OneRun
<1>3. Executed(m, s) = RunOf(m, s)[Len(s)]
  BY DEF Executed, RunOf, IsRun
<1> QED
  BY <1>2, <1>3

(* The commands of an operation are carried out one after the other.       *)
LEMMA CarriedOn ==
  ASSUME NEW b, NEW m, Carries(b, m), NEW d, NEW c,
         d.result = Append(b.result, c), Execute(m, c) \in Machines
  PROVE  Carries(d, Execute(m, c))
<1>1. PICK S : b.result \in Seq(S)
  BY DEF Carries
<1>2. PICK f : IsRun(f, machine, b.result)
  BY DEF Carries
<1> DEFINE k == Len(b.result)
           g == [n \in 0 .. k + 1 |-> IF n = k + 1 THEN Execute(f[k], c) ELSE f[n]]
<1>3. IsRun(g, machine, d.result)
  BY <1>1, <1>2, RunExtends
<1>4. /\ d.result \in Seq(S \cup {c}) /\ Len(d.result) = k + 1
      /\ k \in Nat
  <2>1. b.result \in Seq(S \cup {c}) /\ c \in S \cup {c}
    BY <1>1
  <2> QED
    BY <1>1, <2>1, AppendProperties
<1>5. m = f[k]
  <2>1. Executed(machine, b.result) = f[k]
    BY <1>2, <1>4, ExecutedIs
  <2> QED
    BY <2>1 DEF Carries
<1>6. Executed(machine, d.result) = g[k + 1]
  <2> DEFINE t == d.result
  <2>1. IsRun(g, machine, t) /\ Len(t) \in Nat /\ Len(t) = k + 1
    BY <1>3, <1>4
  <2> HIDE DEF g, k, t
  <2>2. Executed(machine, t) = g[Len(t)]
    BY <2>1, ExecutedIs
  <2> QED
    BY <2>1, <2>2 DEF t
<1>7. g[k + 1] = Execute(m, c)
  BY <1>4, <1>5
<1> HIDE DEF g
<1> QED
  BY <1>3, <1>4, <1>6, <1>7 DEF Carries

(* A change of the state that adds no commands leaves the machine alone.   *)
LEMMA CarriedAlong ==
  ASSUME NEW b, NEW m, Carries(b, m), NEW d, d.result = b.result
  PROVE  Carries(d, m)
BY DEF Carries

(* Without commands, the machine is the one before the operation.          *)
LEMMA CarriesNothing ==
  ASSUME NEW b, b.result = <<>>, machine \in Machines
  PROVE  Carries(b, machine)
<1> DEFINE f == [n \in 0 .. 0 |-> machine]
<1>1. Len(<<>>) = 0 /\ <<>> \in Seq({})
  OBVIOUS
<1>2. f = [n \in 0 .. 0 |->
             IF n = 0 THEN machine ELSE Execute(f[n - 1], <<>>[n])]
  OBVIOUS
<1>3. f[0] = machine
  OBVIOUS
<1> HIDE DEF f
<1>4. IsRun(f, machine, <<>>)
  BY <1>1, <1>2 DEF IsRun
<1>5. Executed(machine, <<>>) = machine
  BY <1>1, <1>3, <1>4, ExecutedIs
<1> QED
  BY <1>1, <1>4, <1>5 DEF Carries

(* The result of an operation goes through every step of a handler that    *)
(* gives no command.                                                       *)
LEMMA Carrying ==
  ASSUME NEW b, IsState(b), NEW m, Carries(b, m)
  PROVE  /\ \A f : Carries(Pushed(b, f), m)
         /\ Carries(Popped(b), m)
         /\ Carries(Reported(b), m)
         /\ \A f : Carries(Returned(b, f), m)
         /\ \A r : Carries(Freed(b, r), m)
         /\ Carries(Allocated(b), m)
         /\ \A c : Execute(m, c) \in Machines => Carries(Emitted(b, c), Execute(m, c))
<1>1. b = [value_stack |-> b.value_stack, registers_table |-> b.registers_table,
           result |-> b.result, loaded |-> b.loaded, reported |-> b.reported,
           out_of_registers |-> b.out_of_registers]
  BY DEF IsState, Fields
<1>2. \A f : Carries(Pushed(b, f), m)
  <2> SUFFICES ASSUME NEW f PROVE Pushed(b, f).result = b.result
    BY CarriedAlong
  <2> QED
    BY <1>1 DEF Pushed
<1>3. Carries(Popped(b), m) /\ Carries(Reported(b), m)
  <2>1. Popped(b).result = b.result /\ Reported(b).result = b.result
    BY <1>1 DEF Popped, Reported
  <2> QED
    BY <2>1, CarriedAlong
<1>4. \A f : Carries(Returned(b, f), m)
  <2> SUFFICES ASSUME NEW f PROVE Returned(b, f).result = b.result
    BY CarriedAlong
  <2> QED
    BY <1>1 DEF Returned
<1>5. \A r : Carries(Freed(b, r), m)
  <2> SUFFICES ASSUME NEW r PROVE Freed(b, r).result = b.result
    BY CarriedAlong
  <2> QED
    BY <1>1 DEF Freed
<1>6. Carries(Allocated(b), m)
  <2>1. Allocated(b).result = b.result
    BY <1>1 DEF Allocated
  <2> QED
    BY <2>1, CarriedAlong
<1>7. \A c : Execute(m, c) \in Machines => Carries(Emitted(b, c), Execute(m, c))
  <2> SUFFICES ASSUME NEW c, Execute(m, c) \in Machines
               PROVE  Carries(Emitted(b, c), Execute(m, c))
    OBVIOUS
  <2>1. Emitted(b, c).result = Append(b.result, c)
    BY <1>1 DEF Emitted
  <2> QED
    BY <2>1, CarriedOn
<1> QED
  BY <1>2, <1>3, <1>4, <1>5, <1>6, <1>7

(* What putting a value into a register does to a machine.                 *)
LEMMA Puts ==
  ASSUME NEW m \in Machines, NEW r \in Registers, NEW v \in MSLValue
  PROVE  /\ Put(m, r, v) \in Machines /\ Put(m, r, v).memory = m.memory
         /\ Put(m, r, v).registers[r] = v
         /\ \A s \in Registers : s # r => Put(m, r, v).registers[s] = m.registers[s]
BY DEF Put, Machines

(* The values that operations start from are values of the language.       *)
LEMMA ValuesRepresent ==
  /\ Unknown \in MSLValue
  /\ \A p \in Primitives, n \in Int : Number(p, n) \in MSLValue
  /\ \A h : Truth(h) \in MSLValue
  /\ \A v \in MSLValue : v = [rep |-> v.rep, n |-> v.n] /\ v.n \in Int
BY DEF Unknown, MSLValue, Number, Representation, Truth

(* And so are the results.                                                 *)
LEMMA ResultsAreValues ==
  ASSUME NEW v \in MSLValue, NEW w \in MSLValue, NEW p \in Primitives
  PROVE  /\ \A q \in Primitives : Converted(v, p, q) \in MSLValue
         /\ Difference(v, w, p) \in MSLValue
         /\ Addition(v, w, p) \in MSLValue
         /\ Product(v, w, p) \in MSLValue
         /\ Remainder(v, w, p) \in MSLValue
         /\ LessThan(v, w, p) \in MSLValue
         /\ Both(v, w) \in MSLValue
         /\ ShiftedLeft(v, w) \in MSLValue
         /\ Negated(v, p) \in MSLValue
         /\ Complement(v) \in MSLValue
<1>1. v.n \in Int /\ w.n \in Int
  BY ValuesRepresent
<1>2. /\ v.n - w.n \in Int /\ v.n + w.n \in Int /\ v.n * w.n \in Int
      /\ -v.n \in Int /\ -v.n - 1 \in Int
      /\ w.n > 0 => v.n % w.n \in Int
  BY <1>1
<1>3. w.n \in 0 .. 2 => v.n * 2 ^ w.n \in Int
  BY <1>1
<1>4. /\ \A q \in Primitives : Converted(v, p, q) \in MSLValue
      /\ Difference(v, w, p) \in MSLValue
      /\ Addition(v, w, p) \in MSLValue
      /\ Product(v, w, p) \in MSLValue
      /\ Remainder(v, w, p) \in MSLValue
      /\ LessThan(v, w, p) \in MSLValue
      /\ Both(v, w) \in MSLValue
      /\ Negated(v, p) \in MSLValue
      /\ Complement(v) \in MSLValue
  BY <1>1, <1>2, ValuesRepresent
     DEF Converted, Difference, Addition, Product, Remainder, LessThan, Both,
         Negated, Complement, Primitives
<1>5. ShiftedLeft(v, w) \in MSLValue
  BY <1>3, ValuesRepresent DEF ShiftedLeft, Primitives
<1> QED
  BY <1>4, <1>5

(* The bytes of a module and of its imports have numbers.                  *)
LEMMA AddressesAreNumbers == Addresses \subseteq Nat
<1>1. OwnBytes \subseteq Nat
  BY TranslatorAssumption DEF OwnBytes
<1>2. ASSUME NEW v \in Imported
      PROVE  BytesOf(v) \subseteq Nat
  <2>1. LinkedAt[v] \in Nat
    BY TranslatorAssumption
  <2>2. TypeOf[v] \in [depth : Nat, base : Bases]
    BY TranslatorAssumption DEF Variables
  <2>3. SizeOf(TypeOf[v]) \in Nat \ {0}
    BY <2>2, SizesOfBases DEF SizeOf
  <2> QED
    BY <2>1, <2>3 DEF BytesOf
<1> QED
  BY <1>1, <1>2 DEF Addresses

(* What is read from a memory is a value, and what is stored in one leaves *)
(* a memory.                                                               *)
LEMMA MemoryOfBytes ==
  ASSUME NEW memory \in [Addresses -> MemoryByte]
  PROVE  /\ \A at \in Int, size \in Nat \ {0} : BytesAt(memory, at, size) \in MSLValue
         /\ \A at \in Int, size \in Nat, v \in MSLValue :
              WithBytes(memory, at, size, v) \in [Addresses -> MemoryByte]
<1>1. ASSUME NEW at \in Int, NEW size \in Nat \ {0}
      PROVE  BytesAt(memory, at, size) \in MSLValue
  <2>1. CASE \A i \in 0 .. size - 1 :
               at + i \in DOMAIN memory /\ memory[at + i] = Byte(memory[at].of, i)
    <3>1. 0 \in 0 .. size - 1 /\ at + 0 = at
      OBVIOUS
    <3>2. at \in Addresses
      BY <2>1, <3>1
    <3>3. memory[at].of \in MSLValue
      BY <3>2 DEF MemoryByte
    <3>4. LowByte(memory[at].of) \in MSLValue
      <4>1. memory[at].of.n % 256 \in Int
        BY <3>3, ValuesRepresent
      <4> QED
        BY <4>1, ValuesRepresent DEF LowByte, Primitives
    <3> QED
      BY <2>1, <3>3, <3>4 DEF BytesAt
  <2>2. CASE ~(\A i \in 0 .. size - 1 :
                 at + i \in DOMAIN memory /\ memory[at + i] = Byte(memory[at].of, i))
    BY <2>2, ValuesRepresent DEF BytesAt
  <2> QED
    BY <2>1, <2>2
<1>2. ASSUME NEW at \in Int, NEW size \in Nat, NEW v \in MSLValue
      PROVE  WithBytes(memory, at, size, v) \in [Addresses -> MemoryByte]
  <2>1. ASSUME NEW a \in Addresses, a \in at .. at + size - 1
        PROVE  Byte(v, a - at) \in MemoryByte
    <3>1. a - at \in Nat
      BY <2>1, AddressesAreNumbers
    <3> QED
      BY <3>1 DEF Byte, MemoryByte
  <2> QED
    BY <2>1 DEF WithBytes
<1> QED
  BY <1>1, <1>2

(* What the commands that fill a register do to a machine.                 *)
LEMMA Loading ==
  ASSUME NEW m \in Machines, NEW r \in Registers
  PROVE  /\ \A a, s : Execute(m, <<"LOAD_STATIC", a, r, s>>) =
                        Put(m, r, BytesAt(m.memory, AddressIn(a), s))
         /\ \A a : Execute(m, <<"LEA_STATIC", a, r>>) = Put(m, r, Number("UInt", AddressIn(a)))
         /\ \A a, s : Execute(m, <<"LOAD_CONST_STATIC", a, r, s>>) =
                        Put(m, r, Number(a[2].prim, a[2].n))
         /\ \A s : Execute(m, <<"LOAD_DYNAMIC", r, r, s>>) =
                     Put(m, r, IF Is(m.registers[r], "UInt")
                                 THEN BytesAt(m.memory, m.registers[r].n, s) ELSE Unknown)
         /\ Execute(m, <<"MOVRI", r>>) = Put(m, r, Unknown)
         /\ \A p, q : Execute(m, <<"TC", p, q, r>>) =
                        Put(m, r, Converted(m.registers[r], p, q))
BY DEF Execute, Target, Result, InRegisterOf, Put

(* What the commands over two registers and over one do.                   *)
LEMMA Calculating ==
  ASSUME NEW m \in Machines, NEW r \in Registers, NEW s \in Registers, NEW p
  PROVE  /\ \A o \in BinaryOperators \cup {"ADD", "MUL"} :
              Execute(m, <<o, p, r, r, s>>) =
                Put(m, r, Outcome(o, m.registers[r], m.registers[s], p))
         /\ \A o \in {"Negative", "BitNot"} :
              Execute(m, <<o, p, r, r>>) = Put(m, r, Changed(o, m.registers[r], p))
<1>1. ASSUME NEW o \in BinaryOperators \cup {"ADD", "MUL"}
      PROVE  Execute(m, <<o, p, r, r, s>>) =
                Put(m, r, Outcome(o, m.registers[r], m.registers[s], p))
  <2> DEFINE c == <<o, p, r, r, s>>
  <2>1. /\ c[1] = o /\ c[2] = p /\ c[3] = r /\ c[4] = r /\ c[5] = s
    OBVIOUS
  <2> HIDE DEF c
  <2>2. Target(c) = r
    BY <2>1 DEF Target, BinaryOperators
  <2>3. Result(m, c) = Outcome(o, m.registers[r], m.registers[s], p)
    BY <2>1 DEF Result, Outcome, BinaryOperators, InRegisterOf
  <2>4. Execute(m, c) = Put(m, r, Outcome(o, m.registers[r], m.registers[s], p))
    BY <2>1, <2>2, <2>3 DEF Execute, BinaryOperators, Put
  <2> QED
    BY <2>4 DEF c
<1>2. ASSUME NEW o \in {"Negative", "BitNot"}
      PROVE  Execute(m, <<o, p, r, r>>) = Put(m, r, Changed(o, m.registers[r], p))
  <2> DEFINE c == <<o, p, r, r>>
  <2>1. /\ c[1] = o /\ c[2] = p /\ c[3] = r /\ c[4] = r
    OBVIOUS
  <2> HIDE DEF c
  <2>2. Target(c) = r
    BY <2>1 DEF Target
  <2>3. Result(m, c) = Changed(o, m.registers[r], p)
    BY <2>1 DEF Result, Changed, InRegisterOf
  <2>4. Execute(m, c) = Put(m, r, Changed(o, m.registers[r], p))
    BY <2>1, <2>2, <2>3 DEF Execute, Put
  <2> QED
    BY <2>4 DEF c
<1> QED
  BY <1>1, <1>2

(* The commands that index a pointer.                                      *)
LEMMA Scaling ==
  ASSUME NEW m \in Machines, NEW r \in Registers, NEW s \in Registers, NEW p
  PROVE  /\ Execute(m, <<"MUL", p, r, r, s>>) =
              Put(m, r, Product(m.registers[r], m.registers[s], p))
         /\ Execute(m, <<"ADD", p, r, r, s>>) =
              Put(m, r, Addition(m.registers[r], m.registers[s], p))
<1>1. \A o \in BinaryOperators \cup {"ADD", "MUL"} :
        Execute(m, <<o, p, r, r, s>>) =
          Put(m, r, Outcome(o, m.registers[r], m.registers[s], p))
  BY Calculating, ZenonT(40)
<1>2. /\ Execute(m, <<"MUL", p, r, r, s>>) =
           Put(m, r, Outcome("MUL", m.registers[r], m.registers[s], p))
      /\ Execute(m, <<"ADD", p, r, r, s>>) =
           Put(m, r, Outcome("ADD", m.registers[r], m.registers[s], p))
  BY <1>1, Zenon
<1> QED
  BY <1>2 DEF Outcome

(* What the commands that store do, and those that only move the stack or  *)
(* jump.                                                                   *)
LEMMA Storing ==
  ASSUME NEW m \in Machines, NEW r \in Registers
  PROVE  /\ \A a, z : Execute(m, <<"STORE_STATIC", a, r, z>>) = Written(m, AddressIn(a), r, z)
         /\ \A s \in Registers : \A z :
              Execute(m, <<"STORE_DYNAMIC", s, r, z>>) = Written(m, m.registers[s].n, r, z)
         /\ \A x : /\ Execute(m, <<"STACK_UP", x>>) = m
                   /\ Execute(m, <<"JMPCV", x>>) = m
         /\ Execute(m, <<"JMP">>) = m /\ Execute(m, <<"JMP_LABEL">>) = m
         /\ \A a \in Addresses, z \in Nat :
              LET n == Written(m, a, r, z)
              IN /\ n \in Machines /\ n.registers = m.registers
                 /\ n.memory = WithBytes(m.memory, a, z, m.registers[r])
<1>1. /\ \A a, z : Execute(m, <<"STORE_STATIC", a, r, z>>) = Written(m, AddressIn(a), r, z)
      /\ \A s \in Registers : \A z :
           Execute(m, <<"STORE_DYNAMIC", s, r, z>>) = Written(m, m.registers[s].n, r, z)
      /\ \A x : /\ Execute(m, <<"STACK_UP", x>>) = m
                /\ Execute(m, <<"JMPCV", x>>) = m
      /\ Execute(m, <<"JMP">>) = m /\ Execute(m, <<"JMP_LABEL">>) = m
  BY DEF Execute, InRegisterOf
<1>2. ASSUME NEW a \in Addresses, NEW z \in Nat
      PROVE  LET n == Written(m, a, r, z)
             IN /\ n \in Machines /\ n.registers = m.registers
                /\ n.memory = WithBytes(m.memory, a, z, m.registers[r])
  <2>1. PICK k : k = WithBytes(m.memory, a, z, m.registers[r])
    OBVIOUS
  <2>2. k \in [Addresses -> MemoryByte]
    <3>1. /\ m.memory \in [Addresses -> MemoryByte] /\ m.registers[r] \in MSLValue
          /\ a \in Int
      BY AddressesAreNumbers DEF Machines
    <3> QED
      BY <2>1, <3>1, MemoryOfBytes
  <2>3. Written(m, a, r, z) = [m EXCEPT !.memory = k]
    BY <2>1 DEF Written, InRegisterOf
  <2> QED
    BY <2>1, <2>2, <2>3 DEF Machines
<1> QED
  BY <1>1, <1>2

-----------------------------------------------------------------------------
(* What value frames stand for.                                            *)

(* Whether the type of an operand has a size.                              *)
LEMMA SizeOfOperand ==
  ASSUME NEW f \in Frames, Shaped(f), AtFixedAddress(f) \/ f.source = "DynamicAddress"
  PROVE  /\ SizeOf(f.info) \in Nat \ {0} /\ Source!SizeOf(f.info) = SizeOf(f.info)
         /\ f.info.base \in Bases
<1>1. /\ f.info.depth \in Nat /\ f.info.base \in Bases
  BY FrameFields DEF Suits, AtFixedAddress
<1>2. Size \in Nat \ {0}
  BY TranslatorAssumption
<1> QED
  BY <1>1, <1>2 DEF SizeOf, Source!SizeOf, AlignedSize

(* A variable lies at an address.                                          *)
LEMMA FixedAddress ==
  ASSUME NEW f \in Frames, AtFixedAddress(f)
  PROVE  AddressIn(Argument(f)) \in Addresses
<1>1. Suits(f)
  BY FrameFields
<1>2. CASE f.source = "StaticAddress"
  <2>1. f.data \in OwnBytes
    BY <1>1, <1>2 DEF Suits
  <2>2. AddressIn(Argument(f)) = f.data
    BY <1>2 DEF AddressIn, Argument
  <2> QED
    BY <2>1, <2>2 DEF Addresses
<1>3. CASE f.source = "Symbol"
  <2>1. f.data \in Imported
    BY <1>1, <1>3 DEF Suits
  <2>2. AddressIn(Argument(f)) = LinkedAt[f.data]
    BY <1>3 DEF AddressIn, Argument
  <2>3. LinkedAt[f.data] \in BytesOf(f.data)
    <3>1. LinkedAt[f.data] \in Nat /\ TypeOf[f.data] \in [depth : Nat, base : Bases]
      BY <2>1, TranslatorAssumption DEF Variables
    <3>2. SizeOf(TypeOf[f.data]) \in Nat \ {0}
      BY <3>1, SizesOfBases DEF SizeOf
    <3> QED
      BY <3>1, <3>2 DEF BytesOf
  <2> QED
    BY <2>1, <2>2, <2>3 DEF Addresses
<1> QED
  BY <1>2, <1>3 DEF AtFixedAddress

(* A frame of a constant has its number.                                   *)
LEMMA ConstantIs ==
  ASSUME NEW f \in Frames, f.source = "Constant"
  PROVE  f.data.prim \in Primitives /\ f.data.n \in Int
<1>1. f.data \in Constants
  BY FrameFields DEF Suits
<1> QED
  BY <1>1, TranslatorAssumption

(* A frame that stands for an operand has a value.                         *)
LEMMA MeaningIsValue ==
  ASSUME NEW m \in Machines, NEW f, Stands(m, f)
  PROVE  Meaning(m, f) \in MSLValue
<1>0. f \in Frames /\ f.source \in Sources /\ m.memory \in [Addresses -> MemoryByte]
  BY FrameFields DEF Stands, Machines
<1>1. CASE AtFixedAddress(f)
  <2>1. AddressIn(Argument(f)) \in Int
    <3>1. AddressIn(Argument(f)) \in Addresses
      BY <1>0, <1>1, FixedAddress
    <3>2. AddressIn(Argument(f)) \in Nat
      BY <3>1, AddressesAreNumbers, Zenon
    <3> QED
      BY <3>2
  <2>2. SizeOf(f.info) \in Nat \ {0}
    BY <1>0, <1>1, SizeOfOperand DEF Stands
  <2>3. Meaning(m, f) = BytesAt(m.memory, AddressIn(Argument(f)), SizeOf(f.info))
    BY <1>1 DEF Meaning, AtFixedAddress
  <2> QED
    BY <1>0, <2>1, <2>2, <2>3, MemoryOfBytes
<1>2. CASE f.source = "DynamicAddress"
  <2>1. m.registers[f.data].n \in Int
    <3>1. m.registers[f.data].n \in Addresses
      BY <1>2 DEF Stands, Known
    <3>2. m.registers[f.data].n \in Nat
      BY <3>1, AddressesAreNumbers, Zenon
    <3> QED
      BY <3>2
  <2>2. SizeOf(f.info) \in Nat \ {0}
    BY <1>0, <1>2, SizeOfOperand DEF Stands
  <2>3. Meaning(m, f) = BytesAt(m.memory, m.registers[f.data].n, SizeOf(f.info))
    BY <1>2 DEF Meaning, AtFixedAddress
  <2> QED
    BY <1>0, <2>1, <2>2, <2>3, MemoryOfBytes
<1>3. CASE f.source = "Constant"
  BY <1>3, ConstantIs, ValuesRepresent DEF Meaning, AtFixedAddress, Stands
<1>4. CASE f.source \in {"Register", "Pointer"}
  BY <1>4 DEF Meaning, Machines, Stands, AtFixedAddress, InRegister
<1> QED
  BY <1>0, <1>1, <1>2, <1>3, <1>4 DEF AtFixedAddress, Sources

(* The types of the abstract operands are those of the frames.             *)
LEMMA TypeOfOperand ==
  ASSUME NEW m \in Machines, NEW f, Stands(m, f)
  PROVE  /\ Operand(m, f).type = Type(f)
         /\ Source!Primitive(Type(f)) = f.dynamic
         /\ Type(f).depth = f.info.depth
         /\ f.info.depth > 0 => Type(f) = f.info
         /\ f.source \in {"Register", "Constant"} => Type(f) = Source!Plain(f.dynamic)
<1>1. /\ f.info = [depth |-> f.info.depth, base |-> f.info.base]
      /\ f.info.depth \in Nat /\ f.source \in Sources /\ f.dynamic \in Primitives
  BY FrameFields DEF Stands
<1>2. Operand(m, f).type = Type(f)
  <2>1. CASE AtFixedAddress(f)
    BY <2>1 DEF Operand, Type, AtFixedAddress
  <2>2. CASE f.source = "DynamicAddress"
    BY <2>2 DEF Operand, Type, AtFixedAddress
  <2>3. CASE f.source = "Constant"
    BY <2>3 DEF Operand, Type, AtFixedAddress
  <2>4. CASE f.source \in {"Register", "Pointer"}
    BY <2>4 DEF Operand, Type, AtFixedAddress
  <2> QED
    BY <1>1, <2>1, <2>2, <2>3, <2>4 DEF Sources, AtFixedAddress
<1>3. f.dynamic \in {"Int", "UInt", "Real"} /\ Analog(f.dynamic) = f.dynamic
  BY <1>1 DEF Primitives, Analog
<1>4. Source!Primitive(Type(f)) = f.dynamic
  <2>1. CASE IsPointer(f)
    <3>1. f.dynamic = "UInt"
      BY <1>1, <2>1 DEF Stands, Shaped, Sources, AtFixedAddress
    <3> QED
      BY <1>1, <2>1, <3>1 DEF Source!Primitive, Type, IsPointer
  <2>2. CASE ~IsPointer(f) /\ (AtFixedAddress(f) \/ f.source = "DynamicAddress")
    <3>1. f.dynamic = Analog(f.info.base) /\ Type(f) = f.info
      BY <2>2 DEF Stands, Shaped, Type
    <3> QED
      BY <1>1, <2>2, <3>1 DEF Source!Primitive, IsPointer, Analog, Source!Analog
  <2>3. CASE ~IsPointer(f) /\ ~(AtFixedAddress(f) \/ f.source = "DynamicAddress")
    <3>1. Type(f) = [depth |-> 0, base |-> f.dynamic]
      BY <2>3 DEF Type
    <3> QED
      BY <1>3, <3>1 DEF Source!Primitive, Analog, Source!Analog
  <2> QED
    BY <2>1, <2>2, <2>3
<1>5. /\ Type(f).depth = f.info.depth
      /\ f.info.depth > 0 => Type(f) = f.info
  BY <1>1 DEF Type, IsPointer
<1>6. f.source \in {"Register", "Constant"} => Type(f) = Source!Plain(f.dynamic)
  BY DEF Stands, Shaped, Type, IsPointer, AtFixedAddress, Source!Plain
<1> QED
  BY <1>2, <1>4, <1>5, <1>6

(* The memory is read and written as it means.                             *)
LEMMA SameBytes ==
  /\ \A memory, at, size : Source!BytesAt(memory, at, size) = BytesAt(memory, at, size)
  /\ \A memory, at, size, v :
       Source!WithBytes(memory, at, size, v) = WithBytes(memory, at, size, v)
  /\ \A p : Source!Analog(p) = Analog(p)
<1>1. /\ \A v, i : Source!Byte(v, i) = Byte(v, i)
      /\ Source!Unknown = Unknown
      /\ \A v : Source!LowByte(v) = LowByte(v)
  BY DEF Source!Byte, Byte, Source!Unknown, Unknown, Source!LowByte, LowByte,
         Source!Is, Is, Source!Number, Number, Source!Representation, Representation
<1>2. /\ \A memory, at, size : Source!BytesAt(memory, at, size) = BytesAt(memory, at, size)
      /\ \A memory, at, size, v :
           Source!WithBytes(memory, at, size, v) = WithBytes(memory, at, size, v)
  BY <1>1 DEF Source!BytesAt, BytesAt, Source!WithBytes, WithBytes
<1> QED
  BY <1>2 DEF Source!Analog, Analog

(* Reading the abstract operand gives what the frame means.                *)
LEMMA OperandRead ==
  ASSUME NEW m \in Machines, m.memory = machine.memory, NEW f, Stands(m, f)
  PROVE  /\ Source!Read(Operand(m, f)) = Meaning(m, f)
         /\ Operand(m, f).place # -1 <=>
              AtFixedAddress(f) \/ f.source = "DynamicAddress"
         /\ AtFixedAddress(f) => Operand(m, f).place = AddressIn(Argument(f))
         /\ f.source = "DynamicAddress" =>
              Operand(m, f).place = m.registers[f.data].n
         /\ Operand(m, f).place \in Addresses \cup {-1}
<1>1. f \in Frames /\ f.source \in Sources
  BY FrameFields DEF Stands
<1>2. \A at : Source!ReadFrom(at, f.info) = BytesAt(m.memory, at, Source!SizeOf(f.info))
  BY SameBytes DEF Source!ReadFrom
<1>3. CASE AtFixedAddress(f)
  <2>1. /\ AddressIn(Argument(f)) \in Addresses
        /\ AddressIn(Argument(f)) # -1
    BY <1>1, <1>3, FixedAddress, AddressesAreNumbers
  <2>2. Operand(m, f).place = AddressIn(Argument(f))
    BY <1>3 DEF Operand, AtFixedAddress
  <2>3. Operand(m, f).type = f.info /\ Source!SizeOf(f.info) = SizeOf(f.info)
    BY <1>1, <1>3, SizeOfOperand DEF Operand, Stands, AtFixedAddress
  <2>4. Source!Read(Operand(m, f)) =
          BytesAt(m.memory, AddressIn(Argument(f)), SizeOf(f.info))
    BY <1>2, <2>1, <2>2, <2>3 DEF Source!Read, Source!NoPlace
  <2> QED
    BY <1>3, <2>1, <2>2, <2>4 DEF Meaning, AtFixedAddress
<1>4. CASE f.source = "DynamicAddress"
  <2>1. /\ f.data \in Registers /\ m.registers[f.data].n \in Addresses
        /\ m.registers[f.data].n # -1
    BY <1>4, AddressesAreNumbers DEF Stands, InRegister, Known
  <2>2. Operand(m, f).place = m.registers[f.data].n
    BY <1>4, <2>1 DEF Operand, AtFixedAddress, InRegisterOf
  <2>3. Operand(m, f).type = f.info /\ Source!SizeOf(f.info) = SizeOf(f.info)
    BY <1>1, <1>4, SizeOfOperand DEF Operand, Stands, AtFixedAddress
  <2>4. Source!Read(Operand(m, f)) =
          BytesAt(m.memory, m.registers[f.data].n, SizeOf(f.info))
    BY <1>2, <2>1, <2>2, <2>3 DEF Source!Read, Source!NoPlace
  <2> QED
    BY <1>4, <2>1, <2>2, <2>4 DEF Meaning, AtFixedAddress
<1>5. CASE f.source = "Constant"
  <2>1. /\ Operand(m, f).place = -1
        /\ Operand(m, f).value = Number(f.data.prim, f.data.n)
    BY <1>5 DEF Operand, AtFixedAddress
  <2> QED
    BY <1>5, <2>1 DEF Source!Read, Source!NoPlace, Meaning, AtFixedAddress
<1>6. CASE f.source \in {"Register", "Pointer"}
  <2>1. f.data \in Registers
    BY <1>6 DEF Stands, InRegister
  <2>2. /\ Operand(m, f).place = -1
        /\ Operand(m, f).value = m.registers[f.data]
    BY <1>6, <2>1 DEF Operand, AtFixedAddress, InRegisterOf
  <2> QED
    BY <1>6, <2>2 DEF Source!Read, Source!NoPlace, Meaning, AtFixedAddress
<1> QED
  BY <1>1, <1>3, <1>4, <1>5, <1>6 DEF Sources, AtFixedAddress

(* A frame whose register nobody changed stands for the same operand.      *)
LEMMA SameOperand ==
  ASSUME NEW m, NEW n, NEW f, Stands(m, f),
         InRegister(f) => n.registers[f.data] = m.registers[f.data]
  PROVE  Stands(n, f) /\ Operand(n, f) = Operand(m, f)
<1>1. f.source = "DynamicAddress" => InRegister(f)
  BY DEF InRegister
<1>2. Stands(n, f)
  BY <1>1 DEF Stands
<1>3. CASE InRegister(f)
  <2>1. InRegisterOf(n, f.data) = InRegisterOf(m, f.data)
    BY <1>3 DEF InRegisterOf
  <2> QED
    BY <1>2, <2>1 DEF Operand
<1>4. CASE ~InRegister(f)
  <2>1. AtFixedAddress(f) \/ f.source = "Constant"
    BY <1>4, FrameFields DEF Stands, InRegister, AtFixedAddress, Sources
  <2> QED
    BY <1>1, <1>2, <1>4, <2>1 DEF Operand
<1> QED
  BY <1>3, <1>4

(* A load puts what the top frame means into a register.                   *)
LEMMA LoadCarries ==
  ASSUME NEW b, Typed(b), b.value_stack # <<>>, ~Load(b).reported,
         NEW m, Carries(b, m), Stands(m, Last(b.value_stack))
  PROVE  LET f == Last(b.value_stack)
             g == Load(b).loaded[1]
         IN TakesOver(g, f) /\ Carries(Load(b), Put(m, g.data, Meaning(m, f)))
<1> DEFINE c == Load(b)
           f == Last(b.value_stack)
           p == Popped(b)
           v == Meaning(m, f)
<1>0. /\ IsState(b) /\ f \in Frames /\ m \in Machines /\ Stands(m, f)
      /\ f.source \in Sources /\ v \in MSLValue
  BY WithoutLast, FrameFields, MeaningIsValue DEF Typed, Carries
<1>1. IsState(p) /\ Carries(p, m) /\ p.loaded = b.loaded
  BY <1>0, Small, SmallRemember, Carrying DEF Remembers, Fields
<1>2. c = LoadedTop(p, f)
  BY DEF Load, Top
<1>3. InItsRegister(f, c.loaded[1], b, c) /\ b.loaded \in Seq(Frames \cup {Invalid})
  BY LoadEffect DEF Typed
<1>4. c.loaded[1].data \in Registers
  BY <1>0, <1>3 DEF InItsRegister, Stands
<1>5. ASSUME NEW d, IsState(d), d.loaded = b.loaded, NEW g, c = Returned(d, g)
      PROVE  c.loaded[1] = g /\ \A n : Carries(d, n) => Carries(c, n)
  <2>1. c.loaded = << g >> \o b.loaded
    <3>1. Fields(c, d.value_stack, d.registers_table, << g >> \o d.loaded,
                 d.reported, d.out_of_registers)
      BY <1>5, Small
    <3> QED
      BY <1>5, <3>1 DEF Fields
  <2>2. (<< g >> \o b.loaded)[1] = g
    <3> DEFINE S == Frames \cup {Invalid, g}
    <3>1. << g >> \in Seq(S) /\ b.loaded \in Seq(S) /\ g \in S
      BY <1>3
    <3> HIDE DEF S
    <3>2. Len(<< g >>) = 1 /\ Len(b.loaded) \in Nat /\ << g >>[1] = g
      BY <3>1
    <3> QED
      BY <3>1, <3>2, ConcatProperties
  <2> QED
    BY <1>5, <2>1, <2>2, Carrying
<1>6. ASSUME NEW g, c.loaded[1] = g, NEW s \in {"Register", "Pointer"},
             g = [source |-> s, data |-> g.data, dynamic |-> f.dynamic,
                  static |-> f.static,
                  dynamicSize |-> f.dynamicSize, staticSize |-> f.staticSize,
                  info |-> f.info],
             IsPointer(f) <=> s = "Pointer",
             IsPointer(f) => f.dynamic = "UInt" /\ f.staticSize = Size
      PROVE  TakesOver(g, f)
  BY <1>3, <1>4, <1>6
     DEF TakesOver, InItsRegister, Shaped, IsPointer, AtFixedAddress
<1>7. CASE f.source = "DynamicAddress"
  <2> DEFINE g == [f EXCEPT !.source = "Register"]
             d == Emitted(p, <<"LOAD_DYNAMIC", f.data, f.data, f.dynamicSize>>)
  <2>1. c = Returned(d, g)
    BY <1>2, <1>7 DEF LoadedTop, AtFixedAddress
  <2>2. IsState(d) /\ d.loaded = b.loaded
    <3>1. Fields(d, p.value_stack, p.registers_table, p.loaded, p.reported,
                 p.out_of_registers)
      BY <1>1, Small
    <3>2. Remembers(p, d)
      BY <1>1, SmallRemember
    <3> QED
      BY <1>1, <3>1, <3>2 DEF Remembers, Fields
  <2>3. g = [source |-> "Register", data |-> f.data, dynamic |-> f.dynamic,
             static |-> f.static,
             dynamicSize |-> f.dynamicSize, staticSize |-> f.staticSize,
             info |-> f.info]
    BY <1>0, ChangedFrame
  <2>4. f.data \in Registers /\ Known(m.registers[f.data])
    BY <1>0, <1>7 DEF Stands, InRegister
  <2>5. Execute(m, <<"LOAD_DYNAMIC", f.data, f.data, f.dynamicSize>>) = Put(m, f.data, v)
    <3>1. Is(m.registers[f.data], "UInt") /\ f.dynamicSize = SizeOf(f.info)
      BY <1>0, <1>7, <2>4 DEF Known, Stands, Shaped
    <3>2. v = BytesAt(m.memory, m.registers[f.data].n, f.dynamicSize)
      BY <1>7, <3>1 DEF Meaning, AtFixedAddress
    <3> HIDE DEF v
    <3> QED
      BY <1>0, <2>4, <3>1, <3>2, Loading, ZenonT(40)
  <2>6. Carries(d, Put(m, f.data, v))
    BY <1>0, <1>1, <2>4, <2>5, Carrying, Puts
  <2>7. ~IsPointer(f)
    BY <1>0, <1>7 DEF Stands, Shaped
  <2> HIDE DEF g, d, v
  <2>8. c.loaded[1] = g /\ g.data = f.data
    BY <1>5, <2>1, <2>2, <2>3
  <2>9. TakesOver(g, f)
    BY <1>6, <2>3, <2>7, <2>8
  <2>10. Carries(c, Put(m, g.data, v))
    BY <1>5, <2>1, <2>2, <2>6, <2>8
  <2> QED
    BY <2>8, <2>9, <2>10 DEF v
<1>8. ASSUME NEW command, NEW s \in {"Register", "Pointer"}, NEW loaded,
             loaded = [source |-> s, data |-> f.data, dynamic |-> f.dynamic,
                       static |-> f.static,
                       dynamicSize |-> f.dynamicSize, staticSize |-> f.staticSize,
                       info |-> f.info],
             IsPointer(f) <=> s = "Pointer",
             IsPointer(f) => f.dynamic = "UInt" /\ f.staticSize = Size,
             c = LoadedFrom(p, f, command, loaded),
             \A r \in Registers :
               Execute(m, <<command, Argument(f), r, f.dynamicSize>>) = Put(m, r, v)
      PROVE  /\ TakesOver(c.loaded[1], f)
             /\ Carries(c, Put(m, c.loaded[1].data, v))
  <2> DEFINE r == FindFreeGeneral(p)
             a == Allocated(p)
             e == <<command, Argument(f), r, f.dynamicSize>>
             d == Emitted(a, e)
             g == [loaded EXCEPT !.data = r]
  <2>1. /\ IsState(a) /\ a.loaded = b.loaded /\ Carries(a, m)
    <3>1. IsState(a) /\ Carries(a, m)
      BY <1>1, SmallRemember, Carrying DEF Remembers
    <3>2. a.loaded = p.loaded
      BY <1>1, Allocating DEF Fields
    <3> QED
      BY <1>1, <3>1, <3>2
  <2>2. r # InvalidRegister
    <3>1. SUFFICES ASSUME r = InvalidRegister PROVE FALSE
      OBVIOUS
    <3>2. c = Returned(Reported(a), Invalid)
      BY <1>8, <3>1 DEF LoadedFrom, LoadedInto
    <3>3. IsState(Reported(a)) /\ Reported(a).reported
      BY <2>1, SmallRemember DEF Remembers
    <3>4. c.reported
      BY <3>2, <3>3, SmallRemember DEF Remembers
    <3> QED
      BY <3>4
  <2>3. r \in Registers
    BY <1>1, <2>2, FirstFree
  <2>4. c = Returned(d, g)
    BY <1>8, <2>2 DEF LoadedFrom, LoadedInto
  <2>5. g = [source |-> s, data |-> r, dynamic |-> f.dynamic,
             static |-> f.static,
             dynamicSize |-> f.dynamicSize, staticSize |-> f.staticSize,
             info |-> f.info]
    BY <1>8
  <2>6. IsState(d) /\ d.loaded = b.loaded
    <3>1. Fields(d, a.value_stack, a.registers_table, a.loaded, a.reported,
                 a.out_of_registers)
      BY <2>1, Small
    <3>2. Remembers(a, d)
      BY <2>1, SmallRemember
    <3> QED
      BY <2>1, <3>1, <3>2 DEF Remembers, Fields
  <2>7. Carries(d, Put(m, r, v))
    <3>1. Execute(m, e) = Put(m, r, v) /\ Put(m, r, v) \in Machines
      BY <1>0, <1>8, <2>3, Puts
    <3> HIDE DEF e, r, v, a
    <3> QED
      BY <2>1, <3>1, Carrying
  <2> HIDE DEF g, d, r, a, e, v
  <2>8. c.loaded[1] = g /\ g.data = r
    BY <1>5, <2>4, <2>5, <2>6
  <2>9. TakesOver(g, f)
    BY <1>6, <1>8, <2>5, <2>8
  <2>10. Carries(c, Put(m, g.data, v))
    BY <1>5, <2>4, <2>6, <2>7, <2>8
  <2> QED
    BY <2>8, <2>9, <2>10
<1>9. CASE AtFixedAddress(f)
  <2> DEFINE s == IF IsPointer(f) THEN "Pointer" ELSE "Register"
             loaded == IF IsPointer(f)
                         THEN [f EXCEPT !.source = "Pointer", !.dynamic = "UInt"]
                         ELSE [f EXCEPT !.source = "Register", !.dynamic = f.static]
  <2>1. c = LoadedFrom(p, f, "LOAD_STATIC", loaded)
    BY <1>2, <1>9 DEF LoadedTop, AtFixedAddress
  <2>2. f.static = f.dynamic /\ (IsPointer(f) => f.dynamic = "UInt" /\ f.staticSize = Size)
    BY <1>0, <1>9 DEF Stands, Shaped, SizeOf, IsPointer
  <2>3. loaded = [source |-> s, data |-> f.data, dynamic |-> f.dynamic,
                  static |-> f.static,
                  dynamicSize |-> f.dynamicSize, staticSize |-> f.staticSize,
                  info |-> f.info]
    <3>1. CASE IsPointer(f)
      <4>1. [f EXCEPT !.source = "Pointer", !.dynamic = "UInt"] =
              [source |-> "Pointer", data |-> f.data, dynamic |-> "UInt",
               static |-> f.static,
               dynamicSize |-> f.dynamicSize, staticSize |-> f.staticSize,
               info |-> f.info]
        BY <1>0, ChangedFrame, ZenonT(40)
      <4> QED
        BY <2>2, <3>1, <4>1
    <3>2. CASE ~IsPointer(f)
      BY <1>0, <2>2, <3>2, ChangedFrame
    <3> QED
      BY <3>1, <3>2
  <2>4. /\ s \in {"Register", "Pointer"} /\ (IsPointer(f) <=> s = "Pointer")
    OBVIOUS
  <2>5. \A r \in Registers : Execute(m, <<"LOAD_STATIC", Argument(f), r, f.dynamicSize>>) = Put(m, r, v)
    <3>1. f.dynamicSize = SizeOf(f.info)
      BY <1>0, <1>9 DEF Stands, Shaped
    <3>2. v = BytesAt(m.memory, AddressIn(Argument(f)), f.dynamicSize)
      BY <1>9, <3>1 DEF Meaning, AtFixedAddress
    <3> HIDE DEF v
    <3> QED
      BY <1>0, <3>2, Loading
  <2> HIDE DEF s, loaded, v
  <2>6. /\ TakesOver(c.loaded[1], f)
        /\ Carries(c, Put(m, c.loaded[1].data, v))
    BY <1>8, <2>1, <2>2, <2>3, <2>4, <2>5
  <2> QED
    BY <2>6 DEF v
<1>10. CASE f.source = "Constant"
  <2> DEFINE loaded == [f EXCEPT !.source = "Register"]
  <2>1. c = LoadedFrom(p, f, "LOAD_CONST_STATIC", loaded)
    BY <1>2, <1>10 DEF LoadedTop, AtFixedAddress
  <2>2. loaded = [source |-> "Register", data |-> f.data, dynamic |-> f.dynamic,
                  static |-> f.static,
                  dynamicSize |-> f.dynamicSize, staticSize |-> f.staticSize,
                  info |-> f.info]
    BY <1>0, ChangedFrame
  <2>3. ~IsPointer(f)
    BY <1>0, <1>10 DEF Stands, Shaped
  <2>4. \A r \in Registers :
          Execute(m, <<"LOAD_CONST_STATIC", Argument(f), r, f.dynamicSize>>) = Put(m, r, v)
    <3>1. Argument(f)[2] = f.data
      BY DEF Argument
    <3>2. v = Number(f.data.prim, f.data.n)
      BY <1>10 DEF Meaning, AtFixedAddress
    <3> HIDE DEF v
    <3> QED
      BY <1>0, <3>1, <3>2, Loading, ZenonT(40)
  <2> HIDE DEF loaded, v
  <2>5. /\ TakesOver(c.loaded[1], f)
        /\ Carries(c, Put(m, c.loaded[1].data, v))
    BY <1>8, <2>1, <2>2, <2>3, <2>4
  <2> QED
    BY <2>5 DEF v
<1>11. CASE f.source \in {"Register", "Pointer"}
  <2>1. c = Returned(p, f)
    BY <1>2, <1>11 DEF LoadedTop, AtFixedAddress
  <2>2. c.loaded[1] = f /\ Carries(c, m)
    BY <1>1, <1>5, <2>1
  <2>3. Put(m, f.data, v) = m
    <3>1. v = m.registers[f.data] /\ f.data \in Registers
      BY <1>0, <1>11 DEF Meaning, AtFixedAddress, Stands, InRegister
    <3> QED
      BY <1>0, <3>1 DEF Put, Machines
  <2>4. TakesOver(f, f)
    BY <1>0, <1>11 DEF TakesOver, Stands, InRegister
  <2> QED
    BY <2>2, <2>3, <2>4
<1> QED
  BY <1>0, <1>7, <1>9, <1>10, <1>11 DEF Sources, AtFixedAddress

(* Of two loaded frames, the one loaded first is the second.               *)
LEMMA LoadedSecond ==
  ASSUME NEW b, Typed(b), b.value_stack # <<>>, ~Load(b).reported,
         NEW c, Typed(c), c.loaded # <<>>, b.loaded = c.loaded
  PROVE  Load(b).loaded[2] = c.loaded[1]
<1> DEFINE S == Frames \cup {Invalid}
           g == Load(b).loaded[1]
<1>1. Load(b).loaded = << g >> \o b.loaded /\ g \in S
  BY LoadEffect DEF InItsRegister
<1>2. << g >> \in Seq(S) /\ b.loaded \in Seq(S) /\ b.loaded # <<>>
  BY <1>1 DEF Typed
<1> HIDE DEF S, g
<1>3. Len(<< g >>) = 1 /\ Len(b.loaded) \in Nat /\ Len(b.loaded) >= 1
  BY <1>2, EmptySeq
<1>4. (<< g >> \o b.loaded)[2] = b.loaded[1]
  BY <1>2, <1>3, ConcatProperties
<1> QED
  BY <1>1, <1>4

(* Two loads leave both operands in registers.                             *)
LEMMA TwoLoadsCarry ==
  ASSUME NEW b, Typed(b), NEW n \in Nat, n = Len(b.value_stack), n >= 2,
         ~Load(Load(b)).reported, NEW m, Carries(b, m), LastApart(b),
         Stands(m, b.value_stack[n]), Stands(m, b.value_stack[n - 1])
  PROVE  LET d == Load(Load(b))
             l == d.loaded[1]
             r == d.loaded[2]
             left == b.value_stack[n - 1]
             right == b.value_stack[n]
         IN /\ TakesOver(l, left) /\ TakesOver(r, right) /\ l.data # r.data
            /\ \E k : /\ Carries(d, k) /\ Keeps(m, k, {l.data, r.data})
                      /\ k.registers[l.data] = Meaning(m, left)
                      /\ k.registers[r.data] = Meaning(m, right)
<1> DEFINE c == Load(b)
           d == Load(c)
           l == d.loaded[1]
           r == c.loaded[1]
           left == b.value_stack[n - 1]
           right == b.value_stack[n]
           v == Meaning(m, right)
           w == Meaning(m, left)
           k1 == Put(m, r.data, v)
           k2 == Put(k1, l.data, w)
<1>1. b.value_stack # <<>> /\ right = Last(b.value_stack) /\ m \in Machines
  BY WithoutTop DEF Typed, Carries, Last
<1>2. ~c.reported
  <2>1. IsState(c)
    BY <1>1, LoadRemembers DEF Typed, Remembers
  <2> QED
    BY <2>1, LoadRemembers DEF Remembers
<1>3. /\ Typed(c) /\ c.value_stack = Front(b.value_stack)
      /\ c.loaded = << r >> \o b.loaded /\ InItsRegister(right, r, b, c)
  BY <1>1, <1>2, LoadEffect
<1>4. TakesOver(r, right) /\ Carries(c, k1)
  BY <1>1, <1>2, LoadCarries
<1>5. /\ c.value_stack # <<>> /\ Last(c.value_stack) = left
  <2>1. /\ c.value_stack \in Seq(Frames) /\ Len(c.value_stack) = n - 1
        /\ c.value_stack[n - 1] = left
    BY <1>1, <1>3, WithoutTop DEF Typed
  <2> QED
    BY <2>1 DEF Last
<1>6. InItsRegister(left, l, c, d)
  BY <1>3, <1>5, LoadEffect
<1>7. InRegister(left) => left.data \in Registers /\ left.data # r.data
  <2> SUFFICES ASSUME InRegister(left)
               PROVE  left.data \in Registers /\ left.data # r.data
    OBVIOUS
  <2>1. left.data \in Registers /\ Reg(left) = {left.data}
    BY DEF Stands, Reg
  <2>2. left.data \in b.registers_table
    BY <2>1 DEF LastApart
  <2>3. CASE InRegister(right)
    <3>1. r.data = right.data /\ right.data \in Reg(right)
      BY <1>3, <1>4, <2>3 DEF InItsRegister, Reg, TakesOver
    <3> QED
      BY <2>1, <3>1 DEF LastApart
  <2>4. CASE ~InRegister(right)
    BY <1>3, <2>1, <2>2, <2>4 DEF InItsRegister
  <2> QED
    BY <2>1, <2>3, <2>4
<1>8. v \in MSLValue /\ w \in MSLValue /\ r.data \in Registers
  BY <1>1, <1>4, MeaningIsValue DEF TakesOver
<1>9. /\ k1 \in Machines /\ k1.memory = m.memory /\ k1.registers[r.data] = v
      /\ \A s \in Registers : s # r.data => k1.registers[s] = m.registers[s]
  BY <1>1, <1>8, Puts
<1>10. Stands(k1, left) /\ Meaning(k1, left) = w
  <2>1. InRegister(left) => k1.registers[left.data] = m.registers[left.data]
    BY <1>7, <1>9
  <2>2. Stands(k1, left)
    BY <2>1, SameOperand
  <2>3. Meaning(k1, left) = Meaning(m, left)
    <3>1. CASE InRegister(left)
      BY <1>9, <2>1, <3>1 DEF Meaning
    <3>2. CASE ~InRegister(left)
      <4>1. AtFixedAddress(left) \/ left.source = "Constant"
        BY <3>2, FrameFields DEF Stands, InRegister, AtFixedAddress, Sources
      <4> QED
        BY <1>9, <4>1 DEF Meaning, AtFixedAddress
    <3> QED
      BY <3>1, <3>2
  <2> QED
    BY <2>2, <2>3
<1>11. TakesOver(l, left) /\ Carries(d, k2)
  <2> HIDE DEF k1, w
  <2>1. TakesOver(l, left) /\ Carries(d, Put(k1, l.data, Meaning(k1, left)))
    <3> HIDE DEF c, l
    <3>1. /\ ~Load(c).reported
      BY DEF c
    <3> QED
      BY <1>3, <1>4, <1>5, <1>10, <3>1, LoadCarries DEF l
  <2> QED
    BY <1>10, <2>1
<1>12. l.data # r.data
  <2>1. CASE InRegister(left)
    BY <1>6, <1>7, <2>1 DEF InItsRegister
  <2>2. CASE ~InRegister(left)
    <3>1. r.data \in c.registers_table
      <4>1. CASE InRegister(right)
        <5>1. right.data \in Reg(right) /\ r.data = right.data
          BY <1>3, <1>4, <4>1 DEF InItsRegister, Reg, TakesOver
        <5> QED
          BY <1>3, <4>1, <5>1 DEF InItsRegister, LastApart
      <4>2. CASE ~InRegister(right)
        BY <1>3, <4>2 DEF InItsRegister
      <4> QED
        BY <4>1, <4>2
    <3> QED
      BY <1>6, <2>2, <3>1 DEF InItsRegister
  <2> QED
    BY <2>1, <2>2
<1>13. /\ k2 \in Machines /\ k2.memory = k1.memory /\ k2.registers[l.data] = w
       /\ \A s \in Registers : s # l.data => k2.registers[s] = k1.registers[s]
  <2>1. l.data \in Registers
    BY <1>11 DEF TakesOver
  <2> HIDE DEF k1, l, w
  <2> QED
    BY <1>8, <1>9, <2>1, Puts, SMTT(30)
<1>14. d.loaded[2] = r
  <2>1. c.loaded # <<>> /\ c.loaded[1] = r
    <3>1. << r >> \in Seq({r} \cup Frames \cup {Invalid}) /\ b.loaded \in Seq({r} \cup Frames \cup {Invalid})
      BY DEF Typed
    <3>2. Len(<< r >>) = 1 /\ Len(b.loaded) \in Nat
      BY <3>1
    <3>3. Len(<< r >> \o b.loaded) >= 1
      BY <3>1, <3>2, ConcatProperties
    <3> QED
      BY <1>3, <3>3
  <2> QED
    BY <1>3, <1>5, <2>1, LoadedSecond
<1> HIDE DEF k1, k2, v, w, l, r, c, d
<1>15. Keeps(m, k2, {l.data, r.data})
  BY <1>9, <1>13 DEF Keeps
<1>16. k2.registers[r.data] = v
  BY <1>8, <1>9, <1>12, <1>13
<1>17. \E k : /\ Carries(d, k) /\ Keeps(m, k, {l.data, r.data})
              /\ k.registers[l.data] = w /\ k.registers[r.data] = v
  BY <1>11, <1>13, <1>15, <1>16
<1> QED
  BY <1>4, <1>11, <1>12, <1>14, <1>17 DEF c, d, l, r, v, w

(* ExpressionPromise computes with the same numbers.                       *)
LEMMA SameNumbers ==
  /\ Source!Unknown = Unknown
  /\ \A p, n : Source!Number(p, n) = Number(p, n)
  /\ \A p, q : Source!Common(p, q) = Common(p, q)
  /\ \A v, p, q : Source!Converted(v, p, q) = Converted(v, p, q)
  /\ \A v, w, p : /\ Source!Difference(v, w, p) = Difference(v, w, p)
                  /\ Source!Product(v, w, p) = Product(v, w, p)
                  /\ Source!Remainder(v, w, p) = Remainder(v, w, p)
                  /\ Source!LessThan(v, w, p) = LessThan(v, w, p)
  /\ \A v, w : /\ Source!Both(v, w) = Both(v, w)
               /\ Source!ShiftedLeft(v, w) = ShiftedLeft(v, w)
  /\ \A v, p : Source!Negated(v, p) = Negated(v, p)
  /\ \A v : Source!Complement(v) = Complement(v)
<1>1. Source!Unknown = Unknown
  BY DEF Source!Unknown, Unknown
<1>2. \A p : Source!Representation(p) = Representation(p)
  BY DEF Source!Representation, Representation
<1>3. \A p, n : Source!Number(p, n) = Number(p, n)
  BY <1>2 DEF Source!Number, Number
<1>4. \A p, q : Source!Common(p, q) = Common(p, q)
  BY DEF Source!Common, Common, Source!Priority, Priority
<1>5. \A v, p : Source!Is(v, p) = Is(v, p)
  BY <1>2 DEF Source!Is, Is
<1>6. \A h : Source!Truth(h) = Truth(h)
  BY <1>3 DEF Source!Truth, Truth
<1>7. \A v, p, q : Source!Converted(v, p, q) = Converted(v, p, q)
  BY <1>1, <1>3, <1>5 DEF Source!Converted, Converted
<1>8. \A v, w, p : /\ Source!Difference(v, w, p) = Difference(v, w, p)
                   /\ Source!Product(v, w, p) = Product(v, w, p)
                   /\ Source!Remainder(v, w, p) = Remainder(v, w, p)
                   /\ Source!LessThan(v, w, p) = LessThan(v, w, p)
  BY <1>1, <1>3, <1>5, <1>6
     DEF Source!Difference, Difference, Source!Product, Product,
         Source!Remainder, Remainder, Source!LessThan, LessThan
<1>9. \A v, w : /\ Source!Both(v, w) = Both(v, w)
                /\ Source!ShiftedLeft(v, w) = ShiftedLeft(v, w)
  BY <1>1, <1>3, <1>5, <1>6
     DEF Source!Both, Both, Source!ShiftedLeft, ShiftedLeft
<1>10. /\ \A v, p : Source!Negated(v, p) = Negated(v, p)
       /\ \A v : Source!Complement(v) = Complement(v)
  BY <1>1, <1>3, <1>5 DEF Source!Negated, Negated, Source!Complement, Complement
<1> QED
  BY <1>1, <1>3, <1>4, <1>7, <1>8, <1>9, <1>10

(* The common type of two is one of them.                                  *)
LEMMA CommonIs ==
  ASSUME NEW p \in Primitives, NEW q \in Primitives
  PROVE  /\ Common(p, q) \in {p, q}
         /\ p = "UInt" /\ q # "Real" => Common(p, q) = "UInt"
BY DEF Common, Priority, Primitives

(* A cast gives a value of the language.                                   *)
LEMMA CastIsValue ==
  ASSUME NEW v \in MSLValue, NEW p \in Primitives, NEW q \in Primitives
  PROVE  Cast(v, p, q) \in MSLValue
BY ResultsAreValues DEF Cast

(* A conversion leaves everything else alone.                              *)
LEMMA ConversionCarries ==
  ASSUME NEW b, IsState(b), NEW k, Carries(b, k), NEW p \in Primitives,
         NEW q \in Primitives, NEW r \in Registers
  PROVE  LET c == Conversion(b, p, q, r)
         IN /\ IsState(c) /\ Quiet(b, c)
            /\ Carries(c, Put(k, r, Cast(k.registers[r], p, q)))
<1> DEFINE c == Conversion(b, p, q, r)
           v == k.registers[r]
<1>1. Quiet(b, c) /\ IsState(c)
  BY QuietSteps DEF Quiet, Remembers
<1>2. k \in Machines /\ v \in MSLValue
  BY DEF Carries, Machines
<1>3. CASE p = q
  <2>1. Put(k, r, v) = k
    BY <1>2 DEF Put, Machines
  <2> QED
    BY <1>1, <1>3, <2>1 DEF Conversion, Cast
<1>4. CASE p # q
  <2>1. Execute(k, <<"TC", p, q, r>>) = Put(k, r, Converted(v, p, q))
    BY <1>2, Loading
  <2>2. Put(k, r, Converted(v, p, q)) \in Machines
    <3>1. Converted(v, p, q) \in MSLValue
      BY <1>2, ResultsAreValues
    <3> QED
      BY <1>2, <3>1, Puts
  <2>3. c = Emitted(b, <<"TC", p, q, r>>)
    BY <1>4 DEF Conversion
  <2>4. Carries(c, Put(k, r, Converted(v, p, q)))
    BY <2>1, <2>2, <2>3, Carrying
  <2> QED
    BY <1>1, <1>4, <2>4 DEF Cast
<1> QED
  BY <1>3, <1>4

(* Both operands get the common type.                                      *)
LEMMA UnifiedCarries ==
  ASSUME NEW b, IsState(b), NEW k, Carries(b, k), NEW l, NEW r,
         l.data \in Registers, r.data \in Registers, l.data # r.data,
         l.dynamic \in Primitives, r.dynamic \in Primitives
  PROVE  LET common == Common(l.dynamic, r.dynamic)
         IN \E n : /\ Carries(Unified(b, l, r), n) /\ Keeps(k, n, {l.data, r.data})
                   /\ Holds(n, l.data) = Cast(Holds(k, l.data), l.dynamic, common)
                   /\ Holds(n, r.data) = Cast(Holds(k, r.data), r.dynamic, common)
<1> DEFINE common == Common(l.dynamic, r.dynamic)
           v == k.registers[l.data]
           w == k.registers[r.data]
           x == Cast(v, l.dynamic, common)
           y == Cast(w, r.dynamic, common)
           n1 == Put(k, l.data, x)
           n2 == Put(k, r.data, y)
<1>1. common \in {l.dynamic, r.dynamic} /\ common \in Primitives
  BY CommonIs
<1>2. /\ k \in Machines /\ v \in MSLValue /\ w \in MSLValue
      /\ x \in MSLValue /\ y \in MSLValue
  <2>1. k \in Machines /\ v \in MSLValue /\ w \in MSLValue
    BY DEF Carries, Machines
  <2> QED
    BY <1>1, <2>1, CastIsValue
<1>3. CASE LeftConverts(l, r)
  <2>1. Unified(b, l, r) = Conversion(b, l.dynamic, common, l.data) /\ common = r.dynamic
    BY <1>1, <1>3 DEF Unified, LeftConverts
  <2>2. Carries(Unified(b, l, r), n1)
    BY <1>1, <2>1, ConversionCarries
  <2>3. y = w
    BY <2>1 DEF Cast
  <2> DEFINE i == l.data
  <2> HIDE DEF common, x, y, n1, i
  <2>4. /\ n1 \in Machines /\ n1.memory = k.memory /\ n1.registers[l.data] = x
        /\ \A s \in Registers : s # l.data => n1.registers[s] = k.registers[s]
    <3>1. n1 = Put(k, i, x) /\ i \in Registers
      BY DEF n1, i
    <3>2. k \in Machines /\ x \in MSLValue
      BY <1>2
    <3> HIDE DEF n1
    <3>3. /\ n1 \in Machines /\ n1.memory = k.memory /\ n1.registers[i] = x
          /\ \A s \in Registers : s # i => n1.registers[s] = k.registers[s]
      BY <3>1, <3>2, Puts
    <3> QED
      BY <3>3 DEF i
  <2>5. Keeps(k, n1, {l.data, r.data}) /\ n1.registers[r.data] = y
    BY <2>3, <2>4 DEF Keeps
  <2> QED
    BY <2>2, <2>4, <2>5 DEF common, x, y, Holds
<1>4. CASE ~LeftConverts(l, r)
  <2>1. Unified(b, l, r) = Conversion(b, r.dynamic, common, r.data) /\ common = l.dynamic
    BY <1>1, <1>4 DEF Unified, LeftConverts
  <2>2. Carries(Unified(b, l, r), n2)
    BY <1>1, <2>1, ConversionCarries
  <2>3. x = v
    BY <2>1 DEF Cast
  <2> DEFINE j == r.data
  <2> HIDE DEF common, x, y, n2, j
  <2>4. /\ n2 \in Machines /\ n2.memory = k.memory /\ n2.registers[r.data] = y
        /\ \A s \in Registers : s # r.data => n2.registers[s] = k.registers[s]
    <3>1. n2 = Put(k, j, y) /\ j \in Registers
      BY DEF n2, j
    <3>2. k \in Machines /\ y \in MSLValue
      BY <1>2
    <3> HIDE DEF n2
    <3>3. /\ n2 \in Machines /\ n2.memory = k.memory /\ n2.registers[j] = y
          /\ \A s \in Registers : s # j => n2.registers[s] = k.registers[s]
      BY <3>1, <3>2, Puts
    <3> QED
      BY <3>3 DEF j
  <2>5. Keeps(k, n2, {l.data, r.data}) /\ n2.registers[l.data] = x
    BY <2>3, <2>4 DEF Keeps
  <2> QED
    BY <2>2, <2>4, <2>5 DEF common, x, y, Holds
<1> QED
  BY <1>3, <1>4

(* The right operand times the size of an element, with the help of a      *)
(* register that is free.                                                  *)
LEMMA ScaledCarries ==
  ASSUME NEW b, IsState(b), NEW k, Carries(b, k), NEW l, NEW r, NEW prim \in Primitives,
         r.data \in Registers, r.data \in b.registers_table,
         ~Scaled(b, l, r, prim).reported, ~Scaled(b, l, r, prim).out_of_registers
  PROVE  /\ "Real" \notin {l.dynamic, r.dynamic}
         /\ \E n : /\ Carries(Scaled(b, l, r, prim), n)
                   /\ Keeps(k, n, Around(b, r.data, r.data))
                   /\ Holds(n, r.data) =
                        Product(Holds(k, r.data), Number("UInt", AlignedSize(l.info.base)), prim)
<1> DEFINE f == FindFreeGeneral(b)
           a == IF "Real" \in {l.dynamic, r.dynamic} THEN Reported(b) ELSE b
           noted == [a EXCEPT !.out_of_registers = @ \/ f = InvalidRegister]
           a0 == AlignedSize(l.info.base)
           first == <<"LOAD_CONST_STATIC", <<"Constant", [prim |-> "UInt", n |-> a0]>>, f, Size>>
           then == <<"MUL", prim, r.data, r.data, f>>
           one == Emitted(noted, first)
           two == Emitted(one, then)
           e == Freed(two, f)
           z == Number("UInt", a0)
           n1 == Put(k, f, z)
           w == Product(k.registers[r.data], z, prim)
           n2 == Put(n1, r.data, w)
<1>1. Scaled(b, l, r, prim) = e
  BY DEF Scaled
<1>2. IsState(a) /\ Carries(a, k) /\ (a = b \/ a.reported)
  BY SmallRemember, Carrying DEF Remembers
<1>3. /\ noted = [value_stack |-> a.value_stack, registers_table |-> a.registers_table,
              result |-> a.result, loaded |-> a.loaded, reported |-> a.reported,
              out_of_registers |-> a.out_of_registers \/ f = InvalidRegister]
  <2> HIDE DEF a, f
  <2>1. a = [value_stack |-> a.value_stack, registers_table |-> a.registers_table,
             result |-> a.result, loaded |-> a.loaded, reported |-> a.reported,
             out_of_registers |-> a.out_of_registers]
    BY <1>2 DEF IsState, Fields
  <2> QED
    BY <2>1
<1>4. /\ noted.result = a.result /\ noted.reported = a.reported
      /\ noted.out_of_registers = (a.out_of_registers \/ f = InvalidRegister)
  <2> HIDE DEF noted, a, f
  <2> QED
    BY <1>3
<1>5. IsState(noted) /\ Carries(noted, k)
  <2>1. IsState(noted)
    <3> HIDE DEF a, f
    <3>1. /\ noted.value_stack = a.value_stack /\ noted.registers_table = a.registers_table
          /\ noted.loaded = a.loaded /\ a.registers_table \subseteq Registers
          /\ a.reported \in BOOLEAN /\ a.out_of_registers \in BOOLEAN
      BY <1>2, <1>3 DEF IsState
    <3>2. noted.out_of_registers \in BOOLEAN
      BY <1>4
    <3> HIDE DEF noted
    <3> QED
      BY <1>3, <1>4, <3>1, <3>2 DEF IsState, Fields
  <2> HIDE DEF noted, a
  <2> QED
    BY <1>2, <1>4, <2>1, CarriedAlong
<1> HIDE DEF noted
<1>6. IsState(one) /\ IsState(two) /\ Remembers(noted, e)
  <2> HIDE DEF one, two, e, first, then, f
  <2>1. IsState(one) /\ Remembers(noted, one)
    BY <1>5, SmallRemember DEF Remembers, one
  <2>2. IsState(two) /\ Remembers(one, two)
    BY <2>1, SmallRemember DEF Remembers, two
  <2>3. Remembers(two, e)
    BY <2>2, SmallRemember DEF Remembers, e
  <2> QED
    BY <2>1, <2>2, <2>3, RemembersTwice
<1>7. ~noted.reported /\ ~noted.out_of_registers
  BY <1>1, <1>6 DEF Remembers
<1>8. a = b /\ f # InvalidRegister
  BY <1>2, <1>4, <1>7
<1>9. "Real" \notin {l.dynamic, r.dynamic}
  <2>1. ~b.reported
    BY <1>4, <1>7, <1>8
  <2> QED
    BY <1>8, <2>1, SmallRemember
<1>10. f \in Registers \ b.registers_table
  BY <1>8, FirstFree
<1>11. k \in Machines /\ z \in MSLValue /\ k.registers[r.data] \in MSLValue
  <2>1. a0 \in Int /\ "UInt" \in Primitives
    BY TranslatorAssumption DEF Primitives, AlignedSize
  <2>2. k \in Machines /\ k.registers[r.data] \in MSLValue
    BY DEF Carries, Machines
  <2> QED
    BY <2>1, <2>2, ValuesRepresent
<1>12. w \in MSLValue
  <2> HIDE DEF z
  <2> QED
    BY <1>11, ResultsAreValues
<1>13. /\ n1 \in Machines /\ n1.memory = k.memory /\ n1.registers[f] = z
       /\ \A j \in Registers : j # f => n1.registers[j] = k.registers[j]
  <2> HIDE DEF z, f
  <2> QED
    BY <1>10, <1>11, Puts
<1>14. /\ n2 \in Machines /\ n2.memory = n1.memory /\ n2.registers[r.data] = w
       /\ \A j \in Registers : j # r.data => n2.registers[j] = n1.registers[j]
  <2> HIDE DEF w, n1
  <2> QED
    BY <1>12, <1>13, Puts
<1>15. Carries(one, n1)
  <2>1. Execute(k, first) = n1
    <3> DEFINE c == <<"Constant", [prim |-> "UInt", n |-> a0]>>
    <3>1. c[2].prim = "UInt" /\ c[2].n = a0
      OBVIOUS
    <3> HIDE DEF f, c
    <3>2. Execute(k, <<"LOAD_CONST_STATIC", c, f, Size>>) = Put(k, f, Number(c[2].prim, c[2].n))
      BY <1>10, <1>11, Loading, ZenonT(40)
    <3> USE DEF c
    <3> QED
      BY <3>1, <3>2
  <2> HIDE DEF first, n1
  <2> QED
    BY <1>5, <1>13, <2>1, Carrying
<1>16. Carries(two, n2)
  <2>1. Execute(n1, then) = n2
    <3>1. n1.registers[r.data] = k.registers[r.data]
      BY <1>10, <1>13
    <3>2. n1 \in Machines /\ f \in Registers
      BY <1>10, <1>13
    <3> HIDE DEF f, n1, z
    <3>3. Execute(n1, <<"MUL", prim, r.data, r.data, f>>) =
            Put(n1, r.data, Product(n1.registers[r.data], n1.registers[f], prim))
      BY <3>2, Scaling, ZenonT(40)
    <3>4. Product(n1.registers[r.data], n1.registers[f], prim) = w
      BY <1>13, <3>1
    <3> QED
      BY <3>3, <3>4
  <2> HIDE DEF then, n1, n2, one
  <2> QED
    BY <1>6, <1>14, <1>15, <2>1, Carrying
<1>17. Carries(e, n2)
  <2> HIDE DEF two, n2, f
  <2> QED
    BY <1>6, <1>16, Carrying
<1>18. Keeps(k, n2, Around(b, r.data, r.data))
  <2> HIDE DEF n2, n1, f
  <2> QED
    BY <1>10, <1>13, <1>14 DEF Keeps, Around
<1> HIDE DEF n2, e
<1> QED
  <2>1. Holds(n2, r.data) = Product(Holds(k, r.data), z, prim)
    BY <1>14 DEF Holds, w
  <2> HIDE DEF w
  <2> QED
    BY <1>1, <1>9, <1>17, <1>18, <2>1

(* So does a command over two registers.                                   *)
LEMMA OutcomeIsValue ==
  ASSUME NEW v \in MSLValue, NEW w \in MSLValue, NEW p \in Primitives,
         NEW o \in BinaryOperators
  PROVE  Outcome(o, v, w, p) \in MSLValue
BY ResultsAreValues DEF Outcome, BinaryOperators

(* A command with two operands, which frees the register of the second.    *)
LEMMA CommandCarries ==
  ASSUME NEW q, IsState(q), NEW n, Carries(q, n), NEW o \in BinaryOperators,
         NEW p \in Primitives, NEW i \in Registers, NEW j \in Registers, NEW new
  PROVE  LET c == Pushed(Freed(Emitted(q, <<o, p, i, i, j>>), j), new)
             v == Outcome(o, n.registers[i], n.registers[j], p)
         IN /\ Remembers(q, c) /\ Carries(c, Put(n, i, v)) /\ Keeps(n, Put(n, i, v), {i})
            /\ Put(n, i, v).registers[i] = v
<1> DEFINE v == Outcome(o, n.registers[i], n.registers[j], p)
           m == Put(n, i, v)
           e == <<o, p, i, i, j>>
           d == Emitted(q, e)
           f == Freed(d, j)
           c == Pushed(f, new)
<1>1. n \in Machines /\ v \in MSLValue
  <2>1. n \in Machines /\ n.registers[i] \in MSLValue /\ n.registers[j] \in MSLValue
    BY DEF Carries, Machines
  <2> QED
    BY <2>1, OutcomeIsValue
<1>2. Execute(n, e) = m
  <2>1. \A a \in BinaryOperators \cup {"ADD", "MUL"} :
          Execute(n, <<a, p, i, i, j>>) =
            Put(n, i, Outcome(a, n.registers[i], n.registers[j], p))
    BY <1>1, Calculating, ZenonT(40)
  <2> QED
    BY <2>1
<1>3. /\ m \in Machines /\ m.memory = n.memory /\ m.registers[i] = v
      /\ \A s \in Registers : s # i => m.registers[s] = n.registers[s]
  <2> HIDE DEF v
  <2> QED
    BY <1>1, Puts
<1> HIDE DEF m, v, e, d, f, c
<1>4. IsState(d) /\ Remembers(q, d) /\ Carries(d, m)
  BY <1>2, <1>3, SmallRemember, Carrying DEF Remembers, d
<1>5. IsState(f) /\ Remembers(d, f) /\ Carries(f, m)
  BY <1>4, SmallRemember, Carrying DEF Remembers, f
<1>6. Remembers(f, c) /\ Carries(c, m)
  BY <1>5, SmallRemember, Carrying DEF c
<1>7. Remembers(q, c)
  BY <1>4, <1>5, <1>6, RemembersTwice
<1>8. Keeps(n, m, {i})
  BY <1>3 DEF Keeps
<1> QED
  BY <1>3, <1>6, <1>7, <1>8 DEF c, d, e, f, m, v

(* The type of an operand that waits in a register.                        *)
LEMMA WaitingType ==
  ASSUME NEW g, Waits(g)
  PROVE  /\ g.dynamic \in Primitives /\ g.info.depth \in Nat
         /\ g.info = [depth |-> g.info.depth, base |-> g.info.base]
         /\ Source!Primitive(Type(g)) = g.dynamic
         /\ Type(g).depth = g.info.depth
         /\ g.info.depth = 0 =>
              g.source = "Register" /\ Type(g) = Source!Plain(g.dynamic)
         /\ g.info.depth > 0 =>
              /\ g.source = "Pointer" /\ g.dynamic = "UInt" /\ Type(g) = g.info
              /\ g.info.base # "Invalid"
<1>1. /\ g.info = [depth |-> g.info.depth, base |-> g.info.base]
      /\ g.info.depth \in Nat /\ g.dynamic \in Primitives /\ Suits(g)
  BY FrameFields DEF Waits
<1>2. IsPointer(g) <=> g.source = "Pointer"
  BY DEF Waits, Shaped
<1>3. IsPointer(g) => g.dynamic = "UInt" /\ g.info.base \in Bases
  BY <1>1, <1>2 DEF Waits, Shaped, Suits
<1>4. g.source \in {"Register", "Pointer"} /\ ~AtFixedAddress(g)
  BY DEF Waits, AtFixedAddress
<1>5. CASE IsPointer(g)
  <2>1. g.info.depth > 0 /\ g.source = "Pointer" /\ Type(g) = g.info
    BY <1>2, <1>5 DEF IsPointer, Type
  <2> QED
    BY <1>1, <1>3, <1>5, <2>1 DEF Source!Primitive, Bases, Primitives
<1>6. CASE ~IsPointer(g)
  <2>1. g.info.depth = 0 /\ g.source = "Register"
    BY <1>1, <1>2, <1>4, <1>6 DEF IsPointer
  <2>2. Type(g) = [depth |-> 0, base |-> g.dynamic]
    BY <1>4, <1>6, <2>1 DEF Type
  <2>3. Source!Analog(g.dynamic) = g.dynamic
    BY <1>1 DEF Source!Analog, Primitives
  <2> QED
    BY <1>1, <2>1, <2>2, <2>3 DEF Source!Primitive, Source!Plain
<1> QED
  BY <1>5, <1>6

(* And the operand it stands for.                                          *)
LEMMA WaitingOperand ==
  ASSUME NEW g, Waits(g), NEW m
  PROVE  /\ Stands(m, g)
         /\ Operand(m, g) = [place |-> -1, value |-> m.registers[g.data], type |-> Type(g)]
<1>1. Stands(m, g)
  BY DEF Waits, Stands
<1>2. InRegisterOf(m, g.data) = m.registers[g.data]
  BY DEF InRegisterOf, Waits
<1>3. ~AtFixedAddress(g) /\ g.source # "DynamicAddress" /\ g.source # "Constant"
  BY DEF AtFixedAddress, Waits
<1> QED
  BY <1>1, <1>2, <1>3 DEF Operand, Type

(* Reading an operand in a type is casting what its register holds.        *)
LEMMA ReadAs ==
  ASSUME NEW k, NEW g, NEW o, IsFor(k, g, o), NEW p
  PROVE  /\ Source!As(o, p) = Cast(k.registers[g.data], g.dynamic, p)
         /\ Source!Numeric(o) <=> g.info.depth = 0
<1>1. Source!Primitive(o.type) = g.dynamic /\ o.type.depth = g.info.depth
  BY DEF IsFor
<1> QED
  BY <1>1, SameNumbers DEF IsFor, Source!As, Cast, Source!Numeric

(* The frame an operator leaves waits in the register of the left operand. *)
LEMMA ResultWaits ==
  ASSUME NEW l, Waits(l), NEW r, Waits(r), NEW x \in Nat
  PROVE  /\ Waits(NumberFrame(l.data, x)) /\ NumberFrame(l.data, x).data = l.data
         /\ Type(NumberFrame(l.data, x)) = Source!Plain("UInt")
         /\ l.info.depth = 0 /\ r.info.depth = 0 =>
              /\ Waits(ResultFrame(l, r)) /\ ResultFrame(l, r).data = l.data
              /\ Type(ResultFrame(l, r)) = Source!Plain(Common(l.dynamic, r.dynamic))
         /\ l.info.depth > 0 /\ r.dynamic # "Real" =>
              /\ Waits(ResultFrame(l, r)) /\ ResultFrame(l, r).data = l.data
              /\ Type(ResultFrame(l, r)) = l.info
              /\ Common(l.dynamic, r.dynamic) = "UInt"
              /\ ResultFrame(l, r).info = l.info
              /\ ResultFrame(l, r).dynamicSize = r.dynamicSize
         /\ NumberFrame(l.data, x).info.depth = 0
         /\ l.info.depth = 0 /\ r.info.depth = 0 => ResultFrame(l, r).info.depth = 0
<1> DEFINE f == ResultFrame(l, r)
           g == NumberFrame(l.data, x)
           p == Common(l.dynamic, r.dynamic)
           kind == IF LeftConverts(l, r) THEN r ELSE l
           y == IF LeftConverts(l, r) THEN l.dynamicSize ELSE r.dynamicSize
<1>1. /\ l \in Frames /\ r \in Frames /\ l.source \in {"Register", "Pointer"}
      /\ l.data \in Registers
      /\ f \in Frames /\ f.data = l.data /\ f.source \in {"Register", "Pointer"}
      /\ g \in Frames /\ g.data = l.data
  BY ResultIsFrame DEF Waits
<1>2. g = [source |-> "Register", data |-> l.data, dynamic |-> "UInt",
           static |-> "UInt", dynamicSize |-> x, staticSize |-> x,
           info |-> [depth |-> 0, base |-> "Invalid"]]
  BY DEF NumberFrame, ValueFrame, NoType
<1>3. Waits(g) /\ Type(g) = Source!Plain("UInt") /\ g.info.depth = 0
  <2> HIDE DEF g
  <2>1. ~IsPointer(g) /\ g.source = "Register" /\ g.dynamic = "UInt"
    BY <1>2 DEF IsPointer
  <2>2. Shaped(g)
    BY <2>1 DEF Shaped, AtFixedAddress
  <2> QED
    BY <1>1, <1>2, <2>1, <2>2 DEF Waits, Type, Source!Plain, AtFixedAddress
<1>4. f = [source |-> l.source, data |-> l.data, dynamic |-> p,
           static |-> kind.static, dynamicSize |-> y,
           staticSize |-> kind.staticSize, info |-> kind.info]
  <2>1. f = [l EXCEPT !.dynamic = p, !.dynamicSize = y, !.static = kind.static,
                      !.staticSize = kind.staticSize, !.info = kind.info]
    BY DEF ResultFrame
  <2> HIDE DEF f, p, kind, y
  <2>2. \A a, u, q, w, i :
          [l EXCEPT !.dynamic = a, !.dynamicSize = u, !.static = q,
                    !.staticSize = w, !.info = i] =
          [source |-> l.source, data |-> l.data, dynamic |-> a,
           static |-> q, dynamicSize |-> u, staticSize |-> w, info |-> i]
    BY <1>1, ChangedFrame, Zenon
  <2> QED
    BY <2>1, <2>2, Zenon
<1>5. l.dynamic \in Primitives /\ r.dynamic \in Primitives
  BY WaitingType
<1> HIDE DEF f, g, p, kind, y
<1>6. ASSUME l.info.depth = 0, r.info.depth = 0
      PROVE  Waits(f) /\ Type(f) = Source!Plain(p) /\ f.info.depth = 0
  <2>1. f.info.depth = 0 /\ f.source = "Register" /\ f.dynamic = p
    BY <1>4, <1>6, WaitingType DEF kind
  <2>2. ~IsPointer(f)
    BY <2>1 DEF IsPointer
  <2>3. Shaped(f)
    BY <2>1, <2>2 DEF Shaped, AtFixedAddress
  <2> QED
    BY <1>1, <2>1, <2>2, <2>3 DEF Waits, Type, Source!Plain, AtFixedAddress
<1>7. ASSUME l.info.depth > 0, r.dynamic # "Real"
      PROVE  /\ Waits(f) /\ Type(f) = l.info /\ p = "UInt"
             /\ f.info = l.info /\ f.dynamicSize = r.dynamicSize
  <2>1. l.source = "Pointer" /\ l.dynamic = "UInt"
    BY <1>7, WaitingType
  <2>2. p = "UInt" /\ ~LeftConverts(l, r)
    BY <1>5, <1>7, <2>1, CommonIs DEF p, LeftConverts
  <2>3. /\ f.info = l.info /\ f.source = "Pointer" /\ f.dynamic = "UInt"
        /\ f.dynamicSize = r.dynamicSize /\ f.staticSize = l.staticSize
    BY <1>4, <2>1, <2>2 DEF kind, y
  <2>4. IsPointer(f)
    BY <1>7, <2>3 DEF IsPointer
  <2>5. Shaped(f)
    <3>1. l.info.base # "Char" => l.staticSize = Size
      BY <2>1 DEF Waits, Shaped
    <3> QED
      BY <2>3, <2>4, <3>1 DEF Shaped, AtFixedAddress
  <2> QED
    BY <1>1, <2>2, <2>3, <2>4, <2>5 DEF Waits, Type
<1> QED
  BY <1>1, <1>3, <1>6, <1>7 DEF f, g, p

(* What the operators of ExpressionPromise do, in the terms of the         *)
(* machine.                                                                *)
LEMMA AppliedIs ==
  ASSUME NEW k, NEW l, NEW r, NEW L, NEW R, IsFor(k, l, L), IsFor(k, r, R),
         r.info.depth = 0
  PROVE  LET v == k.registers[l.data]
             w == k.registers[r.data]
             p == Common(l.dynamic, r.dynamic)
             x == Cast(v, l.dynamic, p)
             y == Cast(w, r.dynamic, p)
         IN /\ l.info.depth = 0 =>
                 \A o \in {"Subtract", "Mod"} :
                   Source!Apply(o, L, R) =
                     [place |-> -1, value |-> Outcome(o, x, y, p), type |-> Source!Plain(p)]
            /\ Source!Apply("Less", L, R) =
                 [place |-> -1, value |-> Outcome("Less", x, y, p),
                  type |-> Source!Plain("UInt")]
            /\ \A o \in {"And", "BitOffsetLeft"} :
                 Source!Apply(o, L, R) =
                   [place |-> -1, value |-> Outcome(o, v, w, "UInt"),
                    type |-> Source!Plain("UInt")]
            /\ l.info.depth > 0 /\ p = "UInt" =>
                 Source!Apply("Subtract", L, R) =
                   [place |-> -1, type |-> l.info,
                    value |-> Outcome("Subtract", x,
                                      Product(y, Number("UInt", Source!ElementSize(l.info)),
                                              "UInt"), "UInt")]
<1> DEFINE v == k.registers[l.data]
           w == k.registers[r.data]
           p == Common(l.dynamic, r.dynamic)
           x == Cast(v, l.dynamic, p)
           y == Cast(w, r.dynamic, p)
<1>1. /\ Source!Primitive(L.type) = l.dynamic /\ Source!Primitive(R.type) = r.dynamic
      /\ Source!Read(L) = v /\ Source!Read(R) = w
      /\ l.info.depth \in Nat
  BY WaitingType DEF IsFor
<1>2. /\ \A q : Source!As(L, q) = Cast(v, l.dynamic, q)
      /\ \A q : Source!As(R, q) = Cast(w, r.dynamic, q)
      /\ Source!Numeric(L) <=> l.info.depth = 0
  BY ReadAs
<1>3. Source!CommonType(L, R) = p
  BY <1>1, SameNumbers DEF Source!CommonType
<1>4. /\ Source!As(L, p) = x /\ Source!As(R, p) = y
  BY <1>2
<1>5. \A a, t : Source!Value(a, t) = [place |-> -1, value |-> a, type |-> t]
  BY DEF Source!Value, Source!NoPlace
<1> HIDE DEF v, w, p, x, y
<1>6. ASSUME l.info.depth = 0
      PROVE  \A o \in {"Subtract", "Mod"} :
               Source!Apply(o, L, R) =
                 [place |-> -1, value |-> Outcome(o, x, y, p), type |-> Source!Plain(p)]
  BY <1>2, <1>3, <1>4, <1>5, <1>6, SameNumbers DEF Source!Apply, Outcome
<1>7. Source!Apply("Less", L, R) =
        [place |-> -1, value |-> Outcome("Less", x, y, p), type |-> Source!Plain("UInt")]
  BY <1>3, <1>4, <1>5, SameNumbers DEF Source!Apply, Outcome
<1>8. \A o \in {"And", "BitOffsetLeft"} :
        Source!Apply(o, L, R) =
          [place |-> -1, value |-> Outcome(o, v, w, "UInt"), type |-> Source!Plain("UInt")]
  BY <1>1, <1>5, SameNumbers DEF Source!Apply, Outcome
<1>9. ASSUME l.info.depth > 0, p = "UInt"
      PROVE  Source!Apply("Subtract", L, R) =
               [place |-> -1, type |-> l.info,
                value |-> Outcome("Subtract", x,
                                  Product(y, Number("UInt", Source!ElementSize(l.info)),
                                              "UInt"), "UInt")]
  <2>1. ~Source!Numeric(L) /\ L.type = l.info
    BY <1>1, <1>2, <1>9, WaitingType DEF IsFor
  <2>2. Source!As(L, "UInt") = x /\ Source!As(R, "UInt") = y
    BY <1>4, <1>9
  <2> QED
    BY <1>5, <2>1, <2>2, SameNumbers DEF Source!Apply, Outcome
<1> QED
  BY <1>6, <1>7, <1>8, <1>9 DEF v, w, p, x, y

(* The last command of the arithmetic and logic handler, after the n that  *)
(* the conversions made.                                                   *)
LEMMA CalculationGives ==
  ASSUME NEW b, Typed(b), NEW k, NEW q, Quiet(b, q), NEW n, Carries(q, n),
         NEW R, Keeps(k, n, R), NEW o \in BinaryOperators, NEW prim \in Primitives,
         NEW i \in Registers, NEW j \in Registers, i \in R,
         NEW new, Waits(new), new.data = i, SizedBy(b, new), NEW e,
         e = [place |-> -1, type |-> Type(new),
              value |-> Outcome(o, n.registers[i], n.registers[j], prim)]
  PROVE  Gives(b, Pushed(Freed(Emitted(q, <<o, prim, i, i, j>>), j), new), k, R, e)
<1>1. IsState(q) /\ q.value_stack = b.value_stack
  BY DEF Quiet, Remembers
<1>2. PICK c : c = Pushed(Freed(Emitted(q, <<o, prim, i, i, j>>), j), new)
  OBVIOUS
<1>3. PICK v : v = Outcome(o, n.registers[i], n.registers[j], prim)
  OBVIOUS
<1>4. PICK h : h = Put(n, i, v)
  OBVIOUS
<1>5. Carries(c, h) /\ Keeps(n, h, {i}) /\ h.registers[i] = v
  BY <1>1, <1>2, <1>3, <1>4, CommandCarries
<1>6. c.value_stack = Append(b.value_stack, new)
  BY <1>2, CommandGives DEF Waits
<1>7. Keeps(k, h, R)
  BY <1>5 DEF Keeps
<1>8. Operand(h, new) = e
  BY <1>3, <1>5, WaitingOperand
<1> QED
  BY <1>2, <1>5, <1>6, <1>7, <1>8 DEF Gives

(* The four ways the handler goes on. *)
LEMMA SubtractedCarries ==
  ASSUME NEW b, Typed(b), NEW k, Carries(b, k), NEW l, NEW r, AreLoaded(b, l, r),
         l.data # r.data, {l.data, r.data} \subseteq b.registers_table,
         NEW L, NEW R, IsFor(k, l, L), IsFor(k, r, R),
         r.info.depth = 0, l.info.depth > 0,
         Source!ElementSize(l.info) = AlignedSize(l.info.base),
         ~Computed(b, "Subtract").reported, ~Computed(b, "Subtract").out_of_registers
  PROVE  Gives(b, Computed(b, "Subtract"), k, Around(b, l.data, r.data),
               Source!Apply("Subtract", L, R))
<1>1. /\ IsState(b) /\ Waits(l) /\ Waits(r)
      /\ l.dynamic \in Primitives /\ r.dynamic \in Primitives
      /\ l.data \in Registers /\ r.data \in Registers
      /\ l.source = "Pointer" /\ l.info.base # "Invalid"
  BY WaitingType DEF IsFor, Typed, Waits
<1>2. PICK p : p = Common(l.dynamic, r.dynamic)
  OBVIOUS
<1>3. PICK u : u = Unified(b, l, r)
  OBVIOUS
<1>4. PICK n : /\ Carries(u, n) /\ Keeps(k, n, {l.data, r.data})
               /\ n.registers[l.data] = Cast(k.registers[l.data], l.dynamic, p)
               /\ n.registers[r.data] = Cast(k.registers[r.data], r.dynamic, p)
  <2>1. \E n : /\ Carries(u, n) /\ Keeps(k, n, {l.data, r.data})
               /\ Holds(n, l.data) = Cast(Holds(k, l.data), l.dynamic, p)
               /\ Holds(n, r.data) = Cast(Holds(k, r.data), r.dynamic, p)
    BY <1>1, <1>2, <1>3, UnifiedCarries
  <2> QED
    BY <2>1 DEF Holds
<1>5. PICK q : q = Scaled(u, l, r, p)
  OBVIOUS
<1>6. PICK new : new = ResultFrame(l, r)
  OBVIOUS
<1>7. Computed(b, "Subtract") =
        Pushed(Freed(Emitted(q, <<"Subtract", p, l.data, l.data, r.data>>), r.data), new)
  BY <1>1, <1>2, <1>3, <1>5, <1>6 DEF Computed, AreLoaded
<1>8. /\ p \in Primitives /\ Quiet(b, u) /\ IsState(u)
      /\ u.registers_table = b.registers_table
  BY <1>1, <1>2, <1>3, CommonIsPrimitive, UnifiedIsQuiet DEF Quiet, Remembers
<1>9. Quiet(b, q) /\ IsState(q)
  <2>1. Quiet(u, q)
    BY <1>5, <1>8, ScaledIsQuiet
  <2> QED
    BY <1>8, <2>1, QuietTwice DEF Quiet, Remembers
<1>10. new \in Frames
  BY <1>1, <1>6, ResultIsFrame DEF Waits
<1>11. ~q.reported /\ ~q.out_of_registers
  <2>1. Remembers(q, Computed(b, "Subtract"))
    <3>1. ASSUME NEW s, NEW t PROVE Remembers(q, Pushed(Freed(Emitted(q, s), t), new))
      <4>1. Remembers(q, Emitted(q, s)) /\ IsState(Emitted(q, s))
        BY <1>9, SmallRemember DEF Remembers
      <4>2. /\ Remembers(Emitted(q, s), Freed(Emitted(q, s), t))
            /\ IsState(Freed(Emitted(q, s), t))
        BY <4>1, SmallRemember DEF Remembers
      <4>3. Remembers(Freed(Emitted(q, s), t), Pushed(Freed(Emitted(q, s), t), new))
        BY <1>10, <4>2, SmallRemember
      <4> QED
        BY <4>1, <4>2, <4>3, RemembersTwice
    <3> QED
      BY <1>7, <3>1
  <2> QED
    BY <2>1 DEF Remembers
<1>12. /\ "Real" \notin {l.dynamic, r.dynamic}
       /\ \E m : /\ Carries(q, m)
                 /\ Keeps(n, m, Around(u, r.data, r.data))
                 /\ Holds(m, r.data) = Product(Holds(n, r.data), Number("UInt", AlignedSize(l.info.base)), p)
  <2>1. r.data \in u.registers_table
    BY <1>8
  <2>2. ~Scaled(u, l, r, p).reported /\ ~Scaled(u, l, r, p).out_of_registers
    BY <1>5, <1>11
  <2> QED
    <3>1. IsState(u) /\ Carries(u, n) /\ p \in Primitives /\ r.data \in Registers
      BY <1>1, <1>4, <1>8
    <3>2. /\ "Real" \notin {l.dynamic, r.dynamic}
          /\ \E m : /\ Carries(Scaled(u, l, r, p), m)
                    /\ Keeps(n, m, Around(u, r.data, r.data))
                    /\ Holds(m, r.data) = Product(Holds(n, r.data), Number("UInt", AlignedSize(l.info.base)), p)
      BY <2>1, <2>2, <3>1, ScaledCarries
    <3> QED
      BY <1>5, <3>2
<1>13. PICK m : /\ Carries(q, m)
                /\ Keeps(n, m, Around(u, r.data, r.data))
                /\ Holds(m, r.data) = Product(Holds(n, r.data), Number("UInt", AlignedSize(l.info.base)), p)
  BY <1>8, <1>12
<1>14. PICK T : T = Around(b, l.data, r.data)
  OBVIOUS
<1>15. Keeps(k, m, T) /\ l.data \in T /\ m.registers[l.data] = n.registers[l.data]
  BY <1>1, <1>4, <1>8, <1>13, <1>14 DEF Keeps, Around
<1>16. /\ Waits(new) /\ new.data = l.data /\ Type(new) = l.info /\ p = "UInt"
       /\ SizedBy(b, new)
  <2>1. 0 \in Nat /\ r.dynamic # "Real"
    BY <1>12
  <2>2. /\ Waits(new) /\ new.data = l.data /\ Type(new) = l.info /\ p = "UInt"
        /\ new.info = l.info /\ new.dynamicSize = r.dynamicSize
    BY <1>1, <1>2, <1>6, <2>1, ResultWaits
  <2> QED
    BY <2>2 DEF SizedBy, AreLoaded
<1>17. Source!Apply("Subtract", L, R) =
         [place |-> -1, type |-> Type(new),
          value |-> Outcome("Subtract", m.registers[l.data], m.registers[r.data], p)]
  <2>1. Source!Apply("Subtract", L, R) =
          [place |-> -1, type |-> l.info,
           value |-> Outcome("Subtract", Cast(k.registers[l.data], l.dynamic, p),
                       Product(Cast(k.registers[r.data], r.dynamic, p),
                               Number("UInt", AlignedSize(l.info.base)), "UInt"), "UInt")]
    <3>1. Common(l.dynamic, r.dynamic) = "UInt"
      BY <1>2, <1>16
    <3>2. Source!Apply("Subtract", L, R) =
            [place |-> -1, type |-> l.info,
             value |-> Outcome("Subtract",
                         Cast(k.registers[l.data], l.dynamic, Common(l.dynamic, r.dynamic)),
                         Product(Cast(k.registers[r.data], r.dynamic,
                                      Common(l.dynamic, r.dynamic)),
                                 Number("UInt", AlignedSize(l.info.base)), "UInt"), "UInt")]
      BY <3>1, AppliedIs
    <3> QED
      BY <1>2, <3>2
  <2> QED
    BY <1>4, <1>13, <1>15, <1>16, <2>1 DEF Holds
<1> QED
  <2>1. Gives(b, Pushed(Freed(Emitted(q, <<"Subtract", p, l.data, l.data, r.data>>), r.data), new),
              k, T, Source!Apply("Subtract", L, R))
    BY <1>1, <1>8, <1>9, <1>13, <1>15, <1>16, <1>17, CalculationGives DEF BinaryOperators
  <2> QED
    BY <1>7, <1>14, <2>1

(* The code of l - r and l % r for numbers: both are cast to their common  *)
(* type first.                                                             *)
LEMMA NumbersCarry ==
  ASSUME NEW b, Typed(b), NEW k, Carries(b, k), NEW o \in BinaryOperators,
         NEW l, NEW r, AreLoaded(b, l, r), l.data # r.data, NEW L, NEW R, IsFor(k, l, L), IsFor(k, r, R),
         r.info.depth = 0, l.info.depth = 0, o \in {"Subtract", "Mod"},
         ~Computed(b, o).reported
  PROVE  Gives(b, Computed(b, o), k, Around(b, l.data, r.data), Source!Apply(o, L, R))
<1>1. /\ IsState(b) /\ Waits(l) /\ Waits(r)
      /\ l.dynamic \in Primitives /\ r.dynamic \in Primitives
      /\ l.data \in Registers /\ r.data \in Registers
  BY WaitingType DEF IsFor, Typed, Waits
<1>2. PICK p : p = Common(l.dynamic, r.dynamic)
  OBVIOUS
<1>3. PICK u : u = Unified(b, l, r)
  OBVIOUS
<1>4. PICK n : /\ Carries(u, n) /\ Keeps(k, n, {l.data, r.data})
               /\ n.registers[l.data] = Cast(k.registers[l.data], l.dynamic, p)
               /\ n.registers[r.data] = Cast(k.registers[r.data], r.dynamic, p)
  <2>1. \E n : /\ Carries(u, n) /\ Keeps(k, n, {l.data, r.data})
               /\ Holds(n, l.data) = Cast(Holds(k, l.data), l.dynamic, p)
               /\ Holds(n, r.data) = Cast(Holds(k, r.data), r.dynamic, p)
    BY <1>1, <1>2, <1>3, UnifiedCarries
  <2> QED
    BY <2>1 DEF Holds
<1>5. p \in Primitives /\ Quiet(b, u)
  BY <1>1, <1>2, <1>3, CommonIsPrimitive, UnifiedIsQuiet
<1>6. PICK new : new = ResultFrame(l, r)
  OBVIOUS
<1>7. Computed(b, o) =
        Pushed(Freed(Emitted(u, <<o, p, l.data, l.data, r.data>>), r.data), new)
  <2>1. l.source # "Pointer"
    BY <1>1, WaitingType
  <2>2. o = "Mod" => "Real" \notin {l.dynamic, r.dynamic}
    <3>1. o = "Mod" /\ "Real" \in {l.dynamic, r.dynamic} => Computed(b, o) = Reported(b)
      BY DEF Computed, AreLoaded
    <3> QED
      BY <1>1, <3>1, SmallRemember
  <2> QED
    BY <1>2, <1>3, <1>6, <2>1, <2>2 DEF Computed, AreLoaded
<1>8. PICK T : T = Around(b, l.data, r.data)
  OBVIOUS
<1>9. Keeps(k, n, T) /\ l.data \in T
  BY <1>4, <1>8 DEF Keeps, Around
<1>10. /\ Waits(new) /\ new.data = l.data /\ Type(new) = Source!Plain(p)
       /\ SizedBy(b, new)
  <2>1. 0 \in Nat
    OBVIOUS
  <2>2. /\ Waits(new) /\ new.data = l.data /\ Type(new) = Source!Plain(p)
        /\ new.info.depth = 0
    BY <1>1, <1>2, <1>6, <2>1, ResultWaits
  <2> QED
    BY <2>2 DEF SizedBy
<1>11. Source!Apply(o, L, R) =
         [place |-> -1, type |-> Type(new),
          value |-> Outcome(o, n.registers[l.data], n.registers[r.data], p)]
  BY <1>2, <1>4, <1>10, AppliedIs
<1> QED
  <2>1. Gives(b, Pushed(Freed(Emitted(u, <<o, p, l.data, l.data, r.data>>), r.data), new),
              k, T, Source!Apply(o, L, R))
    BY <1>1, <1>4, <1>5, <1>9, <1>10, <1>11, CalculationGives
  <2> QED
    BY <1>7, <1>8, <2>1

(* The code of l < r.                                                      *)
LEMMA ComparisonCarries ==
  ASSUME NEW b, Typed(b), NEW k, Carries(b, k), NEW o \in BinaryOperators,
         NEW l, NEW r, AreLoaded(b, l, r), l.data # r.data, NEW L, NEW R, IsFor(k, l, L), IsFor(k, r, R),
         r.info.depth = 0, o = "Less",
         ~Computed(b, o).reported
  PROVE  Gives(b, Computed(b, o), k, Around(b, l.data, r.data), Source!Apply(o, L, R))
<1>1. /\ IsState(b) /\ Waits(l) /\ Waits(r)
      /\ l.dynamic \in Primitives /\ r.dynamic \in Primitives
      /\ l.data \in Registers /\ r.data \in Registers
  BY WaitingType DEF IsFor, Typed, Waits
<1>2. PICK p : p = Common(l.dynamic, r.dynamic)
  OBVIOUS
<1>3. PICK u : u = Unified(b, l, r)
  OBVIOUS
<1>4. PICK n : /\ Carries(u, n) /\ Keeps(k, n, {l.data, r.data})
               /\ n.registers[l.data] = Cast(k.registers[l.data], l.dynamic, p)
               /\ n.registers[r.data] = Cast(k.registers[r.data], r.dynamic, p)
  <2>1. \E n : /\ Carries(u, n) /\ Keeps(k, n, {l.data, r.data})
               /\ Holds(n, l.data) = Cast(Holds(k, l.data), l.dynamic, p)
               /\ Holds(n, r.data) = Cast(Holds(k, r.data), r.dynamic, p)
    BY <1>1, <1>2, <1>3, UnifiedCarries
  <2> QED
    BY <2>1 DEF Holds
<1>5. p \in Primitives /\ Quiet(b, u)
  BY <1>1, <1>2, <1>3, CommonIsPrimitive, UnifiedIsQuiet
<1>6. PICK new : new = NumberFrame(l.data, LogicResultSize)
  OBVIOUS
<1>7. Computed(b, o) =
        Pushed(Freed(Emitted(u, <<o, p, l.data, l.data, r.data>>), r.data), new)
  BY <1>2, <1>3, <1>6 DEF Computed, AreLoaded
<1>8. PICK T : T = Around(b, l.data, r.data)
  OBVIOUS
<1>9. Keeps(k, n, T) /\ l.data \in T
  BY <1>4, <1>8 DEF Keeps, Around
<1>10. /\ Waits(new) /\ new.data = l.data /\ Type(new) = Source!Plain("UInt")
       /\ SizedBy(b, new)
  <2>1. LogicResultSize \in Nat
    BY DEF LogicResultSize
  <2>2. /\ Waits(new) /\ new.data = l.data /\ Type(new) = Source!Plain("UInt")
        /\ new.info.depth = 0
    BY <1>1, <1>6, <2>1, ResultWaits
  <2> QED
    BY <2>2 DEF SizedBy
<1>11. Source!Apply(o, L, R) =
         [place |-> -1, type |-> Type(new),
          value |-> Outcome(o, n.registers[l.data], n.registers[r.data], p)]
  BY <1>2, <1>4, <1>10, AppliedIs
<1> QED
  <2>1. Gives(b, Pushed(Freed(Emitted(u, <<o, p, l.data, l.data, r.data>>), r.data), new),
              k, T, Source!Apply(o, L, R))
    BY <1>1, <1>4, <1>5, <1>9, <1>10, <1>11, CalculationGives
  <2> QED
    BY <1>7, <1>8, <2>1

(* The code of l and r, and of a shift, which casts nothing.               *)
LEMMA BitsCarry ==
  ASSUME NEW b, Typed(b), NEW k, Carries(b, k), NEW o \in BinaryOperators,
         NEW l, NEW r, AreLoaded(b, l, r), l.data # r.data, NEW L, NEW R, IsFor(k, l, L), IsFor(k, r, R),
         r.info.depth = 0, o \in {"And", "BitOffsetLeft"},
         ~Computed(b, o).reported
  PROVE  Gives(b, Computed(b, o), k, Around(b, l.data, r.data), Source!Apply(o, L, R))
<1>1. /\ IsState(b) /\ Waits(l) /\ Waits(r)
      /\ l.dynamic \in Primitives /\ r.dynamic \in Primitives
      /\ l.data \in Registers /\ r.data \in Registers
  BY WaitingType DEF IsFor, Typed, Waits
<1>2. PICK x : x = IF o = "And" THEN LogicResultSize ELSE l.dynamicSize
  OBVIOUS
<1>3. PICK new : new = NumberFrame(l.data, x)
  OBVIOUS
<1>4. Computed(b, o) =
        Pushed(Freed(Emitted(b, <<o, "UInt", l.data, l.data, r.data>>), r.data), new)
  <2>1. o = "BitOffsetLeft" /\ "Real" \in {l.dynamic, r.dynamic} => Computed(b, o) = Reported(b)
    BY DEF Computed, AreLoaded
  <2>2. ~(o = "BitOffsetLeft" /\ "Real" \in {l.dynamic, r.dynamic})
    BY <1>1, <2>1, SmallRemember
  <2> QED
    BY <1>2, <1>3, <2>2 DEF Computed, AreLoaded
<1>5. PICK T : T = Around(b, l.data, r.data)
  OBVIOUS
<1>6. Quiet(b, b) /\ Keeps(k, k, T) /\ l.data \in T /\ "UInt" \in Primitives
  BY <1>1, <1>5, QuietSteps DEF Keeps, Carries, Around, Primitives
<1>7. /\ Waits(new) /\ new.data = l.data /\ Type(new) = Source!Plain("UInt")
      /\ SizedBy(b, new)
  <2>1. x \in Nat
    BY <1>1, <1>2, FrameFields DEF LogicResultSize, Waits
  <2>2. /\ Waits(new) /\ new.data = l.data /\ Type(new) = Source!Plain("UInt")
        /\ new.info.depth = 0
    BY <1>1, <1>3, <2>1, ResultWaits
  <2> QED
    BY <2>2 DEF SizedBy
<1>8. Source!Apply(o, L, R) =
        [place |-> -1, type |-> Type(new),
         value |-> Outcome(o, k.registers[l.data], k.registers[r.data], "UInt")]
  BY <1>7, AppliedIs
<1> QED
  <2>1. Gives(b, Pushed(Freed(Emitted(b, <<o, "UInt", l.data, l.data, r.data>>), r.data), new),
              k, T, Source!Apply(o, L, R))
    BY <1>1, <1>6, <1>7, <1>8, CalculationGives
  <2> QED
    BY <1>4, <1>5, <2>1

(* The arithmetic and logic handler computes what the operator means.      *)
LEMMA ComputedCarries ==
  ASSUME NEW b, Typed(b), NEW k, Carries(b, k), NEW o \in BinaryOperators,
         NEW l, NEW r, AreLoaded(b, l, r), l.data # r.data,
         {l.data, r.data} \subseteq b.registers_table,
         NEW L, NEW R, IsFor(k, l, L), IsFor(k, r, R),
         r.info.depth = 0, l.info.depth = 0 \/ o = "Subtract",
         l.info.depth > 0 => Source!ElementSize(l.info) = AlignedSize(l.info.base),
         ~Computed(b, o).reported, ~Computed(b, o).out_of_registers
  PROVE  Gives(b, Computed(b, o), k, Around(b, l.data, r.data), Source!Apply(o, L, R))
<1>1. l.info.depth \in Nat
  BY WaitingType DEF IsFor
<1>2. CASE o = "Subtract" /\ l.info.depth > 0
  BY <1>2, SubtractedCarries
<1>3. CASE o \in {"Subtract", "Mod"} /\ l.info.depth = 0
  BY <1>3, NumbersCarry
<1>4. CASE o = "Less"
  BY <1>4, ComparisonCarries
<1>5. CASE o \in {"And", "BitOffsetLeft"}
  BY <1>5, BitsCarry
<1> QED
  BY <1>1, <1>2, <1>3, <1>4, <1>5 DEF BinaryOperators

(* A frame that took f over is for the operand f stands for.               *)
LEMMA TakenIsFor ==
  ASSUME NEW m \in Machines, m.memory = machine.memory, NEW f, Stands(m, f),
         NEW g, TakesOver(g, f), NEW k, Holds(k, g.data) = Meaning(m, f)
  PROVE  IsFor(k, g, Operand(m, f))
<1>1. /\ Operand(m, f).type = Type(f)
      /\ Source!Primitive(Type(f)) = f.dynamic /\ Type(f).depth = f.info.depth
      /\ f.info.depth > 0 => Type(f) = f.info
      /\ Source!Read(Operand(m, f)) = Meaning(m, f)
  BY TypeOfOperand, OperandRead
<1> QED
  BY <1>1 DEF IsFor, Waits, TakesOver, Holds

(* One operand in its register. *)
LEMMA OneIsLoaded ==
  ASSUME NEW b, NEW m, Works(b, m), b.value_stack # <<>>, ~Load(b).reported
  PROVE  LET c == Load(b)
             g == c.loaded[1]
         IN /\ Typed(c) /\ c.value_stack = Front(b.value_stack)
            /\ c.out_of_registers = b.out_of_registers
            /\ g.data \in Spare(b, 1) /\ Sized(g)
            /\ \E k : Carries(c, k) /\ Keeps(m, k, Spare(b, 1)) /\ IsFor(k, g, Upper(b, m))
<1> DEFINE c == Load(b)
           g == c.loaded[1]
           f == Last(b.value_stack)
           v == Meaning(m, f)
           k == Put(m, g.data, v)
<1>1. /\ Typed(b) /\ IsState(b) /\ Carries(b, m) /\ m \in Machines
      /\ m.memory = machine.memory
  BY DEF Works, Carries, Typed
<1>2. PICK n \in Nat : n = Len(b.value_stack) /\ n >= 1 /\ f = b.value_stack[n]
  <2>1. /\ Len(b.value_stack) \in Nat \ {0}
        /\ Last(b.value_stack) = b.value_stack[Len(b.value_stack)]
    BY <1>1, WithoutLast DEF Typed
  <2> QED
    BY <2>1
<1>3. Stands(m, f) /\ Sized(f) /\ Upper(b, m) = Operand(m, f)
  BY <1>2 DEF Works, Upper
<1>4. TakesOver(g, f) /\ Carries(c, k)
  BY <1>1, <1>3, LoadCarries
<1>5. v \in MSLValue /\ g.data \in Registers
  BY <1>1, <1>3, <1>4, MeaningIsValue DEF TakesOver
<1>6. /\ Typed(c) /\ c.value_stack = Front(b.value_stack)
      /\ c.out_of_registers = b.out_of_registers
      /\ InItsRegister(f, g, b, c)
  BY <1>1, LoadEffect
<1>7. g.data \in Spare(b, 1)
  <2>1. Regs(b, 1) = Reg(f)
    <3>1. Regs(b, 1) = Reg(b.value_stack[n])
      BY <1>2, LastFrames
    <3> QED
      BY <1>2, <3>1
  <2> QED
    BY <1>5, <1>6, <2>1 DEF Spare, InItsRegister, Reg
<1>8. Holds(k, g.data) = v /\ Keeps(m, k, Spare(b, 1))
  <2>1. PICK i : i = g.data
    OBVIOUS
  <2>2. k = Put(m, i, v) /\ i \in Registers /\ i \in Spare(b, 1)
    BY <1>5, <1>7, <2>1
  <2> HIDE DEF k, v, g
  <2>3. /\ k \in Machines /\ k.memory = m.memory /\ k.registers[i] = v
        /\ \A s \in Registers : s # i => k.registers[s] = m.registers[s]
    BY <1>1, <1>5, <2>2, Puts
  <2> QED
    BY <2>1, <2>2, <2>3 DEF Keeps, Holds
<1> HIDE DEF k, g, c, f, v
<1>9. Sized(g)
  BY <1>3, <1>4 DEF Sized, TakesOver
<1>10. IsFor(k, g, Upper(b, m))
  BY <1>1, <1>3, <1>4, <1>8, TakenIsFor DEF v
<1> QED
  BY <1>4, <1>6, <1>7, <1>8, <1>10, <1>9 DEF g, c

(* After two loads both operands wait, in registers of their own, on a     *)
(* machine that commands made.                                             *)
LEMMA TwoAreLoaded ==
  ASSUME NEW b, NEW m, Works(b, m), NEW n \in Nat, n = Len(b.value_stack), n >= 2,
         Apart(b), ~Load(Load(b)).reported
  PROVE  LET d == Load(Load(b))
             l == d.loaded[1]
             r == d.loaded[2]
         IN /\ Typed(d) /\ Remembers(b, d) /\ d.out_of_registers = b.out_of_registers
            /\ l.data # r.data /\ {l.data, r.data} \subseteq d.registers_table
            /\ Around(d, l.data, r.data) \subseteq Spare(b, 2)
            /\ Sized(l) /\ r.dynamicSize = b.value_stack[n].dynamicSize
            /\ \E k : /\ Carries(d, k) /\ Keeps(m, k, Spare(b, 2))
                      /\ IsFor(k, l, Lower(b, m)) /\ IsFor(k, r, Upper(b, m))
<1> DEFINE c == Load(b)
           d == Load(c)
           l == d.loaded[1]
           r == d.loaded[2]
           left == b.value_stack[n - 1]
           right == b.value_stack[n]
<1>1. /\ Typed(b) /\ IsState(b) /\ Carries(b, m) /\ m \in Machines
      /\ m.memory = machine.memory /\ Stands(m, left) /\ Stands(m, right)
      /\ Sized(left)
  <2>1. n \in 1 .. Len(b.value_stack) /\ n - 1 \in 1 .. Len(b.value_stack)
    OBVIOUS
  <2>2. Stands(m, left) /\ Stands(m, right) /\ Sized(left)
    BY <2>1 DEF Works
  <2> QED
    BY <2>2 DEF Works, Carries, Typed
<1>2. Upper(b, m) = Operand(m, right) /\ Lower(b, m) = Operand(m, left)
  BY DEF Upper, Lower
<1>3. /\ LastApart(b) /\ Reg(left) \subseteq b.registers_table
      /\ Reg(right) \subseteq b.registers_table
  <2>1. n \in 1 .. Len(b.value_stack) /\ n - 1 \in 1 .. Len(b.value_stack) /\ n # n - 1
    OBVIOUS
  <2>2. /\ Reg(left) \subseteq b.registers_table /\ Reg(right) \subseteq b.registers_table
        /\ Reg(right) \cap Reg(left) = {}
    BY <2>1 DEF Apart
  <2> QED
    BY <2>2 DEF LastApart
<1>4. /\ Typed(d) /\ Remembers(b, d) /\ d.out_of_registers = b.out_of_registers
      /\ InItsRegister(right, r, b, c) /\ InItsRegister(left, l, c, d) /\ IsState(c)
  BY <1>1, TwoLoads
<1>5. /\ TakesOver(l, left) /\ TakesOver(r, right) /\ l.data # r.data
      /\ \E k : /\ Carries(d, k) /\ Keeps(m, k, {l.data, r.data})
                /\ k.registers[l.data] = Meaning(m, left)
                /\ k.registers[r.data] = Meaning(m, right)
  BY <1>1, <1>3, TwoLoadsCarry
<1> HIDE DEF c, d, l, r
<1>6. /\ Reg(r) \subseteq c.registers_table /\ b.registers_table \subseteq c.registers_table
      /\ Reg(l) \subseteq d.registers_table /\ c.registers_table \subseteq d.registers_table
      /\ Reg(l) = {l.data} /\ Reg(r) = {r.data}
  <2>1. /\ l.data \in Registers /\ r.data \in Registers
    BY <1>5 DEF TakesOver
  <2>2. /\ Reg(r) = {r.data} \cap Registers /\ b.registers_table \subseteq c.registers_table
        /\ Reg(r) \subseteq c.registers_table
    BY <1>1, <1>3, <1>4, RegisterOf
  <2>3. /\ Reg(l) = {l.data} \cap Registers /\ c.registers_table \subseteq d.registers_table
        /\ Reg(l) \subseteq d.registers_table
    BY <1>3, <1>4, <2>2, RegisterOf
  <2> QED
    BY <2>1, <2>2, <2>3
<1>7. Around(d, l.data, r.data) \subseteq Spare(b, 2)
  <2>1. Regs(b, 2) = Reg(left) \cup Reg(right)
    BY LastTwo
  <2>2. r.data \in Reg(right) \/ r.data \in Registers \ b.registers_table
    BY <1>4, <1>5 DEF InItsRegister, Reg, TakesOver
  <2>3. l.data \in Reg(left) \/ l.data \in Registers \ b.registers_table
    BY <1>4, <1>5, <1>6 DEF InItsRegister, Reg, TakesOver
  <2> QED
    BY <1>6, <2>1, <2>2, <2>3 DEF Around, Spare
<1>8. PICK k : /\ Carries(d, k) /\ Keeps(m, k, {l.data, r.data})
               /\ Holds(k, l.data) = Meaning(m, left)
               /\ Holds(k, r.data) = Meaning(m, right)
  BY <1>5 DEF Holds
<1>9. Keeps(m, k, Spare(b, 2))
  BY <1>7, <1>8 DEF Keeps, Around
<1>10. IsFor(k, l, Lower(b, m)) /\ IsFor(k, r, Upper(b, m))
  <2>1. IsFor(k, l, Operand(m, left))
    BY <1>1, <1>5, <1>8, TakenIsFor
  <2>2. IsFor(k, r, Operand(m, right))
    BY <1>1, <1>5, <1>8, TakenIsFor
  <2> QED
    BY <1>2, <2>1, <2>2
<1>11. Sized(l) /\ r.dynamicSize = right.dynamicSize
  BY <1>1, <1>5 DEF Sized, TakesOver
<1> QED
  BY <1>4, <1>5, <1>6, <1>7, <1>8, <1>9, <1>10, <1>11 DEF c, d, l, r

(* Pushing a frame adds no commands.                                       *)
LEMMA PushGives ==
  ASSUME NEW q, IsState(q), NEW h, Carries(q, h), NEW new, NEW c, c = Pushed(q, new)
  PROVE  Carries(c, h) /\ c.value_stack = Append(q.value_stack, new)
<1>1. Carries(c, h)
  BY Carrying
<1>2. Fields(c, Append(q.value_stack, new), q.registers_table, q.loaded,
             q.reported, q.out_of_registers)
  BY Small
<1> QED
  BY <1>1, <1>2 DEF Fields

(* The operand was pushed. *)
LEMMA PushedTurns ==
  ASSUME NEW b, NEW c, NEW j, NEW m, NEW e, NEW k, Carries(c, k), Keeps(m, k, Spare(b, j)),
         NEW S, NEW s \in Seq(S), NEW new, c.value_stack = Append(s, new),
         Stands(k, new), Operand(k, new) = e
  PROVE  /\ Leaves(b, c, j, m, e) /\ Last(c.value_stack) = new
         /\ Sized(new) => Turns(b, c, j, m, e)
<1>1. Last(Append(s, new)) = new
  <2>1. Append(s, new) \in Seq(S \cup {new}) /\ Len(Append(s, new)) = Len(s) + 1
        /\ Append(s, new)[Len(s) + 1] = new
    OBVIOUS
  <2> QED
    BY <2>1 DEF Last
<1> QED
  BY <1>1 DEF Turns, Leaves

(* The handler of a binary operator turns its two operands into their      *)
(* result.                                                                 *)
LEMMA BinaryTurns ==
  ASSUME NEW b, NEW m, Works(b, m), NEW n \in Nat, n = Len(b.value_stack), n >= 2,
         Apart(b), NEW o \in BinaryOperators, Source!Numeric(Upper(b, m)),
         Source!Numeric(Lower(b, m)) \/ o = "Subtract",
         Lower(b, m).type.depth > 0 =>
           Source!ElementSize(Lower(b, m).type) = AlignedSize(Lower(b, m).type.base),
         ~BinaryOperation(b, o).reported, ~BinaryOperation(b, o).out_of_registers
  PROVE  LET c == BinaryOperation(b, o)
         IN /\ Leaves(b, c, 2, m, Source!Apply(o, Lower(b, m), Upper(b, m)))
            /\ Waits(Last(c.value_stack))
            /\ Lower(b, m).type.depth < 2 \/ b.value_stack[n].dynamicSize = Size =>
                 Sized(Last(c.value_stack))
<1>1. PICK d : d = Load(Load(b))
  OBVIOUS
<1>2. PICK l, r : l = d.loaded[1] /\ r = d.loaded[2]
  OBVIOUS
<1>3. PICK c : c = Computed(d, o) /\ c = BinaryOperation(b, o)
  BY <1>1 DEF BinaryOperation
<1>4. IsState(d)
  BY <1>1, LoadRemembers DEF Works, Typed, Remembers
<1>5. ~d.reported
  BY <1>3, <1>4, ComputedRemembers DEF Remembers
<1>6. /\ Typed(d) /\ l.data # r.data /\ {l.data, r.data} \subseteq d.registers_table
      /\ Around(d, l.data, r.data) \subseteq Spare(b, 2)
      /\ r.dynamicSize = b.value_stack[n].dynamicSize
      /\ \E k : /\ Carries(d, k) /\ Keeps(m, k, Spare(b, 2))
                /\ IsFor(k, l, Lower(b, m)) /\ IsFor(k, r, Upper(b, m))
  BY <1>1, <1>2, <1>5, TwoAreLoaded
<1>7. PICK k : /\ Carries(d, k) /\ Keeps(m, k, Spare(b, 2))
               /\ IsFor(k, l, Lower(b, m)) /\ IsFor(k, r, Upper(b, m))
  BY <1>6
<1>8. PICK L, R : L = Lower(b, m) /\ R = Upper(b, m)
  OBVIOUS
<1>9. /\ IsFor(k, l, L) /\ IsFor(k, r, R)
      /\ r.info.depth = 0 /\ (l.info.depth = 0 \/ o = "Subtract")
      /\ L.type.depth = l.info.depth
      /\ l.info.depth > 0 => Source!ElementSize(l.info) = AlignedSize(l.info.base)
  BY <1>7, <1>8, ReadAs DEF IsFor
<1>10. AreLoaded(d, l, r)
  BY <1>2 DEF AreLoaded
<1>11. Gives(d, c, k, Around(d, l.data, r.data), Source!Apply(o, L, R))
  BY <1>3, <1>6, <1>7, <1>9, <1>10, ComputedCarries
<1>12. PICK h, new : /\ Carries(c, h) /\ Keeps(k, h, Around(d, l.data, r.data)) /\ Waits(new)
                     /\ c.value_stack = Append(d.value_stack, new)
                     /\ Operand(h, new) = Source!Apply(o, L, R) /\ SizedBy(d, new)
  BY <1>11 DEF Gives
<1>13. Keeps(m, h, Spare(b, 2))
  BY <1>6, <1>7, <1>12 DEF Keeps
<1>14. Stands(h, new)
  BY <1>12, WaitingOperand
<1>15. d.value_stack \in Seq(Frames)
  BY <1>6 DEF Typed
<1>16. Leaves(b, c, 2, m, Source!Apply(o, L, R)) /\ Last(c.value_stack) = new
  BY <1>12, <1>13, <1>14, <1>15, PushedTurns
<1>17. L.type.depth < 2 \/ b.value_stack[n].dynamicSize = Size => Sized(new)
  <2> SUFFICES ASSUME L.type.depth < 2 \/ b.value_stack[n].dynamicSize = Size,
                      new.info.depth >= 2
               PROVE  new.dynamicSize = Size
    BY DEF Sized
  <2>1. new.info = l.info /\ new.dynamicSize = r.dynamicSize
    BY <1>2, <1>12 DEF SizedBy
  <2>2. L.type.depth \in Nat /\ ~(L.type.depth < 2)
    <3>1. Waits(l) /\ L.type.depth = l.info.depth /\ l.info.depth >= 2
      BY <1>9, <2>1 DEF IsFor
    <3>2. l.info.depth \in Nat
      BY <3>1, WaitingType
    <3> QED
      BY <3>1, <3>2
  <2> QED
    BY <1>6, <2>1, <2>2
<1> QED
  BY <1>3, <1>8, <1>12, <1>16, <1>17

(* The handler of a unary operator turns its operand into the result.      *)
LEMMA UnaryTurns ==
  ASSUME NEW b, NEW m, Works(b, m), b.value_stack # <<>>,
         NEW o \in {"Negative", "BitNot"}, Source!Numeric(Upper(b, m)),
         ~UnaryOperation(b, o).reported
  PROVE  Turns(b, UnaryOperation(b, o), 1, m, Source!ApplyTo(o, Upper(b, m)))
<1>1. PICK d : d = Load(b)
  OBVIOUS
<1>2. PICK g : g = d.loaded[1]
  OBVIOUS
<1>3. PICK c : c = Applied(d, o) /\ c = UnaryOperation(b, o)
  BY <1>1 DEF UnaryOperation
<1>4. IsState(d) /\ ~d.reported
  <2>1. IsState(d)
    BY <1>1, LoadRemembers DEF Works, Typed, Remembers
  <2> QED
    BY <1>3, <2>1, AppliedRemembers DEF Remembers
<1>5. /\ Typed(d) /\ d.value_stack = Front(b.value_stack) /\ g.data \in Spare(b, 1)
      /\ \E k : Carries(d, k) /\ Keeps(m, k, Spare(b, 1)) /\ IsFor(k, g, Upper(b, m))
  BY <1>1, <1>2, <1>4, OneIsLoaded
<1>6. PICK k : Carries(d, k) /\ Keeps(m, k, Spare(b, 1)) /\ IsFor(k, g, Upper(b, m))
  BY <1>5
<1>7. PICK e : e = Upper(b, m)
  OBVIOUS
<1>8. /\ Waits(g) /\ g.info.depth = 0 /\ Source!Primitive(e.type) = g.dynamic
      /\ Source!Read(e) = k.registers[g.data]
      /\ Type(g) = Source!Plain(g.dynamic) /\ g.dynamic \in Primitives
  BY <1>6, <1>7, ReadAs, WaitingType DEF IsFor
<1>9. PICK p \in Primitives :
        /\ c = Pushed(Emitted(d, <<o, p, g.data, g.data>>), g)
        /\ o = "Negative" => p = g.dynamic
  <2>1. ~(o = "Negative" /\ g.dynamic = "UInt")
    <3>1. o = "Negative" /\ g.dynamic = "UInt" => c = Reported(d)
      BY <1>2, <1>3 DEF Applied
    <3> QED
      BY <1>3, <1>4, <3>1, SmallRemember
  <2>2. CASE o = "Negative"
    BY <1>2, <1>3, <1>8, <2>1, <2>2 DEF Applied
  <2>3. CASE o = "BitNot"
    BY <1>2, <1>3, <2>3 DEF Applied, Primitives
  <2> QED
    BY <2>2, <2>3
<1>10. PICK v : v = Changed(o, k.registers[g.data], p)
  OBVIOUS
<1>11. PICK h : h = Put(k, g.data, v)
  OBVIOUS
<1>12. /\ g.data \in Registers /\ k \in Machines /\ k.registers[g.data] \in MSLValue
  BY <1>6, <1>8 DEF Waits, Carries, Machines
<1>13. v \in MSLValue
  BY <1>10, <1>12, ResultsAreValues DEF Changed
<1>14. Execute(k, <<o, p, g.data, g.data>>) = h
  BY <1>10, <1>11, <1>12, Calculating
<1>15. /\ h \in Machines /\ h.memory = k.memory /\ Holds(h, g.data) = v
       /\ \A s \in Registers : s # g.data => h.registers[s] = k.registers[s]
  BY <1>11, <1>12, <1>13, Puts DEF Holds
<1>16. Carries(c, h) /\ c.value_stack = Append(d.value_stack, g)
  <2>1. PICK q : q = Emitted(d, <<o, p, g.data, g.data>>)
    OBVIOUS
  <2>2. Carries(q, h) /\ IsState(q) /\ q.value_stack = d.value_stack
    <3>1. Carries(q, h)
      BY <1>4, <1>6, <1>14, <1>15, <2>1, Carrying
    <3>2. Quiet(d, q)
      BY <1>4, <2>1, QuietSteps
    <3> QED
      BY <3>1, <3>2 DEF Quiet, Remembers
  <2>3. c = Pushed(q, g)
    BY <1>9, <2>1
  <2>4. Fields(c, Append(q.value_stack, g), q.registers_table, q.loaded,
               q.reported, q.out_of_registers)
    BY <2>2, <2>3, Small
  <2> QED
    BY <2>2, <2>3, <2>4, Carrying DEF Fields
<1>17. Keeps(m, h, Spare(b, 1))
  BY <1>5, <1>6, <1>15 DEF Keeps
<1>18. Stands(h, g) /\ Operand(h, g) = Source!ApplyTo(o, e)
  <2>1. /\ Stands(h, g)
        /\ Operand(h, g) = [place |-> -1, value |-> Holds(h, g.data), type |-> Type(g)]
    BY <1>8, WaitingOperand DEF Holds
  <2>2. Source!ApplyTo(o, e) = [place |-> -1, value |-> v, type |-> Type(g)]
    <3> QED
      BY <1>8, <1>9, <1>10, SameNumbers
         DEF Source!ApplyTo, Source!Value, Source!NoPlace, Changed
  <2> QED
    BY <1>15, <2>1, <2>2
<1>19. d.value_stack \in Seq(Frames)
  BY <1>5 DEF Typed
<1>20. Sized(g)
  BY <1>8 DEF Sized
<1> QED
  BY <1>3, <1>7, <1>16, <1>17, <1>18, <1>19, <1>20, PushedTurns

(* & x: the address of x in a register that was free, or in the one that   *)
(* has it.                                                                 *)
LEMMA PointerTakenTurns ==
  ASSUME NEW b, NEW m, Works(b, m), b.value_stack # <<>>,
         ~PointerTaken(b).reported, ~PointerTaken(b).out_of_registers
  PROVE  LET e == Upper(b, m)
         IN /\ e.place # -1
            /\ Turns(b, PointerTaken(b), 1, m,
                     Source!Value(Number("UInt", e.place), [e.type EXCEPT !.depth = @ + 1]))
<1>1. PICK f : f = Last(b.value_stack)
  OBVIOUS
<1>2. PICK p : p = Popped(b)
  OBVIOUS
<1>3. PICK e : e = Upper(b, m)
  OBVIOUS
<1>4. PICK c : c = PointerTaken(b)
  OBVIOUS
<1>5. /\ Typed(b) /\ IsState(b) /\ Carries(b, m) /\ m \in Machines
      /\ m.memory = machine.memory
  BY DEF Works, Carries, Typed
<1>6. f \in Frames /\ Stands(m, f) /\ e = Operand(m, f) /\ Front(b.value_stack) \in Seq(Frames)
  <2>1. /\ Len(b.value_stack) \in Nat \ {0} /\ Front(b.value_stack) \in Seq(Frames)
        /\ Last(b.value_stack) = b.value_stack[Len(b.value_stack)]
    BY <1>5, WithoutLast DEF Typed
  <2>2. Stands(m, f)
    BY <1>1, <2>1 DEF Works
  <2> QED
    BY <1>1, <1>3, <2>1, <2>2 DEF Upper, Stands
<1>7. /\ e.place # -1 <=> AtFixedAddress(f) \/ f.source = "DynamicAddress"
      /\ AtFixedAddress(f) => e.place = AddressIn(Argument(f))
      /\ f.source = "DynamicAddress" => e.place = m.registers[f.data].n
      /\ e.type = Type(f)
  BY <1>5, <1>6, OperandRead, TypeOfOperand
<1>8. /\ IsState(p) /\ Carries(p, m) /\ p.value_stack = Front(b.value_stack)
      /\ p.registers_table = b.registers_table
  <2>1. Fields(p, Front(b.value_stack), b.registers_table, b.loaded, b.reported,
               b.out_of_registers)
    BY <1>2, <1>5, Small
  <2> QED
    BY <1>2, <1>5, <2>1, SmallRemember, Carrying DEF Remembers, Fields
<1>9. /\ f.info = [depth |-> f.info.depth, base |-> f.info.base]
      /\ f.info.depth \in Nat
      /\ f = [source |-> f.source, data |-> f.data, dynamic |-> f.dynamic,
              static |-> f.static,
              dynamicSize |-> f.dynamicSize, staticSize |-> f.staticSize,
              info |-> f.info]
      /\ f.static \in Primitives /\ Suits(f) /\ f.source \in Sources
      /\ f.staticSize \in Nat
  BY <1>6, FrameFields
<1>10. ASSUME NEW r \in Registers, NEW new,
              new = [source |-> "Pointer", data |-> r, dynamic |-> "UInt", static |-> f.static,
                     dynamicSize |-> Size, staticSize |-> f.staticSize,
                     info |-> [depth |-> f.info.depth + 1, base |-> f.info.base]],
              AtFixedAddress(f) \/ f.source = "DynamicAddress",
              NEW h, h.registers[r] = Number("UInt", e.place)
       PROVE  /\ Stands(h, new) /\ Sized(new)
              /\ Operand(h, new) = Source!Value(Number("UInt", e.place),
                                                [e.type EXCEPT !.depth = @ + 1])
  <2>1. f.info.base \in Bases
    BY <1>9, <1>10 DEF Suits, AtFixedAddress
  <2>2. Type(f) = f.info
    BY <1>10 DEF Type
  <2>3. [e.type EXCEPT !.depth = @ + 1] = new.info
    BY <1>7, <1>9, <1>10, <2>2
  <2>4. new \in Frames
    <3>1. r \in 0 .. InvalidRegister /\ "UInt" \in Primitives
      BY TranslatorAssumption DEF Registers, InvalidRegister, Primitives
    <3>2. new.info \in [depth : Nat, base : Bases \cup {"Invalid"}]
      BY <1>9, <1>10, <2>1
    <3>3. new.info.base \in Bases /\ Size \in Nat
      BY <1>10, <2>1, TranslatorAssumption
    <3>4. new = [source |-> "Pointer", data |-> r, dynamic |-> "UInt", static |-> f.static,
                 dynamicSize |-> Size, staticSize |-> f.staticSize, info |-> new.info]
      BY <1>10
    <3> QED
      BY <1>9, <3>1, <3>2, <3>3, <3>4, MakesRegisterFrame
  <2>5. Shaped(new) /\ new.source = "Pointer" /\ new.data = r /\ IsPointer(new)
    <3>1. f.info.base # "Char" => f.staticSize = Size
      <4>1. CASE AtFixedAddress(f)
        BY <1>6, <2>1, <4>1 DEF Stands, Shaped, SizeOf, AlignedSize
      <4>2. CASE f.source = "DynamicAddress"
        BY <1>6, <4>2 DEF Stands, Shaped
      <4> QED
        BY <1>10, <4>1, <4>2
    <3>2. /\ new.source = "Pointer" /\ new.dynamic = "UInt" /\ new.data = r
          /\ new.info.depth > 0 /\ new.info.base = f.info.base
          /\ new.staticSize = f.staticSize
      BY <1>9, <1>10
    <3> QED
      BY <3>1, <3>2 DEF Shaped, IsPointer, AtFixedAddress
  <2>6. Waits(new) /\ Type(new) = new.info
    BY <2>4, <2>5 DEF Waits, Type
  <2>7. Stands(h, new) /\ Operand(h, new) = [place |-> -1, value |-> h.registers[r], type |-> new.info]
    BY <2>5, <2>6, WaitingOperand
  <2>8. Sized(new)
    BY <1>10 DEF Sized
  <2> QED
    BY <1>10, <2>3, <2>7, <2>8 DEF Source!Value, Source!NoPlace
<1>11. CASE AtFixedAddress(f)
  <2>1. PICK r : r = FindFreeGeneral(p)
    OBVIOUS
  <2>2. PICK a : a = Allocated(p)
    OBVIOUS
  <2>3. PICK q : q = Emitted(a, <<"LEA_STATIC", Argument(f), r>>)
    OBVIOUS
  <2>4. PICK new : new = PointerTo([f EXCEPT !.data = r])
    OBVIOUS
  <2>5. c = Pushed(q, new)
    BY <1>1, <1>2, <1>4, <1>11, <2>1, <2>2, <2>3, <2>4 DEF PointerTaken, Top, AtFixedAddress
  <2>6. IsState(a) /\ Carries(a, m) /\ a.value_stack = p.value_stack
    BY <1>8, <2>2, SmallRemember, Carrying, Allocating DEF Remembers, Fields
  <2>7. /\ IsState(q) /\ q.value_stack = a.value_stack
        /\ q.out_of_registers = a.out_of_registers
    <3>1. Fields(q, a.value_stack, a.registers_table, a.loaded, a.reported, a.out_of_registers)
      BY <2>3, <2>6, Small
    <3> QED
      BY <2>3, <2>6, <3>1, SmallRemember DEF Remembers, Fields
  <2>8. r \in Registers \ b.registers_table
    <3>1. ~a.out_of_registers
      <4>1. q.out_of_registers => c.out_of_registers
        BY <2>5, <2>7, SmallRemember DEF Remembers
      <4> QED
        BY <1>4, <2>7, <4>1
    <3>2. r # InvalidRegister
      BY <1>8, <2>1, <2>2, <3>1, Allocating DEF Fields
    <3> QED
      BY <1>8, <2>1, <3>2, FirstFree
  <2>9. PICK v : v = Number("UInt", e.place)
    OBVIOUS
  <2>10. PICK h : h = Put(m, r, v)
    OBVIOUS
  <2>11. v \in MSLValue /\ e.place = AddressIn(Argument(f))
    <3>1. AddressIn(Argument(f)) \in Int
      <4>1. AddressIn(Argument(f)) \in Addresses
        BY <1>6, <1>11, FixedAddress
      <4>2. AddressIn(Argument(f)) \in Nat
        BY <4>1, AddressesAreNumbers, Zenon
      <4> QED
        BY <4>2
    <3> QED
      BY <1>7, <1>11, <2>9, <3>1, ValuesRepresent DEF Primitives
  <2>12. /\ h \in Machines /\ h.memory = m.memory /\ h.registers[r] = v
         /\ \A s \in Registers : s # r => h.registers[s] = m.registers[s]
    BY <1>5, <2>8, <2>10, <2>11, Puts
  <2>13. Execute(m, <<"LEA_STATIC", Argument(f), r>>) = h
    BY <1>5, <2>8, <2>9, <2>10, <2>11, Loading, ZenonT(40)
  <2>14. Carries(q, h)
    BY <2>3, <2>6, <2>12, <2>13, Carrying
  <2>15. Carries(c, h) /\ c.value_stack = Append(p.value_stack, new)
    BY <2>5, <2>6, <2>7, <2>14, PushGives
  <2>16. Keeps(m, h, Spare(b, 1))
    BY <2>8, <2>12 DEF Keeps, Spare
  <2>17. new = [source |-> "Pointer", data |-> r, dynamic |-> "UInt", static |-> f.static,
                dynamicSize |-> Size, staticSize |-> f.staticSize,
                info |-> [depth |-> f.info.depth + 1, base |-> f.info.base]]
    <3>1. [f EXCEPT !.data = r] =
            [source |-> f.source, data |-> r, dynamic |-> f.dynamic, static |-> f.static,
             dynamicSize |-> f.dynamicSize, staticSize |-> f.staticSize,
             info |-> f.info]
      BY <1>6, ChangedFrame
    <3>2. [f EXCEPT !.data = r] =
            [source |-> f.source, data |-> r, dynamic |-> f.dynamic, static |-> f.static,
             dynamicSize |-> f.dynamicSize, staticSize |-> f.staticSize,
             info |-> [depth |-> f.info.depth, base |-> f.info.base]]
      BY <1>9, <3>1
    <3> QED
      BY <2>4, <3>2, PointerToFrame
  <2>18. /\ Stands(h, new) /\ Sized(new)
         /\ Operand(h, new) = Source!Value(Number("UInt", e.place),
                                           [e.type EXCEPT !.depth = @ + 1])
    BY <1>10, <1>11, <2>8, <2>9, <2>12, <2>17
  <2>19. Turns(b, c, 1, m, Source!Value(Number("UInt", e.place), [e.type EXCEPT !.depth = @ + 1]))
    BY <1>6, <1>8, <2>15, <2>16, <2>18, PushedTurns
  <2> QED
    BY <1>3, <1>4, <1>7, <1>11, <2>19
<1>12. CASE f.source = "DynamicAddress"
  <2>1. PICK new : new = PointerTo(f)
    OBVIOUS
  <2>2. c = Pushed(p, new)
    BY <1>1, <1>2, <1>4, <1>12, <2>1 DEF PointerTaken, Top, AtFixedAddress
  <2>3. Carries(c, m) /\ c.value_stack = Append(p.value_stack, new)
    BY <1>8, <2>2, PushGives
  <2>4. new = [source |-> "Pointer", data |-> f.data, dynamic |-> "UInt", static |-> f.static,
               dynamicSize |-> Size, staticSize |-> f.staticSize,
               info |-> [depth |-> f.info.depth + 1, base |-> f.info.base]]
    <3>1. f = [source |-> f.source, data |-> f.data, dynamic |-> f.dynamic, static |-> f.static,
               dynamicSize |-> f.dynamicSize, staticSize |-> f.staticSize,
               info |-> [depth |-> f.info.depth, base |-> f.info.base]]
      BY <1>9
    <3> QED
      BY <2>1, <3>1, PointerToFrame
  <2>5. f.data \in Registers /\ Known(m.registers[f.data])
    BY <1>6, <1>12 DEF Stands, InRegister
  <2>6. m.registers[f.data] = Number("UInt", e.place)
    <3>1. m.registers[f.data] \in MSLValue
      BY <1>5, <2>5 DEF Machines
    <3>2. m.registers[f.data] = [rep |-> m.registers[f.data].rep, n |-> m.registers[f.data].n]
      BY <3>1, ValuesRepresent
    <3> QED
      BY <1>7, <1>12, <2>5, <3>2 DEF Known, Is, Number
  <2>7. Keeps(m, m, Spare(b, 1))
    BY <1>5 DEF Keeps
  <2>8. /\ Stands(m, new) /\ Sized(new)
        /\ Operand(m, new) = Source!Value(Number("UInt", e.place),
                                          [e.type EXCEPT !.depth = @ + 1])
    BY <1>10, <1>12, <2>4, <2>5, <2>6
  <2>9. Turns(b, c, 1, m, Source!Value(Number("UInt", e.place), [e.type EXCEPT !.depth = @ + 1]))
    BY <1>6, <1>8, <2>3, <2>7, <2>8, PushedTurns
  <2> QED
    BY <1>3, <1>4, <1>7, <1>12, <2>9
<1>13. AtFixedAddress(f) \/ f.source = "DynamicAddress"
  <2>1. SUFFICES ASSUME ~(AtFixedAddress(f) \/ f.source = "DynamicAddress") PROVE FALSE
    OBVIOUS
  <2>2. c = Reported(p)
    BY <1>1, <1>2, <1>4, <2>1 DEF PointerTaken, Top
  <2> QED
    BY <1>4, <1>8, <2>2, SmallRemember
<1> QED
  BY <1>11, <1>12, <1>13

(* What is behind the pointer g, which a register holds. *)
LEMMA BehindGives ==
  ASSUME NEW d, IsState(d), NEW k, Carries(d, k), k.memory = machine.memory,
         NEW g, Waits(g), Sized(g), g.info.depth > 0, Known(Holds(k, g.data))
  PROVE  LET c == Behind(d, g)
             new == Dereferenced(g)
         IN /\ c.value_stack = Append(d.value_stack, new) /\ Sized(new)
            /\ \E h : /\ Carries(c, h) /\ Keeps(k, h, {g.data}) /\ Stands(h, new)
                      /\ Operand(h, new) = Source!Follow(Holds(k, g.data).n, g.info)
<1>1. PICK c, new : c = Behind(d, g) /\ new = Dereferenced(g)
  OBVIOUS
<1>2. PICK r : r = g.data
  OBVIOUS
<1>3. PICK a : a = k.registers[r].n
  OBVIOUS
<1>4. /\ g.source = "Pointer" /\ g.dynamic = "UInt" /\ g.info.base # "Invalid"
      /\ g.info = [depth |-> g.info.depth, base |-> g.info.base]
      /\ g.info.depth \in Nat /\ g \in Frames /\ r \in Registers
  BY <1>2, WaitingType DEF Waits
<1>5. /\ k \in Machines /\ Is(k.registers[r], "UInt") /\ a \in Addresses
      /\ Holds(k, g.data).n = a
  BY <1>2, <1>3 DEF Carries, Known, Holds
<1>6. /\ g.info.base \in Bases /\ g.static \in Primitives
  BY <1>4, FrameFields
<1>7. new \in Frames /\ InRegister(new) /\ new.data = r
  BY <1>1, <1>2, <1>4, DereferencedIsFrame
<1>8. PICK to : to = [depth |-> g.info.depth - 1, base |-> g.info.base]
  OBVIOUS
<1>9. Source!Follow(a, g.info) =
        IF to.depth > 0 THEN Source!Value(BytesAt(k.memory, a, Size), to)
        ELSE Source!Place(a, to)
  <2>1. Source!Target(g.info) = to
    BY <1>4, <1>8 DEF Source!Target
  <2>2. to.depth > 0 => Source!ReadFrom(a, to) = BytesAt(k.memory, a, Size)
    <3>1. to.depth > 0 => Source!SizeOf(to) = Size
      BY DEF Source!SizeOf
    <3> QED
      BY <3>1, SameBytes DEF Source!ReadFrom
  <2> QED
    BY <2>1, <2>2 DEF Source!Follow
<1> DEFINE Given == /\ c.value_stack = Append(d.value_stack, new) /\ Sized(new)
                    /\ \E h : /\ Carries(c, h) /\ Keeps(k, h, {g.data}) /\ Stands(h, new)
                              /\ Operand(h, new) = Source!Follow(a, g.info)
<1>10. ASSUME g.info.depth > 1 PROVE Given
  <2>1. new = [source |-> "Pointer", data |-> r, dynamic |-> "UInt", static |-> g.static,
               dynamicSize |-> Size, staticSize |-> g.staticSize,
               info |-> to]
    <3>1. g.dynamicSize = Size
      BY <1>10, <1>4 DEF Sized
    <3> QED
      BY <1>1, <1>2, <1>4, <1>8, <1>10, <3>1, DereferencedFrame
  <2>2. to.depth > 0 /\ IsPointer(new) /\ new.info = to
    BY <1>4, <1>8, <1>10, <2>1 DEF IsPointer
  <2>3. Waits(new) /\ Type(new) = to
    <3>1. Shaped(new)
      <4>1. g.info.base # "Char" => g.staticSize = Size
        BY <1>4 DEF Waits, Shaped
      <4>2. /\ new.source = "Pointer" /\ new.dynamic = "UInt"
            /\ new.info.base = g.info.base /\ new.staticSize = g.staticSize
        BY <1>8, <2>1
      <4> QED
        BY <2>2, <4>1, <4>2 DEF Shaped, AtFixedAddress
    <3>2. new.source = "Pointer"
      BY <2>1
    <3> QED
      BY <1>4, <1>7, <2>2, <3>1, <3>2 DEF Waits, Type
  <2>4. PICK q : q = Emitted(d, <<"LOAD_DYNAMIC", r, r, Size>>)
    OBVIOUS
  <2>5. c = Pushed(q, new)
    <3>1. new.dynamicSize = Size
      BY <2>1
    <3> QED
      BY <1>1, <1>7, <2>2, <2>4, <3>1 DEF Behind
  <2>6. PICK v : v = BytesAt(k.memory, a, Size)
    OBVIOUS
  <2>7. PICK h : h = Put(k, r, v)
    OBVIOUS
  <2>8. v \in MSLValue
    <3>1. k.memory \in [Addresses -> MemoryByte] /\ Size \in Nat \ {0}
      BY <1>5, TranslatorAssumption DEF Machines
    <3>2. a \in Nat
      BY <1>5, AddressesAreNumbers, Zenon
    <3>3. a \in Int
      BY <3>2
    <3> QED
      BY <2>6, <3>1, <3>3, MemoryOfBytes
  <2>9. /\ h \in Machines /\ h.memory = k.memory /\ h.registers[r] = v
        /\ \A s \in Registers : s # r => h.registers[s] = k.registers[s]
    BY <1>4, <1>5, <2>7, <2>8, Puts
  <2>10. Execute(k, <<"LOAD_DYNAMIC", r, r, Size>>) = h
    <3>1. Execute(k, <<"LOAD_DYNAMIC", r, r, Size>>) =
            Put(k, r, IF Is(k.registers[r], "UInt")
                        THEN BytesAt(k.memory, k.registers[r].n, Size) ELSE Unknown)
      BY <1>4, <1>5, Loading, ZenonT(40)
    <3> QED
      BY <1>3, <1>5, <2>6, <2>7, <3>1
  <2>11. Carries(q, h) /\ IsState(q) /\ q.value_stack = d.value_stack
    <3>1. Carries(q, h)
      BY <2>4, <2>9, <2>10, Carrying
    <3>2. Quiet(d, q)
      BY <2>4, QuietSteps
    <3> QED
      BY <3>1, <3>2 DEF Quiet, Remembers
  <2>12. Carries(c, h) /\ c.value_stack = Append(d.value_stack, new)
    BY <2>5, <2>11, PushGives
  <2>13. Keeps(k, h, {g.data})
    BY <1>2, <2>9 DEF Keeps
  <2>14. Stands(h, new) /\ Operand(h, new) = Source!Follow(a, g.info)
    <3>1. /\ Stands(h, new)
          /\ Operand(h, new) = [place |-> -1, value |-> h.registers[r], type |-> to]
      BY <1>7, <2>3, WaitingOperand
    <3>2. Source!Follow(a, g.info) = [place |-> -1, value |-> v, type |-> to]
      BY <1>9, <2>2, <2>6 DEF Source!Value, Source!NoPlace
    <3> QED
      BY <2>9, <3>1, <3>2
  <2>15. Sized(new)
    BY <2>1 DEF Sized
  <2> QED
    BY <2>12, <2>13, <2>14, <2>15
<1>11. ASSUME g.info.depth = 1 PROVE Given
  <2>1. new = [source |-> "DynamicAddress", data |-> r, dynamic |-> Analog(g.info.base),
               static |-> g.static,
               dynamicSize |-> AlignedSize(g.info.base), staticSize |-> g.staticSize,
               info |-> to]
    BY <1>1, <1>2, <1>4, <1>8, <1>11, DereferencedFrame
  <2>2. to.depth = 0 /\ ~IsPointer(new) /\ new.info = to
    BY <1>4, <1>8, <1>11, <2>1 DEF IsPointer
  <2>3. c = Pushed(d, new)
    BY <1>1, <2>2 DEF Behind
  <2>4. Carries(c, k) /\ c.value_stack = Append(d.value_stack, new)
    BY <2>3, PushGives
  <2>5. Keeps(k, k, {g.data})
    BY <1>5 DEF Keeps
  <2>6. Stands(k, new)
    <3>1. Shaped(new)
      <4>1. g.info.base # "Char" => g.staticSize = Size
        BY <1>4 DEF Waits, Shaped
      <4>2. /\ new.source = "DynamicAddress" /\ new.dynamic = Analog(new.info.base)
            /\ new.info.base = g.info.base /\ new.staticSize = g.staticSize
            /\ new.dynamicSize = AlignedSize(new.info.base)
        BY <1>8, <2>1
      <4>3. SizeOf(new.info) = AlignedSize(new.info.base)
        BY <2>2 DEF SizeOf
      <4> QED
        BY <2>2, <4>1, <4>2, <4>3 DEF Shaped, AtFixedAddress
    <3>2. Known(k.registers[r])
      BY <1>3, <1>5 DEF Known
    <3> QED
      BY <1>4, <1>7, <3>1, <3>2 DEF Stands
  <2>7. Operand(k, new) = [place |-> a, value |-> Unknown, type |-> to]
    <3>1. new.source = "DynamicAddress" /\ new.data = r /\ new.info = to
      BY <2>1
    <3>2. InRegisterOf(k, r) = k.registers[r]
      BY <1>4 DEF InRegisterOf
    <3> QED
      BY <1>3, <3>1, <3>2 DEF Operand, AtFixedAddress
  <2>8. Source!Follow(a, g.info) = [place |-> a, value |-> Unknown, type |-> to]
    BY <1>9, <2>2, SameNumbers DEF Source!Place
  <2>9. Operand(k, new) = Source!Follow(a, g.info)
    BY <2>7, <2>8
  <2>10. Sized(new)
    BY <2>2 DEF Sized
  <2> QED
    BY <2>4, <2>5, <2>6, <2>9, <2>10
<1>12. Given
  <2> HIDE DEF Given
  <2> QED
    BY <1>4, <1>10, <1>11
<1> QED
  BY <1>1, <1>5, <1>12

(* The handler of *p turns p into what following it gives.                 *)
LEMMA PointerFollowedTurns ==
  ASSUME NEW b, NEW m, Works(b, m), b.value_stack # <<>>, ~PointerFollowed(b).reported,
         ~Source!Numeric(Upper(b, m)), Known(Source!Read(Upper(b, m)))
  PROVE  LET e == Upper(b, m)
         IN Turns(b, PointerFollowed(b), 1, m, Source!Follow(Source!Read(e).n, e.type))
<1>1. PICK c : c = PointerFollowed(b)
  OBVIOUS
<1>2. PICK f : f = Last(b.value_stack)
  OBVIOUS
<1>3. PICK e : e = Upper(b, m)
  OBVIOUS
<1>4. /\ Typed(b) /\ IsState(b) /\ Carries(b, m) /\ m \in Machines
      /\ m.memory = machine.memory
  BY DEF Works, Carries, Typed
<1>5. PICK n \in Nat : n = Len(b.value_stack) /\ n >= 1 /\ f = b.value_stack[n]
  <2>1. /\ Len(b.value_stack) \in Nat \ {0}
        /\ Last(b.value_stack) = b.value_stack[Len(b.value_stack)]
    BY <1>4, WithoutLast DEF Typed
  <2> QED
    BY <1>2, <2>1
<1>6. /\ Stands(m, f) /\ Sized(f) /\ f \in Frames /\ f.source \in Sources /\ e = Operand(m, f)
      /\ Front(b.value_stack) \in Seq(Frames)
  <2>1. Stands(m, f) /\ Sized(f) /\ f \in Frames
    BY <1>5 DEF Works, Stands
  <2> QED
    BY <1>3, <1>4, <1>5, <2>1, WithoutLast, FrameFields DEF Upper, Typed
<1>7. ASSUME NEW d, IsState(d), d.value_stack = Front(b.value_stack),
             NEW k, Carries(d, k), Keeps(m, k, Spare(b, 1)),
             NEW g, IsFor(k, g, e), Sized(g), g.data \in Spare(b, 1), c = Behind(d, g)
      PROVE  Turns(b, c, 1, m, Source!Follow(Source!Read(e).n, e.type))
  <2>1. /\ Waits(g) /\ Source!Read(e) = Holds(k, g.data)
        /\ g.info.depth > 0 /\ e.type = g.info
    <3>1. /\ Waits(g) /\ Source!Read(e) = Holds(k, g.data)
          /\ g.info.depth > 0 => e.type = g.info
      BY <1>7 DEF IsFor, Holds
    <3>2. Source!Numeric(e) <=> g.info.depth = 0
      BY <1>7, ReadAs
    <3>3. g.info.depth \in Nat
      BY <3>1, WaitingType
    <3>4. g.info.depth # 0
      BY <1>3, <3>2
    <3> QED
      BY <3>1, <3>3, <3>4
  <2>2. k.memory = machine.memory /\ Known(Holds(k, g.data))
    BY <1>3, <1>4, <1>7, <2>1 DEF Keeps
  <2>3. PICK new : new = Dereferenced(g)
    OBVIOUS
  <2>4. /\ c.value_stack = Append(d.value_stack, new) /\ Sized(new)
        /\ \E h : /\ Carries(c, h) /\ Keeps(k, h, {g.data}) /\ Stands(h, new)
                  /\ Operand(h, new) = Source!Follow(Holds(k, g.data).n, g.info)
    BY <1>7, <2>1, <2>2, <2>3, BehindGives
  <2>5. PICK h : /\ Carries(c, h) /\ Keeps(k, h, {g.data}) /\ Stands(h, new)
                 /\ Operand(h, new) = Source!Follow(Source!Read(e).n, e.type)
    BY <2>1, <2>4
  <2>6. Keeps(m, h, Spare(b, 1))
    BY <1>7, <2>5 DEF Keeps
  <2> QED
    BY <1>6, <1>7, <2>4, <2>5, <2>6, PushedTurns
<1>8. CASE AtFixedAddress(f) \/ f.source = "DynamicAddress"
  <2>1. PICK d : d = Load(b)
    OBVIOUS
  <2>2. PICK g : g = d.loaded[1]
    OBVIOUS
  <2>3. c = Followed(d, g)
    BY <1>1, <1>2, <1>8, <2>1, <2>2 DEF PointerFollowed, FollowedLoaded, Top
  <2>4. IsState(d)
    BY <1>4, <2>1, LoadRemembers DEF Remembers
  <2>5. ~d.reported
    <3>1. c = Reported(d) \/ c = Behind(d, g)
      BY <2>3 DEF Followed
    <3> QED
      BY <1>1, <2>4, <3>1, SmallRemember, BehindRemembers DEF Remembers
  <2>6. /\ d.value_stack = Front(b.value_stack) /\ g.data \in Spare(b, 1) /\ Sized(g)
        /\ \E k : Carries(d, k) /\ Keeps(m, k, Spare(b, 1)) /\ IsFor(k, g, Upper(b, m))
    BY <2>1, <2>2, <2>5, OneIsLoaded
  <2>7. PICK k : Carries(d, k) /\ Keeps(m, k, Spare(b, 1)) /\ IsFor(k, g, e)
    BY <1>3, <2>6
  <2>8. c = Behind(d, g)
    BY <2>3, <2>7 DEF Followed, IsFor, Waits
  <2>9. Turns(b, c, 1, m, Source!Follow(Source!Read(e).n, e.type))
    BY <1>7, <2>4, <2>6, <2>7, <2>8
  <2> QED
    BY <1>1, <1>3, <2>9
<1>9. CASE f.source \in {"Register", "Pointer", "Constant"}
  <2>1. PICK p : p = Popped(b)
    OBVIOUS
  <2>2. /\ IsState(p) /\ Carries(p, m) /\ p.value_stack = Front(b.value_stack)
    <3>1. Fields(p, Front(b.value_stack), b.registers_table, b.loaded, b.reported,
                 b.out_of_registers)
      BY <1>4, <2>1, Small
    <3> QED
      BY <1>4, <2>1, <3>1, SmallRemember, Carrying DEF Remembers, Fields
  <2>3. c = Followed(p, f)
    BY <1>1, <1>2, <1>9, <2>1 DEF PointerFollowed, Top, AtFixedAddress
  <2>4. f.source \in {"Register", "Pointer"} /\ c = Behind(p, f)
    <3>1. ~(f.source \in {"Register", "Pointer"}) => c = Reported(p)
      BY <2>3 DEF Followed
    <3>2. ~c.reported
      BY <1>1
    <3> QED
      BY <2>2, <2>3, <3>1, <3>2, SmallRemember DEF Followed
  <2>5. f.data \in Registers /\ f.data \in Spare(b, 1)
    <3>1. f.data \in Registers /\ InRegister(f)
      BY <1>6, <2>4 DEF Stands, InRegister
    <3>2. Regs(b, 1) = Reg(b.value_stack[n])
      BY <1>5, LastFrames
    <3> QED
      BY <1>5, <3>1, <3>2 DEF Spare, Reg
  <2>6. IsFor(m, f, e)
    <3>1. /\ e.type = Type(f) /\ Source!Read(e) = Meaning(m, f)
          /\ Source!Primitive(Type(f)) = f.dynamic /\ Type(f).depth = f.info.depth
          /\ f.info.depth > 0 => Type(f) = f.info
      BY <1>4, <1>6, TypeOfOperand, OperandRead
    <3>2. Meaning(m, f) = m.registers[f.data]
      BY <2>4 DEF Meaning, AtFixedAddress
    <3>3. Waits(f)
      BY <1>6, <2>4, <2>5 DEF Waits, Stands
    <3> QED
      BY <3>1, <3>2, <3>3 DEF IsFor
  <2>7. Keeps(m, m, Spare(b, 1))
    BY <1>4 DEF Keeps
  <2>8. Turns(b, c, 1, m, Source!Follow(Source!Read(e).n, e.type))
    BY <1>6, <1>7, <2>2, <2>4, <2>5, <2>6, <2>7
  <2> QED
    BY <1>1, <1>3, <2>8
<1> QED
  BY <1>6, <1>8, <1>9 DEF Sources, AtFixedAddress

(* The number of an element, as an integer of either kind. *)
LEMMA ElementAddress ==
  ASSUME NEW v \in MSLValue, NEW w \in MSLValue, NEW p \in {"Int", "UInt"},
         NEW z \in Int,
         NEW a, a = Addition(v, Product(w, Number("UInt", z), "UInt"), "UInt"),
         Known(a)
  PROVE  /\ Addition(v, Product(w, Number("UInt", z), p), p) = a
         /\ a.n = v.n + w.n * z /\ a \in MSLValue
<1>1. /\ \A x : Is(x, p) <=> Is(x, "UInt")
      /\ \A n : Number(p, n) = Number("UInt", n)
  BY DEF Is, Number, Representation
<1>2. PICK y : y = Product(w, Number("UInt", z), "UInt")
  OBVIOUS
<1>3. Product(w, Number("UInt", z), p) = y
  BY <1>1, <1>2 DEF Product
<1>4. Addition(v, y, p) = a
  BY <1>1, <1>2 DEF Addition
<1>5. "UInt" \in Primitives
  BY TranslatorAssumption DEF Primitives
<1>6. a \in MSLValue
  BY <1>2, <1>5, ValuesRepresent, ResultsAreValues
<1>7. a.n = v.n + w.n * z
  <2>1. Is(a, "UInt") /\ ~Is(Unknown, "UInt")
    BY DEF Known, Is, Unknown, Representation
  <2>2. Is(y, "UInt") /\ a = Number("UInt", v.n + y.n)
    BY <1>2, <2>1 DEF Addition
  <2>3. y = Number("UInt", w.n * z)
    <3>1. y = Number("UInt", w.n * Number("UInt", z).n)
      BY <1>2, <2>1, <2>2 DEF Product
    <3> QED
      BY <3>1 DEF Number
  <2> QED
    BY <2>2, <2>3 DEF Number
<1> QED
  BY <1>3, <1>4, <1>6, <1>7

(* The handler of p[i] turns p and i into what following the moved pointer *)
(* gives.                                                                  *)
LEMMA IndexedTurns ==
  ASSUME NEW b, NEW m, Works(b, m), NEW n \in Nat, n = Len(b.value_stack), n >= 2,
         Apart(b), ~Indexed(b).reported, ~Indexed(b).out_of_registers,
         NEW L, NEW R, L = Lower(b, m), R = Upper(b, m),
         ~Source!Numeric(L), Source!Numeric(R),
         NEW z, z = Source!ElementSize(L.type), z = AlignedSize(L.type.base),
         R.type.base = "Real" \/
           Known(Addition(Source!Read(L), Product(Source!Read(R), Number("UInt", z), "UInt"),
                          "UInt"))
  PROVE  Turns(b, Indexed(b), 2, m,
               Source!Follow(Source!Read(L).n + Source!Read(R).n * z, L.type))
<1>1. PICK d : d = Load(Load(b))
  OBVIOUS
<1>2. PICK l, r : l = d.loaded[1] /\ r = d.loaded[2]
  OBVIOUS
<1>3. PICK c : c = Indexed(b) /\ c = Element(d)
  BY <1>1 DEF Indexed
<1>4. IsState(d)
  BY <1>1, LoadRemembers DEF Works, Typed, Remembers
<1>5. PICK s : s = IF l.info.base # "Invalid" THEN Scaled(d, l, r, r.dynamic) ELSE d
  OBVIOUS
<1>6. PICK a : a = Emitted(s, <<"ADD", r.dynamic, l.data, l.data, r.data>>)
  OBVIOUS
<1>7. PICK q : q = Freed(a, r.data)
  OBVIOUS
<1>8. Quiet(d, s) /\ IsState(s)
  BY <1>4, <1>5, ScaledIsQuiet, QuietSteps DEF Quiet, Remembers
<1>9. /\ Remembers(s, q) /\ IsState(a) /\ IsState(q) /\ q.value_stack = d.value_stack
  <2>1. Quiet(s, a) /\ IsState(a)
    BY <1>6, <1>8, QuietSteps DEF Quiet, Remembers
  <2>2. Fields(q, a.value_stack, a.registers_table \ {r.data}, a.loaded, a.reported,
               a.out_of_registers)
    BY <1>7, <2>1, Small
  <2>3. Remembers(a, q)
    BY <1>7, <2>1, SmallRemember
  <2> QED
    BY <1>8, <2>1, <2>2, <2>3, RemembersTwice DEF Quiet, Remembers, Fields
<1>10. c = Behind(q, l) \/ c = Reported(d)
  BY <1>2, <1>3, <1>5, <1>6, <1>7 DEF Element
<1>11. ~c.reported /\ ~c.out_of_registers
  BY <1>3
<1>12. c = Behind(q, l)
  BY <1>4, <1>10, <1>11, SmallRemember
<1>13. ~s.reported /\ ~s.out_of_registers /\ ~d.reported
  BY <1>8, <1>9, <1>11, <1>12, BehindRemembers DEF Remembers, Quiet
<1>14. /\ Typed(d) /\ l.data # r.data /\ {l.data, r.data} \subseteq d.registers_table
       /\ Around(d, l.data, r.data) \subseteq Spare(b, 2) /\ Sized(l)
       /\ \E k : /\ Carries(d, k) /\ Keeps(m, k, Spare(b, 2))
                 /\ IsFor(k, l, Lower(b, m)) /\ IsFor(k, r, Upper(b, m))
  BY <1>1, <1>2, <1>13, TwoAreLoaded
<1>15. PICK k : /\ Carries(d, k) /\ Keeps(m, k, Spare(b, 2)) /\ IsFor(k, l, L) /\ IsFor(k, r, R)
  BY <1>14
<1>16. PICK v, w : /\ v = Holds(k, l.data) /\ w = Holds(k, r.data)
                   /\ v = Source!Read(L) /\ w = Source!Read(R)
  BY <1>15 DEF IsFor, Holds
<1>17. /\ Waits(l) /\ Waits(r)
       /\ l.info.depth > 0 => L.type = l.info
       /\ Source!Primitive(R.type) = r.dynamic /\ R.type.depth = r.info.depth
       /\ l.data \in Registers /\ r.data \in Registers /\ r.dynamic \in Primitives
       /\ l.info.depth \in Nat /\ l.info.depth # 0 /\ r.info.depth = 0
  <2>1. /\ Waits(l) /\ Waits(r)
        /\ l.info.depth > 0 => L.type = l.info
        /\ Source!Primitive(R.type) = r.dynamic /\ R.type.depth = r.info.depth
    BY <1>15 DEF IsFor
  <2>2. (Source!Numeric(L) <=> l.info.depth = 0) /\ (Source!Numeric(R) <=> r.info.depth = 0)
    BY <1>15, ReadAs
  <2> QED
    BY <2>1, <2>2, WaitingType DEF Waits
<1>18. /\ l.info.base # "Invalid" /\ L.type = l.info /\ l.info.depth > 0
       /\ z = AlignedSize(l.info.base) /\ z \in Int
  <2>1. l.info.depth > 0
    BY <1>17
  <2>2. l.info.depth > 0 => l.info.base # "Invalid"
    BY <1>17, WaitingType
  <2>3. AlignedSize(l.info.base) \in Int
    BY TranslatorAssumption DEF AlignedSize
  <2> QED
    BY <1>17, <2>1, <2>2, <2>3
<1>19. /\ "Real" \notin {l.dynamic, r.dynamic}
       /\ \E i : /\ Carries(s, i)
                 /\ Keeps(k, i, Around(d, r.data, r.data))
                 /\ Holds(i, r.data) = Product(Holds(k, r.data), Number("UInt", z), r.dynamic)
  <2>1. s = Scaled(d, l, r, r.dynamic)
    BY <1>5, <1>18
  <2>2. ~Scaled(d, l, r, r.dynamic).reported /\ ~Scaled(d, l, r, r.dynamic).out_of_registers
    BY <1>13, <2>1
  <2>3. r.data \in d.registers_table
    BY <1>14
  <2>4. /\ "Real" \notin {l.dynamic, r.dynamic}
        /\ \E i : /\ Carries(s, i)
                  /\ Keeps(k, i, Around(d, r.data, r.data))
                  /\ Holds(i, r.data) =
                       Product(Holds(k, r.data), Number("UInt", AlignedSize(l.info.base)),
                               r.dynamic)
    BY <1>4, <1>15, <1>17, <2>1, <2>2, <2>3, ScaledCarries
  <2> QED
    BY <1>18, <2>4
<1>20. PICK i : /\ Carries(s, i)
                /\ Keeps(k, i, Around(d, r.data, r.data))
                /\ Holds(i, r.data) = Product(w, Number("UInt", z), r.dynamic)
  BY <1>16, <1>19
<1>21. Holds(i, l.data) = v
  BY <1>14, <1>16, <1>17, <1>20 DEF Keeps, Around, Holds
<1>22. PICK x : x = Addition(v, Product(w, Number("UInt", z), "UInt"), "UInt")
  OBVIOUS
<1>23. /\ r.dynamic \in {"Int", "UInt"} /\ Known(x)
  <2>1. r.dynamic # "Real" /\ R.type.base # "Real"
    <3>1. Source!Primitive(R.type) = Analog(R.type.base)
      BY <1>17, SameBytes DEF Source!Primitive
    <3> QED
      BY <1>17, <1>19, <3>1 DEF Analog
  <2> QED
    BY <1>16, <1>17, <1>22, <2>1 DEF Primitives
<1>24. v \in MSLValue /\ w \in MSLValue /\ k \in Machines /\ i \in Machines
  <2>1. k \in Machines /\ i \in Machines
    BY <1>15, <1>20 DEF Carries
  <2>2. \A y \in Registers : k.registers[y] \in MSLValue
    BY <2>1 DEF Machines
  <2> QED
    BY <1>16, <1>17, <2>1, <2>2 DEF Holds
<1>25. /\ Addition(v, Product(w, Number("UInt", z), r.dynamic), r.dynamic) = x
       /\ x.n = v.n + w.n * z /\ x \in MSLValue
  BY <1>18, <1>22, <1>23, <1>24, ElementAddress
<1>26. PICK j : j = Put(i, l.data, x)
  OBVIOUS
<1>27. /\ j \in Machines /\ j.memory = i.memory /\ Holds(j, l.data) = x
       /\ \A t \in Registers : t # l.data => j.registers[t] = i.registers[t]
  <2>1. PICK y : y = l.data
    OBVIOUS
  <2>2. j = Put(i, y, x) /\ y \in Registers
    BY <1>17, <1>26, <2>1
  <2>3. /\ j \in Machines /\ j.memory = i.memory /\ j.registers[y] = x
        /\ \A t \in Registers : t # y => j.registers[t] = i.registers[t]
    <3>1. i \in Machines /\ x \in MSLValue /\ y \in Registers
      BY <1>24, <1>25, <2>2
    <3>2. /\ Put(i, y, x) \in Machines /\ Put(i, y, x).memory = i.memory
          /\ Put(i, y, x).registers[y] = x
          /\ \A t \in Registers : t # y => Put(i, y, x).registers[t] = i.registers[t]
      BY <3>1, Puts
    <3> QED
      BY <2>2, <3>2
  <2> QED
    BY <2>1, <2>3 DEF Holds
<1>28. Execute(i, <<"ADD", r.dynamic, l.data, l.data, r.data>>) = j
  <2>1. Execute(i, <<"ADD", r.dynamic, l.data, l.data, r.data>>) =
          Put(i, l.data, Addition(Holds(i, l.data), Holds(i, r.data), r.dynamic))
    <3>1. PICK u, y : u = l.data /\ y = r.data
      OBVIOUS
    <3>2. u \in Registers /\ y \in Registers
      BY <1>17, <3>1
    <3>3. Execute(i, <<"ADD", r.dynamic, u, u, y>>) =
            Put(i, u, Addition(i.registers[u], i.registers[y], r.dynamic))
      BY <1>24, <3>2, Scaling, ZenonT(40)
    <3> QED
      BY <3>1, <3>3 DEF Holds
  <2> QED
    BY <1>20, <1>21, <1>25, <1>26, <2>1
<1>29. Carries(q, j)
  <2>1. Carries(a, j)
    BY <1>6, <1>8, <1>20, <1>27, <1>28, Carrying
  <2> QED
    BY <1>7, <1>9, <2>1, Carrying
<1>30. PICK new : new = Dereferenced(l)
  OBVIOUS
<1>31. j.memory = machine.memory
  BY <1>15, <1>20, <1>27 DEF Keeps, Works
<1>32. /\ c.value_stack = Append(q.value_stack, new) /\ Sized(new)
       /\ \E h : /\ Carries(c, h) /\ Keeps(j, h, {l.data}) /\ Stands(h, new)
                 /\ Operand(h, new) = Source!Follow(Holds(j, l.data).n, l.info)
  <2>1. Known(Holds(j, l.data)) /\ IsState(q) /\ Waits(l) /\ l.info.depth > 0
    BY <1>9, <1>17, <1>18, <1>23, <1>27
  <2> QED
    BY <1>12, <1>14, <1>29, <1>30, <1>31, <2>1, BehindGives
<1>33. PICK h : /\ Carries(c, h) /\ Keeps(j, h, {l.data}) /\ Stands(h, new)
                /\ Operand(h, new) = Source!Follow(x.n, l.info)
  BY <1>27, <1>32
<1>34. Keeps(m, h, Spare(b, 2))
  <2>1. Keeps(k, h, Around(d, l.data, r.data))
    BY <1>20, <1>27, <1>33 DEF Keeps, Around
  <2> QED
    BY <1>14, <1>15, <2>1 DEF Keeps
<1>35. d.value_stack \in Seq(Frames) /\ q.value_stack = d.value_stack
  BY <1>9, <1>14 DEF Typed
<1>36. Turns(b, c, 2, m, Source!Follow(x.n, l.info))
  BY <1>32, <1>33, <1>34, <1>35, PushedTurns
<1> QED
  BY <1>3, <1>16, <1>17, <1>18, <1>25, <1>36

(* The value is brought to the type of the left operand. *)
LEMMA FittedCarries ==
  ASSUME NEW d, IsState(d), NEW k, Carries(d, k), NEW left, Stands(k, left),
         AtFixedAddress(left) \/ left.source = "DynamicAddress",
         NEW g, NEW R, IsFor(k, g, R)
  PROVE  LET x == Source!As(R, left.dynamic)
         IN /\ x \in MSLValue /\ IsState(Fitted(d, left, g))
            /\ Carries(Fitted(d, left, g), Put(k, g.data, x))
<1>1. PICK p \in Primitives : p = g.dynamic
  BY WaitingType DEF IsFor
<1>2. PICK q \in Primitives : q = left.dynamic
  BY FrameFields DEF Stands
<1>3. PICK r \in Registers : r = g.data
  BY DEF IsFor, Waits
<1>4. IsPointer(left) => q = "UInt"
  <2>1. Shaped(left)
    BY DEF Stands
  <2> QED
    BY <1>2, <2>1 DEF Shaped
<1>5. Fitted(d, left, g) = Conversion(d, p, q, r)
  BY <1>1, <1>2, <1>3, <1>4 DEF Fitted, Conversion
<1>6. Source!As(R, q) = Cast(k.registers[r], p, q)
  BY <1>1, <1>3, ReadAs
<1>7. k \in Machines /\ k.registers[r] \in MSLValue
  BY DEF Carries, Machines
<1>8. Cast(k.registers[r], p, q) \in MSLValue
  BY <1>7, CastIsValue
<1>9. /\ IsState(Conversion(d, p, q, r))
      /\ Carries(Conversion(d, p, q, r), Put(k, r, Cast(k.registers[r], p, q)))
  BY ConversionCarries
<1> QED
  BY <1>2, <1>3, <1>5, <1>6, <1>8, <1>9

(* A store.  What a pointer points to is stored with the size of a pointer. *)
LEMMA StoredCarries ==
  ASSUME NEW d, IsState(d), NEW k, Carries(d, k), k.memory = machine.memory,
         NEW left, Stands(k, left),
         AtFixedAddress(left) \/ left.source = "DynamicAddress",
         left.source = "DynamicAddress" => left.info.base # "Char",
         NEW g, NEW R, IsFor(k, g, R), InRegister(left) => left.data # g.data,
         NEW L, L = Operand(k, left)
  PROVE  /\ L.place \in Addresses
         /\ \E h : /\ Carries(Stored(d, left, g), h)
                   /\ Writes(k, h, {g.data}, L.place, Source!SizeOf(L.type),
                             Source!As(R, Source!Primitive(L.type)))
<1>1. PICK x : x = Source!As(R, left.dynamic)
  OBVIOUS
<1>2. PICK r \in Registers : r = g.data
  BY DEF IsFor, Waits
<1>3. PICK n : n = Put(k, r, x)
  OBVIOUS
<1>4. PICK q : q = Fitted(d, left, g)
  OBVIOUS
<1>5. x \in MSLValue /\ IsState(q) /\ Carries(q, n) /\ k \in Machines
  <2>1. x \in MSLValue /\ IsState(q) /\ Carries(q, Put(k, g.data, x))
    BY <1>1, <1>4, FittedCarries
  <2> QED
    BY <1>2, <1>3, <2>1 DEF Carries
<1>6. /\ n \in Machines /\ n.memory = k.memory /\ n.registers[r] = x
      /\ \A s \in Registers : s # r => n.registers[s] = k.registers[s]
  BY <1>3, <1>5, Puts
<1>7. Source!Primitive(L.type) = left.dynamic /\ L.type = left.info
  <2>1. L.type = Type(left) /\ Source!Primitive(Type(left)) = left.dynamic
    BY <1>5, TypeOfOperand
  <2>2. Type(left) = left.info
    BY DEF Type
  <2> QED
    BY <2>1, <2>2
<1>8. PICK z \in Nat : z = left.staticSize /\ z = Source!SizeOf(L.type)
  <2>1. left \in Frames /\ Shaped(left) /\ left.info.depth \in Nat
    BY FrameFields DEF Stands
  <2>2. SizeOf(left.info) \in Nat \ {0} /\ Source!SizeOf(left.info) = SizeOf(left.info)
    BY <2>1, SizeOfOperand
  <2>3. left.staticSize = SizeOf(left.info)
    <3>1. CASE AtFixedAddress(left)
      BY <2>1, <3>1 DEF Shaped
    <3>2. CASE left.source = "DynamicAddress"
      <4>1. left.staticSize = Size /\ left.info.base # "Char"
        BY <2>1, <3>2 DEF Shaped
      <4> QED
        BY <4>1 DEF SizeOf, AlignedSize
    <3> QED
      BY <3>1, <3>2
  <2> QED
    BY <1>7, <2>2, <2>3
<1>9. /\ AtFixedAddress(left) => L.place = AddressIn(Argument(left))
      /\ left.source = "DynamicAddress" => L.place = k.registers[left.data].n
  BY <1>5, OperandRead
<1>10. L.place \in Addresses
  <2>1. CASE AtFixedAddress(left)
    BY <1>9, <2>1, FixedAddress DEF Stands
  <2>2. CASE left.source = "DynamicAddress"
    BY <1>9, <2>2 DEF Stands, Known
  <2> QED
    BY <2>1, <2>2
<1>11. PICK A \in Addresses : A = L.place
  BY <1>10
<1>12. PICK h : h = Written(n, A, r, z)
  OBVIOUS
<1>13. /\ h \in Machines /\ h.registers = n.registers
       /\ h.memory = WithBytes(n.memory, A, z, n.registers[r])
  BY <1>6, <1>12, Storing, ZenonT(40)
<1>14. Writes(k, h, {r}, A, z, x)
  BY <1>6, <1>13 DEF Writes
<1>15. Carries(Stored(d, left, g), h)
  <2>1. CASE AtFixedAddress(left)
    <3>1. PICK a : a = Argument(left)
      OBVIOUS
    <3>2. Execute(n, <<"STORE_STATIC", a, r, z>>) = h
      <4>1. Execute(n, <<"STORE_STATIC", a, r, z>>) = Written(n, AddressIn(a), r, z)
        BY <1>2, <1>6, Storing
      <4> QED
        BY <1>9, <1>11, <1>12, <2>1, <3>1, <4>1
    <3>3. Stored(d, left, g) = Emitted(q, <<"STORE_STATIC", a, r, z>>)
      BY <1>2, <1>4, <1>8, <2>1, <3>1 DEF Stored, AtFixedAddress
    <3> QED
      BY <1>5, <1>13, <3>2, <3>3, Carrying
  <2>2. CASE left.source = "DynamicAddress"
    <3>1. PICK s \in Registers : s = left.data
      BY <2>2 DEF Stands, InRegister
    <3>2. n.registers[s].n = A
      <4>1. s # r
        BY <1>2, <2>2, <3>1 DEF InRegister
      <4>2. n.registers[s] = k.registers[s]
        BY <1>6, <4>1
      <4> QED
        BY <1>9, <1>11, <2>2, <3>1, <4>2
    <3>3. Execute(n, <<"STORE_DYNAMIC", s, r, z>>) = h
      <4>1. Execute(n, <<"STORE_DYNAMIC", s, r, z>>) = Written(n, n.registers[s].n, r, z)
        <5>1. \A u \in Registers : \A y :
                Execute(n, <<"STORE_DYNAMIC", u, r, y>>) = Written(n, n.registers[u].n, r, y)
          BY <1>6, Storing, ZenonT(40)
        <5> QED
          BY <5>1
      <4> QED
        BY <1>12, <3>2, <4>1
    <3>4. Stored(d, left, g) = Emitted(q, <<"STORE_DYNAMIC", s, r, z>>)
      BY <1>2, <1>4, <1>8, <2>2, <3>1 DEF Stored, AtFixedAddress
    <3> QED
      BY <1>5, <1>13, <3>3, <3>4, Carrying
  <2> QED
    BY <2>1, <2>2
<1> QED
  BY <1>1, <1>2, <1>7, <1>10, <1>11, <1>14, <1>15, <1>8

(* Operands whose registers the last j do not have stand for the same.     *)
LEMMA LowerStand ==
  ASSUME NEW b, NEW m, Works(b, m), Apart(b), NEW j \in Nat, j <= Len(b.value_stack),
         NEW h, \A r \in Registers \ Spare(b, j) : h.registers[r] = m.registers[r],
         NEW i \in 1 .. Len(b.value_stack) - j
  PROVE  /\ Stands(h, b.value_stack[i])
         /\ Operand(h, b.value_stack[i]) = Operand(m, b.value_stack[i])
<1>1. PICK n \in Nat : n = Len(b.value_stack)
  BY DEF Works, Typed
<1>2. PICK f : f = b.value_stack[i]
  OBVIOUS
<1>3. Stands(m, f) /\ i \in 1 .. n
  BY <1>1, <1>2 DEF Works
<1>4. ASSUME InRegister(f)
      PROVE  h.registers[f.data] = m.registers[f.data]
  <2>1. PICK r \in Registers : r = f.data
    BY <1>3, <1>4 DEF Stands
  <2>2. Reg(f) = {r}
    BY <1>4, <2>1 DEF Reg
  <2>3. r \in b.registers_table
    BY <1>1, <1>2, <1>3, <2>2 DEF Apart
  <2>4. r \notin Regs(b, j)
    <3>1. ASSUME NEW q \in LastPlaces(b, j)
          PROVE  r \notin Reg(b.value_stack[q])
      <4>1. q \in 1 .. n /\ q # i
        BY <1>1, <3>1 DEF LastPlaces
      <4>2. Reg(f) \cap Reg(b.value_stack[q]) = {}
        BY <1>1, <1>2, <1>3, <4>1 DEF Apart
      <4> QED
        BY <2>2, <4>2
    <3> QED
      BY <3>1 DEF Regs
  <2>5. r \notin Spare(b, j)
    BY <2>3, <2>4 DEF Spare
  <2> QED
    BY <2>1, <2>5
<1>5. Stands(h, f) /\ Operand(h, f) = Operand(m, f)
  BY <1>3, <1>4, SameOperand
<1> QED
  BY <1>2, <1>5

(* What comes after the store gives no command. *)
LEMMA DroppedCarries ==
  ASSUME NEW d, IsState(d), NEW left, NEW g, g = d.loaded[1], NEW h,
         Carries(Stored(d, left, g), h), NEW o, NEW keep \in BOOLEAN
  PROVE  Carries(StoredIn(d, left, o, keep), h)
<1>1. PICK s : s = Stored(d, left, g)
  OBVIOUS
<1>2. IsState(s) /\ Carries(s, h)
  BY <1>1, StoredIsQuiet DEF Quiet, Remembers
<1>3. PICK p : p = Popped(s)
  OBVIOUS
<1>4. IsState(p) /\ Carries(p, h)
  BY <1>2, <1>3, Carrying, SmallRemember DEF Remembers
<1>5. StoredIn(d, left, o, keep) \in {s, Freed(p, p.loaded[1].data), Freed(s, s.loaded[1].data)}
  <2>1. StoredIn(d, left, o, keep) = Dropped(s, o, keep)
    BY <1>1 DEF StoredIn
  <2>2. s.loaded = p.loaded
    BY <1>2, <1>3, Small DEF Fields
  <2> QED
    BY <1>3, <2>1, <2>2 DEF Dropped
<1>6. Carries(Freed(p, p.loaded[1].data), h) /\ Carries(Freed(s, s.loaded[1].data), h)
  BY <1>2, <1>4, Carrying
<1> QED
  BY <1>2, <1>5, <1>6

(* When one operand is loaded, the one below it is on top. *)
LEMMA LeftOnTop ==
  ASSUME NEW b, Typed(b), NEW n \in Nat, n = Len(b.value_stack), n >= 2,
         ~Load(b).reported
  PROVE  LET s == Load(b).value_stack
         IN /\ Typed(Load(b)) /\ s = Front(b.value_stack) /\ Top(Load(b)) = b.value_stack[n - 1]
            /\ s # <<>> /\ Len(s) = n - 1
            /\ \A i \in 1 .. n - 1 : s[i] = b.value_stack[i]
            /\ Front(s) \in Seq(Frames) /\ Len(Front(s)) = n - 2
            /\ \A i \in 1 .. n - 2 : Front(s)[i] = b.value_stack[i]
<1>1. PICK v : v = Front(b.value_stack)
  OBVIOUS
<1>2. b.value_stack # <<>> /\ b.value_stack \in Seq(Frames) /\ n - 1 \in Nat /\ n - 2 \in Nat
  BY DEF Typed
<1>3. Typed(Load(b)) /\ Load(b).value_stack = v
  BY <1>1, <1>2, LoadEffect
<1>4. /\ v \in Seq(Frames) /\ Len(v) = n - 1
      /\ \A i \in 1 .. n - 1 : v[i] = b.value_stack[i]
  BY <1>1, <1>2, WithoutTop
<1>5. v # <<>>
  BY <1>2, <1>4
<1>6. PICK k \in Nat : k = n - 1 /\ k >= 1
  BY <1>2
<1>7. /\ Front(v) \in Seq(Frames) /\ Len(Front(v)) = k - 1
      /\ \A i \in 1 .. k - 1 : Front(v)[i] = v[i]
      /\ Last(v) = v[k]
  BY <1>4, <1>5, <1>6, WithoutTop
<1>8. k - 1 = n - 2 /\ k \in 1 .. n - 1 /\ \A i \in 1 .. n - 2 : i \in 1 .. n - 1 /\ i \in 1 .. k - 1
  BY <1>6
<1> QED
  BY <1>1, <1>3, <1>4, <1>5, <1>6, <1>7, <1>8 DEF Top

(* x = e and x = y = e. *)
LEMMA CopiedCarries ==
  ASSUME NEW b, NEW m, Works(b, m), NEW n \in Nat, n = Len(b.value_stack), n >= 2,
         Apart(b), NEW keep \in BOOLEAN, NEW c, c = Assigned(b, "Nop", keep), ~c.reported,
         NEW L, L = Lower(b, m),
         b.value_stack[n - 1].source = "DynamicAddress" => L.type.base # "Char"
  PROVE  Assigns(b, c, m, keep, Source!As(Upper(b, m), Source!Primitive(L.type)))
<1>1. PICK d : d = Load(b)
  OBVIOUS
<1>2. PICK left, g : left = Top(d) /\ g = d.loaded[1]
  OBVIOUS
<1>3. c = StoredIn(d, left, "Nop", keep)
  BY <1>1, <1>2 DEF Assigned, AssignedLoaded, Evaluated
<1>4. /\ Typed(b) /\ IsState(b) /\ Carries(b, m) /\ m \in Machines
      /\ m.memory = machine.memory /\ b.value_stack # <<>>
  BY DEF Works, Carries, Typed
<1>5. IsState(d)
  BY <1>1, <1>4, LoadRemembers DEF Remembers
<1>6. /\ Remembers(d, c)
      /\ AtFixedAddress(left) \/ left.source = "DynamicAddress"
      /\ keep => c.value_stack = d.value_stack
      /\ ~keep => c.value_stack = Front(d.value_stack)
  BY <1>3, <1>5, StoredInEffect
<1>7. ~d.reported
  BY <1>6 DEF Remembers
<1>8. PICK s : s = d.value_stack
  OBVIOUS
<1>9. /\ left = b.value_stack[n - 1] /\ Len(s) = n - 1 /\ Len(Front(s)) = n - 2
      /\ \A i \in 1 .. n - 1 : s[i] = b.value_stack[i]
      /\ \A i \in 1 .. n - 2 : Front(s)[i] = b.value_stack[i]
  BY <1>1, <1>2, <1>4, <1>7, <1>8, LeftOnTop
<1>10. PICK k : Carries(d, k) /\ Keeps(m, k, Spare(b, 1)) /\ IsFor(k, g, Upper(b, m))
               /\ g.data \in Spare(b, 1)
  BY <1>1, <1>2, <1>4, <1>7, OneIsLoaded
<1>11. /\ k.memory = machine.memory
       /\ \A r \in Registers \ Spare(b, 1) : k.registers[r] = m.registers[r]
  BY <1>4, <1>10 DEF Keeps
<1>12. Stands(k, left) /\ L = Operand(k, left)
  <2>1. n - 1 \in 1 .. Len(b.value_stack) - 1
    OBVIOUS
  <2>2. Stands(k, b.value_stack[n - 1]) /\ Operand(k, b.value_stack[n - 1]) = Operand(m, b.value_stack[n - 1])
    BY <1>11, <2>1, LowerStand
  <2> QED
    BY <1>9, <2>2 DEF Lower
<1>13. InRegister(left) => left.data # g.data
  <2>1. SUFFICES ASSUME InRegister(left) PROVE left.data \notin Spare(b, 1)
    BY <1>10
  <2>2. Reg(left) = {left.data} /\ left.data \in Registers
    BY <1>12, <2>1 DEF Reg, Stands
  <2>3. n \in 1 .. n /\ n - 1 \in 1 .. n /\ n # n - 1
    OBVIOUS
  <2>4. Reg(left) \subseteq b.registers_table /\ Reg(left) \cap Reg(b.value_stack[n]) = {}
    BY <1>9, <2>3 DEF Apart
  <2>5. Regs(b, 1) = Reg(b.value_stack[n])
    BY LastTwo
  <2> QED
    BY <2>2, <2>4, <2>5 DEF Spare
<1>14. PICK x : x = Source!As(Upper(b, m), Source!Primitive(L.type))
  OBVIOUS
<1>15. /\ L.place \in Addresses
       /\ \E h : /\ Carries(Stored(d, left, g), h)
                 /\ Writes(k, h, {g.data}, L.place, Source!SizeOf(L.type), x)
  <2>1. left.source = "DynamicAddress" => left.info.base # "Char"
    <3>1. left.source = "DynamicAddress" => L.type = left.info
      BY <1>12 DEF Operand, AtFixedAddress
    <3> QED
      BY <1>9, <3>1
  <2> QED
    BY <1>5, <1>6, <1>10, <1>11, <1>12, <1>13, <1>14, <2>1, StoredCarries
<1>16. PICK h : /\ Carries(Stored(d, left, g), h)
                /\ Writes(k, h, {g.data}, L.place, Source!SizeOf(L.type), x)
  BY <1>15
<1>17. Carries(c, h)
  BY <1>2, <1>3, <1>5, <1>16, DroppedCarries
<1>18. /\ h.memory = WithBytes(machine.memory, L.place, Source!SizeOf(L.type), x)
       /\ \A r \in Registers \ Spare(b, 1) : h.registers[r] = m.registers[r]
  BY <1>10, <1>11, <1>16 DEF Writes
<1>19. \A i \in 1 .. n - 1 : /\ Stands(h, b.value_stack[i])
                             /\ Operand(h, b.value_stack[i]) = Operand(m, b.value_stack[i])
  BY <1>18, LowerStand
<1>20. CASE keep
  <2>1. SameBelow(b, c, m, h, 1)
    BY <1>6, <1>8, <1>9, <1>19, <1>20 DEF SameBelow
  <2> QED
    BY <1>6, <1>8, <1>9, <1>14, <1>15, <1>17, <1>18, <1>20, <2>1 DEF Assigns
<1>21. CASE ~keep
  <2>1. \A i \in 1 .. n - 2 : i \in 1 .. n - 1
    OBVIOUS
  <2>2. SameBelow(b, c, m, h, 2)
    BY <1>6, <1>8, <1>9, <1>19, <1>21, <2>1 DEF SameBelow
  <2> QED
    BY <1>6, <1>8, <1>9, <1>14, <1>15, <1>17, <1>18, <1>21, <2>2 DEF Assigns
<1> QED
  BY <1>20, <1>21

(* An operator only reads its right operand. *)
LEMMA SameApply ==
  ASSUME NEW o, NEW l, NEW r, NEW q, Source!Primitive(r.type) = Source!Primitive(q.type),
         Source!Read(r) = Source!Read(q)
  PROVE  Source!Apply(o, l, r) = Source!Apply(o, l, q)
<1>1. \A p : Source!As(r, p) = Source!As(q, p)
  BY DEF Source!As
<1>2. Source!CommonType(l, r) = Source!CommonType(l, q)
  BY DEF Source!CommonType
<1> QED
  BY <1>1, <1>2 DEF Source!Apply

(* A frame in a register is for the operand it stands for. *)
LEMMA WaitingIsFor ==
  ASSUME NEW h, NEW g, Waits(g)
  PROVE  IsFor(h, g, Operand(h, g))
<1>1. Operand(h, g) = [place |-> -1, value |-> h.registers[g.data], type |-> Type(g)]
  BY WaitingOperand
<1>2. /\ Source!Primitive(Type(g)) = g.dynamic /\ Type(g).depth = g.info.depth
      /\ g.info.depth > 0 => Type(g) = g.info
  BY WaitingType
<1>3. PICK e : e = Operand(h, g)
  OBVIOUS
<1>4. Source!Read(e) = h.registers[g.data] /\ e.type = Type(g)
  BY <1>1, <1>3 DEF Source!Read, Source!NoPlace
<1> QED
  BY <1>2, <1>3, <1>4 DEF IsFor

(* x o= e loads e and puts it back on top. *)
LEMMA RightPushed ==
  ASSUME NEW b, NEW m, Works(b, m), NEW n \in Nat, n = Len(b.value_stack), n >= 2,
         Apart(b), ~Load(b).reported,
         NEW g, g = Load(b).loaded[1], NEW p, p = Pushed(Load(b), g)
  PROVE  /\ Typed(p) /\ Apart(p) /\ Len(p.value_stack) = n
         /\ \A i \in 1 .. n - 1 : p.value_stack[i] = b.value_stack[i]
         /\ p.out_of_registers = b.out_of_registers
         /\ Spare(p, 1) \subseteq Spare(b, 1) /\ Regs(p, 1) \subseteq Spare(b, 1)
         /\ Registers \ p.registers_table \subseteq Spare(b, 1)
         /\ \E k : /\ Works(p, k) /\ Keeps(m, k, Spare(b, 1))
                   /\ Source!Primitive(Upper(p, k).type) = Source!Primitive(Upper(b, m).type)
                   /\ Upper(p, k).type.depth = Upper(b, m).type.depth
                   /\ Source!Read(Upper(p, k)) = Source!Read(Upper(b, m))
                   /\ Lower(p, k) = Lower(b, m)
<1>1. PICK d : d = Load(b)
  OBVIOUS
<1>2. PICK f : f = Last(b.value_stack)
  OBVIOUS
<1>3. /\ Typed(b) /\ IsState(b) /\ Carries(b, m) /\ m \in Machines
      /\ m.memory = machine.memory /\ b.value_stack # <<>>
      /\ b.value_stack \in Seq(Frames)
  BY DEF Works, Carries, Typed
<1>4. /\ Typed(d) /\ IsState(d) /\ d.value_stack = Front(b.value_stack)
      /\ d.out_of_registers = b.out_of_registers
      /\ InItsRegister(f, g, b, d) /\ Remembers(b, d)
  BY <1>1, <1>2, <1>3, LoadEffect, LoadRemembers DEF Typed
<1>5. PICK k : /\ Carries(d, k) /\ Keeps(m, k, Spare(b, 1)) /\ IsFor(k, g, Upper(b, m))
               /\ Sized(g)
  BY <1>1, <1>3, OneIsLoaded
<1>6. Waits(g) /\ g \in Frames /\ InRegister(g)
  BY <1>4, <1>5 DEF IsFor, InItsRegister, InRegister
<1>7. /\ p.value_stack = Append(Front(b.value_stack), g)
      /\ p.registers_table = d.registers_table /\ p.loaded = d.loaded
      /\ p.out_of_registers = b.out_of_registers
      /\ Remembers(d, p) /\ IsState(p)
  <2>1. /\ Fields(p, Append(d.value_stack, g), d.registers_table, d.loaded, d.reported,
                  d.out_of_registers)
        /\ Remembers(d, p)
    BY <1>1, <1>4, Small, SmallRemember
  <2> QED
    BY <1>4, <2>1 DEF Fields, Remembers
<1>8. Remembers(b, p)
  BY <1>4, <1>7, RemembersTwice
<1>9. OneBecame(b, p, f, g)
  BY <1>2, <1>3, <1>4, <1>6, <1>7, <1>8, OneLoaded
<1>10. /\ Replaces(b, p, 1, 1) /\ KeepsApart(b, p, 1, 1)
       /\ p.value_stack \in Seq(Frames) /\ Last(p.value_stack) = g
  BY <1>9, OneReplaced
<1>11. Typed(p)
  BY <1>4, <1>7, <1>10 DEF Typed
<1>12. Apart(p)
  <2>1. Held(b, {})
    BY DEF Held
  <2>2. Held(p, {})
    BY <1>3, <1>10, <2>1, StaysHeld
  <2> QED
    BY <2>2 DEF Held
<1>13. /\ Len(p.value_stack) = n
       /\ \A i \in 1 .. n - 1 : p.value_stack[i] = b.value_stack[i]
  BY <1>10 DEF Replaces
<1>14. p.value_stack[n] = g
  <2>1. p.value_stack # <<>>
    BY <1>13
  <2>2. Last(p.value_stack) = p.value_stack[Len(p.value_stack)]
    BY <1>10, <2>1, WithoutLast
  <2> QED
    BY <1>10, <1>13, <2>2
<1>15. /\ Spare(p, 1) \subseteq Spare(b, 1) /\ Regs(p, 1) \subseteq Spare(b, 1)
       /\ Registers \ p.registers_table \subseteq Spare(b, 1)
  <2>1. Regs(p, 1) = Reg(g)
    <3>1. Regs(p, 1) = Reg(p.value_stack[n])
      BY <1>13, LastTwo
    <3> QED
      BY <1>14, <3>1
  <2>2. /\ b.registers_table \ Regs(b, 1) \subseteq p.registers_table
        /\ Regs(p, 1) \cap (b.registers_table \ Regs(b, 1)) = {}
    BY <1>10 DEF KeepsApart
  <2>3. Reg(g) \subseteq Registers
    BY DEF Reg
  <2> QED
    BY <2>1, <2>2, <2>3 DEF Spare
<1>16. /\ k.memory = machine.memory /\ k \in Machines
       /\ \A r \in Registers \ Spare(b, 1) : k.registers[r] = m.registers[r]
  BY <1>3, <1>5 DEF Keeps
<1>17. \A i \in 1 .. n - 1 : /\ Stands(k, b.value_stack[i])
                             /\ Operand(k, b.value_stack[i]) = Operand(m, b.value_stack[i])
  BY <1>16, LowerStand
<1>18. Stands(k, g) /\ IsFor(k, g, Operand(k, g))
  BY <1>6, WaitingOperand, WaitingIsFor
<1>19. \A i \in 1 .. n : Stands(k, p.value_stack[i]) /\ Sized(p.value_stack[i])
  <2>1. \A i \in 1 .. n : i = n \/ i \in 1 .. n - 1
    OBVIOUS
  <2>2. \A i \in 1 .. n - 1 : Sized(b.value_stack[i])
    BY DEF Works
  <2> QED
    BY <1>5, <1>13, <1>14, <1>17, <1>18, <2>1, <2>2
<1>20. Carries(p, k)
  BY <1>1, <1>4, <1>5, Carrying
<1>21. Works(p, k)
  BY <1>11, <1>13, <1>16, <1>19, <1>20 DEF Works
<1>22. Upper(p, k) = Operand(k, g)
  BY <1>13, <1>14 DEF Upper
<1>23. /\ Source!Primitive(Upper(p, k).type) = Source!Primitive(Upper(b, m).type)
       /\ Upper(p, k).type.depth = Upper(b, m).type.depth
       /\ Source!Read(Upper(p, k)) = Source!Read(Upper(b, m))
  BY <1>5, <1>18, <1>22 DEF IsFor
<1>24. Lower(p, k) = Lower(b, m)
  <2>1. n - 1 \in 1 .. n - 1
    OBVIOUS
  <2>2. p.value_stack[n - 1] = b.value_stack[n - 1]
    BY <1>13, <2>1
  <2>3. Operand(k, b.value_stack[n - 1]) = Operand(m, b.value_stack[n - 1])
    BY <1>17, <2>1
  <2> QED
    BY <1>13, <2>2, <2>3 DEF Lower
<1> QED
  BY <1>5, <1>11, <1>12, <1>13, <1>7, <1>15, <1>21, <1>23, <1>24

(* What the operator of x o= e leaves: the result in a register that x     *)
(* does not have.                                                          *)
LEMMA OperatorCarries ==
  ASSUME NEW b, NEW m, Works(b, m), NEW n \in Nat, n = Len(b.value_stack), n >= 2,
         Apart(b), ~Load(b).reported, NEW o \in BinaryOperators,
         NEW L, NEW R, L = Lower(b, m), R = Upper(b, m),
         Source!Numeric(R), Source!Numeric(L) \/ o = "Subtract",
         L.type.depth > 0 => Source!ElementSize(L.type) = AlignedSize(L.type.base),
         NEW a, a = BinaryOperation(Pushed(Load(b), Load(b).loaded[1]), o),
         ~a.reported, ~a.out_of_registers
  PROVE  LET new == Last(a.value_stack)
         IN /\ Typed(a) /\ Waits(new) /\ new.data \in Spare(b, 2)
            /\ Len(a.value_stack) = n - 1
            /\ \A i \in 1 .. n - 2 : a.value_stack[i] = b.value_stack[i]
            /\ \E h : /\ Carries(a, h) /\ Keeps(m, h, Spare(b, 2))
                      /\ IsFor(h, new, Source!Apply(o, L, R))
<1>1. PICK g : g = Load(b).loaded[1]
  OBVIOUS
<1>2. PICK p : p = Pushed(Load(b), g)
  OBVIOUS
<1>3. PICK new : new = Last(a.value_stack)
  OBVIOUS
<1>4. /\ Typed(p) /\ Apart(p) /\ Len(p.value_stack) = n
      /\ \A i \in 1 .. n - 1 : p.value_stack[i] = b.value_stack[i]
      /\ Regs(p, 1) \subseteq Spare(b, 1)
      /\ Registers \ p.registers_table \subseteq Spare(b, 1)
      /\ \E k : /\ Works(p, k) /\ Keeps(m, k, Spare(b, 1))
                /\ Source!Primitive(Upper(p, k).type) = Source!Primitive(Upper(b, m).type)
                /\ Upper(p, k).type.depth = Upper(b, m).type.depth
                /\ Source!Read(Upper(p, k)) = Source!Read(Upper(b, m))
                /\ Lower(p, k) = Lower(b, m)
  BY <1>1, <1>2, RightPushed
<1>5. PICK k : /\ Works(p, k) /\ Keeps(m, k, Spare(b, 1))
               /\ Source!Primitive(Upper(p, k).type) = Source!Primitive(R.type)
               /\ Upper(p, k).type.depth = R.type.depth
               /\ Source!Read(Upper(p, k)) = Source!Read(R)
               /\ Lower(p, k) = L
  BY <1>4
<1>6. a = BinaryOperation(p, o)
  BY <1>1, <1>2
<1>7. Source!Numeric(Upper(p, k)) /\ (Source!Numeric(Lower(p, k)) \/ o = "Subtract")
  BY <1>5 DEF Source!Numeric
<1>8. /\ Leaves(p, a, 2, k, Source!Apply(o, Lower(p, k), Upper(p, k))) /\ Waits(new)
  <2>1. ~BinaryOperation(p, o).reported /\ ~BinaryOperation(p, o).out_of_registers
    BY <1>6
  <2> QED
    BY <1>3, <1>4, <1>5, <1>6, <1>7, <2>1, BinaryTurns
<1>9. Source!Apply(o, Lower(p, k), Upper(p, k)) = Source!Apply(o, L, R)
  BY <1>5, SameApply
<1>10. PICK h : /\ Carries(a, h) /\ Keeps(k, h, Spare(p, 2))
                /\ Operand(h, new) = Source!Apply(o, L, R)
  BY <1>3, <1>8, <1>9 DEF Leaves
<1>11. IsFor(h, new, Source!Apply(o, L, R))
  <2>1. IsFor(h, new, Operand(h, new))
    BY <1>8, WaitingIsFor
  <2> QED
    BY <1>10, <2>1
<1>12. /\ Typed(a) /\ Replaces(p, a, 2, 1) /\ KeepsApart(p, a, 2, 1)
  BY <1>4, <1>6, BinaryEffect
<1>13. /\ Len(a.value_stack) = n - 1
       /\ \A i \in 1 .. n - 2 : a.value_stack[i] = b.value_stack[i]
  <2>1. /\ Len(a.value_stack) = n - 2 + 1
        /\ \A i \in 1 .. n - 2 : a.value_stack[i] = p.value_stack[i]
    BY <1>4, <1>12 DEF Replaces
  <2>2. \A i \in 1 .. n - 2 : i \in 1 .. n - 1
    OBVIOUS
  <2> QED
    BY <1>4, <2>1, <2>2
<1>14. /\ Regs(b, 1) \subseteq Regs(b, 2) /\ Regs(p, 2) \subseteq Regs(b, 2) \cup Regs(p, 1)
  <2>1. /\ Regs(b, 1) = Reg(b.value_stack[n])
        /\ Regs(b, 2) = Reg(b.value_stack[n - 1]) \cup Reg(b.value_stack[n])
    BY LastTwo
  <2>2. /\ Regs(p, 1) = Reg(p.value_stack[n])
        /\ Regs(p, 2) = Reg(p.value_stack[n - 1]) \cup Reg(p.value_stack[n])
    BY <1>4, LastTwo
  <2>3. p.value_stack[n - 1] = b.value_stack[n - 1]
    <3>1. n - 1 \in 1 .. n - 1
      OBVIOUS
    <3> QED
      BY <1>4, <3>1
  <2> QED
    BY <2>1, <2>2, <2>3
<1>15. Spare(b, 1) \subseteq Spare(b, 2) /\ Spare(p, 2) \subseteq Spare(b, 2)
  BY <1>4, <1>14 DEF Spare
<1>16. new.data \in Spare(b, 2)
  <2>1. PICK r \in Registers : r = new.data
    BY <1>8 DEF Waits
  <2>2. a.value_stack # <<>> /\ a.value_stack \in Seq(Frames)
    BY <1>12, <1>13 DEF Typed
  <2>3. new = a.value_stack[Len(a.value_stack)]
    BY <1>3, <2>2, WithoutLast
  <2>4. Regs(a, 1) = Reg(a.value_stack[n - 1])
    <3>1. PICK l \in Nat : l = n - 1 /\ l = Len(a.value_stack) /\ l >= 1
      BY <1>13
    <3>2. Regs(a, 1) = Reg(a.value_stack[l])
      BY <3>1, LastFrames
    <3> QED
      BY <3>1, <3>2
  <2>5. Reg(new) = {r}
    BY <1>8, <2>1 DEF Waits, Reg, InRegister
  <2>6. Regs(a, 1) \cap (p.registers_table \ Regs(p, 2)) = {}
    BY <1>12 DEF KeepsApart
  <2>7. r \in Spare(p, 2)
    BY <1>13, <2>3, <2>4, <2>5, <2>6 DEF Spare
  <2> QED
    BY <1>15, <2>1, <2>7
<1>17. Keeps(m, h, Spare(b, 2))
  <2>1. h \in Machines /\ h.memory = m.memory
    BY <1>5, <1>10 DEF Keeps
  <2>2. ASSUME NEW r \in Registers \ Spare(b, 2)
        PROVE  h.registers[r] = m.registers[r]
    <3>1. r \in Registers \ Spare(b, 1) /\ r \in Registers \ Spare(p, 2)
      BY <1>15
    <3> QED
      BY <1>5, <1>10, <3>1 DEF Keeps
  <2> QED
    BY <2>1, <2>2 DEF Keeps
<1> QED
  BY <1>3, <1>8, <1>10, <1>11, <1>12, <1>13, <1>16, <1>17

(* An operand that is in its register is loaded without a command. *)
LEMMA LoadTakesCarries ==
  ASSUME NEW a, Typed(a), NEW n \in Nat, n = Len(a.value_stack), n >= 1,
         NEW new, new = Last(a.value_stack), Waits(new), NEW h, Carries(a, h)
  PROVE  /\ IsState(Load(a)) /\ Carries(Load(a), h) /\ Load(a).loaded[1] = new
         /\ Len(Load(a).value_stack) = n - 1 /\ Load(a).value_stack \in Seq(Frames)
         /\ \A i \in 1 .. n - 1 : Load(a).value_stack[i] = a.value_stack[i]
<1>1. a.value_stack # <<>> /\ a.value_stack \in Seq(Frames) /\ IsState(a)
  BY DEF Typed
<1>2. new.source \in {"Register", "Pointer"}
  BY DEF Waits
<1>3. Load(a) = Returned(Popped(a), new)
  BY <1>1, <1>2 DEF Load, LoadedTop, Top, AtFixedAddress
<1>4. IsState(Popped(a)) /\ Carries(Popped(a), h)
  BY <1>1, Carrying, SmallRemember DEF Remembers
<1>5. Carries(Load(a), h)
  BY <1>3, <1>4, Carrying
<1>6. /\ Load(a).value_stack = Front(a.value_stack) /\ Load(a).loaded[1] = new
      /\ IsState(Load(a))
  BY <1>1, <1>2, LoadTakes DEF Remembers
<1> QED
  BY <1>1, <1>5, <1>6, WithoutTop

(* x o= e and x = y o= e, where y is at a fixed address. *)
LEMMA CompoundCarries ==
  ASSUME NEW b, NEW m, Works(b, m), NEW n \in Nat, n = Len(b.value_stack), n >= 2,
         Apart(b), NEW keep \in BOOLEAN, NEW o \in BinaryOperators,
         b.value_stack[n - 1].source # "DynamicAddress",
         NEW c, c = Assigned(b, o, keep), ~c.reported, ~c.out_of_registers,
         NEW L, NEW R, L = Lower(b, m), R = Upper(b, m),
         Source!Numeric(R), Source!Numeric(L) \/ o = "Subtract",
         L.type.depth > 0 => Source!ElementSize(L.type) = AlignedSize(L.type.base)
  PROVE  Assigns(b, c, m, keep,
                 Source!As(Source!Apply(o, L, R), Source!Primitive(L.type)))
<1>1. PICK d : d = Load(b)
  OBVIOUS
<1>2. PICK left, g : left = Top(d) /\ g = d.loaded[1]
  OBVIOUS
<1>3. PICK a : a = Handle(Pushed(d, g), o)
  OBVIOUS
<1>4. PICK e : e = Load(a)
  OBVIOUS
<1>5. PICK q : q = IF keep THEN Pushed(e, left) ELSE e
  OBVIOUS
<1>6. c = StoredIn(q, left, o, keep) /\ o # "Nop"
  BY <1>1, <1>2, <1>3, <1>4, <1>5 DEF Assigned, AssignedLoaded, Evaluated, BinaryOperators
<1>7. /\ Typed(b) /\ IsState(b) /\ Carries(b, m) /\ m \in Machines
      /\ m.memory = machine.memory /\ b.value_stack # <<>>
  BY DEF Works, Carries, Typed
<1>8. IsState(d)
  BY <1>1, <1>7, LoadRemembers DEF Remembers
<1>9. IsState(a) /\ Remembers(d, a)
  <2>1. Remembers(d, Pushed(d, g)) /\ IsState(Pushed(d, g))
    BY <1>8, SmallRemember DEF Remembers
  <2>2. Remembers(Pushed(d, g), a)
    BY <1>3, <2>1, HandleRemembers
  <2> QED
    BY <2>1, <2>2, RemembersTwice DEF Remembers
<1>10. IsState(e) /\ Remembers(a, e)
  BY <1>4, <1>9, LoadRemembers DEF Remembers
<1>11. /\ Remembers(e, q) /\ IsState(q)
       /\ q.value_stack = IF keep THEN Append(e.value_stack, left) ELSE e.value_stack
       /\ q.loaded = e.loaded
  <2>1. /\ Fields(Pushed(e, left), Append(e.value_stack, left), e.registers_table,
                  e.loaded, e.reported, e.out_of_registers)
        /\ Remembers(e, Pushed(e, left)) /\ Remembers(e, e)
    BY <1>10, Small, SmallRemember
  <2> QED
    BY <1>5, <1>10, <2>1 DEF Fields, Remembers
<1>12. Remembers(q, c)
  BY <1>6, <1>11, StoredInEffect
<1>13. c.value_stack = q.value_stack
  BY <1>6, <1>11, StoredInEffect
<1>14. /\ ~q.reported /\ ~q.out_of_registers /\ ~a.reported /\ ~a.out_of_registers
       /\ ~d.reported
  BY <1>9, <1>10, <1>11, <1>12 DEF Remembers
<1>15. left = b.value_stack[n - 1] /\ AtFixedAddress(left)
  <2>1. left = b.value_stack[n - 1]
    BY <1>1, <1>2, <1>7, <1>14, LeftOnTop
  <2>2. AtFixedAddress(left) \/ left.source = "DynamicAddress"
    BY <1>6, <1>11, StoredInEffect
  <2> QED
    BY <2>1, <2>2
<1>16. a = BinaryOperation(Pushed(d, g), o)
  <2>1. Len(Pushed(d, g).value_stack) = n
    BY <1>1, <1>2, <1>14, RightPushed
  <2>2. ~(n < 2)
    OBVIOUS
  <2> QED
    BY <1>3, <2>1, <2>2 DEF Handle
<1>17. PICK new : new = Last(a.value_stack)
  OBVIOUS
<1>18. PICK E : E = Source!Apply(o, L, R)
  OBVIOUS
<1>19. /\ Typed(a) /\ Waits(new) /\ new.data \in Spare(b, 2)
       /\ Len(a.value_stack) = n - 1
       /\ \A i \in 1 .. n - 2 : a.value_stack[i] = b.value_stack[i]
       /\ \E h : Carries(a, h) /\ Keeps(m, h, Spare(b, 2)) /\ IsFor(h, new, E)
  <2>1. a = BinaryOperation(Pushed(Load(b), Load(b).loaded[1]), o) /\ ~Load(b).reported
    BY <1>1, <1>2, <1>14, <1>16
  <2> QED
    BY <1>14, <1>17, <1>18, <2>1, OperatorCarries
<1>20. PICK h : Carries(a, h) /\ Keeps(m, h, Spare(b, 2)) /\ IsFor(h, new, E)
  BY <1>19
<1>21. /\ Carries(e, h) /\ e.loaded[1] = new
       /\ Len(e.value_stack) = n - 2 /\ e.value_stack \in Seq(Frames)
       /\ \A i \in 1 .. n - 2 : e.value_stack[i] = b.value_stack[i]
  <2>0. PICK l : l = n - 1
    OBVIOUS
  <2>1. l \in Nat /\ l = n - 1 /\ l >= 1 /\ l - 1 = n - 2
    BY <2>0
  <2>2. /\ Carries(Load(a), h) /\ Load(a).loaded[1] = new
        /\ Len(Load(a).value_stack) = l - 1 /\ Load(a).value_stack \in Seq(Frames)
        /\ \A i \in 1 .. l - 1 : Load(a).value_stack[i] = a.value_stack[i]
    BY <1>17, <1>19, <1>20, <2>1, LoadTakesCarries
  <2> QED
    BY <1>4, <1>19, <2>1, <2>2
<1>22. Carries(q, h)
  BY <1>5, <1>10, <1>21, Carrying
<1>23. ~InRegister(left)
  BY <1>15 DEF AtFixedAddress, InRegister
<1>24. /\ Stands(m, left) /\ L = Operand(m, left) /\ left \in Frames
       /\ \A i : Stands(i, left) /\ Operand(i, left) = Operand(m, left)
  <2>1. n - 1 \in 1 .. Len(b.value_stack)
    OBVIOUS
  <2>2. Stands(m, left) /\ L = Operand(m, left)
    BY <1>15, <2>1 DEF Works, Lower
  <2>3. \A i : Stands(i, left) /\ Operand(i, left) = Operand(m, left)
    BY <1>23, <2>2, SameOperand
  <2> QED
    BY <2>2, <2>3 DEF Stands
<1>25. PICK x : x = Source!As(E, Source!Primitive(L.type))
  OBVIOUS
<1>26. h.memory = machine.memory
  BY <1>7, <1>20 DEF Keeps
<1>27. /\ L.place \in Addresses
       /\ \E i : /\ Carries(Stored(q, left, new), i)
                 /\ Writes(h, i, {new.data}, L.place, Source!SizeOf(L.type), x)
  <2>1. /\ Stands(h, left) /\ L = Operand(h, left)
        /\ AtFixedAddress(left) \/ left.source = "DynamicAddress"
        /\ InRegister(left) => left.data # new.data
        /\ left.source = "DynamicAddress" => left.info.base # "Char"
    BY <1>15, <1>23, <1>24 DEF InRegister
  <2> QED
    BY <1>11, <1>20, <1>22, <1>25, <1>26, <2>1, StoredCarries
<1>28. PICK i : /\ Carries(Stored(q, left, new), i)
                /\ Writes(h, i, {new.data}, L.place, Source!SizeOf(L.type), x)
  BY <1>27
<1>29. Carries(c, i)
  <2>1. q.loaded[1] = new
    BY <1>11, <1>21
  <2> QED
    BY <1>6, <1>11, <1>28, <2>1, DroppedCarries
<1>30. /\ i.memory = WithBytes(machine.memory, L.place, Source!SizeOf(L.type), x)
       /\ \A r \in Registers \ Spare(b, 2) : i.registers[r] = m.registers[r]
  BY <1>19, <1>20, <1>26, <1>28 DEF Writes, Keeps
<1>31. \A t \in 1 .. n - 2 : /\ Stands(i, b.value_stack[t])
                             /\ Operand(i, b.value_stack[t]) = Operand(m, b.value_stack[t])
  BY <1>30, LowerStand
<1>32. CASE keep
  <2>1. c.value_stack = Append(e.value_stack, left)
    BY <1>11, <1>13, <1>32
  <2>2. /\ Len(c.value_stack) = n - 1 /\ c.value_stack[n - 1] = left
        /\ \A t \in 1 .. n - 2 : c.value_stack[t] = b.value_stack[t]
    <3>1. PICK v : v = e.value_stack
      OBVIOUS
    <3>2. v \in Seq(Frames) /\ Len(v) = n - 2 /\ \A t \in 1 .. n - 2 : v[t] = b.value_stack[t]
      BY <1>21, <3>1
    <3>3. /\ Len(Append(v, left)) = Len(v) + 1 /\ Append(v, left)[Len(v) + 1] = left
          /\ \A t \in 1 .. Len(v) : Append(v, left)[t] = v[t]
      BY <1>24, <3>2, AppendProperties
    <3>4. n - 2 + 1 = n - 1
      OBVIOUS
    <3> QED
      BY <2>1, <3>1, <3>2, <3>3, <3>4
  <2>3. SameBelow(b, c, m, i, 1)
    <3>1. ASSUME NEW t \in 1 .. n - 1
          PROVE  /\ c.value_stack[t] = b.value_stack[t] /\ Stands(i, c.value_stack[t])
                 /\ Operand(i, c.value_stack[t]) = Operand(m, b.value_stack[t])
      <4>1. CASE t = n - 1
        BY <1>15, <1>24, <2>2, <4>1
      <4>2. CASE t # n - 1
        <5>1. t \in 1 .. n - 2
          BY <4>2
        <5> QED
          BY <1>31, <2>2, <5>1
      <4> QED
        BY <4>1, <4>2
    <3> QED
      BY <3>1 DEF SameBelow
  <2> QED
    BY <1>18, <1>25, <1>27, <1>29, <1>30, <1>32, <2>2, <2>3 DEF Assigns
<1>33. CASE ~keep
  <2>1. c.value_stack = e.value_stack
    BY <1>11, <1>13, <1>33
  <2>2. SameBelow(b, c, m, i, 2)
    BY <1>21, <1>31, <2>1 DEF SameBelow
  <2> QED
    BY <1>18, <1>21, <1>25, <1>27, <1>29, <1>30, <1>33, <2>1, <2>2 DEF Assigns
<1> QED
  BY <1>32, <1>33

-----------------------------------------------------------------------------
(* From what handlers compute to steps of ExpressionPromise.               *)

(* Between two operations without a message, the state is as the lemmas on *)
(* handlers ask.                                                           *)
LEMMA StateWorks ==
  ASSUME TypeInv, ApartInv, Meaningful, Good(b_state)
  PROVE  /\ Works(b_state, machine) /\ Apart(b_state) /\ Typed(b_state)
         /\ IsState(b_state) /\ Len(b_state.value_stack) \in Nat
<1>1. Typed(b_state) /\ IsState(b_state)
  BY StateIsTyped DEF Good, Typed
<1>2. b_state.result = <<>>
  BY DEF TypeInv, Rests
<1>3. /\ machine \in Machines
      /\ \A i \in 1 .. Len(b_state.value_stack) :
           Stands(machine, b_state.value_stack[i]) /\ Sized(b_state.value_stack[i])
  BY DEF Meaningful
<1>4. Carries(b_state, machine)
  BY <1>2, <1>3, CarriesNothing
<1>5. Apart(b_state)
  BY DEF ApartInv, ApartFrom, Held, Good
<1> QED
  BY <1>1, <1>3, <1>4, <1>5 DEF Works, Typed

(* The operands of ExpressionPromise are those the frames stand for. *)
LEMMA SourceOperands ==
  ASSUME NEW n \in Nat, n = Len(b_state.value_stack)
  PROVE  /\ Source!Count = n
         /\ n >= 1 => Source!Right = Upper(b_state, machine)
         /\ n >= 2 => Source!Left = Lower(b_state, machine)
         /\ \A j \in 0 .. n : Source!Below(j) = MeantBelow(b_state, machine, j)
<1>1. PICK s : s = Meant(b_state, machine)
  OBVIOUS
<1>2. /\ s \in Seq({Operand(machine, b_state.value_stack[i]) : i \in 1 .. n})
      /\ Len(s) = n /\ \A i \in 1 .. n : s[i] = Operand(machine, b_state.value_stack[i])
  BY <1>1 DEF Meant
<1>3. /\ Source!Count = Len(s) /\ Source!Right = s[Len(s)] /\ Source!Left = s[Len(s) - 1]
      /\ \A j : Source!Below(j) = SubSeq(s, 1, Len(s) - j)
  BY <1>1 DEF Source!Count, Source!Right, Source!Left, Source!Below, Meant
<1>4. n >= 1 => Source!Right = Upper(b_state, machine)
  BY <1>2, <1>3 DEF Upper
<1>5. n >= 2 => Source!Left = Lower(b_state, machine)
  <2>1. n >= 2 => n - 1 \in 1 .. n
    OBVIOUS
  <2> QED
    BY <1>2, <1>3, <2>1 DEF Lower
<1>6. ASSUME NEW j \in 0 .. n
      PROVE  Source!Below(j) = MeantBelow(b_state, machine, j)
  <2>1. SubSeq(s, 1, n - j) = [i \in 1 .. n - j |-> s[i]]
    BY <1>2
  <2>2. \A i \in 1 .. n - j : i \in 1 .. n
    OBVIOUS
  <2>3. \A i \in 1 .. n - j : s[i] = Operand(machine, b_state.value_stack[i])
    BY <1>2, <2>2
  <2> QED
    BY <1>2, <1>3, <2>1, <2>3 DEF MeantBelow
<1> QED
  BY <1>2, <1>3, <1>4, <1>5, <1>6

(* After the operation, the machine is the one that its commands make. *)
LEMMA Translated ==
  ASSUME NEW o, NEW c, Translate(o, c), IsState(c), NEW h, Carries(c, h)
  PROVE  /\ op' = o /\ machine' = h /\ h \in Machines
         /\ b_state'.value_stack = c.value_stack
         /\ b_state'.reported = c.reported /\ b_state'.out_of_registers = c.out_of_registers
         /\ b_state'.registers_table = c.registers_table
<1>1. PICK d : d = [c EXCEPT !.result = <<>>, !.loaded = <<>>]
  OBVIOUS
<1>2. b_state' = d /\ op' = o /\ machine' = h /\ h \in Machines
  BY <1>1 DEF Translate, Carries
<1>3. Fields(d, c.value_stack, c.registers_table, <<>>, c.reported, c.out_of_registers)
  BY <1>1, Clearing
<1> QED
  BY <1>2, <1>3 DEF Fields

(* One operand more than the ones below. *)
LEMMA AppendMeant ==
  ASSUME NEW b, NEW m, NEW j, Len(b.value_stack) - j \in Nat,
         NEW c, NEW h, Len(c.value_stack) = Len(b.value_stack) - j + 1,
         SameBelow(b, c, m, h, j)
  PROVE  Meant(c, h) = MeantWith(b, m, j, Upper(c, h))
<1>0. PICK k \in Nat : k = Len(b.value_stack) - j
  OBVIOUS
<1>2. PICK e : e = Upper(c, h) /\ e = Operand(h, c.value_stack[k + 1])
  BY <1>0 DEF Upper
<1>1. PICK s, t : s = MeantBelow(b, m, j) /\ t = Meant(c, h)
  OBVIOUS
<1>3. \A i \in 1 .. k : Operand(h, c.value_stack[i]) = Operand(m, b.value_stack[i])
  BY <1>0 DEF SameBelow
<1>4. /\ s = [i \in 1 .. k |-> Operand(m, b.value_stack[i])]
      /\ t = [i \in 1 .. k + 1 |-> Operand(h, c.value_stack[i])]
  BY <1>0, <1>1 DEF Meant, MeantBelow
<1>5. PICK S : S = {Operand(m, b.value_stack[i]) : i \in 1 .. k} \cup {e}
  OBVIOUS
<1>6. s \in Seq(S) /\ Len(s) = k /\ e \in S
  <2>1. \A i \in 1 .. k : Operand(m, b.value_stack[i]) \in S
    BY <1>5
  <2> QED
    BY <1>4, <1>5, <2>1
<1>7. Append(s, e) = [i \in 1 .. k + 1 |-> IF i = k + 1 THEN e ELSE s[i]]
  <2>1. PICK u : u = Append(s, e)
    OBVIOUS
  <2>2. /\ u \in Seq(S) /\ Len(u) = k + 1 /\ u[k + 1] = e
        /\ \A i \in 1 .. k : u[i] = s[i]
    BY <1>6, <2>1, AppendProperties
  <2>3. u = [i \in 1 .. k + 1 |-> u[i]]
    BY <2>2
  <2>4. \A i \in 1 .. k + 1 : u[i] = IF i = k + 1 THEN e ELSE s[i]
    BY <2>2
  <2> QED
    BY <2>1, <2>3, <2>4
<1>8. ASSUME NEW i \in 1 .. k + 1
      PROVE  Operand(h, c.value_stack[i]) = IF i = k + 1 THEN e ELSE s[i]
  <2>1. CASE i = k + 1
    BY <1>2, <2>1
  <2>2. CASE i # k + 1
    <3>1. i \in 1 .. k
      BY <2>2
    <3> QED
      BY <1>3, <1>4, <2>2, <3>1
  <2> QED
    BY <2>1, <2>2
<1> QED
  BY <1>1, <1>2, <1>4, <1>7, <1>8 DEF MeantWith

(* A step that replaced the last operands by one. *)
LEMMA OperandReplaced ==
  ASSUME TypeInv, ApartInv, Meaningful, Good(b_state),
         NEW o, NEW c, Translate(o, c), Good(c),
         NEW j \in Nat, Replaces(b_state, c, j, 1),
         NEW e, Turns(b_state, c, j, machine, e)
  PROVE  /\ Meaningful' /\ op' = o /\ j <= Source!Count
         /\ Source!Becomes(Append(Source!Below(j), e))
<1>1. PICK b, m : b = b_state /\ m = machine
  OBVIOUS
<1>2. PICK n \in Nat : n = Len(b.value_stack)
  BY <1>1, StateWorks
<1>3. Works(b, m) /\ Apart(b)
  BY <1>1, StateWorks
<1>4. /\ IsState(c) /\ c.value_stack \in Seq(Frames) /\ j <= n
      /\ Len(c.value_stack) = n - j + 1
      /\ \A i \in 1 .. n - j : c.value_stack[i] = b.value_stack[i]
  BY <1>1, <1>2 DEF Replaces, Remembers
<1>5. PICK h : /\ Carries(c, h) /\ Keeps(m, h, Spare(b, j))
               /\ Stands(h, Last(c.value_stack)) /\ Operand(h, Last(c.value_stack)) = e
               /\ Sized(Last(c.value_stack))
  BY <1>1 DEF Turns, Leaves
<1>6. PICK k \in Nat : k = n - j
  BY <1>4
<1>7. Last(c.value_stack) = c.value_stack[k + 1]
  <2>1. c.value_stack # <<>>
    BY <1>4, <1>6
  <2> QED
    BY <1>4, <1>6, <2>1, WithoutLast
<1>8. \A i \in 1 .. n - j : /\ Stands(h, b.value_stack[i])
                            /\ Operand(h, b.value_stack[i]) = Operand(m, b.value_stack[i])
  <2>1. \A r \in Registers \ Spare(b, j) : h.registers[r] = m.registers[r]
    BY <1>5 DEF Keeps
  <2>2. Works(b, m) /\ Apart(b) /\ j <= Len(b.value_stack)
    BY <1>2, <1>3, <1>4
  <2>3. \A i \in 1 .. Len(b.value_stack) - j :
          /\ Stands(h, b.value_stack[i])
          /\ Operand(h, b.value_stack[i]) = Operand(m, b.value_stack[i])
    BY <2>1, <2>2, LowerStand
  <2> QED
    BY <1>2, <2>3
<1>9. SameBelow(b, c, m, h, j)
  BY <1>2, <1>4, <1>8 DEF SameBelow
<1>10. Meant(c, h) = MeantWith(b, m, j, e)
  <2>1. Upper(c, h) = e
    BY <1>4, <1>5, <1>6, <1>7 DEF Upper
  <2>2. Len(c.value_stack) = Len(b.value_stack) - j + 1 /\ Len(b.value_stack) - j \in Nat
    BY <1>2, <1>4, <1>6
  <2>3. Meant(c, h) = MeantWith(b, m, j, Upper(c, h))
    BY <1>9, <2>2, AppendMeant, SMTT(30)
  <2> QED
    BY <2>1, <2>3
<1>11. \A i \in 1 .. Len(c.value_stack) :
         Stands(h, c.value_stack[i]) /\ Sized(c.value_stack[i])
  <2>0. \A i \in 1 .. n - j : i \in 1 .. n /\ Sized(b.value_stack[i])
    BY <1>2, <1>3, <1>4 DEF Works
  <2>1. \A i \in 1 .. k : Stands(h, c.value_stack[i]) /\ Sized(c.value_stack[i])
    BY <1>4, <1>6, <1>8, <2>0
  <2>2. \A i \in 1 .. k + 1 : i = k + 1 \/ i \in 1 .. k
    OBVIOUS
  <2> QED
    BY <1>4, <1>5, <1>6, <1>7, <2>1, <2>2
<1>12. /\ op' = o /\ machine' = h /\ h \in Machines
       /\ b_state'.value_stack = c.value_stack
       /\ b_state'.reported = c.reported /\ b_state'.out_of_registers = c.out_of_registers
  BY <1>4, <1>5, Translated
<1>13. Meaningful'
  BY <1>11, <1>12 DEF Meaningful, Good
<1>14. Source!Below(j) = MeantBelow(b, m, j) /\ Source!Count = n
  <2>1. j \in 0 .. n
    BY <1>4
  <2> QED
    BY <1>1, <1>2, <2>1, SourceOperands
<1>15. Meant(b_state, machine)' = Append(Source!Below(j), e)
  BY <1>10, <1>12, <1>14 DEF Meant, MeantWith
<1>16. machine'.memory = machine.memory
  BY <1>1, <1>5, <1>12 DEF Keeps
<1>17. Source!Becomes(Append(Source!Below(j), e))
  BY <1>12, <1>15, <1>16 DEF Source!Becomes, Meant, Good
<1> QED
  BY <1>4, <1>12, <1>13, <1>14, <1>17

(* The state before an operation that ended without a message. *)
LEMMA GoodBefore ==
  ASSUME NEW o, NEW c, Translate(o, c), Remembers(b_state, c), Good(b_state)'
  PROVE  Good(c) /\ Good(b_state) /\ IsState(c)
<1>1. PICK d : d = [c EXCEPT !.result = <<>>, !.loaded = <<>>]
  OBVIOUS
<1>2. b_state' = d /\ IsState(c)
  BY <1>1 DEF Translate, Remembers
<1>3. Fields(d, c.value_stack, c.registers_table, <<>>, c.reported, c.out_of_registers)
  BY <1>1, <1>2, Clearing
<1>4. Good(c)
  BY <1>2, <1>3 DEF Fields, Good
<1> QED
  BY <1>2, <1>4 DEF Remembers, Good

(* A handler replaced the last operands by e. *)
LEMMA HandlerFollows ==
  ASSUME Sound, Good(b_state)', NEW o, NEW c, Translate(o, c),
         NEW j \in Nat, Replaces(b_state, c, j, 1),
         NEW e, Turns(b_state, c, j, machine, e)
  PROVE  /\ Meaningful' /\ op' = o /\ j <= Source!Count
         /\ Source!Becomes(Append(Source!Below(j), e))
<1>1. Remembers(b_state, c)
  BY DEF Replaces
<1>2. Good(c) /\ Good(b_state)
  BY <1>1, GoodBefore
<1> QED
  BY <1>2, OperandReplaced DEF Sound

(* The state that a step with k operands starts in. *)
LEMMA SoundWithOperands ==
  ASSUME Sound, Good(b_state), NEW k \in 1 .. 3, Operands(k)
  PROVE  /\ Works(b_state, machine) /\ Apart(b_state) /\ Typed(b_state) /\ IsState(b_state)
         /\ b_state.value_stack # <<>>
         /\ Len(b_state.value_stack) \in Nat /\ Len(b_state.value_stack) >= k
         /\ Source!Right = Upper(b_state, machine)
         /\ k >= 2 => Source!Left = Lower(b_state, machine)
<1>1. /\ Works(b_state, machine) /\ Apart(b_state) /\ Typed(b_state) /\ IsState(b_state)
      /\ Len(b_state.value_stack) \in Nat
  BY StateWorks DEF Sound
<1>2. b_state.value_stack # <<>> /\ k <= Len(b_state.value_stack)
  BY WithOperands DEF Sound
<1>3. /\ Len(b_state.value_stack) >= 1 => Source!Right = Upper(b_state, machine)
      /\ Len(b_state.value_stack) >= 2 => Source!Left = Lower(b_state, machine)
  BY <1>1, SourceOperands
<1> QED
  BY <1>1, <1>2, <1>3

(* The type of the left operand. *)
LEMMA LowerType ==
  ASSUME NEW b, NEW m, Works(b, m), NEW n \in Nat, n = Len(b.value_stack), n >= 2,
         NEW i, i = Lower(b, m).type
  PROVE  /\ i.depth \in Nat
         /\ i.depth > 0 => i \in [depth : Nat, base : Bases \cup {"Invalid"}]
<1>1. PICK f : f = b.value_stack[n - 1]
  OBVIOUS
<1>2. Stands(m, f) /\ m \in Machines /\ f \in Frames
  <2>1. n - 1 \in 1 .. Len(b.value_stack)
    OBVIOUS
  <2> QED
    BY <1>1, <2>1 DEF Works, Carries, Stands
<1>3. i = Operand(m, f).type
  BY <1>1 DEF Lower
<1>4. i = Type(f) /\ Type(f).depth = f.info.depth /\ (f.info.depth > 0 => Type(f) = f.info)
  BY <1>2, <1>3, TypeOfOperand
<1>5. /\ f.info \in [depth : Nat, base : Bases \cup {"Invalid"}]
      /\ f.info.depth \in Nat
  BY <1>2, FrameFields
<1> QED
  BY <1>4, <1>5

(* A pointer moves by the size of what it points to, unless that is a      *)
(* pointer to char.                                                        *)
LEMMA ElementsAreAligned ==
  ASSUME NEW b, NEW m, Works(b, m), NEW n \in Nat, n = Len(b.value_stack), n >= 2,
         NEW i, i = Lower(b, m).type, i.depth > 0, ~(i.depth >= 2 /\ i.base = "Char")
  PROVE  /\ i.depth \in Nat
         /\ Source!ElementSize(i) = AlignedSize(i.base)
<1>1. i \in [depth : Nat, base : Bases \cup {"Invalid"}]
  BY LowerType
<1>2. PICK t : t = [i EXCEPT !.depth = @ - 1]
  OBVIOUS
<1>3. t.depth = i.depth - 1 /\ t.base = i.base /\ i.depth \in Nat
  BY <1>1, <1>2
<1>4. Source!ElementSize(i) = Source!SizeOf(t)
  BY <1>2 DEF Source!ElementSize, Source!Target
<1> QED
  BY <1>3, <1>4 DEF Source!SizeOf, AlignedSize

(* l o r. *)
LEMMA BinaryFollows ==
  ASSUME Sound, ~PointersByBytes, NEW o \in BinaryOperators, Binary(o), Good(b_state)'
  PROVE  Follows
<1>1. PICK c : c = Handle(b_state, o)
  OBVIOUS
<1>2. /\ Operands(2) /\ Source!Numeric(Right)
      /\ Source!Numeric(Left) \/ o = "Subtract"
      /\ o = "Subtract" => MayMove /\ MayTake
      /\ Translate(o, c)
  BY <1>1 DEF Binary, InExpression
<1>3. Remembers(b_state, c)
  BY <1>1, <1>2, WithOperands, HandleRemembers DEF Sound
<1>4. Good(c) /\ Good(b_state)
  BY <1>2, <1>3, GoodBefore
<1>5. /\ Works(b_state, machine) /\ Apart(b_state) /\ Typed(b_state)
      /\ Len(b_state.value_stack) \in Nat /\ Len(b_state.value_stack) >= 2
      /\ Source!Right = Upper(b_state, machine) /\ Source!Left = Lower(b_state, machine)
  BY <1>2, <1>4, SoundWithOperands
<1>6. c = BinaryOperation(b_state, o)
  BY <1>1, <1>5 DEF Handle
<1>7. ~BinaryOperation(b_state, o).reported /\ ~BinaryOperation(b_state, o).out_of_registers
  BY <1>4, <1>6 DEF Good
<1>8. Turns(b_state, c, 2, machine, Source!Apply(o, Source!Left, Source!Right))
  <2>1. PICK n \in Nat : n = Len(b_state.value_stack) /\ n >= 2
    BY <1>5
  <2>2. PICK L, R : L = Lower(b_state, machine) /\ R = Upper(b_state, machine)
    OBVIOUS
  <2>3. /\ Source!Numeric(R) /\ (Source!Numeric(L) \/ o = "Subtract")
        /\ Source!Left = L /\ Source!Right = R /\ Left = L
    BY <1>2, <1>5, <2>2 DEF Right, Left
  <2>4. o = "Subtract" => /\ ~(L.type.depth >= 2 /\ L.type.base = "Char")
                          /\ ~(L.type.depth >= 2 /\ Top(b_state).dynamicSize # Size)
    BY <1>2, <2>3 DEF MayMove, MayTake
  <2>5. Top(b_state) = b_state.value_stack[n]
    <3>1. PICK s : s = b_state.value_stack
      OBVIOUS
    <3>2. s \in Seq(Frames) /\ n = Len(s)
      BY <1>5, <2>1, <3>1 DEF Typed
    <3>3. s # <<>>
      BY <2>1, <3>2
    <3> QED
      BY <3>1, <3>2, <3>3, WithoutTop DEF Top
  <2>6. L.type.depth > 0 =>
          L.type.depth \in Nat /\ Source!ElementSize(L.type) = AlignedSize(L.type.base)
    <3>1. CASE o = "Subtract"
      <4>1. ~(L.type.depth >= 2 /\ L.type.base = "Char")
        BY <2>4, <3>1
      <4> QED
        BY <1>5, <2>1, <2>2, <4>1, ElementsAreAligned
    <3>2. CASE o # "Subtract"
      <4>1. L.type.depth = 0
        BY <2>3, <3>2 DEF Source!Numeric
      <4> QED
        BY <4>1
    <3> QED
      BY <3>1, <3>2
  <2>7. LET d == BinaryOperation(b_state, o)
        IN /\ Leaves(b_state, d, 2, machine, Source!Apply(o, L, R))
           /\ L.type.depth < 2 \/ b_state.value_stack[n].dynamicSize = Size =>
                Sized(Last(d.value_stack))
    BY <1>5, <1>7, <2>1, <2>2, <2>3, <2>6, BinaryTurns
  <2>8. L.type.depth < 2 \/ b_state.value_stack[n].dynamicSize = Size
    <3>1. CASE o = "Subtract"
      <4>1. L.type.depth \in Nat
        BY <1>5, <2>1, <2>2, LowerType
      <4> QED
        BY <2>4, <2>5, <3>1, <4>1
    <3>2. CASE o # "Subtract"
      BY <2>3, <3>2 DEF Source!Numeric
    <3> QED
      BY <3>1, <3>2
  <2> QED
    BY <1>6, <2>3, <2>7, <2>8 DEF Turns
<1>9. Replaces(b_state, c, 2, 1)
  BY <1>5, <1>6, <1>7, BinaryEffect
<1>10. /\ Meaningful' /\ op' = o /\ 2 <= Source!Count
       /\ Source!Becomes(Append(Source!Below(2), Source!Apply(o, Source!Left, Source!Right)))
  BY <1>2, <1>8, <1>9, HandlerFollows
<1>11. o \in Source!Binaries /\ Source!Count >= 2
  BY <1>5, SourceOperands DEF Source!Binaries, BinaryOperators
<1>12. Source!Binary
  BY <1>10, <1>11 DEF Source!Binary
<1> QED
  BY <1>10, <1>12 DEF Follows, Source!Next

(* o e, when no Not is used. *)
LEMMA UnaryFollows ==
  ASSUME Sound, "Not" \notin UnaryOperators, NEW o \in UnaryOperators, Unary(o),
         Good(b_state)'
  PROVE  Follows
<1>1. PICK c : c = Handle(b_state, o)
  OBVIOUS
<1>2. Operands(1) /\ Source!Numeric(Right) /\ Translate(o, c)
  BY <1>1 DEF Unary, InExpression
<1>3. o \in {"Negative", "BitNot"}
  BY TranslatorAssumption
<1>4. Remembers(b_state, c)
  BY <1>1, <1>2, <1>3, WithOperands, HandleRemembers DEF Sound
<1>5. Good(c) /\ Good(b_state)
  BY <1>2, <1>4, GoodBefore
<1>6. /\ Works(b_state, machine) /\ Typed(b_state) /\ b_state.value_stack # <<>>
      /\ Len(b_state.value_stack) \in Nat /\ Len(b_state.value_stack) >= 1
      /\ Source!Right = Upper(b_state, machine)
  BY <1>2, <1>5, SoundWithOperands
<1>7. c = UnaryOperation(b_state, o)
  BY <1>1, <1>3 DEF Handle, BinaryOperators
<1>8. ~UnaryOperation(b_state, o).reported
  BY <1>5, <1>7 DEF Good
<1>9. Turns(b_state, c, 1, machine, Source!ApplyTo(o, Source!Right))
  BY <1>2, <1>3, <1>6, <1>7, <1>8, UnaryTurns DEF Right
<1>10. Replaces(b_state, c, 1, 1)
  BY <1>3, <1>6, <1>7, <1>8, UnaryEffect
<1>11. /\ Meaningful' /\ op' = o
       /\ Source!Becomes(Append(Source!Below(1), Source!ApplyTo(o, Source!Right)))
  BY <1>2, <1>9, <1>10, HandlerFollows
<1>12. o \in Source!Unaries /\ Source!Count >= 1
  BY <1>3, <1>6, SourceOperands DEF Source!Unaries
<1>13. Source!Unary
  BY <1>11, <1>12 DEF Source!Unary
<1> QED
  BY <1>11, <1>13 DEF Follows, Source!Next

(* & x. *)
LEMMA GetPointerFollows ==
  ASSUME Sound, GetPointer, Good(b_state)'
  PROVE  Follows
<1>1. PICK c : c = PointerTaken(b_state)
  OBVIOUS
<1>2. Operands(1) /\ Translate("GetPointer", c)
  BY <1>1 DEF GetPointer, InExpression
<1>3. Remembers(b_state, c)
  BY <1>1, <1>2, WithOperands, PointersRemember DEF Sound
<1>4. Good(c) /\ Good(b_state)
  BY <1>2, <1>3, GoodBefore
<1>5. /\ Works(b_state, machine) /\ Typed(b_state) /\ b_state.value_stack # <<>>
      /\ Len(b_state.value_stack) \in Nat /\ Len(b_state.value_stack) >= 1
      /\ Source!Right = Upper(b_state, machine)
  BY <1>2, <1>4, SoundWithOperands
<1>6. ~PointerTaken(b_state).reported /\ ~PointerTaken(b_state).out_of_registers
  BY <1>1, <1>4 DEF Good
<1>7. PICK e : e = Source!Value(Number("UInt", Source!Right.place),
                                [Source!Right.type EXCEPT !.depth = @ + 1])
  OBVIOUS
<1>8. Source!Right.place # -1 /\ Turns(b_state, c, 1, machine, e)
  BY <1>1, <1>5, <1>6, <1>7, PointerTakenTurns
<1>9. Replaces(b_state, c, 1, 1)
  BY <1>1, <1>5, <1>6, PointerTakenEffect, OneReplaced
<1>10. /\ Meaningful' /\ op' = "GetPointer"
       /\ Source!Becomes(Append(Source!Below(1), e))
  BY <1>2, <1>8, <1>9, HandlerFollows
<1>11. Source!Count >= 1
  BY <1>5, SourceOperands
<1>12. e = Source!Value(Source!Number("UInt", Source!Right.place),
                        [Source!Right.type EXCEPT !.depth = @ + 1])
  BY <1>7, SameNumbers
<1>13. Source!GetPointer
  BY <1>8, <1>10, <1>11, <1>12 DEF Source!GetPointer, Source!NoPlace
<1> QED
  BY <1>10, <1>13 DEF Follows, Source!Next

(* p[]. *)
LEMMA DereferenceFollows ==
  ASSUME Sound, Dereference, Good(b_state)'
  PROVE  Follows
<1>1. PICK c : c = PointerFollowed(b_state)
  OBVIOUS
<1>2. /\ Operands(1) /\ Translate("Dereference", c)
      /\ ~Source!Numeric(Source!Right) /\ Known(Source!Read(Source!Right))
  BY <1>1 DEF Dereference, InExpression, Right
<1>3. Remembers(b_state, c)
  BY <1>1, <1>2, WithOperands, PointersRemember DEF Sound
<1>4. Good(c) /\ Good(b_state)
  BY <1>2, <1>3, GoodBefore
<1>5. /\ Works(b_state, machine) /\ Typed(b_state) /\ b_state.value_stack # <<>>
      /\ Len(b_state.value_stack) \in Nat /\ Len(b_state.value_stack) >= 1
      /\ Source!Right = Upper(b_state, machine)
  BY <1>2, <1>4, SoundWithOperands
<1>6. ~PointerFollowed(b_state).reported
  BY <1>1, <1>4 DEF Good
<1>7. PICK e : e = Source!Follow(Source!Read(Source!Right).n, Source!Right.type)
  OBVIOUS
<1>8. Turns(b_state, c, 1, machine, e)
  BY <1>1, <1>2, <1>5, <1>6, <1>7, PointerFollowedTurns
<1>9. Replaces(b_state, c, 1, 1)
  <2>1. PICK n \in Nat : n = Len(b_state.value_stack) /\ n >= 1
    BY <1>5
  <2>2. b_state.value_stack[n].info.depth > 0
    BY <1>2, <1>5, <2>1, OperandTypes DEF Right, Typed
  <2>3. Last(b_state.value_stack) = b_state.value_stack[n]
    BY <1>5, <2>1, WithoutLast DEF Typed
  <2>4. Last(b_state.value_stack).info.depth > 0
    BY <2>2, <2>3
  <2> QED
    BY <1>1, <1>5, <1>6, <2>4, PointerFollowedEffect, OneReplaced
<1>10. /\ Meaningful' /\ op' = "Dereference"
       /\ Source!Becomes(Append(Source!Below(1), e))
  BY <1>2, <1>8, <1>9, HandlerFollows
<1>11. Source!Count >= 1
  BY <1>5, SourceOperands
<1>12. Source!Dereference
  BY <1>2, <1>7, <1>10, <1>11 DEF Source!Dereference
<1> QED
  BY <1>10, <1>12 DEF Follows, Source!Next

(* p[i]. *)
LEMMA GetByArgumentFollows ==
  ASSUME Sound, ~PointersByBytes, GetByArgument, Good(b_state)'
  PROVE  Follows
<1>1. PICK c : c = Indexed(b_state)
  OBVIOUS
<1>2. PICK L, R : L = Source!Left /\ R = Source!Right
  OBVIOUS
<1>3. /\ Operands(2) /\ Translate("GetByArgument", c)
      /\ ~Source!Numeric(L) /\ Source!Numeric(R)
      /\ ~(L.type.depth >= 2 /\ L.type.base = "Char")
      /\ R.type.base = "Real" \/
           Known(Addition(Source!Read(L),
                          Product(Source!Read(R),
                                  Number("UInt", Source!ElementSize(L.type)), "UInt"),
                          "UInt"))
  BY <1>1, <1>2 DEF GetByArgument, InExpression, Right, Left, MayMove
<1>4. Remembers(b_state, c)
  BY <1>1, <1>3, WithOperands, PointersRemember DEF Sound
<1>5. Good(c) /\ Good(b_state)
  BY <1>3, <1>4, GoodBefore
<1>6. /\ Works(b_state, machine) /\ Apart(b_state) /\ Typed(b_state)
      /\ Len(b_state.value_stack) \in Nat /\ Len(b_state.value_stack) >= 2
      /\ R = Upper(b_state, machine) /\ L = Lower(b_state, machine)
  BY <1>2, <1>3, <1>5, SoundWithOperands
<1>7. ~Indexed(b_state).reported /\ ~Indexed(b_state).out_of_registers
  BY <1>1, <1>5 DEF Good
<1>8. PICK e : e = Source!Follow(Source!Read(L).n + Source!Read(R).n * Source!ElementSize(L.type),
                                L.type)
  OBVIOUS
<1>9. Turns(b_state, c, 2, machine, e)
  <2>1. PICK n \in Nat : n = Len(b_state.value_stack) /\ n >= 2
    BY <1>6
  <2>2. PICK z : z = Source!ElementSize(L.type)
    OBVIOUS
  <2>3. L.type.depth > 0
    <3>1. L.type.depth \in Nat
      BY <1>6, <2>1, LowerType
    <3> QED
      BY <1>3, <3>1 DEF Source!Numeric
  <2>4. z = AlignedSize(L.type.base)
    BY <1>3, <1>6, <2>1, <2>2, <2>3, ElementsAreAligned
  <2>5. R.type.base = "Real" \/
          Known(Addition(Source!Read(L), Product(Source!Read(R), Number("UInt", z), "UInt"),
                         "UInt"))
    BY <1>3, <2>2
  <2>6. Turns(b_state, Indexed(b_state), 2, machine,
              Source!Follow(Source!Read(L).n + Source!Read(R).n * z, L.type))
    BY <1>3, <1>6, <1>7, <2>1, <2>2, <2>4, <2>5, IndexedTurns
  <2> QED
    BY <1>1, <1>8, <2>2, <2>6
<1>10. Replaces(b_state, c, 2, 1)
  <2>1. PICK n \in Nat : n = Len(b_state.value_stack) /\ n >= 2
    BY <1>6
  <2>2. b_state.value_stack[n - 1].info.depth > 0
    BY <1>2, <1>3, <1>6, <2>1, OperandTypes DEF Left, Typed
  <2> QED
    BY <1>1, <1>6, <1>7, <2>1, <2>2, IndexedEffect, TwoReplaced
<1>11. /\ Meaningful' /\ op' = "GetByArgument"
       /\ Source!Becomes(Append(Source!Below(2), e))
  BY <1>3, <1>9, <1>10, HandlerFollows
<1>12. Source!Count >= 2
  BY <1>6, SourceOperands
<1>13. Source!GetByArgument
  BY <1>2, <1>3, <1>8, <1>11, <1>12 DEF Source!GetByArgument
<1> QED
  BY <1>11, <1>13 DEF Follows, Source!Next

(* An operand without a register is pushed.                                *)
LEMMA PushFollows ==
  ASSUME Sound, Good(b_state)', NEW o, NEW f \in Frames, ~InRegister(f), Shaped(f), Sized(f),
         Translate(o, Pushed(b_state, f))
  PROVE  /\ Meaningful' /\ op' = o
         /\ Source!Becomes(Append([i \in 1 .. Len(b_state.value_stack) |->
                                     Operand(machine, b_state.value_stack[i])],
                                  Operand(machine, f)))
<1>1. PICK b : b = b_state
  OBVIOUS
<1>2. PICK c : c = Pushed(b, f)
  OBVIOUS
<1>3. IsState(b)
  BY <1>1 DEF Sound, TypeInv, Rests
<1>4. Remembers(b, c)
  BY <1>2, <1>3, SmallRemember
<1>5. Good(c) /\ Good(b) /\ IsState(c)
  BY <1>1, <1>2, <1>4, GoodBefore
<1>6. Works(b, machine) /\ Typed(b)
  BY <1>1, <1>5, StateWorks DEF Sound
<1>7. /\ c.value_stack = Append(b.value_stack, f) /\ b.value_stack \in Seq(Frames)
  <2>1. Fields(c, Append(b.value_stack, f), b.registers_table, b.loaded, b.reported,
               b.out_of_registers)
    BY <1>2, <1>3, Small
  <2> QED
    BY <1>6, <2>1 DEF Fields, Typed
<1>8. PICK n \in Nat : n = Len(b.value_stack)
  BY <1>7
<1>9. /\ c.value_stack \in Seq(Frames) /\ Len(c.value_stack) = n + 1
      /\ \A i \in 1 .. n : c.value_stack[i] = b.value_stack[i]
  BY <1>7, <1>8, AppendProperties
<1>10. Replaces(b, c, 0, 1)
  BY <1>4, <1>8, <1>9 DEF Replaces
<1>11. Stands(machine, f)
  BY DEF Stands, InRegister
<1>12. Turns(b, c, 0, machine, Operand(machine, f))
  <2>1. Carries(c, machine)
    BY <1>2, <1>3, <1>6, Carrying DEF Works
  <2>2. Keeps(machine, machine, Spare(b, 0))
    BY <1>6 DEF Works, Carries, Keeps
  <2> QED
    BY <1>7, <1>11, <2>1, <2>2, PushedTurns
<1>13. /\ Meaningful' /\ op' = o
       /\ Source!Becomes(Append(Source!Below(0), Operand(machine, f)))
  BY <1>1, <1>2, <1>10, <1>12, HandlerFollows
<1>14. Source!Below(0) = [i \in 1 .. n |-> Operand(machine, b.value_stack[i])]
  <2>1. Source!Below(0) = MeantBelow(b_state, machine, 0) /\ n - 0 = n
    BY <1>1, <1>8, SourceOperands
  <2> QED
    BY <1>1, <1>8, <2>1 DEF MeantBelow
<1> QED
  BY <1>1, <1>8, <1>13, <1>14

(* The frame of a variable. *)
LEMMA VariableFrame ==
  ASSUME TypeInv, NEW v \in Variables, NEW own \in BOOLEAN,
         own => v \in DOMAIN global_stack_offset, own \/ v \in Imported,
         NEW f, f = ValueFrame(IF own THEN "StaticAddress" ELSE "Symbol",
                               IF own THEN global_stack_offset[v] ELSE v,
                               IF TypeOf[v].depth > 0 THEN "UInt" ELSE Analog(TypeOf[v].base),
                               TypeOf[v], SizeOf(TypeOf[v]))
  PROVE  /\ f \in Frames /\ ~InRegister(f) /\ Shaped(f) /\ Sized(f) /\ AtFixedAddress(f)
         /\ f.info = TypeOf[v]
<1>1. PICK prim : prim = IF TypeOf[v].depth > 0 THEN "UInt" ELSE Analog(TypeOf[v].base)
  OBVIOUS
<1>2. PICK i : i = TypeOf[v]
  OBVIOUS
<1>3. PICK s : s = IF own THEN "StaticAddress" ELSE "Symbol"
  OBVIOUS
<1>4. PICK d : d = IF own THEN global_stack_offset[v] ELSE v
  OBVIOUS
<1>5. /\ i \in [depth : Nat, base : Bases]
      /\ own => global_stack_offset[v] \in OwnBytes
  BY <1>2, TranslatorAssumption DEF TypeInv, ScopesTyped
<1>6. /\ prim \in Primitives /\ prim = IF i.depth > 0 THEN "UInt" ELSE Analog(i.base)
      /\ SizeOf(i) \in Nat /\ (i.depth >= 2 => SizeOf(i) = Size)
  <2>1. /\ Analog(i.base) \in Primitives /\ AlignedSize(i.base) \in Nat /\ Size \in Nat
        /\ i.depth \in Nat
    BY <1>5, SizesOfBases
  <2> QED
    BY <1>1, <1>2, <2>1 DEF Primitives, SizeOf
<1>7. i \in [depth : Nat, base : Bases \cup {"Invalid"}] /\ i.base \in Bases
  BY <1>5
<1>8. f = [source |-> s, data |-> d, dynamic |-> prim, static |-> prim,
           dynamicSize |-> SizeOf(i), staticSize |-> SizeOf(i), info |-> i]
  BY <1>1, <1>2, <1>3, <1>4 DEF ValueFrame
<1>9. /\ s \in {"StaticAddress", "Symbol"}
      /\ s = "StaticAddress" => d \in OwnBytes
      /\ s = "Symbol" => d \in Imported
  BY <1>3, <1>4, <1>5
<1>10. Suits(f) /\ ~InRegister(f) /\ AtFixedAddress(f)
  BY <1>7, <1>8, <1>9 DEF Suits, InRegister, AtFixedAddress
<1>11. s \in Sources /\ d \in 0 .. InvalidRegister \cup OwnBytes \cup Imported \cup Constants
  BY <1>9 DEF Sources
<1>12. f \in Frames
  BY <1>6, <1>7, <1>8, <1>10, <1>11, MakesFrame
<1>13. Shaped(f)
  BY <1>6, <1>8, <1>9 DEF Shaped, IsPointer
<1>14. Sized(f)
  BY <1>6, <1>8 DEF Sized
<1> QED
  BY <1>2, <1>8, <1>10, <1>12, <1>13, <1>14

(* A variable. *)
LEMMA UseFollows ==
  ASSUME Sound, NEW v \in Variables, Use(v), Good(b_state)'
  PROVE  Follows
<1>1. PICK own \in BOOLEAN : own <=> v \in DOMAIN global_stack_offset
  OBVIOUS
<1>2. PICK f : f = ValueFrame(IF own THEN "StaticAddress" ELSE "Symbol",
                              IF own THEN global_stack_offset[v] ELSE v,
                              IF TypeOf[v].depth > 0 THEN "UInt" ELSE Analog(TypeOf[v].base),
                              TypeOf[v], SizeOf(TypeOf[v]))
  OBVIOUS
<1>3. (own \/ v \in Imported) /\ Translate("Use", Pushed(b_state, f)) /\ Operands(0)
  BY <1>1, <1>2 DEF Use, InExpression
<1>4. /\ f \in Frames /\ ~InRegister(f) /\ Shaped(f) /\ Sized(f) /\ AtFixedAddress(f)
      /\ f.info = TypeOf[v]
  BY <1>1, <1>2, <1>3, VariableFrame DEF Sound
<1>5. /\ Meaningful' /\ op' = "Use"
      /\ Source!Becomes(Append([i \in 1 .. Len(b_state.value_stack) |->
                                  Operand(machine, b_state.value_stack[i])],
                               Operand(machine, f)))
  BY <1>3, <1>4, PushFollows
<1>6. PICK at \in Addresses : at = AddressIn(Argument(f))
  BY <1>4, FixedAddress
<1>7. Operand(machine, f) = Source!Place(at, TypeOf[v])
  <2>1. Operand(machine, f) = [place |-> at, value |-> Unknown, type |-> f.info]
    BY <1>4, <1>6 DEF Operand, AtFixedAddress
  <2>2. Source!Unknown = Unknown
    BY SameNumbers
  <2> QED
    BY <1>4, <2>1, <2>2 DEF Source!Place
<1>8. PICK type \in {TypeOf[w] : w \in Variables} : type = TypeOf[v]
  OBVIOUS
<1>9. at \in DOMAIN machine.memory
  <2>1. Remembers(b_state, Pushed(b_state, f))
    BY SmallRemember DEF Sound, TypeInv, Rests
  <2>2. Good(b_state)
    BY <1>3, <2>1, GoodBefore
  <2> QED
    BY <1>6, <2>2 DEF Sound, Meaningful, Machines
<1>10. Source!Use
  BY <1>5, <1>7, <1>8, <1>9 DEF Source!Use
<1> QED
  BY <1>5, <1>10 DEF Follows, Source!Next

(* A constant. *)
LEMMA UseConstantFollows ==
  ASSUME Sound, NEW k \in Constants, UseConstant(k), Good(b_state)'
  PROVE  Follows
<1>1. PICK f : f = ValueFrame("Constant", k, k.prim, NoType, k.size)
  OBVIOUS
<1>2. Translate("UseConstant", Pushed(b_state, f))
  BY <1>1 DEF UseConstant, InExpression
<1>3. k.prim \in Primitives /\ k \in Constants /\ k.size \in Nat
  BY TranslatorAssumption
<1>4. f = [source |-> "Constant", data |-> k, dynamic |-> k.prim,
           static |-> k.prim, dynamicSize |-> k.size, staticSize |-> k.size,
           info |-> NoType]
  BY <1>1 DEF ValueFrame
<1>5. Suits(f) /\ ~InRegister(f) /\ ~IsPointer(f) /\ ~AtFixedAddress(f)
  BY <1>4, NoTypeIsType DEF Suits, InRegister, IsPointer, AtFixedAddress
<1>6. "Constant" \in Sources
  BY DEF Sources
<1>7. f \in Frames
  BY <1>3, <1>4, <1>5, <1>6, NoTypeIsType, MakesFrame
<1>8. Shaped(f) /\ Sized(f)
  <2>1. f.info.depth = 0
    BY <1>4 DEF NoType
  <2> QED
    BY <1>4, <1>5, <2>1 DEF Shaped, Sized
<1>9. /\ Meaningful' /\ op' = "UseConstant"
      /\ Source!Becomes(Append([i \in 1 .. Len(b_state.value_stack) |->
                                  Operand(machine, b_state.value_stack[i])],
                               Operand(machine, f)))
  BY <1>2, <1>5, <1>7, <1>8, PushFollows
<1>10. Operand(machine, f) = Source!Value(Source!Number(k.prim, k.n), Source!Plain(k.prim))
  <2>1. Source!Number(k.prim, k.n) = Number(k.prim, k.n)
    BY SameNumbers
  <2>2. Operand(machine, f) = [place |-> -1, value |-> Number(k.prim, k.n),
                               type |-> [depth |-> 0, base |-> k.prim]]
    BY <1>4, <1>5 DEF Operand, AtFixedAddress
  <2> QED
    BY <2>1, <2>2 DEF Source!Value, Source!Plain, Source!NoPlace
<1>11. Source!UseConstant
  BY <1>9, <1>10 DEF Source!UseConstant
<1> QED
  BY <1>9, <1>11 DEF Follows, Source!Next

(* A step that leaves the operands as they were, without the last j.       *)
LEMMA OperandsLeft ==
  ASSUME Sound, Good(b_state), NEW o, NEW c, Translate(o, c), IsState(c), Good(c),
         NEW j \in Nat, j <= Len(b_state.value_stack),
         Len(c.value_stack) = Len(b_state.value_stack) - j,
         NEW h, Carries(c, h), SameBelow(b_state, c, machine, h, j)
  PROVE  /\ Meaningful' /\ op' = o /\ j <= Source!Count
         /\ Meant(b_state, machine)' = Source!Below(j) /\ machine'.memory = h.memory
         /\ ~b_state.reported' /\ ~b_state.out_of_registers'
<1>1. PICK n \in Nat : n = Len(b_state.value_stack)
  BY StateWorks DEF Sound
<1>2. /\ op' = o /\ machine' = h /\ h \in Machines
      /\ b_state'.value_stack = c.value_stack
      /\ b_state'.reported = c.reported /\ b_state'.out_of_registers = c.out_of_registers
  BY Translated
<1>3. PICK k \in Nat : k = n - j
  BY <1>1
<1>4. /\ \A i \in 1 .. k : /\ Stands(h, c.value_stack[i])
                           /\ Operand(h, c.value_stack[i]) = Operand(machine, b_state.value_stack[i])
      /\ Len(c.value_stack) = k
  BY <1>1, <1>3 DEF SameBelow
<1>5. Meaningful'
  <2>1. /\ \A i \in 1 .. k : c.value_stack[i] = b_state.value_stack[i] /\ i \in 1 .. n
        /\ \A i \in 1 .. n : Sized(b_state.value_stack[i])
    BY <1>1, <1>3, StateWorks DEF SameBelow, Works, Sound
  <2>2. \A i \in 1 .. Len(c.value_stack) : Stands(h, c.value_stack[i]) /\ Sized(c.value_stack[i])
    BY <1>4, <2>1
  <2> QED
    BY <1>2, <2>2 DEF Meaningful
<1>6. Source!Below(j) = MeantBelow(b_state, machine, j) /\ Source!Count = n
  BY <1>1, SourceOperands
<1>7. Meant(c, h) = MeantBelow(b_state, machine, j)
  BY <1>1, <1>3, <1>4 DEF Meant, MeantBelow
<1>8. Meant(b_state, machine)' = Meant(c, h)
  BY <1>2 DEF Meant
<1> QED
  BY <1>1, <1>2, <1>5, <1>6, <1>7, <1>8 DEF Good

(* x = e, x o= e, and the same when they are assigned: no ~=, and no       *)
(* operator on what a pointer points to.                                   *)
LEMMA AssignFollows ==
  ASSUME Sound, "BitNot" \notin CompoundOperators, ~CompoundByPointer, ~CharByPointer,
         ~PointersByBytes,
         NEW o \in CompoundOperators \cup {"Nop"}, NEW keep \in BOOLEAN, Assign(o, keep),
         Good(b_state)'
  PROVE  Follows
<1>1. PICK c : c = Assigned(b_state, o, keep)
  OBVIOUS
<1>2. PICK L, R : L = Source!Left /\ R = Source!Right
  OBVIOUS
<1>3. PICK name : name = IF keep THEN "AssignR" ELSE "Assign"
  OBVIOUS
<1>4. PICK j \in {1, 2} : j = IF keep THEN 1 ELSE 2
  OBVIOUS
<1>5. /\ Translate(name, c)
      /\ o # "Nop" => Source!Numeric(R)
      /\ o # "Nop" /\ o # "Subtract" => Source!Numeric(L)
      /\ o = "Subtract" => ~(L.type.depth >= 2 /\ L.type.base = "Char")
      /\ o # "Nop" => Top(Popped(b_state)).source # "DynamicAddress"
      /\ Top(Popped(b_state)).source = "DynamicAddress" => L.type.base # "Char"
  BY <1>1, <1>2, <1>3 DEF Assign, Right, Left, MayMove
<1>6. PICK k \in 2 .. 3 : Operands(k)
  <2>1. Operands(2) \/ Operands(3)
    BY DEF Assign
  <2> QED
    BY <2>1
<1>7. o \in BinaryOperators \cup {"Nop"}
  BY TranslatorAssumption
<1>8. Remembers(b_state, c)
  BY <1>1, <1>7, AssignedRemembers DEF Sound, TypeInv, Rests
<1>9. Good(c) /\ Good(b_state) /\ IsState(c)
  BY <1>5, <1>8, GoodBefore
<1>10. /\ Works(b_state, machine) /\ Apart(b_state) /\ Typed(b_state)
       /\ Len(b_state.value_stack) \in Nat /\ Len(b_state.value_stack) >= 2
       /\ R = Upper(b_state, machine) /\ L = Lower(b_state, machine)
       /\ b_state.value_stack # <<>> /\ IsState(b_state)
  BY <1>2, <1>6, <1>9, SoundWithOperands
<1>11. PICK n \in Nat : n = Len(b_state.value_stack) /\ n >= 2
  BY <1>10
<1>12. Top(Popped(b_state)) = b_state.value_stack[n - 1]
  <2>1. PICK s : s = b_state.value_stack
    OBVIOUS
  <2>2. s \in Seq(Frames) /\ s # <<>> /\ n = Len(s) /\ n - 1 \in Nat
    BY <1>10, <1>11, <2>1 DEF Typed
  <2>3. PICK v : v = Front(s)
    OBVIOUS
  <2>4. v \in Seq(Frames) /\ Len(v) = n - 1 /\ \A i \in 1 .. n - 1 : v[i] = s[i]
    BY <2>2, <2>3, WithoutTop
  <2>5. v # <<>> /\ n - 1 \in 1 .. n - 1
    BY <1>11, <2>2, <2>4
  <2>6. Last(v) = v[Len(v)]
    BY <2>4, <2>5, WithoutLast
  <2>7. Popped(b_state).value_stack = v
    <3>1. Fields(Popped(b_state), Front(b_state.value_stack), b_state.registers_table,
                 b_state.loaded, b_state.reported, b_state.out_of_registers)
      BY <1>10, Small
    <3> QED
      BY <2>1, <2>3, <3>1 DEF Fields
  <2> QED
    BY <2>1, <2>4, <2>5, <2>6, <2>7 DEF Top
<1>13. PICK e : e = IF o = "Nop" THEN R ELSE Source!Apply(o, L, R)
  OBVIOUS
<1>14. PICK x : x = Source!As(e, Source!Primitive(L.type))
  OBVIOUS
<1>15. Assigns(b_state, c, machine, keep, x)
  <2>1. CASE o = "Nop"
    <3>1. c = Assigned(b_state, "Nop", keep) /\ ~c.reported
      BY <1>1, <1>9, <2>1 DEF Good
    <3>2. Assigns(b_state, c, machine, keep,
                  Source!As(Upper(b_state, machine), Source!Primitive(L.type)))
      BY <1>5, <1>10, <1>11, <1>12, <3>1, CopiedCarries
    <3> QED
      BY <1>10, <1>13, <1>14, <2>1, <3>2
  <2>2. CASE o # "Nop"
    <3>1. o \in BinaryOperators
      BY <1>7, <2>2
    <3>2. /\ Source!Numeric(R) /\ (Source!Numeric(L) \/ o = "Subtract")
          /\ b_state.value_stack[n - 1].source # "DynamicAddress"
      BY <1>5, <1>12, <2>2
    <3>3. ~c.reported /\ ~c.out_of_registers
      BY <1>9 DEF Good
    <3>4. L.type.depth > 0 => Source!ElementSize(L.type) = AlignedSize(L.type.base)
      <4>1. CASE o = "Subtract"
        <5>1. ~(L.type.depth >= 2 /\ L.type.base = "Char")
          BY <1>5, <4>1
        <5> QED
          BY <1>10, <1>11, <5>1, ElementsAreAligned
      <4>2. CASE o # "Subtract"
        <5>1. L.type.depth = 0
          BY <3>2, <4>2 DEF Source!Numeric
        <5> QED
          BY <5>1
      <4> QED
        BY <4>1, <4>2
    <3>5. Assigns(b_state, c, machine, keep,
                  Source!As(Source!Apply(o, L, R), Source!Primitive(L.type)))
      BY <1>1, <1>10, <1>11, <3>1, <3>2, <3>3, <3>4, CompoundCarries
    <3> QED
      BY <1>13, <1>14, <2>2, <3>5
  <2> QED
    BY <2>1, <2>2
<1>16. /\ L.place \in Addresses
       /\ Len(c.value_stack) = Len(b_state.value_stack) - j
       /\ \E h : /\ Carries(c, h) /\ SameBelow(b_state, c, machine, h, j)
                 /\ h.memory = WithBytes(machine.memory, L.place, Source!SizeOf(L.type), x)
  BY <1>4, <1>10, <1>15 DEF Assigns
<1>17. PICK h : /\ Carries(c, h) /\ SameBelow(b_state, c, machine, h, j)
                /\ h.memory = WithBytes(machine.memory, L.place, Source!SizeOf(L.type), x)
  BY <1>16
<1>18. j \in Nat /\ j <= Len(b_state.value_stack)
  BY <1>10
<1>19. /\ Meaningful' /\ op' = name
       /\ Meant(b_state, machine)' = Source!Below(j) /\ machine'.memory = h.memory
       /\ ~b_state.reported' /\ ~b_state.out_of_registers'
  BY <1>5, <1>9, <1>16, <1>17, <1>18, OperandsLeft
<1>20. L.place # -1
  <2>1. L.place \in Nat
    BY <1>16, AddressesAreNumbers
  <2> QED
    BY <2>1
<1>21. PICK w \in Source!Binaries \cup {"Nop", "BitNot"} :
         e = CASE w = "Nop" -> R
               [] w = "BitNot" -> Source!ApplyTo(w, R)
               [] OTHER -> Source!Apply(w, L, R)
  <2>1. o \in Source!Binaries \cup {"Nop", "BitNot"}
    BY <1>7 DEF Source!Binaries, BinaryOperators
  <2>2. o # "BitNot"
    BY <1>7 DEF BinaryOperators
  <2> QED
    BY <1>13, <2>1, <2>2
<1>22. Source!Count >= 2
  BY <1>10, SourceOperands
<1>23. /\ \/ op' = "Assign" /\ Meant(b_state, machine)' = Source!Below(2)
          \/ op' = "AssignR" /\ Meant(b_state, machine)' = Source!Below(1)
       /\ machine'.memory =
            Source!WithBytes(machine.memory, L.place, Source!SizeOf(L.type),
                             Source!As(e, Source!Primitive(L.type)))
  <2>1. machine'.memory = WithBytes(machine.memory, L.place, Source!SizeOf(L.type), x)
    BY <1>17, <1>19
  <2>2. WithBytes(machine.memory, L.place, Source!SizeOf(L.type), x)
          = Source!WithBytes(machine.memory, L.place, Source!SizeOf(L.type), x)
    BY SameBytes
  <2> QED
    BY <1>3, <1>4, <1>14, <1>19, <2>1, <2>2
<1>24. ~(b_state.reported \/ b_state.out_of_registers) /\ ~(b_state.reported' \/ b_state.out_of_registers')
  BY <1>9, <1>19 DEF Good
<1>25. Source!Assign
  BY <1>2, <1>20, <1>21, <1>22, <1>23, <1>24 DEF Source!Assign, Meant, Source!NoPlace
<1> QED
  BY <1>19, <1>25 DEF Follows, Source!Next

(* A condition is loaded, and nothing else happens to it. *)
LEMMA JumpIfFollows ==
  ASSUME Sound, JumpIf, Good(b_state)'
  PROVE  Follows
<1>1. PICK d : d = Load(b_state)
  OBVIOUS
<1>2. PICK command : command = <<"JMPCV", d.loaded[1].data>>
  OBVIOUS
<1>3. PICK c : c = Emitted(d, command)
  OBVIOUS
<1>4. Operands(1) /\ Translate("JumpIf", c)
  BY <1>1, <1>2, <1>3 DEF JumpIf, InExpression
<1>5. IsState(b_state)
  BY DEF Sound, TypeInv, Rests
<1>6. Remembers(b_state, d) /\ IsState(d)
  BY <1>1, <1>5, LoadRemembers DEF Remembers
<1>7. Remembers(d, c) /\ Quiet(d, c)
  BY <1>3, <1>6, SmallRemember, QuietSteps
<1>8. Remembers(b_state, c)
  BY <1>6, <1>7, RemembersTwice
<1>9. Good(c) /\ Good(b_state) /\ IsState(c)
  BY <1>4, <1>8, GoodBefore
<1>10. ~d.reported
  BY <1>7, <1>9 DEF Remembers, Good
<1>11. /\ Works(b_state, machine) /\ Apart(b_state) /\ Typed(b_state)
       /\ b_state.value_stack # <<>> /\ b_state.value_stack \in Seq(Frames)
       /\ Len(b_state.value_stack) \in Nat /\ Len(b_state.value_stack) >= 1
  BY <1>4, <1>9, SoundWithOperands DEF Typed
<1>12. /\ d.value_stack = Front(b_state.value_stack)
       /\ \E k : Carries(d, k) /\ Keeps(machine, k, Spare(b_state, 1))
  BY <1>1, <1>10, <1>11, OneIsLoaded
<1>13. PICK k : Carries(d, k) /\ Keeps(machine, k, Spare(b_state, 1))
  BY <1>12
<1>14. Carries(c, k)
  <2>1. k \in Machines
    BY <1>13 DEF Carries
  <2>2. PICK r \in Registers : TRUE
    BY TranslatorAssumption DEF Registers
  <2>3. Execute(k, command) = k
    BY <1>2, <2>1, <2>2, Storing
  <2>4. \A x : Execute(k, x) \in Machines => Carries(Emitted(d, x), Execute(k, x))
    BY <1>6, <1>13, Carrying
  <2> QED
    BY <1>3, <2>1, <2>3, <2>4
<1>15. /\ Len(c.value_stack) = Len(b_state.value_stack) - 1
       /\ \A i \in 1 .. Len(b_state.value_stack) - 1 : c.value_stack[i] = b_state.value_stack[i]
  BY <1>7, <1>11, <1>12, WithoutLast DEF Quiet
<1>16. SameBelow(b_state, c, machine, k, 1)
  <2>1. \A r \in Registers \ Spare(b_state, 1) : k.registers[r] = machine.registers[r]
    BY <1>13 DEF Keeps
  <2>2. \A i \in 1 .. Len(b_state.value_stack) - 1 :
          /\ Stands(k, b_state.value_stack[i])
          /\ Operand(k, b_state.value_stack[i]) = Operand(machine, b_state.value_stack[i])
    BY <1>11, <2>1, LowerStand, SMTT(30)
  <2> QED
    BY <1>15, <2>2 DEF SameBelow
<1>17. /\ Meaningful' /\ op' = "JumpIf" /\ 1 <= Source!Count
       /\ Meant(b_state, machine)' = Source!Below(1) /\ machine'.memory = k.memory
       /\ ~b_state.reported' /\ ~b_state.out_of_registers'
  BY <1>4, <1>9, <1>11, <1>14, <1>15, <1>16, OperandsLeft
<1>18. k.memory = machine.memory
  BY <1>13 DEF Keeps
<1>19. Source!Becomes(Source!Below(1))
  BY <1>9, <1>17, <1>18 DEF Source!Becomes, Meant, Good
<1>20. Source!Count >= 1
  BY <1>11, SourceOperands
<1>21. Source!JumpIf
  BY <1>17, <1>19, <1>20 DEF Source!JumpIf
<1> QED
  BY <1>17, <1>21 DEF Follows, Source!Next

(* A step that leaves the operands and the memory alone. *)
LEMMA BetweenFollows ==
  ASSUME Sound, Good(b_state), NEW o \in Betweens, NEW c, Translate(o, c), IsState(c), Good(c),
         c.value_stack = b_state.value_stack,
         NEW h, Carries(c, h), h.memory = machine.memory,
         \A i \in 1 .. Len(b_state.value_stack) :
           /\ Stands(h, b_state.value_stack[i])
           /\ Operand(h, b_state.value_stack[i]) = Operand(machine, b_state.value_stack[i])
  PROVE  Follows
<1>1. PICK n \in Nat : n = Len(b_state.value_stack) /\ n - 0 = n
  BY StateWorks DEF Sound
<1>2. SameBelow(b_state, c, machine, h, 0)
  BY <1>1 DEF SameBelow
<1>3. 0 \in Nat /\ 0 <= Len(b_state.value_stack) /\ Len(c.value_stack) = Len(b_state.value_stack) - 0
  BY <1>1
<1>4. /\ Meaningful' /\ op' = o
      /\ Meant(b_state, machine)' = Source!Below(0) /\ machine'.memory = h.memory
      /\ ~b_state.reported' /\ ~b_state.out_of_registers'
  BY <1>2, <1>3, OperandsLeft
<1>5. Source!Below(0) = Meant(b_state, machine)
  <2>1. Source!Below(0) = MeantBelow(b_state, machine, 0)
    BY <1>1, SourceOperands
  <2> QED
    BY <1>1, <2>1 DEF Meant, MeantBelow
<1>6. Source!Between
  BY <1>4, <1>5 DEF Source!Between, Source!Becomes, Meant, Good, Betweens
<1> QED
  BY <1>4, <1>6 DEF Follows, Source!Next

(* One that gives a command that changes nothing on the machine, or none.  *)
LEMMA StatementFollows ==
  ASSUME Sound, Good(b_state)', NEW o \in Betweens, NEW c, Translate(o, c),
         NEW command, Execute(machine, command) = machine,
         c = b_state \/ c = Emitted(b_state, command)
  PROVE  Follows
<1>1. IsState(b_state)
  BY DEF Sound, TypeInv, Rests
<1>2. Remembers(b_state, c) /\ c.value_stack = b_state.value_stack
  BY <1>1, SmallRemember, QuietSteps DEF Quiet
<1>3. Good(c) /\ Good(b_state) /\ IsState(c)
  BY <1>2, GoodBefore
<1>4. Works(b_state, machine)
  BY <1>3, StateWorks DEF Sound
<1>5. Carries(c, machine)
  <2>1. Carries(b_state, machine) /\ machine \in Machines
    BY <1>4 DEF Works, Carries
  <2>2. Carries(Emitted(b_state, command), machine)
    <3>1. \A x : Execute(machine, x) \in Machines =>
            Carries(Emitted(b_state, x), Execute(machine, x))
      BY <1>1, <2>1, Carrying
    <3> QED
      BY <2>1, <3>1
  <2> QED
    BY <2>1, <2>2
<1>6. \A i \in 1 .. Len(b_state.value_stack) : Stands(machine, b_state.value_stack[i])
  BY <1>4 DEF Works
<1> QED
  BY <1>2, <1>3, <1>5, <1>6, BetweenFollows

(* What gives nothing to carry out, and leaves the operands alone. *)
LEMMA NothingFollows ==
  ASSUME Sound, UNCHANGED machine, op' \in Betweens,
         b_state'.value_stack = b_state.value_stack,
         b_state'.reported = b_state.reported,
         b_state'.out_of_registers = b_state.out_of_registers
  PROVE  Follows
<1>1. Meaningful'
  BY DEF Sound, Meaningful, Good
<1>2. Source!Between
  BY DEF Source!Between, Source!Becomes, Betweens
<1> QED
  BY <1>1, <1>2 DEF Follows, Source!Next

(* An expression that is a statement: its operand is simply left. *)
LEMMA EndExpressionFollows ==
  ASSUME Sound, EndExpression
  PROVE  Follows
<1>1. UNCHANGED <<b_state, machine>> /\ op' \in Betweens
  BY DEF EndExpression, Betweens
<1> QED
  BY <1>1, NothingFollows

(* The end of the module. *)
LEMMA EndFollows ==
  ASSUME Sound, End
  PROVE  Follows
<1>1. PICK held : b_state' = [b_state EXCEPT !.registers_table = @ \ held]
  BY DEF End
<1>2. UNCHANGED machine /\ op' \in Betweens
  BY DEF End, Betweens
<1>3. /\ b_state'.value_stack = b_state.value_stack
      /\ b_state'.reported = b_state.reported
      /\ b_state'.out_of_registers = b_state.out_of_registers
  <2>1. b_state = [value_stack |-> b_state.value_stack, registers_table |-> b_state.registers_table,
                   result |-> b_state.result, loaded |-> b_state.loaded,
                   reported |-> b_state.reported,
                   out_of_registers |-> b_state.out_of_registers]
    BY DEF Sound, TypeInv, Rests, IsState, Fields
  <2> QED
    BY <1>1, <2>1
<1> QED
  BY <1>2, <1>3, NothingFollows

(* Jumps, labels, declarations and scopes. *)
LEMMA QuietStatementsFollow ==
  ASSUME Sound, Good(b_state)',
         Jump \/ Label \/ (\E v \in Own : DeclareVariable(v)) \/ PushFrame \/ PopFrame
  PROVE  Follows
<1>1. PICK r \in Registers : TRUE
  BY TranslatorAssumption DEF Registers
<1>2. PICK o \in Betweens : \E command :
        /\ command = <<"JMP">> \/ command = <<"JMP_LABEL">> \/ \E x : command = <<"STACK_UP", x>>
        /\ Translate(o, b_state) \/ Translate(o, Emitted(b_state, command))
  <2>1. CASE Jump \/ Label
    BY <2>1 DEF Jump, Label, Statement, Betweens
  <2>2. CASE \E v \in Own : DeclareVariable(v)
    BY <2>2 DEF DeclareVariable, Statement, Betweens
  <2>3. CASE PushFrame \/ PopFrame
    BY <2>3 DEF PushFrame, OpenFrame, PopFrame, Statement, Betweens
  <2> QED
    BY <2>1, <2>2, <2>3
<1>3. PICK command :
        /\ command = <<"JMP">> \/ command = <<"JMP_LABEL">> \/ \E x : command = <<"STACK_UP", x>>
        /\ Translate(o, b_state) \/ Translate(o, Emitted(b_state, command))
  BY <1>2
<1>4. Good(b_state)
  <2>1. IsState(b_state)
    BY DEF Sound, TypeInv, Rests
  <2>2. Remembers(b_state, b_state) /\ Remembers(b_state, Emitted(b_state, command))
    BY <2>1, SmallRemember
  <2> QED
    BY <1>3, <2>2, GoodBefore
<1>5. Execute(machine, command) = machine
  <2>1. machine \in Machines
    BY <1>4 DEF Sound, Meaningful
  <2>2. /\ \A x : Execute(machine, <<"STACK_UP", x>>) = machine
        /\ Execute(machine, <<"JMP">>) = machine
        /\ Execute(machine, <<"JMP_LABEL">>) = machine
    BY <1>1, <2>1, Storing
  <2> QED
    BY <1>3, <2>2
<1> QED
  BY <1>3, <1>5, StatementFollows

(* An operation of an op_code section: no operand has its register. *)
LEMMA LowLevelFollows ==
  ASSUME Sound, NEW id \in LLRegisters, LowLevel(id), Good(b_state)'
  PROVE  Follows
<1>1. PICK had \in BOOLEAN : had <=> id \in DOMAIN allocated_registers
  OBVIOUS
<1>2. PICK b : b = IF had THEN b_state ELSE Allocated(b_state)
  OBVIOUS
<1>3. PICK r : r = IF had THEN allocated_registers[id] ELSE FindFreeGeneral(b_state)
  OBVIOUS
<1>4. PICK command : command = <<"MOVRI", IF r = InvalidRegister THEN 0 ELSE r>>
  OBVIOUS
<1>5. PICK c : c = Emitted(IF r = InvalidRegister THEN Reported(b) ELSE b, command)
  OBVIOUS
<1>6. Translate("PushLLOpers", c)
  BY <1>1, <1>2, <1>3, <1>4, <1>5 DEF LowLevel, Statement
<1>7. IsState(b_state)
  BY DEF Sound, TypeInv, Rests
<1>8. Remembers(b_state, b) /\ IsState(b)
  BY <1>2, <1>7, SmallRemember DEF Remembers
<1>9. Remembers(b, c)
  <2>1. Remembers(b, Reported(b)) /\ IsState(Reported(b))
    BY <1>8, SmallRemember DEF Remembers
  <2>2. Remembers(Reported(b), Emitted(Reported(b), command)) /\ Remembers(b, Emitted(b, command))
    BY <1>8, <2>1, SmallRemember
  <2> QED
    BY <1>5, <2>1, <2>2, RemembersTwice
<1>10. Remembers(b_state, c)
  BY <1>8, <1>9, RemembersTwice
<1>11. Good(c) /\ Good(b_state) /\ IsState(c)
  BY <1>6, <1>10, GoodBefore
<1>12. r # InvalidRegister
  <2>1. SUFFICES ASSUME r = InvalidRegister PROVE FALSE
    OBVIOUS
  <2>2. IsState(Reported(b)) /\ Reported(b).reported
    BY <1>8, SmallRemember DEF Remembers
  <2>3. Emitted(Reported(b), command).reported = Reported(b).reported
    BY <2>2, QuietSteps
  <2> QED
    BY <1>5, <1>11, <2>1, <2>2, <2>3 DEF Good
<1>13. c = Emitted(b, <<"MOVRI", r>>)
  BY <1>4, <1>5, <1>12
<1>14. /\ Works(b_state, machine) /\ Typed(b_state)
       /\ Held(b_state, {allocated_registers[x] : x \in DOMAIN allocated_registers})
  BY <1>11, StateWorks DEF Sound, ApartInv, ApartFrom, Good
<1>15. r \in Registers
  <2>1. had => r \in Registers
    BY <1>1, <1>3 DEF Sound, TypeInv, LLTyped
  <2>2. ~had => r \in Registers
    BY <1>3, <1>7, <1>12, FirstFree
  <2> QED
    BY <2>1, <2>2
<1>16. \A i \in 1 .. Len(b_state.value_stack) : r \notin Reg(b_state.value_stack[i])
  <2>1. CASE had
    <3>1. r \in {allocated_registers[x] : x \in DOMAIN allocated_registers}
      BY <1>1, <1>3, <2>1
    <3> QED
      BY <1>14, <3>1 DEF Held
  <2>2. CASE ~had
    <3>1. r \notin b_state.registers_table
      BY <1>3, <1>7, <1>12, <2>2, FirstFree
    <3> QED
      BY <1>14, <3>1 DEF Held, Apart
  <2> QED
    BY <2>1, <2>2
<1>17. PICK h : h = Put(machine, r, Unknown)
  OBVIOUS
<1>18. machine \in Machines
  BY <1>14 DEF Works, Carries
<1>19. /\ h \in Machines /\ h.memory = machine.memory
       /\ \A s \in Registers : s # r => h.registers[s] = machine.registers[s]
  BY <1>15, <1>17, <1>18, ValuesRepresent, Puts
<1>20. Carries(c, h)
  <2>1. Carries(b_state, machine)
    BY <1>14 DEF Works
  <2>2. Carries(b, machine)
    BY <1>2, <1>7, <2>1, Carrying
  <2>3. Execute(machine, <<"MOVRI", r>>) = h
    BY <1>15, <1>17, <1>18, Loading
  <2>4. \A x : Execute(machine, x) \in Machines =>
          Carries(Emitted(b, x), Execute(machine, x))
    BY <1>8, <2>2, Carrying
  <2> QED
    BY <1>13, <1>19, <2>3, <2>4
<1>21. c.value_stack = b_state.value_stack
  <2>1. b.value_stack = b_state.value_stack
    <3>1. FindFreeGeneral(b_state) # InvalidRegister =>
            Allocated(b_state).value_stack = b_state.value_stack
      BY <1>7, Allocating DEF Fields
    <3> QED
      BY <1>2, <1>3, <1>12, <3>1
  <2>2. Quiet(b, c)
    BY <1>8, <1>13, QuietSteps
  <2> QED
    BY <2>1, <2>2 DEF Quiet
<1>22. ASSUME NEW i \in 1 .. Len(b_state.value_stack)
       PROVE  /\ Stands(h, b_state.value_stack[i])
              /\ Operand(h, b_state.value_stack[i]) = Operand(machine, b_state.value_stack[i])
  <2>1. PICK f : f = b_state.value_stack[i]
    OBVIOUS
  <2>2. Stands(machine, f) /\ r \notin Reg(f)
    BY <1>14, <1>16, <2>1 DEF Works
  <2>3. InRegister(f) => h.registers[f.data] = machine.registers[f.data]
    <3>1. SUFFICES ASSUME InRegister(f) PROVE h.registers[f.data] = machine.registers[f.data]
      OBVIOUS
    <3>2. PICK s \in Registers : s = f.data
      BY <2>2, <3>1 DEF Stands
    <3>3. s # r
      BY <2>2, <3>1, <3>2 DEF Reg
    <3> QED
      BY <1>19, <3>2, <3>3
  <2>4. Stands(h, f) /\ Operand(h, f) = Operand(machine, f)
    BY <2>2, <2>3, SameOperand
  <2> QED
    BY <2>1, <2>4
<1>23. "PushLLOpers" \in Betweens
  BY DEF Betweens
<1> QED
  BY <1>6, <1>11, <1>19, <1>20, <1>21, <1>22, <1>23, BetweenFollows

(* Every step without a message. *)
LEMMA NextFollows ==
  ASSUME Translatable, Sound, Next, Good(b_state)'
  PROVE  Follows
<1>1. ASSUME NEW v \in Variables, Use(v) PROVE Follows
  BY <1>1, UseFollows
<1>2. ASSUME NEW k \in Constants, UseConstant(k) PROVE Follows
  BY <1>2, UseConstantFollows
<1>3. ASSUME NEW o \in BinaryOperators, Binary(o) PROVE Follows
  BY <1>3, BinaryFollows DEF Translatable
<1>4. ASSUME NEW o \in UnaryOperators, Unary(o) PROVE Follows
  BY <1>4, UnaryFollows DEF Translatable
<1>5. CASE GetPointer
  BY <1>5, GetPointerFollows
<1>6. CASE Dereference
  BY <1>6, DereferenceFollows
<1>7. CASE GetByArgument
  BY <1>7, GetByArgumentFollows DEF Translatable
<1>8. ASSUME NEW o \in CompoundOperators \cup {"Nop"}, NEW keep \in BOOLEAN, Assign(o, keep)
      PROVE  Follows
  BY <1>8, AssignFollows DEF Translatable
<1>9. CASE EndExpression
  BY <1>9, EndExpressionFollows
<1>10. CASE JumpIf
  BY <1>10, JumpIfFollows
<1>11. CASE Jump \/ Label \/ (\E v \in Own : DeclareVariable(v)) \/ PushFrame \/ PopFrame
  BY <1>11, QuietStatementsFollow
<1>12. ASSUME NEW id \in LLRegisters, LowLevel(id) PROVE Follows
  BY <1>12, LowLevelFollows
<1>13. CASE End
  BY <1>13, EndFollows
<1> QED
  BY <1>1, <1>2, <1>3, <1>4, <1>5, <1>6, <1>7, <1>8, <1>9, <1>10, <1>11, <1>12, <1>13
     DEF Next

(* A step that printed a message, or left no register, is a failure of the *)
(* source's machine, and nothing is said of it.                            *)
LEMMA StepFollows ==
  ASSUME Translatable, Sound, Next
  PROVE  Follows
<1>1. TypeInv'
  BY NextKeeps DEF StepKeeps, Sound
<1>2. /\ b_state'.reported \in BOOLEAN
      /\ b_state'.out_of_registers \in BOOLEAN
  BY <1>1 DEF TypeInv, Rests, IsState
<1>3. CASE Good(b_state)'
  BY <1>3, NextFollows
<1>4. CASE ~Good(b_state)'
  <2>1. Meaningful'
    BY <1>4 DEF Meaningful
  <2>2. (b_state'.reported \/ b_state'.out_of_registers) = TRUE
    BY <1>2, <1>4 DEF Good
  <2>3. Source!Fail
    BY <2>2 DEF Source!Fail
  <2> QED
    BY <2>1, <2>3 DEF Follows, Source!Next
<1> QED
  BY <1>3, <1>4

(* A program starts without operands, on a machine whose memory is what    *)
(* the linker made of it.                                                  *)
LEMMA InitSound == Init => Sound /\ Source!Init
<1> SUFFICES ASSUME Init
             PROVE  Sound /\ Source!Init
  OBVIOUS
<1>1. TypeInv /\ ApartInv
  BY InitTyped
<1>2. /\ b_state.value_stack = <<>> /\ ~b_state.reported /\ ~b_state.out_of_registers
      /\ op = "Nop"
  BY DEF Init
<1>3. machine \in Machines
  <2>1. Unknown \in MSLValue
    BY ValuesRepresent
  <2>2. [r \in Registers |-> Unknown] \in [Registers -> MSLValue]
    BY <2>1
  <2>3. ASSUME NEW a \in Addresses, a \notin OwnBytes
        PROVE  LET v == CHOOSE v \in Imported : a \in BytesOf(v)
               IN Byte(LinkedValue[v], a - LinkedAt[v]) \in MemoryByte
    <3>1. \E v \in Imported : a \in BytesOf(v)
      BY <2>3 DEF Addresses
    <3>2. PICK v : v = CHOOSE w \in Imported : a \in BytesOf(w)
      OBVIOUS
    <3>3. v \in Imported /\ a \in BytesOf(v)
      BY <3>1, <3>2
    <3>4. LinkedAt[v] \in Nat /\ LinkedValue[v] \in MSLValue
      BY <3>3, TranslatorAssumption
    <3>5. a - LinkedAt[v] \in Nat
      BY <3>3, <3>4 DEF BytesOf
    <3>6. Byte(LinkedValue[v], a - LinkedAt[v]) \in MemoryByte
      BY <3>4, <3>5 DEF Byte, MemoryByte
    <3> QED
      BY <3>2, <3>6
  <2>4. Byte(Unknown, 0) \in MemoryByte
    BY <2>1 DEF Byte, MemoryByte
  <2>5. [a \in Addresses |->
          IF a \in OwnBytes THEN Byte(Unknown, 0)
          ELSE LET v == CHOOSE v \in Imported : a \in BytesOf(v)
               IN Byte(LinkedValue[v], a - LinkedAt[v])] \in [Addresses -> MemoryByte]
    BY <2>3, <2>4
  <2>6. machine = [registers |-> [r \in Registers |-> Unknown],
                   memory |-> [a \in Addresses |->
                     IF a \in OwnBytes THEN Byte(Unknown, 0)
                     ELSE LET v == CHOOSE v \in Imported : a \in BytesOf(v)
                          IN Byte(LinkedValue[v], a - LinkedAt[v])]]
    BY DEF Init
  <2> QED
    BY <2>2, <2>5, <2>6 DEF Machines
<1>4. Len(b_state.value_stack) = 0
  BY <1>2
<1>5. Meaningful
  BY <1>3, <1>4 DEF Meaningful
<1>6. Source!Init
  BY <1>2, <1>4 DEF Source!Init
<1> QED
  BY <1>1, <1>5, <1>6 DEF Sound

(* The commands the translator prints do what the pseudo-code means: the   *)
(* detailed translator, with its stack of value frames, its registers and  *)
(* the code it leaves out, implements ExpressionPromise.                   *)
THEOREM SourceIsComputed ==
  ASSUME Translatable
  PROVE  Spec => ComputesTheSource
<1>1. Init => Sound /\ Source!Init
  BY InitSound
<1>2. Sound /\ [Next]_vars => Sound'
  <2>1. Sound /\ Next => Sound'
    <3> SUFFICES ASSUME Sound, Next
                 PROVE  Sound'
      OBVIOUS
    <3>1. NotTwice
      BY DEF Translatable, NotTwice
    <3>2. TypeInv' /\ ApartInv'
      BY <3>1, NextKeeps DEF StepKeeps, Sound
    <3>3. Meaningful'
      BY StepFollows DEF Follows
    <3> QED
      BY <3>2, <3>3 DEF Sound
  <2>2. Sound /\ UNCHANGED vars => Sound'
    BY DEF vars, Sound, TypeInv, Rests, ScopesTyped, LLTyped, ApartInv, Meaningful
  <2> QED
    BY <2>1, <2>2
<1>3. Sound /\ [Next]_vars => [Source!Next]_(Source!vars)
  <2>1. Sound /\ Next => Source!Next
    BY StepFollows DEF Follows
  <2>2. UNCHANGED vars => UNCHANGED Source!vars
    BY DEF vars, Source!vars
  <2> QED
    BY <2>1, <2>2
<1> QED
  BY <1>1, <1>2, <1>3, PTL DEF Spec, ComputesTheSource, Source!Spec
=============================================================================
