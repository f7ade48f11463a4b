---------------------------- MODULE VMHostProofs ----------------------------
(***************************************************************************)
(* Proofs about VMHost, for every stack and heap size, alignment, set of   *)
(* files and number of plans.                                              *)
(***************************************************************************)
EXTENDS VMHost, TLAPS, SequenceTheorems

-----------------------------------------------------------------------------
(* What rounding up to the alignment gives.                                *)

(* A multiple of the alignment leaves no remainder. *)
LEMMA MultipleIsAligned ==
  ASSUME NEW q \in Nat
  PROVE  q * Alignment \in Nat /\ (q * Alignment) % Alignment = 0
<1> DEFINE n == q * Alignment
           d == n \div Alignment
           r == n % Alignment
<1>1. Alignment \in Nat \ {0}
  BY HostAssumption
<1>2. n \in Nat
  BY <1>1
<1> HIDE DEF n
<1>3. d \in Int /\ r \in 0 .. Alignment - 1 /\ n = Alignment * d + r
  BY <1>1, <1>2, Z3
<1> HIDE DEF d, r
<1>4. r = Alignment * (q - d)
  BY <1>1, <1>3, Z3 DEF n
<1>5. ASSUME q - d >= 1
      PROVE  FALSE
  <2>1. Alignment * (q - d) >= Alignment
    BY <1>1, <1>3, <1>5, Z3
  <2> QED
    BY <1>1, <1>3, <1>4, <2>1
<1>6. ASSUME q - d <= -1
      PROVE  FALSE
  <2>1. Alignment * (q - d) <= -Alignment
    BY <1>1, <1>3, <1>6, Z3
  <2> QED
    BY <1>1, <1>3, <1>4, <2>1
<1>7. q - d = 0
  BY <1>3, <1>5, <1>6
<1>8. r = 0
  BY <1>1, <1>4, <1>7
<1> QED
  BY <1>2, <1>8 DEF n, r

(* Allocate's sizes are aligned and no smaller than those asked for. *)
LEMMA AlignUpIsAligned ==
  ASSUME NEW n \in Nat
  PROVE  AlignUp(n) \in Nat /\ n <= AlignUp(n) /\ AlignUp(n) % Alignment = 0
<1> DEFINE q == (n + Alignment - 1) \div Alignment
<1>1. q \in Nat
  BY HostAssumption
<1>2. n + Alignment - 1 < (q + 1) * Alignment
  BY HostAssumption, Z3
<1>3. (q + 1) * Alignment = q * Alignment + Alignment
  BY <1>1, HostAssumption
<1> HIDE DEF q
<1>4. q * Alignment \in Nat /\ (q * Alignment) % Alignment = 0
  BY <1>1, MultipleIsAligned
<1>5. n <= q * Alignment
  BY <1>2, <1>3, <1>4, HostAssumption
<1> QED
  BY <1>4, <1>5 DEF AlignUp, q

(* The layout made for a file holds its code and its data, side by side.   *)
LEMMA LayoutOfFile ==
  ASSUME NEW f \in Files
  PROVE  /\ Layout(f) \in [pointer : BOOLEAN, code_size : Nat, rod_size : Nat,
                           size : Nat, stack_sa : Nat, heap_sa : Nat, end : Nat,
                           heap_size : Nat]
         /\ Layout(f).code_size >= f.code_size
         /\ Layout(f).stack_sa >= f.rod_size
         /\ Layout(f).stack_sa % Alignment = 0
         /\ Layout(f).code_size + Layout(f).end = Layout(f).size
<1>1. f.code_size \in Nat /\ f.rod_size \in Nat
  BY HostAssumption DEF File
<1>2. /\ AlignUp(f.code_size) \in Nat /\ AlignUp(f.code_size) >= f.code_size
      /\ AlignUp(f.rod_size) \in Nat /\ AlignUp(f.rod_size) >= f.rod_size
      /\ AlignUp(f.rod_size) % Alignment = 0
  BY <1>1, AlignUpIsAligned
<1> HIDE DEF AlignUp
<1>3. StackSize \in Nat /\ HeapSize \in Nat
  BY HostAssumption
<1> QED
  BY <1>1, <1>2, <1>3 DEF Layout

-----------------------------------------------------------------------------
(* The inductive invariant.                                                *)

MemoryType ==
  [pointer : BOOLEAN, code_size : Nat, rod_size : Nat, size : Nat,
   stack_sa : Nat, heap_sa : Nat, end : Nat, heap_size : Nat]

(* Memory that is set up was set up for the script that is in it. *)
LaidOut ==
  memory.pointer => script \in Files /\ memory = Layout(script) /\ plan >= 1

(* From the load to the report the script in memory is the one the plan    *)
(* names, or an earlier one that a refused file did not replace.           *)
ScriptOfPlan ==
  memory.pointer /\ (next \in {"clear", "execute", "report"} \/ outcome = "ran") =>
    script = named \/ (plan > 1 /\ Verdict(named) # "NoError")

(* A script that has run did so in memory that is still set up.            *)
RanInMemory ==
  outcome = "ran" => next \in {"report", "load"} /\ memory.pointer

StackReset == next \in {"execute", "report"} => sp = memory.stack_sa

HostInv ==
  /\ memory \in MemoryType /\ plan \in Nat
  /\ LaidOut /\ ScriptOfPlan /\ RanInMemory /\ StackReset

LEMMA LoadKeeps ==
  ASSUME HostInv, LoadScript
  PROVE  HostInv'
<1>1. PICK f \in Files :
        /\ named' = f
        /\ IF Verdict(f) = "NoError"
           THEN memory' = Layout(f) /\ script' = f
           ELSE UNCHANGED <<memory, script>>
  BY DEF LoadScript
<1>2. plan' = plan + 1 /\ plan \in Nat /\ next' = "clear" /\ outcome' = "none"
  BY DEF LoadScript, HostInv
<1>3. CASE Verdict(f) = "NoError"
  <2>1. memory' = Layout(f) /\ script' = f
    BY <1>1, <1>3
  <2>2. memory' \in MemoryType
    BY <2>1, LayoutOfFile DEF MemoryType
  <2> QED
    BY <1>1, <1>2, <2>1, <2>2
    DEF HostInv, LaidOut, ScriptOfPlan, RanInMemory, StackReset
<1>4. CASE Verdict(f) # "NoError"
  <2>1. memory' = memory /\ script' = script /\ Verdict(named') # "NoError"
    BY <1>1, <1>4
  <2> QED
    BY <1>1, <1>2, <2>1
    DEF HostInv, LaidOut, ScriptOfPlan, RanInMemory, StackReset, Verdict
<1> QED
  BY <1>3, <1>4

(* A script is only ever started on memory that was set up for it, laid    *)
(* out without a gap, with the stack pointer aligned behind its read-only  *)
(* data; after a refused file that may be the script of an earlier plan.   *)
THEOREM ScriptsStartAsLaidOut == Spec => []StartsAsLaidOut
<1>1. Init => HostInv
  BY DEF Init, NoMemory, HostInv, MemoryType, LaidOut, ScriptOfPlan, RanInMemory,
         StackReset
<1>2. HostInv /\ [Next]_vars => HostInv'
  <2> SUFFICES ASSUME HostInv, [Next]_vars
               PROVE  HostInv'
    OBVIOUS
  <2>1. CASE LoadScript
    BY <2>1, LoadKeeps
  <2>2. CASE LoadCrashes
    <3>1. memory' \in MemoryType /\ memory'.pointer = FALSE
      BY <2>2 DEF LoadCrashes, HostInv, MemoryType
    <3> QED
      BY <2>2, <3>1 DEF LoadCrashes, HostInv, LaidOut, ScriptOfPlan, RanInMemory,
                        StackReset
  <2>3. CASE ClearState
    BY <2>3 DEF ClearState, HostInv, LaidOut, ScriptOfPlan, RanInMemory, StackReset,
                Verdict
  <2>4. CASE Execute
    BY <2>4 DEF Execute, IsValid, HostInv, LaidOut, ScriptOfPlan, RanInMemory,
                StackReset, Verdict
  <2>5. CASE Report
    BY <2>5 DEF Report, HostInv, LaidOut, ScriptOfPlan, RanInMemory, StackReset,
                Verdict
  <2>6. CASE UNCHANGED vars
    BY <2>6 DEF vars, HostInv, LaidOut, ScriptOfPlan, RanInMemory, StackReset,
                Verdict
  <2> QED
    BY <2>1, <2>2, <2>3, <2>4, <2>5, <2>6 DEF Next
<1>3. HostInv => StartsAsLaidOut
  <2> SUFFICES ASSUME HostInv, outcome = "ran"
               PROVE  StartsAsLaidOut
    BY DEF StartsAsLaidOut, StartsOnItsOwnMemory, StackStartsAligned
  <2>1. memory.pointer /\ script \in Files /\ memory = Layout(script)
    BY DEF HostInv, RanInMemory, LaidOut
  <2>2. /\ memory.code_size >= script.code_size
        /\ memory.stack_sa >= script.rod_size /\ memory.stack_sa % Alignment = 0
        /\ memory.code_size + memory.end = memory.size
    BY <2>1, LayoutOfFile
  <2>3. next = "report" => sp = memory.stack_sa
    BY DEF HostInv, StackReset
  <2>4. script = named \/ (plan > 1 /\ Verdict(named) # "NoError")
    BY <2>1 DEF HostInv, ScriptOfPlan
  <2> QED
    BY <2>1, <2>2, <2>3, <2>4
    DEF StartsAsLaidOut, StartsOnItsOwnMemory, StackStartsAligned
<1> QED
  BY <1>1, <1>2, <1>3, PTL DEF Spec
=============================================================================
