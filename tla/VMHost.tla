------------------------------- MODULE VMHost -------------------------------
(***************************************************************************)
(* The life of a virtual machine around its execution loop: LoadScript     *)
(* (MSLVM/source/api/virtual_machine.cpp), DynamicMemory::Allocate         *)
(* (vm_memory.cpp), clear_vm_state and the first lines of                  *)
(* execute_code_switch (vm_execution.cpp), in the order the source gives   *)
(* for them, "Plan: load script, clear vm state, execute", followed by the *)
(* error report of main (MSLVM.cpp).  A host may carry the plan out more   *)
(* than once on one machine; main does it once.                            *)
(*                                                                         *)
(* What a script does is the module VMExec's matter: here it may end with  *)
(* or without an error, and may have tried to write its read-only data.    *)
(***************************************************************************)
EXTENDS Integers, Sequences

CONSTANTS
  StackSize, HeapSize,   (* MinStackSize and MinHeapSize, 32767            *)
  Alignment,             (* DEFAULT_ALIGNMENT, 8                           *)
  Files,                 (* the .msli files a host may name                *)
  Plans                  (* how often the host carries out the plan        *)

(* What LoadScript looks at in a file; code_end is code_offset + code_size.*)
File == [exists : BOOLEAN, magic : BOOLEAN, vm_version : BOOLEAN,
         length : Nat, code_end : Nat, code_size : Nat, rod_size : Nat]

ASSUME HostAssumption ==
  /\ StackSize \in Nat \ {0} /\ HeapSize \in Nat \ {0}
  /\ Alignment \in Nat \ {0}
  /\ Files \subseteq File
  /\ Plans \in Nat

VARIABLES
  memory,       (* DynamicMemory's sizes and start addresses               *)
  script,       (* the file whose code is in the memory block              *)
  status,       (* DynamicMemory::status                                   *)
  hfi,          (* the free intervals, in the order they were added        *)
  sp, fp,
  error_stack,
  next,         (* the step of the plan that comes next                    *)
  plan,         (* how many plans were begun                               *)
  named,        (* the file of the current plan                            *)
  outcome       (* what became of the script in the current plan           *)

vars == <<memory, script, status, hfi, sp, fp, error_stack, next, plan,
          named, outcome>>

NoFile == "none"

NoMemory == [pointer |-> FALSE, code_size |-> 0, rod_size |-> 0, size |-> 0,
             stack_sa |-> 0, heap_sa |-> 0, end |-> 0, heap_size |-> 0]

AlignUp(n) == ((n + Alignment - 1) \div Alignment) * Alignment

(* An error pushed by LoadScript is ErrorFrame(0, code): the second member *)
(* of ErrorFrame is frame_fp, and the members not named are zero, so the   *)
(* frame reads NoError and CRITICAL.                                       *)
LoadError(e) == [code |-> "NoError", frame_fp |-> e]
RaisedError(e) == [code |-> e, frame_fp |-> fp]

-----------------------------------------------------------------------------
Init ==
  /\ memory = NoMemory /\ script = NoFile /\ status = "NoError"
  /\ hfi = <<>> /\ sp = 0 /\ fp = 0 /\ error_stack = <<>>
  /\ next = "load" /\ plan = 0 /\ named = NoFile
  /\ outcome = "none"

(* The first check of LoadScript a file does not pass.  The version of the *)
(* format is compared and a difference ignored.                            *)
Verdict(f) ==
  IF ~f.exists THEN "InvalidFilePath"
  ELSE IF ~f.magic THEN "InvalidMagic"
  ELSE IF ~f.vm_version THEN "AnotherVMVersion"
  ELSE IF f.length < f.code_end THEN "InvalidFile"
  ELSE "NoError"

(* DynamicMemory::Allocate. *)
Layout(f) ==
  LET code_size == AlignUp(f.code_size)
      rod_size == AlignUp(f.rod_size) IN
  [pointer |-> TRUE, code_size |-> code_size, rod_size |-> rod_size,
   size |-> code_size + rod_size + StackSize + HeapSize,
   stack_sa |-> rod_size,
   heap_sa |-> rod_size + StackSize,
   end |-> rod_size + StackSize + HeapSize,
   heap_size |-> HeapSize]

LoadScript ==
  /\ next = "load" /\ plan < Plans
  /\ \E f \in Files :
       /\ named' = f
       /\ IF Verdict(f) = "NoError"
          THEN /\ memory' = Layout(f)
               /\ script' = f
               /\ UNCHANGED error_stack
          ELSE /\ error_stack' = Append(error_stack, LoadError(Verdict(f)))
               /\ UNCHANGED <<memory, script>>
  /\ plan' = plan + 1
  /\ next' = "clear" /\ outcome' = "none"
  /\ UNCHANGED <<status, hfi, sp, fp>>

(* When malloc fails, Allocate says so in the status and returns, and      *)
(* LoadCode copies the code to a null pointer.                             *)
LoadCrashes ==
  /\ next = "load" /\ plan < Plans
  /\ \E f \in Files : Verdict(f) = "NoError" /\ named' = f
  /\ status' = "FailedMemoryAllocation"
  /\ memory' = [memory EXCEPT !.pointer = FALSE]
  /\ plan' = plan + 1
  /\ next' = "crashed" /\ outcome' = "none"
  /\ UNCHANGED <<script, hfi, sp, fp, error_stack>>

HeapEnd == memory.heap_sa + memory.heap_size

(* clear_vm_state, with clear_memory false as main calls it: the stacks    *)
(* and registers are reset, HeapFreeIntervals::Set adds the whole heap to  *)
(* the free intervals, and the status of the memory is left.               *)
ClearState ==
  /\ next = "clear"
  /\ error_stack' = <<>>
  /\ sp' = memory.stack_sa /\ fp' = 0
  /\ hfi' = Append(hfi, [start |-> memory.heap_sa, end |-> HeapEnd])
  /\ next' = "execute"
  /\ UNCHANGED <<memory, script, status, plan, named, outcome>>

IsValid == memory.pointer /\ status = "NoError"

(* Mutation: the memory is not looked at before the script is started. *)
Execute_Anyway ==
  /\ next = "execute"
  /\ outcome' = "ran"
  /\ next' = "report"
  /\ UNCHANGED <<memory, script, status, hfi, sp, fp, error_stack, plan, named>>

(* execute_code_switch.  The error an illegal write leads to is lost when  *)
(* the last instruction makes it.                                          *)
Execute ==
  /\ next = "execute"
  /\ \/ /\ ~IsValid
        /\ error_stack' = Append(error_stack, RaisedError("InvalidVMMemory"))
        /\ outcome' = "refused"
        /\ UNCHANGED status
     \/ /\ IsValid
        /\ outcome' = "ran"
        /\ \/ \E e \in {"ZeroDivision", "FailedMemoryAllocation"} :
                error_stack' = Append(error_stack, RaisedError(e))
           \/ UNCHANGED error_stack
        /\ UNCHANGED status
     \/ /\ IsValid
        /\ outcome' = "ran"
        /\ status' = "AttemptOfRODRewriting"
        /\ \/ error_stack' = Append(error_stack,
                                    RaisedError("AttemptOfRODRewriting"))
           \/ UNCHANGED error_stack
  /\ next' = "report"
  /\ UNCHANGED <<memory, script, hfi, sp, fp, plan, named>>

(* main pops and prints every error. *)
Report ==
  /\ next = "report"
  /\ IF error_stack = <<>>
     THEN next' = "load" /\ UNCHANGED error_stack
     ELSE /\ error_stack' = SubSeq(error_stack, 1, Len(error_stack) - 1)
          /\ UNCHANGED next
  /\ UNCHANGED <<memory, script, status, hfi, sp, fp, plan, named, outcome>>

Next == LoadScript \/ LoadCrashes \/ ClearState \/ Execute \/ Report

Spec == Init /\ [][Next]_vars

-----------------------------------------------------------------------------
(* A script is started only on a block that was set up for it, in which    *)
(* code, read-only data, stack and heap follow one another without a gap,  *)
(* and it is the script named last, or, if that one could not be loaded,   *)
(* the one that was in memory before.                                      *)
StartsOnItsOwnMemory ==
  outcome = "ran" =>
    /\ memory.pointer
    /\ script = named \/ (plan > 1 /\ Verdict(named) # "NoError")
    /\ memory.code_size >= script.code_size
    /\ memory.stack_sa >= script.rod_size
    /\ memory.code_size + memory.end = memory.size

(* While the script runs the stack pointer starts at its first byte, and   *)
(* that is aligned whatever the size of the read-only data: "Align for     *)
(* aligned heap and stack" (vm_memory.cpp).                                *)
StackStartsAligned ==
  next = "report" /\ outcome = "ran" =>
    sp >= script.rod_size /\ sp % Alignment = 0

(* Both: a script runs only in the layout LoadScript made for it.          *)
StartsAsLaidOut == StartsOnItsOwnMemory /\ StackStartsAligned

=============================================================================
