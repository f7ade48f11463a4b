---------------------------- MODULE HeapPromise ----------------------------
(***************************************************************************)
(* What the virtual machine's heap promises a script, without saying how:  *)
(* the heap is a range of byte addresses, ALLOCATE_MEMORY hands out a run  *)
(* of bytes nobody else holds whenever such a run exists, and FREE_MEMORY  *)
(* takes a held block back.  VMHeap, which keeps the free bytes in indexed *)
(* intervals as the code does, is shown to implement this specification.   *)
(*                                                                         *)
(* The range handed to HeapFreeIntervals::Set is [HeapStart, HeapEnd] with *)
(* BOTH ends included (vm_memory.hpp, INTERVAL_SIZE), so byte HeapEnd, one *)
(* past the memory block, belongs to it.                                   *)
(*                                                                         *)
(* Sizes are words, but rounding them up is not done in words here.  A     *)
(* script that asks for so much that the rounded size is no word any more  *)
(* may be told that it was served (vm_memory.cpp:234): nothing is promised *)
(* of the address it gets, only that nobody else loses a byte by it.       *)
(***************************************************************************)
EXTENDS Integers

CONSTANTS
  HeapStart,   (* DynamicMemory::GetHeapStart()                            *)
  HeapSize,    (* MinHeapSize, 32767 in the build                          *)
  Alignment,   (* HeapFreeIntervals::alignment, 8 in the build             *)
  Word,        (* how many values a word takes, 2^64 in the build          *)
  Requests     (* the values a script may leave in the size register       *)

VARIABLES
  live,        (* blocks set aside and not taken back: address and size    *)
  raised       (* the error the last heap instruction raised               *)

vars == <<live, raised>>

ErrorCode == {"NoError", "FailedMemoryAllocation", "FailedMemoryFreeing"}

HeapEnd == HeapStart + HeapSize

RoundUp(n) == ((n + Alignment - 1) \div Alignment) * Alignment

TooLarge(n) == n + Alignment - 1 >= Word

(* The bytes a held block keeps from others: its size rounded up.          *)
LastByte(l) == l.start + RoundUp(l.size) - 1

Unheld(x) ==
  /\ x \in HeapStart .. HeapEnd
  /\ \A l \in live : x < l.start \/ LastByte(l) < x

(* n > 0 bytes can be had at address a. *)
Available(a, n) == \A x \in a .. (a + RoundUp(n) - 1) : Unheld(x)

-----------------------------------------------------------------------------
Init ==
  /\ live = {}
  /\ raised = "NoError"

Grant(n, a) ==
  /\ n > 0 /\ ~TooLarge(n)
  /\ Available(a, n)
  /\ live' = live \cup {[start |-> a, size |-> n]}
  /\ raised' = "NoError"

GrantNothing(n) ==
  /\ TooLarge(n)
  /\ raised' = "NoError"
  /\ UNCHANGED live

(* A request is turned down only when it is empty or no run of unheld      *)
(* bytes is long enough, wherever it lies.                                 *)
Deny(n) ==
  /\ n = 0 \/ \A a \in HeapStart .. HeapEnd : ~Available(a, n)
  /\ raised' = "FailedMemoryAllocation"
  /\ UNCHANGED live

TakeBack(l) ==
  /\ live' = live \ {l}
  /\ raised' = "NoError"

(* FREE_MEMORY compares with the end of the memory block, one byte short   *)
(* of the range allocations come from.                                     *)
Refuse(l) ==
  /\ l.start + l.size > HeapEnd
  /\ raised' = "FailedMemoryFreeing"
  /\ UNCHANGED live

(* What was handed out and not set aside cannot be given back. *)
RefuseNothing(n) ==
  /\ TooLarge(n)
  /\ raised' = "FailedMemoryFreeing"
  /\ UNCHANGED live

Next ==
  \/ \E n \in Requests, a \in HeapStart .. HeapEnd : Grant(n, a)
  \/ \E n \in Requests : GrantNothing(n) \/ Deny(n) \/ RefuseNothing(n)
  \/ \E l \in live : TakeBack(l) \/ Refuse(l)

Spec == Init /\ [][Next]_vars
=============================================================================
