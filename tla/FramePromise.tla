---------------------------- MODULE FramePromise ---------------------------
(***************************************************************************)
(* What CALL, RET and GRAB_FRAME promise a script about its stack frames.  *)
(* The active frames have their bases, oldest first; the last is the frame *)
(* pointer.  A call opens a frame at the stack pointer; a return closes it *)
(* by putting the stack pointer where the frame began - whatever the       *)
(* callee pushed, and whatever it grabbed of its caller's frame, is gone - *)
(* and goes on after the call that opened it.                              *)
(***************************************************************************)
EXTENDS Integers, Sequences

VARIABLES
  bases,   (* where each active frame begins                               *)
  returns, (* where the script goes on after each call that is active      *)
  sp,      (* the stack pointer                                            *)
  ip       (* the next instruction                                         *)

vars == <<bases, returns, sp, ip>>

Last == bases[Len(bases)]
Callers == SubSeq(bases, 1, Len(bases) - 1)

Init == bases = <<0>> /\ returns = <<>> /\ sp \in Nat /\ ip = 0

Call ==
  /\ bases' = Append(bases, sp)
  /\ returns' = Append(returns, ip + 1)
  /\ UNCHANGED sp

Return ==
  /\ Len(bases) > 1
  /\ bases' = Callers
  /\ sp' = Last
  /\ ip' = returns[Len(returns)]
  /\ returns' = SubSeq(returns, 1, Len(returns) - 1)

(* The newest frame takes in bytes of its caller, never more than all of   *)
(* them, or leaves some of its own to it.                                  *)
Grab ==
  /\ Len(bases) > 1
  /\ Len(bases') = Len(bases)
  /\ SubSeq(bases', 1, Len(bases) - 1) = Callers
  /\ bases'[Len(bases)] >= bases[Len(bases) - 1]
  /\ UNCHANGED <<returns, sp>>

(* Everything else may jump and move the stack pointer, and moves no frame. *)
Work == UNCHANGED <<bases, returns>>

Next == Call \/ Return \/ Grab \/ Work

Spec == Init /\ [][Next]_vars
=============================================================================
