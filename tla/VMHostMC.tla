------------------------------ MODULE VMHostMC -----------------------------
(* Files of every kind LoadScript tells apart, with read-only data and     *)
(* code of sizes on both sides of a multiple of the alignment.             *)
EXTENDS VMHost

Good(code, rod) ==
  [exists |-> TRUE, magic |-> TRUE, vm_version |-> TRUE, length |-> code + rod,
   code_end |-> code + rod, code_size |-> code, rod_size |-> rod]
Bad(part) == [Good(32, 8) EXCEPT ![part] = FALSE]

MCFiles ==
  {Good(32 * i, j) : i \in 0 .. 3, j \in {0, 1, 7, 8, 9}} \cup
  {Bad("exists"), Bad("magic"), Bad("vm_version"),
   [Good(32, 8) EXCEPT !.length = 39]}
=============================================================================
