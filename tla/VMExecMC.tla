------------------------------ MODULE VMExecMC -----------------------------
(***************************************************************************)
(* Small machines for VMExec: words of 16 values in two bytes of 4, two    *)
(* bytes of read-only data, a stack of four bytes and a heap of three.     *)
(* Each run executes every script of a set: all sequences of a few         *)
(* instructions up to a length, so no script is chosen by hand.            *)
(***************************************************************************)
EXTENDS VMExec

MCGeneral == {"R0", "R1"}
MCPlaceValue == [i \in 0 .. 1 |-> IF i = 0 THEN 1 ELSE 4]
MCRod == [i \in 0 .. 1 |-> 3]
MCNaNs == {15}
MCInfinities == {14}
MCRealZeros == {0, 8}

Nop == [op |-> "OTHER", x |-> "R0", y |-> "R0", z |-> "R0",
        k |-> 0, m |-> 0, n |-> 0, mask |-> {}]
To(op, target) == [Nop EXCEPT !.op = op, !.m = target]
Sized(op, n) == [Nop EXCEPT !.op = op, !.n = n]
Registers(op, x, y, z) ==
  [Nop EXCEPT !.op = op, !.x = x, !.y = y, !.z = z]
Set(x, w) == [Nop EXCEPT !.op = "MOV_RI", !.x = x, !.m = w]
At(op, m, n) == [Nop EXCEPT !.op = op, !.m = m, !.n = n]

Scripts(ops, length) == [1 .. length -> ops]

(* Calls, returns, and everything that moves SP or FP.  GRAB_FRAME 15 is   *)
(* GRAB_FRAME -1.                                                          *)
FrameOps ==
  {To("CALL", 2), To("CALL", 3), To("CALL", 0), To("JMP", 4), To("RET", 0),
   Sized("GRAB_FRAME", 1), Sized("GRAB_FRAME", 15), Sized("PUSH", 1),
   Sized("POP", 1)}
FrameScripts == Scripts(FrameOps, 5)

(* Loads, stores and copies.                                               *)
MemoryOps ==
  {Set("R0", 5), Set("R0", 1), Set("R1", 8), Set("R1", 2),
   Registers("ADD", "SP", "SP", "R1"), Registers("SUB", "R0", "R1", "R0"),
   Sized("PUSH", 2), Sized("POP", 2), At("LOAD_ABSOLUTE", 1, 2),
   At("LOAD_LOCAL", 4, 2), At("STORE_LOCAL", 4, 2), At("STORE_LOCAL", 5, 2),
   [Registers("STORE_BY_ADDRESS", "R1", "R0", "R0") EXCEPT !.n = 1],
   [Registers("LOAD_BY_ADDRESS", "R1", "R1", "R0") EXCEPT !.n = 1],
   [Nop EXCEPT !.op = "STATIC_COPY", !.k = 1, !.m = 3, !.n = 2],
   [Nop EXCEPT !.op = "STATIC_COPY", !.k = 7, !.m = 0, !.n = 2],
   Registers("DYNAMIC_COPY", "R0", "R1", "R1"),
   [Nop EXCEPT !.op = "CALC_FRAME_ADDRESS", !.m = 3]}
MemoryScripts == Scripts(MemoryOps, 3)

(* Instructions that fail, and those that read the outcome.                *)
ErrorOps ==
  {Set("R0", 14), Set("R1", 15), Set("R1", 8),
   Registers("CMP_REAL", "R0", "R1", "R0"), Registers("CMP_INTEGER", "R0", "R1", "R0"),
   [Registers("GET_FLAG", "R1", "R0", "R0") EXCEPT !.mask = {"ZERO", "LESS"}],
   Registers("ALLOCATE_MEMORY", "R1", "R0", "R0"),
   Registers("FREE_MEMORY", "R1", "R0", "R0"),
   Registers("DIV_INTEGER", "R0", "R1", "R0"), Registers("DIV_REAL", "R0", "R1", "R1"),
   Registers("NOT", "R0", "R1", "R1"),
   Registers("COMPUTE", "R0", "R1", "R1"),
   Registers("GET_ERROR", "R0", "R0", "R0"),
   [To("JMP_CV", 0) EXCEPT !.y = "R0"], To("JMP", 0), To("HALT", 0), To("PRINT", 0)}
ErrorScripts == Scripts(ErrorOps, 3)

AllScripts == FrameScripts \cup MemoryScripts \cup ErrorScripts
=============================================================================
