------------------------------ MODULE LinkerMC -----------------------------
(* Projects of two modules, linked A first, with an alignment of 4.  The   *)
(* first family is about control: every code of at most three commands for *)
(* A and two for B out of labels, jumps, and commands of no and of two     *)
(* operations.  The second is about memory: every code of at most two      *)
(* commands of each module out of accesses.  The third has modules that    *)
(* cannot be read.                                                         *)
EXTENDS Linker, TLC

CONSTANTS A, B, l1, l2

Label(l) == [op |-> "JMP_LABEL", label |-> l]
JumpTo(op, l) == [op |-> op, label |-> l]
AccessTo(source, data) == [op |-> "ACCESS", source |-> source, data |-> data]
Emit(n) == [op |-> "EMIT", operations |-> n]
Unsupported == [op |-> "UNSUPPORTED"]

UpTo(n, S) == UNION {[1 .. k -> S] : k \in 0 .. n}

Packed(code, file) ==
  [main |-> "read", order |-> <<A, B>>,
   constants |-> <<1, 5, 4>>,
   symbols |-> <<[type |-> "Variable", module |-> A, offset |-> 2],
                 [type |-> "Variable", module |-> B, offset |-> 0],
                 [type |-> "Undefined", module |-> A, offset |-> 0]>>,
   code |-> code, stack_size |-> (A :> 3 @@ B :> 2), file |-> file]

AllRead == [m \in {A, B} |-> "read"]

ControlOfA == {Label(l1), Label(l2), JumpTo("JMP", l1), JumpTo("JMPCV", l2), Emit(2)}
ControlOfB == {Label(l1), JumpTo("JMPCNV", l1), JumpTo("JMP", l2), Label(l2), Emit(0)}
ControlProjects ==
  {Packed((A :> a @@ B :> b), AllRead) :
     a \in UpTo(3, ControlOfA), b \in UpTo(2, ControlOfB)}

Accesses ==
  {AccessTo("Symbol", i) : i \in 1 .. 3} \cup
  {AccessTo("MemoryAddress", 1), AccessTo("Constant", 2), AccessTo("Constant", 3),
   Unsupported}
MemoryProjects ==
  {Packed((A :> a @@ B :> b), AllRead) :
     a \in UpTo(2, Accesses), b \in UpTo(2, Accesses)}

BrokenProjects ==
  {Packed((A :> <<Emit(1)>> @@ B :> <<Emit(1)>>), file) :
     file \in [{A, B} -> {"read", "missing", "damaged"}]} \cup
  {[Packed((A :> <<Emit(1)>> @@ B :> <<>>), AllRead) EXCEPT !.main = "damaged"]}

AllProjects == ControlProjects \cup MemoryProjects \cup BrokenProjects
=============================================================================
