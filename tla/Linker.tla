------------------------------- MODULE Linker ------------------------------
(***************************************************************************)
(* The linker (MSLL): TranslatorVM_1::Translate with HandleModule,         *)
(* HandleCommand and the Handle* functions (MSLVM_1Translator.cpp), the    *)
(* constants section as ObjectsReader reads it, and Linker::Link.          *)
(*                                                                         *)
(* A project is what the compiler packed: one main object (linking order,  *)
(* constants, symbols) and one code object per module.  One action handles *)
(* one byte command, appending machine operations to the result.  A byte   *)
(* command is kept as what decides its translation: jumps and labels with  *)
(* their label, accesses to memory with the argument to be resolved, and   *)
(* for the rest how many operations it becomes.                            *)
(*                                                                         *)
(* Labels and modules without an entry in one of the code's hash maps are  *)
(* mapped to NoEntry, or to no pending jump, here.                         *)
(***************************************************************************)
EXTENDS Integers, Sequences, FiniteSets

CONSTANTS Modules, Labels, Projects,
  DefaultAlignment    (* of constants and read-only data: 8                *)

NoEntry == -1

(* Argument sources of HandleCommand's relocation. *)
Source == {"Symbol", "MemoryAddress", "Constant"}
JumpOp == {"JMP", "JMPCV", "JMPCNV"}

Command ==
  [op : JumpOp \cup {"JMP_LABEL"}, label : Labels] \cup
  [op : {"ACCESS"}, source : Source, data : Nat] \cup
  [op : {"EMIT"}, operations : Nat] \cup
  [op : {"UNSUPPORTED"}]

(* main, file: whether the main object, the code object of a module can be *)
(* read.  Constants and symbols are numbered from 1 here.  The compiler    *)
(* declares no functions yet, so no symbol is one.                         *)
Project ==
  [main : {"read", "damaged"}, order : Seq(Modules),
   constants : Seq(Nat),
   symbols : Seq([type : {"Variable", "Undefined"},
                  module : Modules, offset : Nat]),
   code : [Modules -> Seq(Command)],
   stack_size : [Modules -> Nat],
   file : [Modules -> {"read", "missing", "damaged"}]]

(* An index beyond the symbols or the constants makes the linker read      *)
(* beyond its vectors; the compiler packs none.                            *)
IndexesInRange(p) ==
  \A m \in Modules : \A i \in 1 .. Len(p.code[m]) :
    LET c == p.code[m][i] IN
    c.op = "ACCESS" =>
      /\ c.source = "Symbol" => c.data \in 1 .. Len(p.symbols)
      /\ c.source = "Constant" => c.data \in 1 .. Len(p.constants)

(* The preprocessor's order names every module at most once.               *)
NoModuleTwice(p) ==
  \A i, j \in 1 .. Len(p.order) : p.order[i] = p.order[j] => i = j

ASSUME LinkerAssumption ==
  /\ DefaultAlignment \in Nat \ {0}
  /\ Projects \subseteq Project
  /\ \A p \in Projects : IndexesInRange(p) /\ NoModuleTwice(p)

VARIABLES
  project,
  interactive, vm_index,      (* how main calls Link                       *)
  module, command,            (* what HandleModule has reached             *)
  result,                     (* the operations emitted                    *)
  label_jmp_ip,               (* where a label was placed                  *)
  except_handling_jmps,       (* the jumps that wait for a label           *)
  stack_offset_of_module, global_memory_offset,
  outcome,                    (* of Translate                              *)
  returned                    (* by Linker::Link                           *)

state == <<result, label_jmp_ip, except_handling_jmps,
           stack_offset_of_module, global_memory_offset>>
vars == <<project, interactive, vm_index, module, command, state, outcome,
          returned>>

Align(n) == ((n + DefaultAlignment - 1) \div DefaultAlignment) * DefaultAlignment

(* A constant's using_size_in_bytes.  Only interactive mode sets the       *)
(* alignment of constants (and output_mode, see Finish).                   *)
UsingSize(i) ==
  IF interactive THEN Align(project.constants[i]) ELSE project.constants[i]

(* Where constant number i goes: after those before it.                    *)
ConstantOffset[i \in Nat] ==
  IF i <= 1 THEN 0 ELSE ConstantOffset[i - 1] + UsingSize(i - 1)

RodSize == ConstantOffset[Len(project.constants) + 1]

RodOffsetAligned == Align(RodSize)

-----------------------------------------------------------------------------
(* The user types the number of the machine, counted from 1; on the        *)
(* command line its name is looked up and counted from 0.                  *)
Init ==
  /\ project \in Projects
  /\ interactive \in BOOLEAN
  /\ vm_index \in IF interactive THEN {0, 1} ELSE {0}
  /\ module = 1 /\ command = 0
  /\ result = <<>>
  /\ label_jmp_ip = [l \in Labels |-> NoEntry]
  /\ except_handling_jmps = [l \in Labels |-> {}]
  /\ stack_offset_of_module = [m \in Modules |-> NoEntry]
  /\ global_memory_offset = 0
  /\ outcome = "start" /\ returned = "no"

(* Without the main object there is nothing to link, and Link only knows   *)
(* the index of MSLVM_1.                                                   *)
Refuse ==
  /\ outcome = "start" /\ (project.main = "damaged" \/ vm_index # 1)
  /\ outcome' = "failed" /\ returned' = "false"
  /\ UNCHANGED <<project, interactive, vm_index, module, command, state>>

(* The constants are laid out first; modules get the memory after them.    *)
PlaceConstants ==
  /\ outcome = "start" /\ project.main = "read" /\ vm_index = 1
  /\ global_memory_offset' = RodOffsetAligned
  /\ outcome' = "linking"
  /\ UNCHANGED <<project, interactive, vm_index, module, command, result,
                 label_jmp_ip, except_handling_jmps, stack_offset_of_module,
                 returned>>

M == project.order[module]

Fail ==
  /\ outcome' = "failed" /\ returned' = "false"
  /\ UNCHANGED <<project, interactive, vm_index, module, command, state>>

(* A code object that cannot be opened is an error, one with a bad header  *)
(* is a null pool, which HandleModule uses.                                *)
StartModule ==
  /\ outcome = "linking" /\ module <= Len(project.order) /\ command = 0
  /\ stack_offset_of_module' =
       [stack_offset_of_module EXCEPT ![M] = global_memory_offset]
  /\ CASE project.file[M] = "read" ->
            command' = 1 /\ UNCHANGED <<outcome, returned>>
       [] project.file[M] = "missing" ->
            outcome' = "failed" /\ returned' = "false" /\ UNCHANGED command
       [] project.file[M] = "damaged" ->
            outcome' = "crashed" /\ UNCHANGED <<command, returned>>
  /\ UNCHANGED <<project, interactive, vm_index, module, result, label_jmp_ip,
                 except_handling_jmps, global_memory_offset>>

FinishModule ==
  /\ outcome = "linking" /\ module <= Len(project.order)
  /\ command > Len(project.code[M])
  /\ global_memory_offset' = global_memory_offset + project.stack_size[M]
  /\ module' = module + 1 /\ command' = 0
  /\ UNCHANGED <<project, interactive, vm_index, result, label_jmp_ip,
                 except_handling_jmps, stack_offset_of_module, outcome,
                 returned>>

(* The byte command to be handled, if it is one of ops. *)
C == project.code[M][command]
Handle(ops) ==
  /\ outcome = "linking" /\ module <= Len(project.order)
  /\ command \in 1 .. Len(project.code[M])
  /\ C.op \in ops

NextCommand ==
  /\ command' = command + 1
  /\ UNCHANGED <<project, interactive, vm_index, module, outcome, returned,
                 stack_offset_of_module, global_memory_offset>>

(* A machine operation: its code, the argument that was resolved, and, as  *)
(* history, the place of the byte command it stands for.                   *)
Operation(op, arg0) == [op |-> op, arg0 |-> arg0, place |-> <<module, command>>]

(* Positions of operations count from 0. *)
CurrentIp == Len(result)

(* Mutations of HandleCF for JMP_LABEL: only the last of the waiting jumps *)
(* is given its target; the label is not remembered for later jumps.       *)
PlaceLabel_OnlyOne ==
  /\ Handle({"JMP_LABEL"})
  /\ result' = [i \in 1 .. Len(result) |->
       IF /\ i - 1 \in except_handling_jmps[C.label]
          /\ \A j \in except_handling_jmps[C.label] : j <= i - 1
       THEN [result[i] EXCEPT !.arg0 = CurrentIp] ELSE result[i]]
  /\ except_handling_jmps' = [except_handling_jmps EXCEPT ![C.label] = {}]
  /\ label_jmp_ip' = [label_jmp_ip EXCEPT ![C.label] = CurrentIp]
  /\ NextCommand

PlaceLabel_Forgotten ==
  /\ Handle({"JMP_LABEL"})
  /\ result' = [i \in 1 .. Len(result) |->
       IF i - 1 \in except_handling_jmps[C.label]
       THEN [result[i] EXCEPT !.arg0 = CurrentIp] ELSE result[i]]
  /\ except_handling_jmps' = [except_handling_jmps EXCEPT ![C.label] = {}]
  /\ UNCHANGED label_jmp_ip
  /\ NextCommand

(* A label gives its position to the jumps that wait for it. *)
PlaceLabel ==
  /\ Handle({"JMP_LABEL"})
  /\ result' = [i \in 1 .. Len(result) |->
       IF i - 1 \in except_handling_jmps[C.label]
       THEN [result[i] EXCEPT !.arg0 = CurrentIp] ELSE result[i]]
  /\ except_handling_jmps' = [except_handling_jmps EXCEPT ![C.label] = {}]
  /\ label_jmp_ip' = [label_jmp_ip EXCEPT ![C.label] = CurrentIp]
  /\ NextCommand

(* A jump takes the position of its label, or waits for it.                *)
HandleJump ==
  /\ Handle(JumpOp)
  /\ \/ /\ label_jmp_ip[C.label] # NoEntry
        /\ result' = Append(result, Operation(C.op, label_jmp_ip[C.label]))
        /\ UNCHANGED except_handling_jmps
     \/ /\ label_jmp_ip[C.label] = NoEntry
        /\ result' = Append(result, Operation(C.op, 0))
        /\ except_handling_jmps' =
             [except_handling_jmps EXCEPT ![C.label] = @ \cup {CurrentIp}]
  /\ UNCHANGED label_jmp_ip
  /\ NextCommand

(* The hash map answers 0 for a module that was not begun. *)
StackOffset(m) ==
  IF stack_offset_of_module[m] = NoEntry THEN 0 ELSE stack_offset_of_module[m]

(* Mutation: an offset is relative to the module that uses the symbol. *)
Relocated_UsersModule(c) ==
  CASE c.source = "Symbol" -> StackOffset(M) + project.symbols[c.data].offset
    [] c.source = "MemoryAddress" -> StackOffset(M) + c.data
    [] c.source = "Constant" -> ConstantOffset[c.data]

(* A variable stands for its place in the frame of its module; any other   *)
(* symbol is left as it is.                                                *)
SymbolValue(i) ==
  LET symbol == project.symbols[i] IN
  CASE symbol.type = "Variable" -> StackOffset(symbol.module) + symbol.offset
    [] symbol.type = "Undefined" -> i - 1

Relocated(c) ==
  CASE c.source = "Symbol" -> SymbolValue(c.data)
    [] c.source = "MemoryAddress" -> StackOffset(M) + c.data
    [] c.source = "Constant" -> ConstantOffset[c.data]

HandleAccess ==
  /\ Handle({"ACCESS"})
  /\ result' = Append(result, Operation("ACCESS", Relocated(C)))
  /\ UNCHANGED <<label_jmp_ip, except_handling_jmps>>
  /\ NextCommand

(* Arithmetic becomes one operation, a comparison two or three, a stack    *)
(* move two; a memory command HandleMR does not know, none.                *)
HandleOther ==
  /\ Handle({"EMIT"})
  /\ result' = result \o [i \in 1 .. C.operations |-> Operation("EMIT", 0)]
  /\ UNCHANGED <<label_jmp_ip, except_handling_jmps>>
  /\ NextCommand

HandleUnsupported == Handle({"UNSUPPORTED"}) /\ Fail

(* Translate's last check, then Link: code of no bytes is no code, saving  *)
(* may fail, and its result is only returned in output mode.               *)
Finish ==
  /\ outcome = "linking" /\ module > Len(project.order)
  /\ \/ /\ result = <<>> \/ \E l \in Labels : except_handling_jmps[l] # {}
        /\ Fail
     \/ /\ result # <<>> /\ \A l \in Labels : except_handling_jmps[l] = {}
        /\ \/ outcome' = "linked" /\ returned' = IF interactive THEN "true" ELSE "false"
           \/ outcome' = "unsaved" /\ returned' = "false"
        /\ UNCHANGED <<project, interactive, vm_index, module, command, state>>

Next ==
  \/ Refuse \/ PlaceConstants \/ StartModule \/ FinishModule
  \/ PlaceLabel \/ HandleJump \/ HandleAccess \/ HandleOther
  \/ HandleUnsupported \/ Finish

Spec == Init /\ [][Next]_vars /\ WF_vars(Next)

-----------------------------------------------------------------------------
(* What a project promises its linker. *)

Order == project.order
Places == UNION {{i} \X (1 .. Len(project.code[Order[i]])) : i \in 1 .. Len(Order)}
At(p) == project.code[Order[p[1]]][p[2]]
Before(p, q) == p[1] < q[1] \/ (p[1] = q[1] /\ p[2] < q[2])
IsAccess(p, source) == At(p).op = "ACCESS" /\ At(p).source = source
IsLabel(p, l) == At(p).op = "JMP_LABEL" /\ At(p).label = l

(* The compiler numbers labels once for all modules. *)
LabelsUnique ==
  \A p, q \in Places : \A l \in Labels : IsLabel(p, l) /\ IsLabel(q, l) => p = q

(* A module is linked after the modules whose symbols it uses. *)
DependenciesFirst ==
  \A p \in Places :
    IsAccess(p, "Symbol") =>
      \E i \in 1 .. p[1] : Order[i] = project.symbols[At(p).data].module

(* The offsets the compiler gives out lie in the module's stack frame.     *)
OffsetsInFrame ==
  /\ \A i \in 1 .. Len(project.symbols) :
       project.symbols[i].offset < project.stack_size[project.symbols[i].module]
  /\ \A p \in Places :
       IsAccess(p, "MemoryAddress") =>
         At(p).data < project.stack_size[Order[p[1]]]

-----------------------------------------------------------------------------
(* Every jump of a linked program goes to the operation that follows its   *)
(* label: what the commands before the label became lies before the        *)
(* target, the rest from there on, wherever the label stands - before the  *)
(* jump, after it, or in another module.                                   *)
JumpsLand ==
  outcome = "linked" /\ LabelsUnique =>
    \A i \in 1 .. Len(result) :
      result[i].op \in JumpOp =>
        \E p \in Places :
          /\ IsLabel(p, At(result[i].place).label)
          /\ \A k \in 1 .. Len(result) :
               k <= result[i].arg0 <=> Before(result[k].place, p)

(* While linking goes on, a jump either waits for its label or already has *)
(* its place: none is both and none is forgotten.                          *)
JumpsAccounted ==
  \A i \in 1 .. Len(result) :
    result[i].op \in JumpOp =>
      LET l == At(result[i].place).label IN
      \/ label_jmp_ip[l] = NoEntry /\ i - 1 \in except_handling_jmps[l]
      \/ /\ label_jmp_ip[l] # NoEntry /\ except_handling_jmps[l] = {}
         /\ LabelsUnique => result[i].arg0 = label_jmp_ip[l]

(* At every moment of linking and at its end each jump is where it belongs.*)
JumpsResolved == JumpsLand /\ JumpsAccounted

(* The commands that become operations. *)
MakesOperations(c) ==
  c.op \in JumpOp \cup {"ACCESS"} \/ (c.op = "EMIT" /\ c.operations > 0)

(* What is wrong with a project that cannot be linked: something cannot be *)
(* read or is not supported, a label is nowhere, or there is no code.      *)
Unlinkable ==
  \/ project.main = "damaged"
  \/ \E i \in 1 .. Len(Order) : project.file[Order[i]] = "missing"
  \/ \E p \in Places : At(p).op = "UNSUPPORTED"
  \/ \E p \in Places : At(p).op \in JumpOp /\
       \A q \in Places : ~IsLabel(q, At(p).label)
  \/ \A p \in Places : ~MakesOperations(At(p))

(* Interactive linking fails for one of these reasons only, never because  *)
(* of the order in which jumps and labels come.                            *)
FailsForAReason ==
  outcome = "failed" /\ interactive /\ vm_index = 1 => Unlinkable

(* Memory is shared out: every access of a linked program to a variable    *)
(* falls into the frame of the module that declared it, frames of two      *)
(* modules have no byte in common, and all lie in what the machine takes   *)
(* for its stack, which starts at the next aligned address after the       *)
(* constants (DynamicMemory::Allocate).                                    *)
StackStart == Align(RodSize)
Frame(m) ==
  stack_offset_of_module[m] ..
    (stack_offset_of_module[m] + project.stack_size[m] - 1)
IsVariable(p) ==
  \/ IsAccess(p, "MemoryAddress")
  \/ IsAccess(p, "Symbol") /\ project.symbols[At(p).data].type = "Variable"
Owner(p) ==
  IF At(p).source = "Symbol" THEN project.symbols[At(p).data].module
  ELSE Order[p[1]]
Linked == {Order[i] : i \in 1 .. Len(Order)}
VariablesKeptApart ==
  outcome = "linked" /\ DependenciesFirst /\ OffsetsInFrame =>
    /\ \A m, n \in Linked : m # n => Frame(m) \cap Frame(n) = {}
    /\ \A m \in Linked : \A a \in Frame(m) : a >= StackStart
    /\ \A i \in 1 .. Len(result) :
         IsVariable(result[i].place) =>
           result[i].arg0 \in Frame(Owner(result[i].place))

(* Each constant is read from bytes of its own in the read-only data, and  *)
(* from an aligned place.                                                  *)
ConstantBytes(i) ==
  result[i].arg0 .. (result[i].arg0 + project.constants[At(result[i].place).data] - 1)
ConstantsKeptApart ==
  outcome = "linked" =>
    \A i, j \in {k \in 1 .. Len(result) : IsAccess(result[k].place, "Constant")} :
      /\ ConstantBytes(i) \subseteq 0 .. (RodSize - 1)
      /\ At(result[i].place).data # At(result[j].place).data =>
           ConstantBytes(i) \cap ConstantBytes(j) = {}
      /\ result[i].arg0 % DefaultAlignment = 0

(* What modules keep in memory, variables and constants, is kept apart.    *)
ModulesKeptApart == VariablesKeptApart /\ ConstantsKeptApart

=============================================================================
