------------------------------ MODULE LowLevel ------------------------------
(***************************************************************************)
(* The op_code sections of MSL on their whole way: LLTranslator::Translate *)
(* and Handle (PseudoLLTranslator.cpp) split and check a line,             *)
(* LLTranslator::HandleLowLevel (ByteLLTranslator.cpp) gives its names     *)
(* registers and makes a byte command, TranslatorVM_1 makes the machine's  *)
(* operation of that, and the machine carries it out (vm_execution.cpp).   *)
(*                                                                         *)
(* The compiler makes several passes over a module and the linker runs     *)
(* behind it; they hand on one operation after the other in the order of   *)
(* the program, so one action here takes an item through all of them.  The *)
(* statements of MSL between the sections are kept as the registers they   *)
(* take and destroy (ByteTranslator has them), variables as their places   *)
(* (Program) and the heap as how often each cell is on the free list, with *)
(* units of one cell (VMHeap has the intervals).  A critical error ends    *)
(* the run, and so does a store or copy behind the memory, which the code  *)
(* does not notice (VMExec has both); any other error is kept until it is  *)
(* read and the next operation follows.  What a SPEC_CALL prints is kept   *)
(* as the routine and the word.                                            *)
(***************************************************************************)
EXTENDS Integers, Sequences, SequencesExt

CONSTANTS
  Programs,   (* sequences of [kind, tokens, temps, kept]                  *)
  Names, Literals, Pointers,
  Home,       (* the module of each variable                               *)
  Offset,     (* its global_stack_offset                                   *)
  ModuleStart,     (* stack_offset_of_module                               *)
  GeneralRegisters, Base, Width, MemorySize, HeapStart, SizeLimit

VARIABLES
  program,
  pseudo_ip,             (* the items translated                           *)
  reported, spoiled,     (* what messages there were (OpCodePromise)       *)
  module,
  aliasing_labels_ids,   (* of the module, by name                         *)
  labels_count,          (* of the GST, over all modules                   *)
  registers_table,       (* the general registers in use                   *)
  allocated_registers,   (* of the module, by name                         *)
  result,                (* the machine's operations                       *)
  label_jmp_ip, except_handling_jmps,
  names_were,            (* allocated_registers of each module (history)   *)
  stage, registers, ip, memory,
  free_list,             (* how often each cell of the heap is listed free *)
  error_stack,           (* the errors that were not read, critical ones aside *)
  shown

compile == <<pseudo_ip, reported, spoiled, module, aliasing_labels_ids,
             labels_count, registers_table, allocated_registers, result,
             label_jmp_ip, except_handling_jmps, names_were>>
run == <<registers, ip, memory, free_list, error_stack, shown>>
vars == <<program, compile, stage, run>>

Variables == DOMAIN Home

(* A token's value as a number: that of a name is 0. *)
UIntVal(t) == IF t \in DOMAIN Literals THEN Literals[t] ELSE 0
InvalidRegister == GeneralRegisters

-----------------------------------------------------------------------------
(* What is promised, and what the words of the machine are.                *)

AtItem == IF ip > Len(result) THEN Len(program) + 1 ELSE result[ip].place
AtModule == Len(SelectSeq(SubSeq(program, 1, AtItem - 1), LAMBDA s : s.kind = "module"))
(* The registers that the names of the running module have. *)
NamesNow == IF stage = "compiled" THEN << >>
            ELSE Append(names_were, allocated_registers)[AtModule + 1]

Promise == INSTANCE OpCodePromise WITH
  Address <- [v \in Variables |-> ModuleStart[Home[v]] + Offset[v]],
  judged <- pseudo_ip,
  free <- free_list, errors <- error_stack,
  at <- IF stage \in {"compiled", "refused"} THEN 1 ELSE AtItem,
  reg <- [r \in Names |->
            IF r \in DOMAIN NamesNow THEN registers[NamesNow[r]] ELSE 0]

-----------------------------------------------------------------------------
(* Splitting a line.                                                       *)

Unsplit == [op_code |-> << >>, arguments |-> << >>, current |-> << >>,
            arguments_ |-> FALSE, checking |-> TRUE]

Token(s, t) ==
  CASE t = ":" -> [s EXCEPT !.checking = @ /\ ~s.arguments_, !.arguments_ = TRUE]
    [] t = "," -> IF s.current = << >> THEN [s EXCEPT !.checking = FALSE]
                  ELSE [s EXCEPT !.arguments = Append(@, s.current),
                                 !.current = << >>]
    [] OTHER -> IF s.arguments_ THEN [s EXCEPT !.current = Append(@, t)]
                ELSE [s EXCEPT !.op_code = Append(@, t)]

Split(tokens) ==
  LET s == FoldLeft(LAMBDA acc, t : Token(acc, t), Unsplit, tokens)
  IN [s EXCEPT !.arguments = Append(@, s.current),
               !.checking = @ /\ s.current # << >>]

-----------------------------------------------------------------------------
(* Checking it: LLTranslator::Handle.                                      *)

Arithmetic == {"ADDI", "SUBI", "MULI", "DIVI", "MODI"}
FindSymbolLocal(t) == t \in Variables /\ Home[t] <= module

Handled(op, args) ==
  LET n == Len(args)
      First(i) == args[i][1]
      IsRegister(i) == First(i) \in Names
  IN CASE op \in {"LEA", "DLEA"} ->
            /\ n = 2 /\ Len(args[2]) = 1
            /\ IsRegister(1) /\ FindSymbolLocal(First(2))
            /\ op = "DLEA" => First(2) \in Pointers
       [] op \in {"STORE", "LOAD"} ->
            n = 3 /\ IsRegister(1) /\ IsRegister(2)
              /\ UIntVal(First(3)) % SizeLimit <= Width
       [] op \in Arithmetic \cup {"COPY"} ->
            n = 3 /\ IsRegister(1) /\ IsRegister(2) /\ IsRegister(3)
       [] op \in {"NEGI", "MOV", "FREE"} -> n = 2 /\ IsRegister(1) /\ IsRegister(2)
       [] op = "MOVRI" -> n = 2 /\ First(2) \in DOMAIN Literals /\ IsRegister(1)
       [] op \in {"JMP", "LABEL"} -> First(1) \notin DOMAIN Literals
       [] op \in {"JMP_IF", "JMP_NIF"} ->
            First(1) \notin DOMAIN Literals /\ n >= 2 /\ IsRegister(2)
       [] op = "ALLOC" -> n \in {2, 3} /\ IsRegister(1) /\ IsRegister(2)
       [] op = "SPEC_CALL" -> TRUE
       [] OTHER -> FALSE

(* The names an operation gives registers, in the order it asks for them.  *)
NamesOf(op, args) ==
  LET registers_at(S) == SelectSeq([i \in 1 .. Len(args) |->
                                      IF i \in S THEN args[i][1] ELSE ""],
                                   LAMBDA t : t \in Names)
  IN CASE op \in Arithmetic \cup {"COPY"} -> registers_at({1, 2, 3})
       [] op \in {"STORE", "LOAD", "NEGI", "MOV", "ALLOC", "FREE"} ->
            registers_at({1, 2})
       [] op \in {"LEA", "DLEA", "MOVRI"} -> registers_at({1})
       [] op \in {"JMP_IF", "JMP_NIF"} -> registers_at({2})
       [] op = "SPEC_CALL" -> registers_at({2, 3})
       [] OTHER -> << >>

(* RegisterOrGetAliasingLabelID. *)
Aliased(name) ==
  IF name \in DOMAIN aliasing_labels_ids THEN aliasing_labels_ids
  ELSE aliasing_labels_ids @@ (name :> labels_count)

-----------------------------------------------------------------------------
(* Registers: a table of those in use, and those of names, which stay      *)
(* until the module ends.                                                  *)

FindFreeGeneral(table) ==
  Min(((0 .. GeneralRegisters - 1) \ table) \cup {InvalidRegister})

NoneYet == [table |-> registers_table, names |-> allocated_registers, out |-> FALSE]

GetAllocatedRegister(s, name) ==
  LET free == FindFreeGeneral(s.table)
  IN IF name \in DOMAIN s.names THEN s
     ELSE IF free = InvalidRegister THEN [s EXCEPT !.out = TRUE]
     ELSE [s EXCEPT !.table = @ \cup {free}, !.names = @ @@ (name :> free)]

WithRegisters(op, args) ==
  FoldLeft(LAMBDA s, name : GetAllocatedRegister(s, name), NoneYet, NamesOf(op, args))

(* Without a register left a name is taken to be in register 0, for once. *)
RegisterIn(names, name) == IF name \in DOMAIN names THEN names[name] ELSE 0

-----------------------------------------------------------------------------
(* The byte command of an operation and the machine's.  The linker adds    *)
(* the start of the module to the offset of a variable.  A number as an    *)
(* argument of SPEC_CALL is handed on, and the machine takes it for the    *)
(* number of a register.                                                   *)

ByteCommand(op, args, names) ==
  LET R(i) == RegisterIn(names, args[i][1])
      Cmd(code, a, b, c) == [code |-> code, arg0 |-> a, arg1 |-> b, arg2 |-> c]
      address == ModuleStart[Home[args[2][1]]] + Offset[args[2][1]]
      size == UIntVal(args[3][1]) % SizeLimit
      value == UIntVal(args[2][1]) % Base ^ Width
      called(i) == IF i > Len(args) THEN 0
                   ELSE IF args[i][1] \in Names THEN R(i) ELSE UIntVal(args[i][1])
  IN CASE op = "LEA" -> Cmd("MOVRI", R(1), address, 0)
       [] op = "DLEA" -> Cmd("LOAD_STATIC", address, R(1), Width)
       [] op = "STORE" -> Cmd("STORE_DYNAMIC", R(1), R(2), size)
       [] op = "LOAD" -> Cmd("LOAD_DYNAMIC", R(2), R(1), size)
       [] op \in Arithmetic -> Cmd(op, R(1), R(2), R(3))
       [] op = "NEGI" -> Cmd("NEGI", R(1), R(2), 0)
       [] op = "MOV" -> Cmd("MOVRR", R(1), R(2), 0)
       [] op = "MOVRI" -> Cmd("MOVRI", R(1), value, 0)
       [] op = "SPEC_CALL" -> Cmd("SPEC_CALL", UIntVal(args[1][1]), called(2), called(3))
       [] op = "ALLOC" -> Cmd("ALLOC", R(1), R(2),
                              IF Len(args) = 3 THEN UIntVal(args[3][1]) # 0 ELSE TRUE)
       [] op = "FREE" -> Cmd("FREE", R(1), R(2), 0)
       [] op = "COPY" -> Cmd("COPY_DYNAMIC", R(1), R(2), R(3))

(* HandleMR, HandleAL and HandleSP: the machine wants the register first.  *)
MachineOperation(c) ==
  CASE c.code = "LOAD_DYNAMIC" ->
         [c EXCEPT !.code = "LOAD_BY_ADDRESS", !.arg0 = c.arg1, !.arg1 = c.arg0]
    [] c.code = "STORE_DYNAMIC" ->
         [c EXCEPT !.code = "STORE_BY_ADDRESS", !.arg0 = c.arg1, !.arg1 = c.arg0]
    [] c.code = "LOAD_STATIC" ->
         [c EXCEPT !.code = "LOAD_LOCAL", !.arg0 = c.arg1, !.arg1 = c.arg0]
    [] OTHER -> c

(* Every operation knows its line (source_line). *)
Emit(operation) ==
  result' = Append(result, operation @@ ("place" :> pseudo_ip + 1))

-----------------------------------------------------------------------------
(* Compiling and linking.                                                  *)

Item == program[pseudo_ip + 1]
Compiling(kind) ==
  /\ stage = "compiled" /\ pseudo_ip < Len(program) /\ Item.kind = kind
  /\ pseudo_ip' = pseudo_ip + 1
  /\ UNCHANGED <<program, stage, run>>

(* HandleCF: a label sends the jumps that wait for it to where the next    *)
(* operation will be.                                                      *)
(* Mutation: the jumps that waited are patched and go on waiting. *)
LabelPlaced_NotErased(id) ==
  LET waiting == {j.ip : j \in {w \in except_handling_jmps : w.id = id}}
  IN /\ result' = [i \in DOMAIN result |->
                     IF i \in waiting THEN [result[i] EXCEPT !.arg0 = Len(result) + 1]
                     ELSE result[i]]
     /\ label_jmp_ip' = (id :> Len(result) + 1) @@ label_jmp_ip
     /\ UNCHANGED except_handling_jmps

LabelPlaced(id) ==
  LET waiting == {j.ip : j \in {w \in except_handling_jmps : w.id = id}}
  IN /\ result' = [i \in DOMAIN result |->
                     IF i \in waiting THEN [result[i] EXCEPT !.arg0 = Len(result) + 1]
                     ELSE result[i]]
     /\ label_jmp_ip' = (id :> Len(result) + 1) @@ label_jmp_ip
     /\ except_handling_jmps' = {j \in except_handling_jmps : j.id # id}

JumpEmitted(op, id, register) ==
  LET known == id \in DOMAIN label_jmp_ip
  IN /\ Emit([code |-> op, arg0 |-> IF known THEN label_jmp_ip[id] ELSE 0,
              arg1 |-> register, arg2 |-> 0])
     /\ except_handling_jmps' =
          IF known THEN except_handling_jmps
          ELSE except_handling_jmps \cup {[id |-> id, ip |-> Len(result) + 1]}
     /\ UNCHANGED label_jmp_ip

LabelOps == {"LABEL", "JMP", "JMP_IF", "JMP_NIF"}

(* A jump whose other arguments are wrong is reported, and its label known *)
(* all the same.                                                           *)
Line ==
  LET s == Split(Item.tokens)
      op == s.op_code[1]
      args == s.arguments
      fine == s.checking /\ Len(s.op_code) = 1 /\ Handled(op, args)
      with == WithRegisters(op, args)
      about_label == s.checking /\ Len(s.op_code) = 1 /\ op \in LabelOps
                       /\ args[1][1] \notin DOMAIN Literals
      ids == IF about_label THEN Aliased(args[1][1]) ELSE aliasing_labels_ids
  IN /\ Compiling("line")
     /\ aliasing_labels_ids' = ids
     /\ labels_count' = labels_count + Cardinality(DOMAIN ids)
                          - Cardinality(DOMAIN aliasing_labels_ids)
     /\ reported' = IF fine THEN reported ELSE reported \cup {pseudo_ip + 1}
     /\ UNCHANGED <<module, names_were>>
     /\ IF fine
        THEN /\ registers_table' = with.table
             /\ allocated_registers' = with.names
             /\ spoiled' = (spoiled \/ with.out)
             /\ CASE op = "LABEL" -> LabelPlaced(ids[args[1][1]])
                  [] op \in LabelOps \ {"LABEL"} ->
                       JumpEmitted(op, ids[args[1][1]],
                                   IF op = "JMP" THEN 0
                                   ELSE RegisterIn(with.names, args[2][1]))
                  [] OTHER ->
                       /\ Emit(MachineOperation(ByteCommand(op, args, with.names)))
                       /\ UNCHANGED <<label_jmp_ip, except_handling_jmps>>
        ELSE UNCHANGED <<spoiled, registers_table, allocated_registers, result,
                         label_jmp_ip, except_handling_jmps>>

(* A statement of MSL takes the first free registers and gives most back. *)
MSLStatement ==
  LET Taken(n) == FoldLeft(LAMBDA table, i : table \cup {FindFreeGeneral(table)},
                           registers_table, [i \in 1 .. n |-> i])
  IN /\ Compiling("statement")
     /\ registers_table' = Taken(Item.kept) \ {InvalidRegister}
     /\ spoiled' = (spoiled \/ InvalidRegister \in Taken(Item.temps))
     /\ Emit([code |-> "STATEMENT", arg0 |-> Taken(Item.temps) \ registers_table,
              arg1 |-> 0, arg2 |-> 0])
     /\ UNCHANGED <<reported, module, aliasing_labels_ids, labels_count,
                    allocated_registers, label_jmp_ip, except_handling_jmps,
                    names_were>>


(* ClearTempResources, FreeAllocatedRegisters, and the next module. *)
EndModule ==
  /\ Compiling("module")
  /\ module' = module + 1
  /\ names_were' = Append(names_were, allocated_registers)
  /\ aliasing_labels_ids' = << >>
  /\ allocated_registers' = << >> /\ registers_table' = {}
  /\ UNCHANGED <<reported, spoiled, labels_count, result,
                 label_jmp_ip, except_handling_jmps>>

Arrived(i) == IF i > Len(result) THEN "ended" ELSE "running"

(* Linker::Link: with a jump still waiting there is nothing to execute. *)
Link ==
  /\ stage = "compiled" /\ pseudo_ip = Len(program)
  /\ stage' = IF except_handling_jmps = {} THEN Arrived(1) ELSE "refused"
  /\ UNCHANGED <<program, compile, run>>

-----------------------------------------------------------------------------
(* Executing.                                                              *)

(* ErrorCode and VMCallType. *)
NoError == 0
FailedMemoryFreeing == 402
FailedMemoryAllocation == 403
GET_ERROR == 4

Read(a, size) ==
  LET upto[n \in 0 .. size] ==
        IF n = 0 THEN 0 ELSE upto[n - 1] + memory[a + n - 1] * Base ^ (n - 1)
  IN upto[size]
InMemory(a, size) == a + size <= MemorySize

Operation == result[ip]
Executing(codes) == stage = "running" /\ Operation.code \in codes
Register(n) == registers[n]
GoesTo(i) ==
  /\ ip' = i /\ stage' = Arrived(i) /\ UNCHANGED <<program, compile>>
(* Raise of a critical error, and of another one. *)
Raise ==
  /\ stage' = "faulted" /\ UNCHANGED <<program, compile, run>>
RaiseMajor(code) ==
  /\ error_stack' = Append(error_stack, code) /\ GoesTo(ip + 1)
  /\ UNCHANGED <<registers, memory, free_list, shown>>
Into(r, w) ==
  /\ GoesTo(ip + 1) /\ registers' = [registers EXCEPT ![r] = w]
  /\ UNCHANGED <<memory, free_list, error_stack, shown>>

ExecuteAL ==
  LET o == Operation
      a == Promise!Signed(Register(o.arg1))
      b == Promise!Signed(Register(o.arg2))
  IN /\ Executing(Arithmetic)
     /\ IF o.code \in {"DIVI", "MODI"} /\ b = 0 THEN Raise
        ELSE Into(o.arg0,
                  CASE o.code = "ADDI" -> Promise!Word(a + b)
                    [] o.code = "SUBI" -> Promise!Word(a - b)
                    [] o.code = "MULI" -> Promise!Word(a * b)
                    [] o.code = "DIVI" -> Promise!Word(Promise!Quotient(a, b))
                    [] o.code = "MODI" -> Promise!Word(a - b * Promise!Quotient(a, b)))

ExecuteMove ==
  LET o == Operation IN
  /\ Executing({"NEGI", "MOVRR", "MOVRI", "LOAD_LOCAL"})
  /\ Into(o.arg0, CASE o.code = "NEGI" -> Promise!Word(-Register(o.arg1))
                    [] o.code = "MOVRR" -> Register(o.arg1)
                    [] o.code = "MOVRI" -> o.arg1
                    [] o.code = "LOAD_LOCAL" -> Read(o.arg1, o.arg2))

ExecuteLoad ==
  LET o == Operation
      a == Register(o.arg1)
  IN /\ Executing({"LOAD_BY_ADDRESS"})
     /\ IF o.arg2 = 0 THEN Into(o.arg0, 0)
        ELSE IF InMemory(a, o.arg2) THEN Into(o.arg0, Read(a, o.arg2)) ELSE Raise

ExecuteStore ==
  LET o == Operation
      a == Register(o.arg1)
  IN /\ Executing({"STORE_BY_ADDRESS"})
     /\ IF o.arg2 = 0 \/ InMemory(a, o.arg2)
        THEN /\ memory' = [c \in DOMAIN memory |->
                             IF c >= a /\ c < a + o.arg2
                             THEN (Register(o.arg0) \div Base ^ (c - a)) % Base
                             ELSE memory[c]]
             /\ GoesTo(ip + 1) /\ UNCHANGED <<registers, free_list, error_stack, shown>>
        ELSE Raise

ExecuteCopy ==
  LET o == Operation
      dest == Register(o.arg0)
      src == Register(o.arg1)
      size == Register(o.arg2)
  IN /\ Executing({"COPY_DYNAMIC"})
     /\ IF size = 0 \/ (InMemory(dest, size) /\ InMemory(src, size))
        THEN /\ memory' = [c \in DOMAIN memory |->
                             IF c >= dest /\ c < dest + size
                             THEN memory[c - dest + src] ELSE memory[c]]
             /\ GoesTo(ip + 1) /\ UNCHANGED <<registers, free_list, error_stack, shown>>
        ELSE Raise

(* The heap hands out cells that are listed as free.  Which of them, and   *)
(* whether it finds them when some are listed twice, is left open.         *)
HeapCells == HeapStart .. MemorySize - 1
Block(a, size) == a .. a + size - 1
Listed(a, size) == \A c \in Block(a, size) : c \in HeapCells /\ free_list[c] > 0

ExecuteAlloc ==
  LET o == Operation
      size == Register(o.arg1)
  IN /\ Executing({"ALLOC"})
     /\ \/ \E a \in HeapCells :
             /\ size > 0 /\ Listed(a, size)
             /\ free_list' = [c \in HeapCells |->
                           IF c \in Block(a, size) THEN free_list[c] - 1 ELSE free_list[c]]
             /\ registers' = [registers EXCEPT ![o.arg0] = a]
             /\ GoesTo(ip + 1) /\ UNCHANGED <<memory, error_stack, shown>>
        \/ /\ \/ size = 0
              \/ \A a \in HeapCells : ~Listed(a, size)
              \/ \E c \in HeapCells : free_list[c] > 1
           /\ RaiseMajor(FailedMemoryAllocation)

(* Whether the cells are held is not asked. *)
ExecuteFree ==
  LET o == Operation
      a == Register(o.arg0)
      size == Register(o.arg1)
  IN /\ Executing({"FREE"})
     /\ IF HeapStart <= a /\ InMemory(a, size) /\ size > 0
        THEN /\ free_list' = [c \in HeapCells |->
                           IF c \in Block(a, size) THEN free_list[c] + 1 ELSE free_list[c]]
             /\ GoesTo(ip + 1) /\ UNCHANGED <<registers, memory, error_stack, shown>>
        ELSE RaiseMajor(FailedMemoryFreeing)

(* handle_vm_call: a call that prints, GET_ERROR, or one that does not     *)
(* exist.                                                                  *)
ExecuteVMCall ==
  LET o == Operation IN
  /\ Executing({"SPEC_CALL"})
  /\ \/ /\ o.arg0 < GET_ERROR
        /\ shown' = <<o.arg0, Register(o.arg1)>>
        /\ GoesTo(ip + 1) /\ UNCHANGED <<registers, memory, free_list, error_stack>>
     \/ /\ o.arg0 = GET_ERROR
        /\ LET code == IF error_stack = << >> THEN NoError ELSE Last(error_stack)
           IN registers' = [registers EXCEPT ![o.arg1] = Promise!Word(code)]
        /\ error_stack' = IF error_stack = << >> THEN << >> ELSE Front(error_stack)
        /\ GoesTo(ip + 1) /\ UNCHANGED <<memory, free_list, shown>>
     \/ /\ o.arg0 > GET_ERROR
        /\ GoesTo(ip + 1)
        /\ UNCHANGED <<registers, memory, free_list, error_stack, shown>>

ExecuteJump ==
  LET o == Operation
      jumps == CASE o.code = "JMP" -> TRUE
                 [] o.code = "JMP_IF" -> Register(o.arg1) # 0
                 [] o.code = "JMP_NIF" -> Register(o.arg1) = 0
  IN /\ Executing({"JMP", "JMP_IF", "JMP_NIF"})
     /\ GoesTo(IF jumps THEN o.arg0 ELSE ip + 1)
     /\ UNCHANGED <<registers, memory, free_list, error_stack, shown>>

(* The commands of a statement leave anything in the registers it took. *)
ExecuteStatement ==
  /\ Executing({"STATEMENT"})
  /\ \E junk \in Promise!Words :
       registers' = [r \in DOMAIN registers |->
                       IF r \in Operation.arg0 THEN junk ELSE registers[r]]
  /\ GoesTo(ip + 1) /\ UNCHANGED <<memory, free_list, error_stack, shown>>

-----------------------------------------------------------------------------
Init ==
  /\ program \in Programs
  /\ pseudo_ip = 0 /\ reported = {} /\ spoiled = FALSE /\ module = 0
  /\ aliasing_labels_ids = << >> /\ labels_count = 0
  /\ registers_table = {} /\ allocated_registers = << >>
  /\ result = << >> /\ label_jmp_ip = << >> /\ except_handling_jmps = {}
  /\ names_were = << >> /\ stage = "compiled"
  /\ registers = [r \in 0 .. GeneralRegisters |-> 0] /\ ip = 1
  /\ memory = [a \in 0 .. MemorySize - 1 |-> 0] /\ shown = << >>
  /\ free_list = [c \in HeapCells |-> 1] /\ error_stack = << >>

Next ==
  \/ Line \/ MSLStatement \/ EndModule \/ Link
  \/ ExecuteAL \/ ExecuteMove \/ ExecuteLoad \/ ExecuteStore \/ ExecuteCopy
  \/ ExecuteAlloc \/ ExecuteFree \/ ExecuteVMCall \/ ExecuteJump
  \/ ExecuteStatement

Spec == Init /\ [][Next]_vars

-----------------------------------------------------------------------------
(* Properties.                                                             *)

TypeOK ==
  /\ pseudo_ip \in 0 .. Len(program) /\ reported \subseteq 1 .. pseudo_ip
  /\ spoiled \in BOOLEAN /\ module \in Nat /\ labels_count \in Nat
  /\ \A name \in DOMAIN aliasing_labels_ids :
       aliasing_labels_ids[name] \in 0 .. labels_count - 1
  /\ registers_table \subseteq 0 .. GeneralRegisters - 1
  /\ DOMAIN allocated_registers \subseteq Names
  /\ DOMAIN label_jmp_ip \subseteq 0 .. labels_count - 1
  /\ \A j \in except_handling_jmps :
       j.ip \in DOMAIN result /\ j.id \notin DOMAIN label_jmp_ip
  /\ stage \in {"compiled", "refused", "running", "ended", "faulted"}
  /\ registers \in [0 .. GeneralRegisters -> Promise!Words]
  /\ ip \in 1 .. Len(result) + 1
  /\ memory \in [0 .. MemorySize - 1 -> 0 .. Base - 1]
  /\ free_list \in [HeapCells -> Nat]
  /\ error_stack \in Seq({FailedMemoryAllocation, FailedMemoryFreeing})

=============================================================================
