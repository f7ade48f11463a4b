------------------------------- MODULE Program ------------------------------
(***************************************************************************)
(* How a name becomes a place in memory, from the compiler to the machine: *)
(* CompilationState looks names up and numbers variables, the byte         *)
(* translation gives each an offset in its module's stack frame, Packer    *)
(* writes the size of that frame and the variables other modules use as    *)
(* symbols, the linker lays the frames of the modules one behind the       *)
(* other, and the machine stores at absolute addresses.                    *)
(*                                                                         *)
(* A program is written statement by statement; each statement is carried  *)
(* through lexical analysis, pseudo translation and byte translation at    *)
(* once, as these stages share nothing but what is modelled.  Statement    *)
(* "module" ends one file and starts the next in the linking order, with   *)
(* braces balanced (ControlFlow and ImportGraph model the rest).  Labels   *)
(* are positions in the code at once (Linker, ControlFlow).                *)
(***************************************************************************)
EXTENDS Integers, Sequences, SequencesExt, FiniteSetsExt

CONSTANTS
  Declarations,  (* [name, size]: names with the aligned sizes of types    *)
  Values, Garbage,
  RodSize,       (* where the stack of the machine starts                  *)
  MaxText, MaxModules, MaxDepth

Names == {d.name : d \in Declarations}

Mark(op) == [op |-> op, name |-> "", size |-> 0]
Statements ==
  {[op |-> "declare", name |-> d.name, size |-> d.size] : d \in Declarations}
    \cup {[op |-> "assign", name |-> n, size |-> 0] : n \in Names}
    \cup {Mark("scope"), Mark("while"), Mark("close"), Mark("module")}

ASSUME ProgramAssumption ==
  /\ \A d \in Declarations : d.size \in Nat \ {0}
  /\ Garbage \notin Values
  /\ RodSize \in Nat
  /\ MaxModules \in Nat \ {0}

VARIABLES
  text, reported,
  (* CompilationState *)
  current_module_id,
  frames_stack,             (* per visible scope: its names, with ids      *)
  variables_descriptions,   (* by id: module_id, global_stack_offset, size *)
  unhandled_symbols,        (* ids of the variables other modules use      *)
  (* ByteTranslationState *)
  frame_stack,              (* start_address and size of each scope        *)
  dvicm,                    (* declared_variables_in_current_module        *)
  whiles,                   (* jumps that wait for the end of their scope, *)
                            (* 0 for a scope that is no loop               *)
  code,                     (* of all modules in order                     *)
  stack_size,               (* as packed, of the modules that are finished *)
  (* the linker and the machine *)
  stack_offset_of_module,
  running, ip, memory

pseudo == <<frames_stack, variables_descriptions>>
byte == <<unhandled_symbols, frame_stack, dvicm, whiles, code>>
linked == <<stack_offset_of_module, running>>
machine == <<ip, memory>>
vars == <<text, reported, current_module_id, pseudo, byte, stack_size, linked,
          machine>>

-----------------------------------------------------------------------------
(* CompilationState. *)

Has(frame, name) == name \in DOMAIN frame
Added(frame, name, id) ==
  [n \in DOMAIN frame \cup {name} |-> IF n = name THEN id ELSE frame[n]]

(* Mutation: the outermost scope is searched first. *)
FindSymbolLocal_Outermost(name) ==
  LET frames == {i \in DOMAIN frames_stack : Has(frames_stack[i], name)}
  IN IF frames = {} THEN 0 ELSE frames_stack[Min(frames)][name]

(* The id of the variable a name stands for, 0 for none; a declaration     *)
(* looks in its own scope only.                                            *)
FindSymbolLocal(name) ==
  LET frames == {i \in DOMAIN frames_stack : Has(frames_stack[i], name)}
  IN IF frames = {} THEN 0 ELSE frames_stack[Max(frames)][name]

NewId == Len(variables_descriptions) + 1

-----------------------------------------------------------------------------
(* Byte translation. *)

Frame(start) == [start_address |-> start, size |-> 0]
NextFreeAddress == Last(frame_stack).start_address + Last(frame_stack).size

(* Mutations: a scope starts where the module's frame does; it has none. *)
PushFrame_FromStart == Append(frame_stack, Frame(0))
PushFrame_None == frame_stack

PushFrame == Append(frame_stack, Frame(NextFreeAddress))

AddUnhandledSymbol(id) ==
  IF id \in ToSet(unhandled_symbols) THEN unhandled_symbols
  ELSE Append(unhandled_symbols, id)

DeclaredHere(id) == id \in dvicm

(* HandleUsing: how the operand of a command names the variable. *)
Operand(id) ==
  IF DeclaredHere(id)
  THEN [source |-> "StaticAddress", data |-> variables_descriptions[id].global_stack_offset]
  ELSE [source |-> "Symbol",
        data |-> SelectInSeq(AddUnhandledSymbol(id), LAMBDA v : v = id)]
NoOperand == [source |-> "None", data |-> 0]

(* statement is history: the statement a command was made of. *)
Command(op, operand, size) ==
  [op |-> op, module |-> current_module_id, operand |-> operand, size |-> size,
   target |-> 0, statement |-> Len(text) + 1]

-----------------------------------------------------------------------------
Init ==
  /\ text = << >> /\ reported = {}
  /\ current_module_id = 1
  /\ frames_stack = << << >> >> /\ variables_descriptions = << >>
  /\ unhandled_symbols = << >> /\ frame_stack = << Frame(0) >>
  /\ dvicm = {} /\ whiles = << >> /\ code = << >>
  /\ stack_size = << >> /\ stack_offset_of_module = << >>
  /\ running = FALSE /\ ip = 0 /\ memory = << >>

Write(s) ==
  /\ ~running /\ Len(text) < MaxText
  /\ text' = Append(text, s)
  /\ UNCHANGED <<linked, machine>>

Refuse ==
  /\ reported' = reported \cup {Len(text) + 1}
  /\ UNCHANGED <<current_module_id, pseudo, byte, stack_size>>

(* A statement that does not begin or end a module. *)
Accept == UNCHANGED <<reported, current_module_id, stack_size>>

(* RegisterVariable, then DeclareVariable: the variable lies behind those  *)
(* of its scope, and the stack pointer is moved over it.                   *)
Declare(s) ==
  /\ s.op = "declare" /\ Write(s)
  /\ IF Has(Last(frames_stack), s.name) THEN Refuse
     ELSE
       /\ frames_stack' =
            [frames_stack EXCEPT ![Len(frames_stack)] = Added(@, s.name, NewId)]
       /\ variables_descriptions' =
            Append(variables_descriptions,
                   [module_id |-> current_module_id, size |-> s.size,
                    global_stack_offset |-> NextFreeAddress])
       /\ dvicm' = dvicm \cup {NewId}
       /\ frame_stack' = [frame_stack EXCEPT ![Len(frame_stack)].size = @ + s.size]
       /\ code' = Append(code, Command("STACK_UP", NoOperand, s.size))
       /\ UNCHANGED <<unhandled_symbols, whiles>>
       /\ Accept

Assign(s) ==
  LET id == FindSymbolLocal(s.name) IN
  /\ s.op = "assign" /\ Write(s)
  /\ IF id = 0 THEN Refuse
     ELSE
       /\ code' = Append(code, Command("STORE", Operand(id), variables_descriptions[id].size))
       /\ unhandled_symbols' =
            IF DeclaredHere(id) THEN unhandled_symbols ELSE AddUnhandledSymbol(id)
       /\ UNCHANGED <<pseudo, frame_stack, dvicm, whiles>>
       /\ Accept

(* A loop tests its condition first and is left when it is false. *)
OpenScope(s) ==
  /\ s.op \in {"scope", "while"} /\ Write(s) /\ Len(whiles) < MaxDepth
  /\ frames_stack' = Append(frames_stack, << >>)
  /\ frame_stack' = PushFrame
  /\ IF s.op = "while"
       THEN /\ code' = Append(code, Command("JMPCNV", NoOperand, 0))
            /\ whiles' = Append(whiles, Len(code) + 1)
       ELSE whiles' = Append(whiles, 0) /\ UNCHANGED code
  /\ UNCHANGED <<variables_descriptions, unhandled_symbols, dvicm>>
  /\ Accept

CloseScope(s) ==
  /\ s.op = "close" /\ Write(s) /\ whiles # << >>
  /\ frames_stack' = Front(frames_stack)
  /\ frame_stack' = Front(frame_stack)
  /\ whiles' = Front(whiles)
  /\ LET test == Last(whiles)
         back == [Command("JMP", NoOperand, 0) EXCEPT !.target = test]
     IN code' = IF test = 0 THEN code
                ELSE Append([code EXCEPT ![test].target = Len(code) + 2], back)
  /\ UNCHANGED <<variables_descriptions, unhandled_symbols, dvicm>>
  /\ Accept

(* The next file begins: its ByteTranslationState is new, the              *)
(* CompilationState is not.  Packed is the size of the outermost frame.    *)
Packed == Append(stack_size, Last(frame_stack).size)

NextModule(s) ==
  /\ s.op = "module" /\ Write(s) /\ whiles = << >>
  /\ current_module_id < MaxModules
  /\ current_module_id' = current_module_id + 1
  /\ stack_size' = Packed
  /\ frame_stack' = << Frame(0) >> /\ dvicm' = {}
  /\ UNCHANGED <<reported, pseudo, unhandled_symbols, whiles, code>>

-----------------------------------------------------------------------------
(* The linker. *)

(* global_memory_offset when module m is begun. *)
OffsetOfModule[m \in Nat] ==
  IF m <= 1 THEN RodSize ELSE OffsetOfModule[m - 1] + Packed[m - 1]

(* The last file ends.  All cells are zero. *)
Link ==
  /\ ~running /\ whiles = << >>
  /\ stack_size' = Packed
  /\ stack_offset_of_module' = [m \in 1 .. current_module_id |-> OffsetOfModule[m]]
  /\ running' = TRUE /\ ip' = 1
  /\ UNCHANGED <<text, reported, current_module_id, pseudo, byte, memory>>

AddressOf(id) ==
  stack_offset_of_module[variables_descriptions[id].module_id]
    + variables_descriptions[id].global_stack_offset

Relocated(c) ==
  IF c.operand.source = "Symbol"
  THEN AddressOf(unhandled_symbols[c.operand.data])
  ELSE stack_offset_of_module[c.module] + c.operand.data

-----------------------------------------------------------------------------
(* The machine: memory holds the bytes written, each a part of a value.    *)

Byte(v, i) == [value |-> v, index |-> i]

Running(op) == running /\ ip <= Len(code) /\ code[ip].op = op

GoTo(target) ==
  /\ ip' = target
  /\ UNCHANGED <<text, reported, current_module_id, pseudo, byte, stack_size, linked>>

Store ==
  /\ Running("STORE")
  /\ \E v \in Values :
       LET a == Relocated(code[ip])
           written == a .. a + code[ip].size - 1
       IN memory' = [x \in DOMAIN memory \cup written |->
                       IF x \in written THEN Byte(v, x - a) ELSE memory[x]]
  /\ GoTo(ip + 1)

(* Nothing compiled reads the stack pointer: no calls and no PUSH. *)
StackUp == Running("STACK_UP") /\ GoTo(ip + 1) /\ UNCHANGED memory

JumpIfNot ==
  /\ Running("JMPCNV")
  /\ GoTo(ip + 1) \/ GoTo(code[ip].target)
  /\ UNCHANGED memory

Jump == Running("JMP") /\ GoTo(code[ip].target) /\ UNCHANGED memory

Next ==
  \/ \E s \in Statements :
       Declare(s) \/ Assign(s) \/ OpenScope(s) \/ CloseScope(s) \/ NextModule(s)
  \/ Link \/ Store \/ StackUp \/ JumpIfNot \/ Jump

Spec == Init /\ [][Next]_vars

-----------------------------------------------------------------------------
TypeOK ==
  /\ text \in Seq(Statements) /\ reported \subseteq DOMAIN text
  /\ current_module_id \in 1 .. MaxModules
  /\ Len(frames_stack) = Len(whiles) + 1 /\ Len(frame_stack) = Len(frames_stack)
  /\ \A i \in DOMAIN frames_stack :
       /\ DOMAIN frames_stack[i] \subseteq Names
       /\ \A n \in DOMAIN frames_stack[i] : frames_stack[i][n] \in DOMAIN variables_descriptions
  /\ \A i \in DOMAIN variables_descriptions :
       variables_descriptions[i] \in
         [module_id : 1 .. MaxModules, size : Nat, global_stack_offset : Nat]
  /\ ToSet(unhandled_symbols) \cup dvicm \subseteq DOMAIN variables_descriptions
  /\ \A i \in DOMAIN frame_stack : frame_stack[i] \in [start_address : Nat, size : Nat]
  /\ \A i \in DOMAIN code : code[i].target \in 0 .. Len(code) + 1
  /\ running => ip \in 1 .. Len(code) + 1

(* The declaration at position j of the text numbered its variable so.     *)
IdOf(j) == Cardinality({k \in 1 .. j : text[k].op = "declare" /\ k \notin reported})

Bytes(id) == AddressOf(id) .. AddressOf(id) + variables_descriptions[id].size - 1

(* What is in a variable's bytes: a value if they are all of one write.    *)
Held(id) ==
  LET a == AddressOf(id)
      whole(v) == \A x \in Bytes(id) : x \in DOMAIN memory /\ memory[x] = Byte(v, x - a)
  IN IF \E v \in Values : whole(v) THEN CHOOSE v \in Values : whole(v) ELSE Garbage

AtStatement ==
  IF ~running THEN 0 ELSE IF ip > Len(code) THEN Len(text) + 1 ELSE code[ip].statement

(* Live depends on the text alone, so any store will do to ask for it. *)
Scopes == INSTANCE LexicalPromise WITH at <- 0, store <- << >>

Promise == INSTANCE LexicalPromise WITH
  at <- AtStatement,
  store <- IF running THEN [j \in Scopes!Live(AtStatement) |-> Held(IdOf(j))] ELSE << >>

(* The whole chain implements LexicalPromise: a name that is declared      *)
(* again in an inner scope, in a scope beside it or in another module      *)
(* never reaches into a variable that is still in scope, in whatever       *)
(* order scopes, loops and modules come, and exactly those declarations    *)
(* and uses are reported that mean nothing.                                *)
KeepsLexicalPromise == Promise!Spec

(* Wherever a program is, the variables in scope share no byte and lie on  *)
(* the stack, although the frame the linker reserves for a module has no   *)
(* room for variables of inner scopes: these lie where the next module     *)
(* has its own.                                                            *)
LiveApart ==
  running =>
    \A i, j \in Scopes!Live(AtStatement) :
      /\ \A x \in Bytes(IdOf(i)) : x >= RodSize
      /\ i # j => Bytes(IdOf(i)) \cap Bytes(IdOf(j)) = {}

(* What the linker takes for granted: a command names a variable of        *)
(* another module by a symbol, and that module comes before its own in the *)
(* linking order, so that its offset is known when the command is linked.  *)
SymbolsPointBack ==
  \A i \in DOMAIN code :
    code[i].operand.source = "Symbol" =>
      variables_descriptions[unhandled_symbols[code[i].operand.data]].module_id
        < code[i].module

(* An address computed while linking is that of the one variable meant.    *)
VariablesPlaced == LiveApart /\ SymbolsPointBack

=============================================================================
