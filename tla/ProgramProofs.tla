--------------------------- MODULE ProgramProofs ---------------------------
(***************************************************************************)
(* Proofs about Program, for every set of declarations, programs of every  *)
(* length and every depth of scopes.                                       *)
(*                                                                         *)
(* How many scopes are open and the number of a variable are counts of     *)
(* statements; both change by one statement at a time.  That variables lie *)
(* apart is proved from where a variable lies relative to those in scope   *)
(* when it is declared; who is in scope together at any point is among     *)
(* them.                                                                   *)
(*                                                                         *)
(* That the program does what its text says (LexicalPromise) needs, of the *)
(* compiler, that each command means its statement, which MeaningKept      *)
(* states, and of the machine that a STORE changes one variable in scope.  *)
(***************************************************************************)
EXTENDS Program, TLAPS, FiniteSetTheorems, SequenceTheorems, WellFoundedInduction

-----------------------------------------------------------------------------
(* The inductive invariant.                                                *)

Tables == UNION {[ns -> Nat] : ns \in SUBSET Names}
Descriptions == [module_id : 1 .. MaxModules, size : Nat, global_stack_offset : Nat]
Operands == [source : {"None", "StaticAddress", "Symbol"}, data : Nat]
Commands ==
  [op : {"STACK_UP", "STORE", "JMPCNV", "JMP"}, module : 1 .. MaxModules,
   operand : Operands, size : Nat, target : Nat, statement : Nat]

Shapes ==
  /\ text \in Seq(Statements) /\ reported \subseteq DOMAIN text
  /\ current_module_id \in 1 .. MaxModules
  /\ frames_stack \in Seq(Tables) /\ variables_descriptions \in Seq(Descriptions)
  /\ unhandled_symbols \in Seq(Nat) /\ dvicm \subseteq DOMAIN variables_descriptions
  /\ frame_stack \in Seq([start_address : Nat, size : Nat])
  /\ whiles \in Seq(Nat) /\ code \in Seq(Commands)
  /\ stack_size \in Seq(Nat)
  /\ running \in BOOLEAN /\ ip \in Nat
  /\ Len(frames_stack) = Len(whiles) + 1 /\ Len(frame_stack) = Len(whiles) + 1

(* Whatever is numbered has been described. *)
IdsKnown ==
  /\ \A i \in DOMAIN frames_stack : \A n \in DOMAIN frames_stack[i] :
       frames_stack[i][n] \in DOMAIN variables_descriptions
  /\ \A i \in DOMAIN unhandled_symbols :
       unhandled_symbols[i] \in DOMAIN variables_descriptions

(* A jump that is not yet aimed belongs to an open loop. *)
Aimed(i) ==
  /\ code[i].target <= Len(code) + 1
  /\ code[i].op = "JMP" => code[i].target # 0
  /\ code[i].op = "JMPCNV" =>
       code[i].target # 0 \/ \E k \in DOMAIN whiles : whiles[k] = i

JumpsAimed ==
  /\ \A k \in DOMAIN whiles : whiles[k] <= Len(code)
  /\ \A i \in DOMAIN code : Aimed(i)
  /\ running => whiles = << >> /\ ip \in 1 .. Len(code) + 1

(* declared_variables_in_current_module holds the variables of this file,  *)
(* and those of other files belong to earlier ones.                        *)
VariablesInOrder ==
  \A id \in DOMAIN variables_descriptions :
    /\ variables_descriptions[id].module_id <= current_module_id
    /\ id \in dvicm <=> variables_descriptions[id].module_id = current_module_id

(* A symbol stands for a variable of an earlier file. *)
PointsBack(i) ==
  code[i].operand.source = "Symbol" =>
    /\ code[i].operand.data \in DOMAIN unhandled_symbols
    /\ variables_descriptions[unhandled_symbols[code[i].operand.data]].module_id
         < code[i].module
CodeInOrder ==
  \A i \in DOMAIN code : code[i].statement \in DOMAIN text /\ PointsBack(i)

(* The text, its scopes and its variables, as far as it is written. *)
Registered(j) == text[j].op = "declare" /\ j \notin reported

TextCounted ==
  /\ \A i \in 1 .. Len(text) + 1 : Scopes!Depth(i) \in Nat
  /\ Scopes!Depth(Len(text) + 1) = Len(whiles)
  /\ IdOf(Len(text)) = Len(variables_descriptions)
  /\ \A j \in DOMAIN text : Registered(j) => IdOf(j) \in DOMAIN variables_descriptions

(* The frames of the scopes that are open follow one another. *)
FrameEnd(i) == frame_stack[i].start_address + frame_stack[i].size

FramesInOrder ==
  /\ frame_stack[1].start_address = 0
  /\ \A a, b \in DOMAIN frame_stack : a < b => FrameEnd(a) <= frame_stack[b].start_address
  /\ Len(stack_size) = IF running THEN current_module_id ELSE current_module_id - 1

VarOf(j) == variables_descriptions[IdOf(j)]
VarEnd(j) == VarOf(j).global_stack_offset + VarOf(j).size

(* Who is in scope lies in the frame of its scope, or in that of the       *)
(* module it comes from.                                                   *)
Housed(j) ==
  IF VarOf(j).module_id = current_module_id
  THEN VarEnd(j) <= FrameEnd(Scopes!Depth(j) + 1)
  ELSE VarEnd(j) <= stack_size[VarOf(j).module_id]
LiveHoused == ~running => \A j \in Scopes!Live(Len(text) + 1) : Housed(j)

(* A variable lies behind those that are in scope when it is declared.     *)
Behind(i, j) ==
  IF VarOf(i).module_id = VarOf(j).module_id
  THEN VarEnd(i) <= VarOf(j).global_stack_offset
  ELSE /\ VarOf(i).module_id < VarOf(j).module_id
       /\ VarEnd(i) <= stack_size[VarOf(i).module_id]
DeclaredBehind ==
  \A j \in DOMAIN text : Registered(j) => \A i \in Scopes!Live(j) : Behind(i, j)

(* The linker lays the modules one behind the other. *)
ModulesLaidOut ==
  running =>
    \A m \in 1 .. current_module_id :
      /\ stack_offset_of_module[m] \in Nat /\ RodSize <= stack_offset_of_module[m]
      /\ \A n \in 1 .. current_module_id :
           m < n => stack_offset_of_module[m] + stack_size[m] <= stack_offset_of_module[n]

IInv ==
  /\ Shapes /\ IdsKnown /\ JumpsAimed /\ VariablesInOrder /\ CodeInOrder
  /\ TextCounted /\ FramesInOrder /\ LiveHoused /\ DeclaredBehind
  /\ ModulesLaidOut

-----------------------------------------------------------------------------
(* Numbers and sets of numbers. *)

(* Every set of natural numbers has a least one. *)
LEMMA LeastNatural ==
  ASSUME NEW T, T \subseteq Nat, T # {}
  PROVE  \E n \in T : \A m \in T : n <= m
<1> DEFINE R == OpToRel(<, Nat)
<1>1. IsWellFoundedOn(R, Nat)
  BY NatLessThanWellFounded
<1>2. \A m \in Nat, n \in Nat : m < n => <<m, n>> \in R
  BY DEF OpToRel
<1> HIDE DEF R
<1>3. PICK n \in T : \A m \in T : ~(<<m, n>> \in R)
  BY <1>1, WFMin
<1>4. \A m \in T : ~(m < n)
  BY <1>2, <1>3
<1> QED
  BY <1>4

(* Min and Max of a set of positions are among them. *)
LEMMA MinIsMember ==
  ASSUME NEW n \in Nat, NEW T, T \subseteq 1 .. n, T # {}
  PROVE  Min(T) \in T
<1>1. T \subseteq Nat
  OBVIOUS
<1>2. PICK x \in T : \A y \in T : x <= y
  BY <1>1, LeastNatural
<1> QED
  BY <1>2 DEF Min

(* The maximum of numbers up to n is one of them.                           *)
LEMMA MaxIsMember ==
  ASSUME NEW n \in Nat, NEW T, T \subseteq 1 .. n, T # {}
  PROVE  Max(T) \in T
<1> DEFINE M == {n - x : x \in T}
<1>1. M \subseteq Nat /\ M # {}
  <2>1. \A x \in T : n - x \in Nat
    OBVIOUS
  <2>2. M \subseteq Nat
    BY <2>1
  <2> QED
    BY <2>2
<1>2. PICK y \in M : \A z \in M : y <= z
  BY <1>1, LeastNatural
<1>3. PICK x \in T : y = n - x
  BY <1>2
<1>4. \A z \in T : x >= z
  <2> TAKE z \in T
  <2>1. n - x <= n - z
    BY <1>2, <1>3
  <2> QED
    BY <2>1
<1> QED
  BY <1>4 DEF Max

(* Counting up to one position further. *)
LEMMA CountNext ==
  ASSUME NEW T, NEW i \in Nat
  PROVE  /\ Cardinality(T \cap (1 .. i)) \in Nat
         /\ Cardinality(T \cap (1 .. i + 1)) =
              Cardinality(T \cap (1 .. i)) + (IF i + 1 \in T THEN 1 ELSE 0)
<1>1. IsFiniteSet(T \cap (1 .. i))
  <2>1. IsFiniteSet(1 .. i)
    BY FS_Interval
  <2> QED
    BY <2>1, FS_Subset
<1>2. Cardinality(T \cap (1 .. i)) \in Nat
  BY <1>1, FS_CardinalityType
<1>3. CASE i + 1 \in T
  <2>1. T \cap (1 .. i + 1) = (T \cap (1 .. i)) \cup {i + 1}
    BY <1>3
  <2>2. i + 1 \notin T \cap (1 .. i)
    OBVIOUS
  <2>3. Cardinality((T \cap (1 .. i)) \cup {i + 1}) = Cardinality(T \cap (1 .. i)) + 1
    BY <1>1, <2>2, FS_AddElement
  <2> QED
    BY <1>2, <1>3, <2>1, <2>3
<1>4. CASE i + 1 \notin T
  <2>1. T \cap (1 .. i + 1) = T \cap (1 .. i)
    BY <1>4
  <2> QED
    BY <1>2, <1>4, <2>1
<1> QED
  BY <1>3, <1>4

-----------------------------------------------------------------------------
(* Sequences. *)

(* The last element is replaced, and one is taken off. *)
LEMMA FrontOf ==
  ASSUME NEW S, NEW q \in Seq(S), q # << >>
  PROVE  /\ Len(q) \in Nat \ {0} /\ Last(q) = q[Len(q)] /\ Last(q) \in S
         /\ Front(q) \in Seq(S) /\ Len(Front(q)) = Len(q) - 1
         /\ \A i \in 1 .. Len(q) - 1 : Front(q)[i] = q[i]
<1>1. Len(q) \in Nat \ {0}
  BY EmptySeq
<1>2. q[Len(q)] \in S /\ Last(q) = q[Len(q)]
  BY <1>1 DEF Last
<1>3. Front(q) = SubSeq(q, 1, Len(q) - 1)
  BY DEF Front
<1> DEFINE n == Len(q) - 1
           front == SubSeq(q, 1, n)
<1>4. n \in Nat /\ n \in Int /\ 1 \in Int /\ \A i \in 1 .. n : q[i] \in S
  BY <1>1
<1> HIDE DEF n
<1>5. /\ front \in Seq(S)
      /\ Len(front) = IF 1 <= n THEN n - 1 + 1 ELSE 0
      /\ \A i \in 1 .. n - 1 + 1 : front[i] = q[1 + i - 1]
  BY <1>4, SubSeqProperties
<1> HIDE DEF front
<1>6. Len(front) = n /\ \A i \in 1 .. n : front[i] = q[i]
  BY <1>4, <1>5
<1> QED
  BY <1>1, <1>2, <1>3, <1>5, <1>6 DEF front, n

(* What an append makes of a sequence.                                      *)
LEMMA AppendOf ==
  ASSUME NEW S, NEW q \in Seq(S), NEW e \in S
  PROVE  /\ Append(q, e) \in Seq(S) /\ Len(Append(q, e)) = Len(q) + 1
         /\ DOMAIN Append(q, e) = 1 .. Len(q) + 1
         /\ Append(q, e)[Len(q) + 1] = e
         /\ \A i \in 1 .. Len(q) : Append(q, e)[i] = q[i]
  OBVIOUS

-----------------------------------------------------------------------------
(* Statements, scopes and symbols.                                         *)

(* A statement tells what it declares. *)
LEMMA StatementKnown ==
  ASSUME NEW s \in Statements
  PROVE  /\ s.size \in Nat
         /\ s.op \in {"declare", "assign", "scope", "while", "close", "module"}
         /\ s.op = "declare" => s.name \in Names /\ s.size # 0
<1>1. CASE \E d \in Declarations : s = [op |-> "declare", name |-> d.name, size |-> d.size]
  BY <1>1, ProgramAssumption DEF Names
<1>2. CASE \E n \in Names : s = [op |-> "assign", name |-> n, size |-> 0]
  BY <1>2
<1>3. CASE s \in {Mark("scope"), Mark("while"), Mark("close"), Mark("module")}
  <2>1. PICK op \in {"scope", "while", "close", "module"} : s = Mark(op)
    BY <1>3
  <2>2. s.op = op /\ s.size = 0
    BY <2>1 DEF Mark
  <2> QED
    BY <2>1, <2>2
<1> QED
  BY <1>1, <1>2, <1>3 DEF Statements

(* A table with one more name is a table. *)
LEMMA AddedIsTable ==
  ASSUME NEW t \in Tables, NEW name \in Names, NEW id \in Nat
  PROVE  Added(t, name, id) \in Tables
<1>1. PICK ns \in SUBSET Names : t \in [ns -> Nat]
  BY DEF Tables
<1>2. Added(t, name, id) \in [ns \cup {name} -> Nat]
  BY <1>1 DEF Added
<1>3. ns \cup {name} \in SUBSET Names
  OBVIOUS
<1> QED
  BY <1>2, <1>3 DEF Tables

(* A table knows only names, and numbers them. *)
LEMMA TableKnown ==
  ASSUME NEW t \in Tables
  PROVE  /\ DOMAIN t \subseteq Names
         /\ \A n \in DOMAIN t : t[n] \in Nat
  BY DEF Tables

(* A scope begins without names.                                            *)
LEMMA EmptyTable == << >> \in Tables
<1>1. << >> \in [{} -> Nat]
  OBVIOUS
<1> QED
  BY <1>1 DEF Tables

(* What a look-up finds is the id of a described variable. *)
LEMMA Found ==
  ASSUME Shapes, IdsKnown, NEW name, FindSymbolLocal(name) # 0
  PROVE  FindSymbolLocal(name) \in DOMAIN variables_descriptions
<1> DEFINE frames == {i \in DOMAIN frames_stack : Has(frames_stack[i], name)}
<1>1. frames # {} /\ FindSymbolLocal(name) = frames_stack[Max(frames)][name]
  BY DEF FindSymbolLocal
<1>2. frames \subseteq 1 .. Len(frames_stack) /\ Len(frames_stack) \in Nat
  BY DEF Shapes
<1>3. Max(frames) \in frames
  BY <1>1, <1>2, MaxIsMember
<1> QED
  BY <1>1, <1>3 DEF IdsKnown, Has

(* A symbol keeps its place when others are added, and is found there. *)
LEMMA SymbolAdded ==
  ASSUME unhandled_symbols \in Seq(Nat), NEW id \in Nat
  PROVE  LET more == AddUnhandledSymbol(id) IN
         /\ more \in Seq(Nat) /\ Len(unhandled_symbols) <= Len(more)
         /\ \A i \in DOMAIN unhandled_symbols : more[i] = unhandled_symbols[i]
         /\ \A i \in DOMAIN more : i \in DOMAIN unhandled_symbols \/ more[i] = id
         /\ SelectInSeq(more, LAMBDA v : v = id) \in DOMAIN more
         /\ more[SelectInSeq(more, LAMBDA v : v = id)] = id
<1> DEFINE more == AddUnhandledSymbol(id)
           I == {i \in 1 .. Len(more) : more[i] = id}
<1>1. /\ more \in Seq(Nat) /\ Len(unhandled_symbols) <= Len(more)
      /\ \A i \in DOMAIN unhandled_symbols : more[i] = unhandled_symbols[i]
      /\ \A i \in DOMAIN more : i \in DOMAIN unhandled_symbols \/ more[i] = id
      /\ I # {}
  <2>1. CASE id \in ToSet(unhandled_symbols)
    BY <2>1 DEF AddUnhandledSymbol, ToSet
  <2>2. CASE id \notin ToSet(unhandled_symbols)
    <3>1. more = Append(unhandled_symbols, id)
      BY <2>2 DEF AddUnhandledSymbol
    <3> HIDE DEF more
    <3>2. Len(unhandled_symbols) + 1 \in I
      BY <3>1
    <3> QED
      BY <3>1, <3>2
  <2> QED
    BY <2>1, <2>2
<1>2. SelectInSeq(more, LAMBDA v : v = id) = Min(I)
  BY <1>1 DEF SelectInSeq
<1> HIDE DEF more
<1>3. Min(I) \in I
  <2>1. Len(more) \in Nat /\ I \subseteq 1 .. Len(more)
    BY <1>1
  <2> QED
    BY <1>1, <2>1, MinIsMember
<1> HIDE DEF I
<1>4. Min(I) \in DOMAIN more /\ more[Min(I)] = id
  BY <1>1, <1>3 DEF I
<1> QED
  BY <1>1, <1>2, <1>4 DEF more

-----------------------------------------------------------------------------
(* The steps.                                                              *)

(* A statement is complained about; one declares; one assigns. *)
Refused(s) ==
  /\ s.op \in {"declare", "assign"} /\ Write(s) /\ Refuse
  /\ s.op = "declare" => Has(Last(frames_stack), s.name)
  /\ s.op = "assign" => FindSymbolLocal(s.name) = 0

Declared(s) ==
  /\ s.op = "declare" /\ Write(s) /\ ~Has(Last(frames_stack), s.name)
  /\ frames_stack' =
       [frames_stack EXCEPT ![Len(frames_stack)] = Added(@, s.name, NewId)]
  /\ variables_descriptions' =
       Append(variables_descriptions,
              [module_id |-> current_module_id, size |-> s.size,
               global_stack_offset |-> NextFreeAddress])
  /\ dvicm' = dvicm \cup {NewId}
  /\ frame_stack' = [frame_stack EXCEPT ![Len(frame_stack)].size = @ + s.size]
  /\ code' = Append(code, Command("STACK_UP", NoOperand, s.size))
  /\ UNCHANGED <<unhandled_symbols, whiles>>
  /\ Accept

Assigned(s) ==
  LET id == FindSymbolLocal(s.name) IN
  /\ s.op = "assign" /\ Write(s) /\ id # 0
  /\ code' = Append(code, Command("STORE", Operand(id), variables_descriptions[id].size))
  /\ unhandled_symbols' =
       IF DeclaredHere(id) THEN unhandled_symbols ELSE AddUnhandledSymbol(id)
  /\ UNCHANGED <<pseudo, frame_stack, dvicm, whiles>>
  /\ Accept

(* The program runs on, and stays as it was linked. *)
Executes ==
  /\ running /\ ip' \in 1 .. Len(code) + 1
  /\ UNCHANGED <<text, reported, current_module_id, pseudo, byte, stack_size, linked>>

(* Where the machine is led to. *)
LEMMA ExecutionKnown ==
  ASSUME Shapes, JumpsAimed, Store \/ StackUp \/ JumpIfNot \/ Jump
  PROVE  Executes
<1>1. running /\ ip \in 1 .. Len(code) + 1 /\ ip <= Len(code) /\ Len(code) \in Nat
  BY DEF Store, StackUp, JumpIfNot, Jump, Running, JumpsAimed, Shapes
<1>2. ip \in DOMAIN code /\ code[ip] \in Commands /\ Aimed(ip) /\ whiles = << >>
  BY <1>1 DEF Shapes, JumpsAimed
<1>3. code[ip].target \in Nat /\ code[ip].target <= Len(code) + 1
  BY <1>2 DEF Commands, Aimed
<1>4. ip + 1 \in 1 .. Len(code) + 1
  BY <1>1
<1>5. CASE Store
  BY <1>1, <1>4, <1>5 DEF Store, GoTo, Executes
<1>6. CASE StackUp
  BY <1>1, <1>4, <1>6 DEF StackUp, GoTo, Executes
<1>7. CASE JumpIfNot
  <2>1. code[ip].target # 0
    BY <1>2, <1>7 DEF JumpIfNot, Running, Aimed
  <2>2. code[ip].target \in 1 .. Len(code) + 1
    BY <1>1, <1>3, <2>1
  <2> QED
    BY <1>1, <1>4, <1>7, <2>2 DEF JumpIfNot, GoTo, Executes
<1>8. CASE Jump
  <2>1. code[ip].target # 0
    BY <1>2, <1>8 DEF Jump, Running, Aimed
  <2>2. code[ip].target \in 1 .. Len(code) + 1
    BY <1>1, <1>3, <2>1
  <2> QED
    BY <1>1, <1>8, <2>2 DEF Jump, GoTo, Executes
<1> QED
  BY <1>5, <1>6, <1>7, <1>8

(* Every step is one of these. *)
Steps ==
  \/ \E s \in Statements :
       Refused(s) \/ Declared(s) \/ Assigned(s) \/ OpenScope(s) \/ CloseScope(s)
         \/ NextModule(s)
  \/ Link \/ Executes \/ UNCHANGED vars

(* These are the steps of the specification.                                *)
LEMMA StepsKnown ==
  ASSUME Shapes, JumpsAimed, [Next]_vars
  PROVE  Steps
<1>1. ASSUME NEW s \in Statements, Declare(s)
      PROVE  Refused(s) \/ Declared(s)
  <2>1. CASE Has(Last(frames_stack), s.name)
    BY <1>1, <2>1 DEF Declare, Refused
  <2>2. CASE ~Has(Last(frames_stack), s.name)
    BY <1>1, <2>2, Zenon DEF Declare, Declared
  <2> QED
    BY <2>1, <2>2
<1>2. ASSUME NEW s \in Statements, Assign(s)
      PROVE  Refused(s) \/ Assigned(s)
  <2>1. CASE FindSymbolLocal(s.name) = 0
    BY <1>2, <2>1 DEF Assign, Refused
  <2>2. CASE FindSymbolLocal(s.name) # 0
    BY <1>2, <2>2, Zenon DEF Assign, Assigned
  <2> QED
    BY <2>1, <2>2
<1>3. CASE UNCHANGED vars
  BY <1>3 DEF Steps
<1>4. CASE Link
  BY <1>4 DEF Steps
<1>5. CASE Store \/ StackUp \/ JumpIfNot \/ Jump
  BY <1>5, ExecutionKnown DEF Steps
<1>6. CASE \E s \in Statements :
             Declare(s) \/ Assign(s) \/ OpenScope(s) \/ CloseScope(s) \/ NextModule(s)
  BY <1>1, <1>2, <1>6, Zenon DEF Steps
<1> QED
  BY <1>3, <1>4, <1>5, <1>6, Zenon DEF Next

-----------------------------------------------------------------------------
(* Shapes.                                                                 *)

(* What is packed of the module that ends. *)
LEMMA PackedIs ==
  ASSUME Shapes
  PROVE  /\ Len(frame_stack) \in Nat \ {0} /\ Last(frame_stack) = frame_stack[Len(frame_stack)]
         /\ Last(frame_stack) \in [start_address : Nat, size : Nat]
         /\ Packed \in Seq(Nat) /\ Len(Packed) = Len(stack_size) + 1
         /\ Packed[Len(stack_size) + 1] = Last(frame_stack).size
         /\ \A i \in 1 .. Len(stack_size) : Packed[i] = stack_size[i]
<1>1. /\ frame_stack \in Seq([start_address : Nat, size : Nat])
      /\ Len(frame_stack) = Len(whiles) + 1 /\ Len(whiles) \in Nat
      /\ stack_size \in Seq(Nat)
  BY DEF Shapes
<1>2. frame_stack # << >>
  BY <1>1
<1>3. /\ Len(frame_stack) \in Nat \ {0} /\ Last(frame_stack) = frame_stack[Len(frame_stack)]
      /\ Last(frame_stack) \in [start_address : Nat, size : Nat]
  BY <1>1, <1>2, FrontOf
<1> DEFINE size == Last(frame_stack).size
<1>4. size \in Nat
  BY <1>3
<1> HIDE DEF size
<1>5. /\ Append(stack_size, size) \in Seq(Nat)
      /\ Len(Append(stack_size, size)) = Len(stack_size) + 1
      /\ Append(stack_size, size)[Len(stack_size) + 1] = size
      /\ \A i \in 1 .. Len(stack_size) : Append(stack_size, size)[i] = stack_size[i]
  BY <1>1, <1>4, AppendOf
<1> QED
  BY <1>3, <1>5 DEF Packed, size

(* A command is one, and is the last when it is appended. *)
LEMMA CommandMade ==
  ASSUME Shapes, NEW op \in {"STACK_UP", "STORE", "JMPCNV", "JMP"},
         NEW operand \in Operands, NEW size \in Nat
  PROVE  /\ Command(op, operand, size) \in Commands
         /\ Command(op, operand, size).op = op
         /\ Command(op, operand, size).operand = operand
         /\ Command(op, operand, size).module = current_module_id
         /\ Command(op, operand, size).target = 0
         /\ Command(op, operand, size).size = size
         /\ Command(op, operand, size).statement = Len(text) + 1
<1>1. Len(text) + 1 \in Nat /\ current_module_id \in 1 .. MaxModules
  BY DEF Shapes
<1> QED
  BY <1>1 DEF Command, Commands

(* A command without an operand names no symbol.                            *)
LEMMA NoOperandIs == NoOperand \in Operands /\ NoOperand.source = "None"
  BY DEF NoOperand, Operands

(* The operand that names a variable, and the symbols after it is made. *)
LEMMA OperandIs ==
  ASSUME Shapes, IdsKnown, NEW id \in DOMAIN variables_descriptions
  PROVE  /\ Operand(id) \in Operands
         /\ Operand(id).source = "Symbol" =>
              /\ id \notin dvicm
              /\ Operand(id).data \in DOMAIN AddUnhandledSymbol(id)
              /\ AddUnhandledSymbol(id)[Operand(id).data] = id
<1>1. id \in Nat /\ unhandled_symbols \in Seq(Nat)
      /\ variables_descriptions[id].global_stack_offset \in Nat
  <2>1. variables_descriptions \in Seq(Descriptions) /\ unhandled_symbols \in Seq(Nat)
    BY DEF Shapes
  <2>2. variables_descriptions[id] \in Descriptions /\ id \in Nat
    BY <2>1
  <2> QED
    BY <2>1, <2>2 DEF Descriptions
<1> DEFINE more == AddUnhandledSymbol(id)
           place == SelectInSeq(AddUnhandledSymbol(id), LAMBDA v : v = id)
<1>2. more \in Seq(Nat) /\ place \in DOMAIN more /\ more[place] = id
  BY <1>1, SymbolAdded
<1>3. CASE id \in dvicm
  <2>1. Operand(id) =
          [source |-> "StaticAddress", data |-> variables_descriptions[id].global_stack_offset]
    BY <1>3 DEF Operand, DeclaredHere
  <2> QED
    BY <1>1, <2>1 DEF Operands
<1>4. CASE id \notin dvicm
  <2>1. Operand(id) = [source |-> "Symbol", data |-> place]
    BY <1>4 DEF Operand, DeclaredHere
  <2> HIDE DEF place, more
  <2>2. place \in Nat
    BY <1>2
  <2> QED
    BY <1>2, <1>4, <2>1, <2>2 DEF Operands, more
<1> QED
  BY <1>3, <1>4

(* The frames after the last one has grown. *)
LEMMA FrameGrown ==
  ASSUME Shapes, NEW size \in Nat,
         frame_stack' = [frame_stack EXCEPT ![Len(frame_stack)].size = @ + size]
  PROVE  /\ frame_stack' \in Seq([start_address : Nat, size : Nat])
         /\ Len(frame_stack') = Len(frame_stack)
         /\ \A i \in 1 .. Len(frame_stack) :
              /\ frame_stack'[i].start_address = frame_stack[i].start_address
              /\ frame_stack'[i].size =
                   frame_stack[i].size + (IF i = Len(frame_stack) THEN size ELSE 0)
<1> DEFINE S == [start_address : Nat, size : Nat]
           n == Len(frame_stack)
           f == [frame_stack[n] EXCEPT !.size = @ + size]
<1>1. frame_stack \in Seq(S) /\ n \in Nat \ {0}
  BY PackedIs DEF Shapes
<1> HIDE DEF S
<1>2. frame_stack[n] \in S /\ \A i \in 1 .. n : frame_stack[i] \in S
  BY <1>1
<1>3. f \in S /\ f.start_address = frame_stack[n].start_address
      /\ f.size = frame_stack[n].size + size
  BY <1>2 DEF S
<1>4. frame_stack' = [frame_stack EXCEPT ![n] = f]
  OBVIOUS
<1> HIDE DEF f
<1>5. [frame_stack EXCEPT ![n] = f] \in Seq(S) /\ Len([frame_stack EXCEPT ![n] = f]) = n
  BY <1>1, <1>3
<1>6. \A i \in 1 .. n :
        [frame_stack EXCEPT ![n] = f][i] = IF i = n THEN f ELSE frame_stack[i]
  BY <1>1
<1>7. \A i \in 1 .. n : frame_stack[i].size \in Nat
  BY <1>2 DEF S
<1> HIDE DEF n
<1>8. \A i \in 1 .. n :
        /\ frame_stack'[i].start_address = frame_stack[i].start_address
        /\ frame_stack'[i].size = frame_stack[i].size + (IF i = n THEN size ELSE 0)
  <2> TAKE i \in 1 .. n
  <2>1. frame_stack'[i] = IF i = n THEN f ELSE frame_stack[i]
    BY <1>4, <1>6
  <2>2. CASE i = n
    <3>1. frame_stack'[i] = f /\ f.size = frame_stack[i].size + size
          /\ f.start_address = frame_stack[i].start_address
      BY <1>3, <2>1, <2>2
    <3>2. frame_stack'[i].start_address = frame_stack[i].start_address
      BY <3>1
    <3>3. frame_stack'[i].size = frame_stack[i].size + size
      BY <3>1
    <3>4. (IF i = n THEN size ELSE 0) = size
      BY <2>2
    <3> QED
      BY <3>2, <3>3, <3>4
  <2>3. CASE i # n
    <3>1. frame_stack'[i] = frame_stack[i]
      BY <2>1, <2>3
    <3>2. frame_stack[i].size + 0 = frame_stack[i].size
      BY <1>7
    <3>3. (IF i = n THEN size ELSE 0) = 0
      BY <2>3
    <3> QED
      BY <3>1, <3>2, <3>3
  <2> QED
    BY <2>2, <2>3
<1> QED
  BY <1>4, <1>5, <1>8 DEF S, n

(* Free memory begins where the innermost frame ends.                       *)
LEMMA NextFreeIs ==
  ASSUME Shapes
  PROVE  NextFreeAddress \in Nat /\ NextFreeAddress = FrameEnd(Len(frame_stack))
  BY PackedIs DEF NextFreeAddress, FrameEnd

(* What a declaration makes of tables and descriptions. *)
LEMMA DeclaredMakes ==
  ASSUME Shapes, NEW s \in Statements, Declared(s)
  PROVE  LET n == Len(variables_descriptions)
             d == Len(frames_stack)
         IN
         /\ n \in Nat /\ NewId = n + 1
         /\ variables_descriptions' \in Seq(Descriptions) /\ Len(variables_descriptions') = n + 1
         /\ \A i \in 1 .. n : variables_descriptions'[i] = variables_descriptions[i]
         /\ variables_descriptions'[n + 1] =
              [module_id |-> current_module_id, size |-> s.size,
               global_stack_offset |-> NextFreeAddress]
         /\ dvicm' = dvicm \cup {n + 1}
         /\ frames_stack' \in Seq(Tables) /\ Len(frames_stack') = d
         /\ \A i \in 1 .. d :
              \A name \in DOMAIN frames_stack'[i] :
                \/ frames_stack'[i][name] = n + 1
                \/ name \in DOMAIN frames_stack[i]
                   /\ frames_stack'[i][name] = frames_stack[i][name]
<1> DEFINE n == Len(variables_descriptions)
           d == Len(frames_stack)
           v == [module_id |-> current_module_id, size |-> s.size,
                 global_stack_offset |-> NextFreeAddress]
           t == Added(frames_stack[d], s.name, n + 1)
<1>1. /\ variables_descriptions \in Seq(Descriptions) /\ n \in Nat /\ NewId = n + 1
      /\ frames_stack \in Seq(Tables) /\ d \in Nat \ {0}
      /\ current_module_id \in 1 .. MaxModules
  <2>1. /\ variables_descriptions \in Seq(Descriptions) /\ frames_stack \in Seq(Tables)
        /\ whiles \in Seq(Nat) /\ d = Len(whiles) + 1 /\ current_module_id \in 1 .. MaxModules
    BY DEF Shapes
  <2> QED
    BY <2>1 DEF NewId
<1>2. v \in Descriptions
  BY <1>1, StatementKnown, NextFreeIs DEF Descriptions
<1>3. variables_descriptions' = Append(variables_descriptions, v)
  BY DEF Declared
<1> HIDE DEF v
<1>4. /\ variables_descriptions' \in Seq(Descriptions) /\ Len(variables_descriptions') = n + 1
      /\ \A i \in 1 .. n : variables_descriptions'[i] = variables_descriptions[i]
      /\ variables_descriptions'[n + 1] = v
  BY <1>1, <1>2, <1>3, AppendOf
<1>5. frames_stack' = [frames_stack EXCEPT ![d] = t]
  BY <1>1 DEF Declared
<1>6. frames_stack[d] \in Tables /\ s.name \in Names /\ n + 1 \in Nat
  <2>1. s.op = "declare"
    BY DEF Declared
  <2>2. s.name \in Names
    BY <2>1, StatementKnown
  <2> QED
    BY <1>1, <2>2
<1>7. /\ t \in Tables
      /\ \A name \in DOMAIN t :
           \/ t[name] = n + 1
           \/ name \in DOMAIN frames_stack[d] /\ t[name] = frames_stack[d][name]
  <2>1. /\ t \in Tables /\ DOMAIN t = DOMAIN frames_stack[d] \cup {s.name}
        /\ \A name \in DOMAIN frames_stack[d] \cup {s.name} :
             t[name] = IF name = s.name THEN n + 1 ELSE frames_stack[d][name]
    <3> DEFINE u == frames_stack[d]
               id == n + 1
    <3>1. u \in Tables /\ s.name \in Names /\ id \in Nat /\ t = Added(u, s.name, id)
      BY <1>6
    <3> HIDE DEF u, id, t
    <3>2. Added(u, s.name, id) \in Tables
      BY <3>1, AddedIsTable
    <3>3. DOMAIN Added(u, s.name, id) = DOMAIN u \cup {s.name}
      BY DEF Added
    <3>4. ASSUME NEW name \in DOMAIN u \cup {s.name}
          PROVE  Added(u, s.name, id)[name] = IF name = s.name THEN id ELSE u[name]
      BY <3>4 DEF Added
    <3> QED
      BY <3>1, <3>2, <3>3, <3>4, Zenon DEF u, id
  <2> HIDE DEF t
  <2> QED
    BY <2>1
<1> HIDE DEF t
<1>8. /\ frames_stack' \in Seq(Tables) /\ Len(frames_stack') = d
      /\ \A i \in 1 .. d : frames_stack'[i] = IF i = d THEN t ELSE frames_stack[i]
  BY <1>1, <1>5, <1>7
<1>9. ASSUME NEW i \in 1 .. d, NEW name \in DOMAIN frames_stack'[i]
      PROVE  \/ frames_stack'[i][name] = n + 1
             \/ name \in DOMAIN frames_stack[i]
                /\ frames_stack'[i][name] = frames_stack[i][name]
  <2>1. CASE i = d
    BY <1>7, <1>8, <1>9, <2>1
  <2>2. CASE i # d
    BY <1>8, <1>9, <2>2
  <2> QED
    BY <2>1, <2>2
<1>10. dvicm' = dvicm \cup {n + 1}
  BY <1>1 DEF Declared
<1> QED
  BY <1>1, <1>4, <1>8, <1>9, <1>10 DEF v

-----------------------------------------------------------------------------
(* What the steps make of text, code and scopes.                           *)

(* A statement is added to the text, and nothing runs yet.                  *)
LEMMA WriteMakes ==
  ASSUME Shapes, NEW s \in Statements, Write(s)
  PROVE  /\ Len(text) \in Nat /\ text' \in Seq(Statements) /\ Len(text') = Len(text) + 1
         /\ text'[Len(text) + 1] = s /\ \A i \in 1 .. Len(text) : text'[i] = text[i]
         /\ DOMAIN text = 1 .. Len(text) /\ DOMAIN text' = 1 .. Len(text) + 1
         /\ ~running /\ ~running' /\ ip' = ip
         /\ stack_offset_of_module' = stack_offset_of_module
<1>1. text \in Seq(Statements) /\ text' = Append(text, s)
  BY DEF Shapes, Write
<1>2. ~running /\ running' = running /\ ip' = ip
      /\ stack_offset_of_module' = stack_offset_of_module
  BY DEF Write, linked, machine
<1>3. /\ text' \in Seq(Statements) /\ Len(text') = Len(text) + 1 /\ Len(text) \in Nat
      /\ text'[Len(text) + 1] = s /\ \A i \in 1 .. Len(text) : text'[i] = text[i]
  BY <1>1, AppendOf
<1>4. DOMAIN text = 1 .. Len(text) /\ DOMAIN text' = 1 .. Len(text) + 1
  BY <1>1, <1>3
<1> QED
  BY <1>2, <1>3, <1>4

(* Commands that have been made stay what they are, jumps aside, and new   *)
(* ones are of this module and this statement.                             *)
Extended ==
  /\ code' \in Seq(Commands) /\ Len(code) <= Len(code')
  /\ \A i \in 1 .. Len(code) :
       /\ code'[i].op = code[i].op /\ code'[i].module = code[i].module
       /\ code'[i].operand = code[i].operand /\ code'[i].statement = code[i].statement
       /\ code'[i].size = code[i].size
  /\ \A i \in Len(code) + 1 .. Len(code') :
       /\ code'[i].module = current_module_id
       /\ code'[i].statement = Len(text) + 1

(* A command that is added is made as Extended says.                        *)
LEMMA CodeAppended ==
  ASSUME Shapes, NEW op \in {"STACK_UP", "STORE", "JMPCNV", "JMP"},
         NEW operand \in Operands, NEW size \in Nat,
         code' = Append(code, Command(op, operand, size))
  PROVE  /\ Extended /\ Len(code') = Len(code) + 1 /\ Len(code) \in Nat
         /\ \A i \in 1 .. Len(code) : code'[i] = code[i]
         /\ code'[Len(code) + 1].op = op
         /\ code'[Len(code) + 1].operand = operand
         /\ code'[Len(code) + 1].target = 0
         /\ code'[Len(code) + 1].size = size
<1> DEFINE c == Command(op, operand, size)
<1>1. /\ c \in Commands /\ c.op = op /\ c.operand = operand /\ c.target = 0 /\ c.size = size
      /\ c.module = current_module_id /\ c.statement = Len(text) + 1
  BY CommandMade
<1>2. code' = Append(code, c)
  OBVIOUS
<1> HIDE DEF c
<1>3. /\ code' \in Seq(Commands) /\ Len(code') = Len(code) + 1 /\ Len(code) \in Nat
      /\ code'[Len(code) + 1] = c /\ \A i \in 1 .. Len(code) : code'[i] = code[i]
  <2>1. code \in Seq(Commands)
    BY DEF Shapes
  <2> QED
    BY <1>1, <1>2, <2>1, AppendOf
<1>4. \A i \in Len(code) + 1 .. Len(code') : code'[i] = c
  BY <1>3
<1>5. Extended
  BY <1>1, <1>3, <1>4 DEF Extended
<1> QED
  BY <1>1, <1>3, <1>5

(* So is no command at all.                                                 *)
LEMMA CodeKept ==
  ASSUME Shapes, code' = code
  PROVE  Extended /\ Len(code') = Len(code) /\ Len(code) \in Nat
<1>1. code \in Seq(Commands)
  BY DEF Shapes
<1> QED
  BY <1>1 DEF Extended

(* The end of a loop aims its test behind the jump back. *)
LEMMA LoopClosed ==
  ASSUME Shapes, JumpsAimed, NEW s \in Statements, CloseScope(s), Last(whiles) # 0
  PROVE  /\ Extended /\ Len(code') = Len(code) + 1 /\ Len(code) \in Nat
         /\ Last(whiles) \in 1 .. Len(code)
         /\ \A i \in 1 .. Len(code) :
              code'[i].target = IF i = Last(whiles) THEN Len(code) + 2 ELSE code[i].target
         /\ code'[Len(code) + 1].op = "JMP"
         /\ code'[Len(code) + 1].operand = NoOperand
         /\ code'[Len(code) + 1].target = Last(whiles)
<1> DEFINE n == Len(code)
           test == Last(whiles)
           c == Command("JMP", NoOperand, 0)
           back == [c EXCEPT !.target = test]
           old == code[test]
           far == n + 2
           aimed == [old EXCEPT !.target = far]
           patched == [code EXCEPT ![test] = aimed]
<1>1. whiles \in Seq(Nat) /\ whiles # << >> /\ code \in Seq(Commands) /\ n \in Nat
  BY DEF Shapes, CloseScope
<1>2. test \in Nat /\ Len(whiles) \in DOMAIN whiles /\ test = whiles[Len(whiles)]
  <2>1. /\ Len(whiles) \in Nat \ {0} /\ Last(whiles) = whiles[Len(whiles)]
        /\ Last(whiles) \in Nat
    BY <1>1, FrontOf
  <2>2. DOMAIN whiles = 1 .. Len(whiles)
    BY <1>1
  <2> QED
    BY <2>1, <2>2
<1>3. test \in 1 .. n
  <2>1. test <= n
    BY <1>2 DEF JumpsAimed
  <2> QED
    BY <1>1, <1>2, <2>1
<1>4. code' = Append(patched, back)
  BY DEF CloseScope
<1>5. /\ c \in Commands /\ c.op = "JMP" /\ c.operand = NoOperand
      /\ c.module = current_module_id /\ c.statement = Len(text) + 1
  BY CommandMade, NoOperandIs
<1> HIDE DEF c
<1>6. /\ back \in Commands /\ back.op = "JMP" /\ back.operand = NoOperand
      /\ back.module = current_module_id /\ back.statement = Len(text) + 1
      /\ back.target = test
  BY <1>2, <1>5 DEF Commands
<1>7. old \in Commands /\ far \in Nat
  BY <1>1, <1>3
<1> HIDE DEF n, test, old, far
<1>8. /\ aimed \in Commands /\ aimed.op = old.op /\ aimed.module = old.module
      /\ aimed.operand = old.operand /\ aimed.statement = old.statement
      /\ aimed.target = far /\ aimed.size = old.size
  BY <1>7 DEF Commands
<1> HIDE DEF back, aimed
<1>9. /\ patched \in Seq(Commands) /\ Len(patched) = n
      /\ \A i \in 1 .. n : patched[i] = IF i = test THEN aimed ELSE code[i]
  BY <1>1, <1>3, <1>8 DEF n
<1> HIDE DEF patched
<1>10. /\ code' \in Seq(Commands) /\ Len(code') = n + 1
       /\ code'[n + 1] = back /\ \A i \in 1 .. n : code'[i] = patched[i]
  BY <1>4, <1>6, <1>9, AppendOf
<1>11. ASSUME NEW i \in 1 .. n
       PROVE  /\ code'[i].op = code[i].op /\ code'[i].module = code[i].module
              /\ code'[i].operand = code[i].operand /\ code'[i].statement = code[i].statement
              /\ code'[i].size = code[i].size
              /\ code'[i].target = IF i = test THEN n + 2 ELSE code[i].target
  <2>1. CASE i = test
    <3>1. code'[i] = aimed
      BY <1>9, <1>10, <2>1
    <3> QED
      BY <1>8, <2>1, <3>1 DEF old, far
  <2>2. CASE i # test
    <3>1. code'[i] = code[i]
      BY <1>9, <1>10, <2>2
    <3> QED
      BY <2>2, <3>1
  <2> QED
    BY <2>1, <2>2
<1>12. \A i \in n + 1 .. Len(code') : code'[i] = back
  BY <1>1, <1>10
<1>13. Extended
  <2>1. n <= Len(code')
    BY <1>1, <1>10
  <2> QED
    BY <1>6, <1>10, <1>11, <1>12, <2>1 DEF Extended, n
<1> QED
  BY <1>1, <1>3, <1>6, <1>10, <1>11, <1>13 DEF n, test

(* What is opened, and what is left when it is closed. *)
LEMMA ScopeOpened ==
  ASSUME Shapes, NEW s \in Statements, OpenScope(s)
  PROVE  /\ Extended /\ Len(code) \in Nat
         /\ frames_stack' \in Seq(Tables) /\ Len(frames_stack') = Len(frames_stack) + 1
         /\ DOMAIN frames_stack'[Len(frames_stack) + 1] = {}
         /\ \A i \in 1 .. Len(frames_stack) : frames_stack'[i] = frames_stack[i]
         /\ frame_stack' \in Seq([start_address : Nat, size : Nat])
         /\ Len(frame_stack') = Len(frame_stack) + 1
         /\ frame_stack'[Len(frame_stack) + 1] = Frame(NextFreeAddress)
         /\ \A i \in 1 .. Len(frame_stack) : frame_stack'[i] = frame_stack[i]
         /\ whiles' \in Seq(Nat) /\ Len(whiles') = Len(whiles) + 1
         /\ \A i \in 1 .. Len(whiles) : whiles'[i] = whiles[i]
         /\ \A i \in 1 .. Len(code) : code'[i] = code[i]
         /\ \/ code' = code /\ whiles'[Len(whiles) + 1] = 0
            \/ /\ Len(code') = Len(code) + 1 /\ whiles'[Len(whiles) + 1] = Len(code) + 1
               /\ code'[Len(code) + 1].op = "JMPCNV"
               /\ code'[Len(code) + 1].operand = NoOperand
               /\ code'[Len(code) + 1].target = 0
<1>1. /\ frames_stack \in Seq(Tables) /\ whiles \in Seq(Nat)
      /\ frame_stack \in Seq([start_address : Nat, size : Nat])
      /\ code \in Seq(Commands) /\ Len(code) \in Nat
  BY DEF Shapes
<1>2. /\ frames_stack' = Append(frames_stack, << >>)
      /\ frame_stack' = Append(frame_stack, Frame(NextFreeAddress))
  BY DEF OpenScope, PushFrame
<1>3. /\ frames_stack' \in Seq(Tables) /\ Len(frames_stack') = Len(frames_stack) + 1
      /\ frames_stack'[Len(frames_stack) + 1] = << >>
      /\ \A i \in 1 .. Len(frames_stack) : frames_stack'[i] = frames_stack[i]
  BY <1>1, <1>2, EmptyTable, AppendOf
<1>4. DOMAIN frames_stack'[Len(frames_stack) + 1] = {}
  BY <1>3
<1>5. Frame(NextFreeAddress) \in [start_address : Nat, size : Nat]
  BY NextFreeIs DEF Frame
<1>6. /\ frame_stack' \in Seq([start_address : Nat, size : Nat])
      /\ Len(frame_stack') = Len(frame_stack) + 1
      /\ frame_stack'[Len(frame_stack) + 1] = Frame(NextFreeAddress)
      /\ \A i \in 1 .. Len(frame_stack) : frame_stack'[i] = frame_stack[i]
  BY <1>1, <1>2, <1>5, AppendOf
<1>7. CASE s.op = "while"
  <2>1. /\ code' = Append(code, Command("JMPCNV", NoOperand, 0))
        /\ whiles' = Append(whiles, Len(code) + 1)
    BY <1>7 DEF OpenScope
  <2>2. /\ Extended /\ Len(code') = Len(code) + 1
        /\ \A i \in 1 .. Len(code) : code'[i] = code[i]
        /\ code'[Len(code) + 1].op = "JMPCNV"
        /\ code'[Len(code) + 1].operand = NoOperand
        /\ code'[Len(code) + 1].target = 0
    BY <2>1, NoOperandIs, CodeAppended
  <2>3. /\ whiles' \in Seq(Nat) /\ Len(whiles') = Len(whiles) + 1
        /\ whiles'[Len(whiles) + 1] = Len(code) + 1
        /\ \A i \in 1 .. Len(whiles) : whiles'[i] = whiles[i]
    BY <1>1, <2>1, AppendOf
  <2> QED
    BY <1>1, <1>3, <1>4, <1>6, <2>2, <2>3
<1>8. CASE s.op # "while"
  <2>1. code' = code /\ whiles' = Append(whiles, 0)
    BY <1>8 DEF OpenScope
  <2>2. /\ whiles' \in Seq(Nat) /\ Len(whiles') = Len(whiles) + 1
        /\ whiles'[Len(whiles) + 1] = 0
        /\ \A i \in 1 .. Len(whiles) : whiles'[i] = whiles[i]
    BY <1>1, <2>1, AppendOf
  <2>3. Extended
    BY <2>1, CodeKept
  <2> QED
    BY <1>1, <1>3, <1>4, <1>6, <2>1, <2>2, <2>3
<1> QED
  BY <1>7, <1>8

(* What the end of a scope makes of the stacks.                             *)
LEMMA ScopeClosed ==
  ASSUME Shapes, JumpsAimed, NEW s \in Statements, CloseScope(s)
  PROVE  /\ Extended /\ Len(code) \in Nat /\ Len(whiles) \in Nat \ {0}
         /\ Last(whiles) = whiles[Len(whiles)]
         /\ frames_stack' \in Seq(Tables) /\ Len(frames_stack') = Len(frames_stack) - 1
         /\ \A i \in 1 .. Len(frames_stack) - 1 : frames_stack'[i] = frames_stack[i]
         /\ frame_stack' \in Seq([start_address : Nat, size : Nat])
         /\ Len(frame_stack') = Len(frame_stack) - 1
         /\ \A i \in 1 .. Len(frame_stack) - 1 : frame_stack'[i] = frame_stack[i]
         /\ whiles' \in Seq(Nat) /\ Len(whiles') = Len(whiles) - 1
         /\ \A i \in 1 .. Len(whiles) - 1 : whiles'[i] = whiles[i]
<1>1. /\ frames_stack \in Seq(Tables) /\ frames_stack # << >>
      /\ frame_stack \in Seq([start_address : Nat, size : Nat]) /\ frame_stack # << >>
      /\ whiles \in Seq(Nat) /\ whiles # << >>
      /\ frames_stack' = Front(frames_stack) /\ frame_stack' = Front(frame_stack)
      /\ whiles' = Front(whiles)
  <2>1. /\ frames_stack \in Seq(Tables) /\ whiles \in Seq(Nat)
        /\ frame_stack \in Seq([start_address : Nat, size : Nat])
        /\ Len(frames_stack) = Len(whiles) + 1 /\ Len(frame_stack) = Len(whiles) + 1
    BY DEF Shapes
  <2>2. frames_stack # << >> /\ frame_stack # << >>
    BY <2>1
  <2> QED
    BY <2>1, <2>2 DEF CloseScope
<1>2. /\ frames_stack' \in Seq(Tables) /\ Len(frames_stack') = Len(frames_stack) - 1
      /\ \A i \in 1 .. Len(frames_stack) - 1 : frames_stack'[i] = frames_stack[i]
  BY <1>1, FrontOf
<1>3. /\ frame_stack' \in Seq([start_address : Nat, size : Nat])
      /\ Len(frame_stack') = Len(frame_stack) - 1
      /\ \A i \in 1 .. Len(frame_stack) - 1 : frame_stack'[i] = frame_stack[i]
  BY <1>1, FrontOf
<1>4. /\ whiles' \in Seq(Nat) /\ Len(whiles') = Len(whiles) - 1
      /\ \A i \in 1 .. Len(whiles) - 1 : whiles'[i] = whiles[i]
      /\ Len(whiles) \in Nat \ {0} /\ Last(whiles) = whiles[Len(whiles)]
  BY <1>1, FrontOf
<1>5. Extended /\ Len(code) \in Nat
  <2>1. CASE Last(whiles) = 0
    <3>1. code' = code
      BY <2>1 DEF CloseScope
    <3> QED
      BY <3>1, CodeKept
  <2>2. CASE Last(whiles) # 0
    BY <2>2, LoopClosed
  <2> QED
    BY <2>1, <2>2
<1> QED
  BY <1>2, <1>3, <1>4, <1>5

(* The use of a variable. *)
LEMMA AssignedMakes ==
  ASSUME Shapes, IdsKnown, NEW s \in Statements, Assigned(s)
  PROVE  LET id == FindSymbolLocal(s.name) IN
         /\ id \in DOMAIN variables_descriptions
         /\ Extended /\ Len(code') = Len(code) + 1 /\ Len(code) \in Nat
         /\ \A i \in 1 .. Len(code) : code'[i] = code[i]
         /\ code'[Len(code) + 1].op = "STORE"
         /\ code'[Len(code) + 1].operand = Operand(id)
         /\ code'[Len(code) + 1].target = 0
         /\ code'[Len(code) + 1].size = variables_descriptions[id].size
         /\ unhandled_symbols' \in Seq(Nat) /\ Len(unhandled_symbols) <= Len(unhandled_symbols')
         /\ \A i \in DOMAIN unhandled_symbols : unhandled_symbols'[i] = unhandled_symbols[i]
         /\ \A i \in DOMAIN unhandled_symbols' :
              i \in DOMAIN unhandled_symbols \/ unhandled_symbols'[i] = id
         /\ id \notin dvicm => unhandled_symbols' = AddUnhandledSymbol(id)
<1> DEFINE id == FindSymbolLocal(s.name)
           size == variables_descriptions[id].size
           operand == Operand(id)
<1>1. id \in DOMAIN variables_descriptions
  BY Found DEF Assigned
<1>2. size \in Nat /\ id \in Nat /\ unhandled_symbols \in Seq(Nat)
  <2>1. variables_descriptions \in Seq(Descriptions) /\ unhandled_symbols \in Seq(Nat)
    BY DEF Shapes
  <2> HIDE DEF id
  <2>2. variables_descriptions[id] \in Descriptions /\ id \in Nat
    BY <1>1, <2>1
  <2> QED
    BY <2>1, <2>2 DEF Descriptions
<1>3. code' = Append(code, Command("STORE", operand, size))
      /\ unhandled_symbols' =
           IF id \in dvicm THEN unhandled_symbols ELSE AddUnhandledSymbol(id)
  BY DEF Assigned, DeclaredHere
<1> HIDE DEF id
<1>4. operand \in Operands
  BY <1>1, OperandIs
<1> HIDE DEF size, operand
<1>5. /\ Extended /\ Len(code') = Len(code) + 1 /\ Len(code) \in Nat
      /\ \A i \in 1 .. Len(code) : code'[i] = code[i]
      /\ code'[Len(code) + 1].op = "STORE"
      /\ code'[Len(code) + 1].operand = operand
      /\ code'[Len(code) + 1].target = 0
      /\ code'[Len(code) + 1].size = size
  BY <1>2, <1>3, <1>4, CodeAppended
<1>6. /\ unhandled_symbols' \in Seq(Nat) /\ Len(unhandled_symbols) <= Len(unhandled_symbols')
      /\ \A i \in DOMAIN unhandled_symbols : unhandled_symbols'[i] = unhandled_symbols[i]
      /\ \A i \in DOMAIN unhandled_symbols' :
           i \in DOMAIN unhandled_symbols \/ unhandled_symbols'[i] = id
      /\ id \notin dvicm => unhandled_symbols' = AddUnhandledSymbol(id)
  <2>1. CASE id \in dvicm
    <3>1. unhandled_symbols' = unhandled_symbols
      BY <1>3, <2>1
    <3> QED
      BY <1>2, <2>1, <3>1
  <2>2. CASE id \notin dvicm
    <3>1. unhandled_symbols' = AddUnhandledSymbol(id)
      BY <1>3, <2>2
    <3> QED
      BY <1>2, <3>1, SymbolAdded
  <2> QED
    BY <2>1, <2>2
<1> QED
  BY <1>1, <1>5, <1>6 DEF id, size, operand

-----------------------------------------------------------------------------
(* Shapes, ids, jumps and modules stay in order.                           *)

(* What is written and reported stays in order.                            *)
LEMMA TextGrows ==
  ASSUME Shapes, NEW s \in Statements, Write(s),
         reported' = reported \/ reported' = reported \cup {Len(text) + 1}
  PROVE  text' \in Seq(Statements) /\ reported' \subseteq DOMAIN text'
<1> DEFINE n == Len(text)
<1>1. /\ n \in Nat /\ text' \in Seq(Statements)
      /\ DOMAIN text = 1 .. n /\ DOMAIN text' = 1 .. n + 1
  BY WriteMakes
<1>2. reported \subseteq 1 .. n
  BY <1>1 DEF Shapes
<1>3. reported' = reported \/ reported' = reported \cup {n + 1}
  OBVIOUS
<1> HIDE DEF n
<1>4. 1 .. n \subseteq 1 .. n + 1 /\ n + 1 \in 1 .. n + 1
  BY <1>1
<1>5. reported' \subseteq 1 .. n + 1
  BY <1>2, <1>3, <1>4, Zenon
<1> QED
  BY <1>1, <1>5, Zenon

(* No step makes anything of the wrong shape.                              *)
LEMMA ShapesKept ==
  ASSUME Shapes, IdsKnown, JumpsAimed, Steps
  PROVE  Shapes'
<1> USE DEF pseudo, byte, linked, machine
<1>1. ASSUME NEW s \in Statements, Refused(s)
      PROVE  Shapes'
  <2>1. /\ text' \in Seq(Statements) /\ reported' \subseteq DOMAIN text'
    <3>1. Write(s) /\ (reported' = reported \/ reported' = reported \cup {Len(text) + 1})
      BY <1>1 DEF Refused, Refuse
    <3> QED
      BY <3>1, TextGrows
  <2> QED
    BY <1>1, <2>1 DEF Refused, Refuse, Write, Shapes
<1>2. ASSUME NEW s \in Statements, Declared(s)
      PROVE  Shapes'
  <2>1. /\ text' \in Seq(Statements) /\ reported' \subseteq DOMAIN text'
    <3>1. Write(s) /\ (reported' = reported \/ reported' = reported \cup {Len(text) + 1})
      BY <1>2 DEF Declared, Accept
    <3> QED
      BY <3>1, TextGrows
  <2>2. s.size \in Nat
    BY StatementKnown
  <2>3. code' \in Seq(Commands)
    BY <1>2, <2>2, NoOperandIs, CodeAppended DEF Declared, Extended
  <2>4. /\ frame_stack' \in Seq([start_address : Nat, size : Nat])
        /\ Len(frame_stack') = Len(frame_stack)
    BY <1>2, <2>2, FrameGrown DEF Declared
  <2>5. /\ variables_descriptions' \in Seq(Descriptions) /\ frames_stack' \in Seq(Tables)
        /\ Len(frames_stack') = Len(frames_stack)
    BY <1>2, DeclaredMakes
  <2>6. dvicm' \subseteq DOMAIN variables_descriptions'
    <3> DEFINE n == Len(variables_descriptions)
    <3>1. /\ n \in Nat /\ Len(variables_descriptions') = n + 1 /\ dvicm' = dvicm \cup {n + 1}
      BY <1>2, DeclaredMakes
    <3>2. dvicm \subseteq 1 .. n
      BY DEF Shapes
    <3>3. DOMAIN variables_descriptions' = 1 .. n + 1
      BY <2>5, <3>1
    <3> HIDE DEF n
    <3> QED
      BY <3>1, <3>2, <3>3
  <2> QED
    BY <1>2, <2>1, <2>3, <2>4, <2>5, <2>6 DEF Declared, Accept, Write, Shapes
<1>3. ASSUME NEW s \in Statements, Assigned(s)
      PROVE  Shapes'
  <2>1. /\ text' \in Seq(Statements) /\ reported' \subseteq DOMAIN text'
    <3>1. Write(s) /\ (reported' = reported \/ reported' = reported \cup {Len(text) + 1})
      BY <1>3 DEF Assigned, Accept
    <3> QED
      BY <3>1, TextGrows
  <2>2. code' \in Seq(Commands) /\ unhandled_symbols' \in Seq(Nat)
    BY <1>3, AssignedMakes DEF Extended
  <2> QED
    BY <1>3, <2>1, <2>2 DEF Assigned, Accept, Write, Shapes
<1>4. ASSUME NEW s \in Statements, OpenScope(s)
      PROVE  Shapes'
  <2>1. /\ text' \in Seq(Statements) /\ reported' \subseteq DOMAIN text'
    <3>1. Write(s) /\ (reported' = reported \/ reported' = reported \cup {Len(text) + 1})
      BY <1>4 DEF OpenScope, Accept
    <3> QED
      BY <3>1, TextGrows
  <2>2. /\ code' \in Seq(Commands) /\ whiles' \in Seq(Nat) /\ frames_stack' \in Seq(Tables)
        /\ frame_stack' \in Seq([start_address : Nat, size : Nat])
        /\ Len(frames_stack') = Len(whiles') + 1 /\ Len(frame_stack') = Len(whiles') + 1
    <3>1. Len(frames_stack) = Len(whiles) + 1 /\ Len(frame_stack) = Len(whiles) + 1
      BY DEF Shapes
    <3> QED
      BY <1>4, <3>1, ScopeOpened DEF Extended
  <2> QED
    BY <1>4, <2>1, <2>2 DEF OpenScope, Accept, Write, Shapes
<1>5. ASSUME NEW s \in Statements, CloseScope(s)
      PROVE  Shapes'
  <2>1. /\ text' \in Seq(Statements) /\ reported' \subseteq DOMAIN text'
    <3>1. Write(s) /\ reported' = reported
      BY <1>5 DEF CloseScope, Accept
    <3> QED
      BY <3>1, TextGrows
  <2>2. /\ code' \in Seq(Commands) /\ whiles' \in Seq(Nat) /\ frames_stack' \in Seq(Tables)
        /\ frame_stack' \in Seq([start_address : Nat, size : Nat])
        /\ Len(frames_stack') = Len(whiles') + 1 /\ Len(frame_stack') = Len(whiles') + 1
    <3>1. Len(frames_stack) = Len(whiles) + 1 /\ Len(frame_stack) = Len(whiles) + 1
      BY DEF Shapes
    <3> QED
      BY <1>5, <3>1, ScopeClosed DEF Extended
  <2> QED
    BY <1>5, <2>1, <2>2 DEF CloseScope, Accept, Write, Shapes
<1>6. ASSUME NEW s \in Statements, NextModule(s)
      PROVE  Shapes'
  <2>1. /\ text' \in Seq(Statements) /\ reported' \subseteq DOMAIN text'
    BY <1>6, WriteMakes DEF NextModule, Shapes
  <2>2. current_module_id' \in 1 .. MaxModules
    BY <1>6, ProgramAssumption DEF NextModule, Shapes
  <2>3. stack_size' \in Seq(Nat)
    BY <1>6, PackedIs DEF NextModule
  <2>4. /\ frame_stack' \in Seq([start_address : Nat, size : Nat]) /\ Len(frame_stack') = 1
    BY <1>6 DEF NextModule, Frame
  <2>5. dvicm' = {} /\ whiles = << >> /\ Len(whiles) = 0
    BY <1>6 DEF NextModule
  <2> QED
    BY <1>6, <2>1, <2>2, <2>3, <2>4, <2>5 DEF NextModule, Write, Shapes
<1>7. CASE Link
  <2>1. stack_size' \in Seq(Nat)
    BY <1>7, PackedIs DEF Link
  <2> QED
    BY <1>7, <2>1 DEF Link, Shapes
<1>8. CASE Executes
  BY <1>8 DEF Executes, Shapes
<1>9. CASE UNCHANGED vars
  BY <1>9 DEF vars, Shapes
<1> QED
  BY <1>1, <1>2, <1>3, <1>4, <1>5, <1>6, <1>7, <1>8, <1>9 DEF Steps

(* No step makes a number that has no description.                          *)
LEMMA IdsKnownKept ==
  ASSUME Shapes, IdsKnown, JumpsAimed, Steps
  PROVE  IdsKnown'
<1> USE DEF pseudo, byte
<1>1. ASSUME UNCHANGED <<frames_stack, variables_descriptions, unhandled_symbols>>
      PROVE  IdsKnown'
  BY <1>1 DEF IdsKnown
<1>2. ASSUME NEW s \in Statements, Declared(s)
      PROVE  IdsKnown'
  <2> DEFINE n == Len(variables_descriptions)
             d == Len(frames_stack)
  <2>1. /\ n \in Nat /\ variables_descriptions' \in Seq(Descriptions)
        /\ Len(variables_descriptions') = n + 1
        /\ frames_stack' \in Seq(Tables) /\ Len(frames_stack') = d
        /\ \A i \in 1 .. d :
              \A name \in DOMAIN frames_stack'[i] :
                \/ frames_stack'[i][name] = n + 1
                \/ name \in DOMAIN frames_stack[i]
                   /\ frames_stack'[i][name] = frames_stack[i][name]
    BY <1>2, DeclaredMakes
  <2>2. /\ DOMAIN variables_descriptions' = 1 .. n + 1 /\ DOMAIN variables_descriptions = 1 .. n
        /\ DOMAIN frames_stack' = 1 .. d /\ DOMAIN frames_stack = 1 .. d
    BY <2>1 DEF Shapes
  <2> HIDE DEF n, d
  <2>3. ASSUME NEW i \in DOMAIN frames_stack', NEW name \in DOMAIN frames_stack'[i]
        PROVE  frames_stack'[i][name] \in DOMAIN variables_descriptions'
    <3>1. CASE frames_stack'[i][name] = n + 1
      BY <2>1, <2>2, <3>1
    <3>2. CASE frames_stack'[i][name] # n + 1
      <4>1. /\ name \in DOMAIN frames_stack[i] /\ i \in DOMAIN frames_stack
            /\ frames_stack'[i][name] = frames_stack[i][name]
        BY <2>1, <2>2, <2>3, <3>2
      <4>2. frames_stack[i][name] \in 1 .. n
        BY <2>2, <4>1 DEF IdsKnown
      <4> QED
        BY <2>1, <2>2, <4>1, <4>2
    <3> QED
      BY <3>1, <3>2
  <2>4. unhandled_symbols' = unhandled_symbols
    BY <1>2 DEF Declared
  <2>5. \A i \in DOMAIN unhandled_symbols' : unhandled_symbols'[i] \in DOMAIN variables_descriptions'
    BY <2>1, <2>2, <2>4 DEF IdsKnown
  <2> QED
    BY <2>3, <2>5 DEF IdsKnown
<1>3. ASSUME NEW s \in Statements, Assigned(s)
      PROVE  IdsKnown'
  <2>1. UNCHANGED <<frames_stack, variables_descriptions>>
    BY <1>3 DEF Assigned
  <2> DEFINE id == FindSymbolLocal(s.name)
  <2>2. /\ id \in DOMAIN variables_descriptions
        /\ \A i \in DOMAIN unhandled_symbols : unhandled_symbols'[i] = unhandled_symbols[i]
        /\ \A i \in DOMAIN unhandled_symbols' :
             i \in DOMAIN unhandled_symbols \/ unhandled_symbols'[i] = id
    BY <1>3, AssignedMakes
  <2> HIDE DEF id
  <2> QED
    BY <2>1, <2>2 DEF IdsKnown
<1>4. ASSUME NEW s \in Statements, OpenScope(s)
      PROVE  IdsKnown'
  <2> DEFINE d == Len(frames_stack)
  <2>1. UNCHANGED <<variables_descriptions, unhandled_symbols>>
    BY <1>4 DEF OpenScope
  <2>2. /\ frames_stack' \in Seq(Tables) /\ Len(frames_stack') = d + 1
        /\ DOMAIN frames_stack'[d + 1] = {}
        /\ \A i \in 1 .. d : frames_stack'[i] = frames_stack[i]
    BY <1>4, ScopeOpened
  <2>3. /\ DOMAIN frames_stack' = 1 .. d + 1 /\ DOMAIN frames_stack = 1 .. d /\ d \in Nat
    BY <2>2 DEF Shapes
  <2> HIDE DEF d
  <2>4. \A i \in DOMAIN frames_stack' : i \in DOMAIN frames_stack \/ i = d + 1
    BY <2>3
  <2>5. ASSUME NEW i \in DOMAIN frames_stack', NEW name \in DOMAIN frames_stack'[i]
        PROVE  frames_stack'[i][name] \in DOMAIN variables_descriptions
    <3>1. i # d + 1
      BY <2>2, <2>5
    <3>2. i \in DOMAIN frames_stack
      BY <2>4, <2>5, <3>1
    <3>3. frames_stack'[i] = frames_stack[i]
      BY <2>2, <2>3, <3>2
    <3> QED
      BY <2>5, <3>2, <3>3 DEF IdsKnown
  <2> QED
    BY <2>1, <2>5 DEF IdsKnown
<1>5. ASSUME NEW s \in Statements, CloseScope(s)
      PROVE  IdsKnown'
  <2> DEFINE d == Len(frames_stack)
  <2>1. UNCHANGED <<variables_descriptions, unhandled_symbols>>
    BY <1>5 DEF CloseScope
  <2>2. /\ frames_stack' \in Seq(Tables) /\ Len(frames_stack') = d - 1
        /\ \A i \in 1 .. d - 1 : frames_stack'[i] = frames_stack[i]
    BY <1>5, ScopeClosed
  <2>3. /\ DOMAIN frames_stack' = 1 .. d - 1 /\ DOMAIN frames_stack = 1 .. d /\ d \in Nat
    BY <2>2 DEF Shapes
  <2> HIDE DEF d
  <2>4. \A i \in DOMAIN frames_stack' : i \in DOMAIN frames_stack /\ frames_stack'[i] = frames_stack[i]
    BY <2>2, <2>3
  <2>5. ASSUME NEW i \in DOMAIN frames_stack', NEW name \in DOMAIN frames_stack'[i]
        PROVE  frames_stack'[i][name] \in DOMAIN variables_descriptions
    BY <2>4, <2>5 DEF IdsKnown
  <2> QED
    BY <2>1, <2>5 DEF IdsKnown
<1>6. CASE \E s \in Statements : Refused(s) \/ NextModule(s)
  BY <1>1, <1>6 DEF Refused, Refuse, NextModule
<1>7. CASE Link \/ Executes \/ UNCHANGED vars
  BY <1>1, <1>7 DEF Link, Executes, vars
<1> QED
  BY <1>2, <1>3, <1>4, <1>5, <1>6, <1>7 DEF Steps

(* Jumps and loops as numbers.                                              *)
LEMMA JumpsTyped ==
  ASSUME Shapes, JumpsAimed
  PROVE  /\ Len(code) \in Nat /\ DOMAIN code = 1 .. Len(code)
         /\ Len(whiles) \in Nat /\ DOMAIN whiles = 1 .. Len(whiles)
         /\ \A i \in 1 .. Len(code) : code[i].target \in Nat /\ code[i].target <= Len(code) + 1
         /\ \A k \in 1 .. Len(whiles) : whiles[k] \in Nat /\ whiles[k] <= Len(code)
<1>1. code \in Seq(Commands) /\ whiles \in Seq(Nat)
  BY DEF Shapes
<1>2. \A i \in 1 .. Len(code) : code[i].target \in Nat
  <2> TAKE i \in 1 .. Len(code)
  <2>1. code[i] \in Commands
    BY <1>1
  <2> QED
    BY <2>1 DEF Commands
<1>3. \A i \in 1 .. Len(code) : code[i].target <= Len(code) + 1
  BY <1>1 DEF JumpsAimed, Aimed
<1>4. \A k \in 1 .. Len(whiles) : whiles[k] \in Nat /\ whiles[k] <= Len(code)
  BY <1>1 DEF JumpsAimed
<1> QED
  BY <1>1, <1>2, <1>3, <1>4

(* A command that is no jump needs no aim. *)
LEMMA PlainAppended ==
  ASSUME Shapes, JumpsAimed, UNCHANGED whiles, ~running',
         code' \in Seq(Commands), Len(code') = Len(code) + 1, Len(code) \in Nat,
         \A i \in 1 .. Len(code) : code'[i] = code[i],
         code'[Len(code) + 1].op \in {"STACK_UP", "STORE"},
         code'[Len(code) + 1].target = 0
  PROVE  JumpsAimed'
<1> DEFINE n == Len(code)
<1>1. DOMAIN code = 1 .. n /\ DOMAIN code' = 1 .. n + 1
  BY DEF Shapes
<1>2. /\ n \in Nat /\ Len(code') = n + 1 /\ \A i \in 1 .. n : code'[i] = code[i]
      /\ code'[n + 1].op \in {"STACK_UP", "STORE"} /\ code'[n + 1].target = 0
  OBVIOUS
<1>3. \A i \in 1 .. n : code[i].target \in Nat /\ code[i].target <= n + 1
  BY JumpsTyped
<1>4. \A k \in DOMAIN whiles' : whiles'[k] <= Len(code')
  <2>1. \A k \in DOMAIN whiles : whiles[k] \in Nat /\ whiles[k] <= n
    BY JumpsTyped
  <2> HIDE DEF n
  <2> QED
    BY <1>2, <2>1
<1> HIDE DEF n
<1>5. ASSUME NEW i \in DOMAIN code'
      PROVE  Aimed(i)'
  <2>1. CASE i = n + 1
    BY <1>2, <2>1 DEF Aimed
  <2>2. CASE i # n + 1
    <3>1. i \in 1 .. n /\ i \in DOMAIN code /\ code'[i] = code[i]
      BY <1>1, <1>2, <1>5, <2>2
    <3>2. /\ code[i].op = "JMP" => code[i].target # 0
          /\ code[i].op = "JMPCNV" =>
               code[i].target # 0 \/ \E k \in DOMAIN whiles : whiles[k] = i
      BY <3>1 DEF JumpsAimed, Aimed
    <3>3. code[i].target <= Len(code') + 1
      BY <1>2, <1>3, <3>1
    <3> QED
      BY <3>1, <3>2, <3>3 DEF Aimed
  <2> QED
    BY <2>1, <2>2
<1> QED
  BY <1>4, <1>5 DEF JumpsAimed

(* Every jump is aimed when its loop ends.                                  *)
LEMMA JumpsAimedKept ==
  ASSUME Shapes, IdsKnown, JumpsAimed, Steps
  PROVE  JumpsAimed'
<1> USE DEF pseudo, byte, linked, machine
<1>1. ASSUME UNCHANGED <<code, whiles>>,
             running' => whiles = << >> /\ ip' \in 1 .. Len(code) + 1
      PROVE  JumpsAimed'
  BY <1>1 DEF JumpsAimed, Aimed
<1>2. CASE \E s \in Statements : Refused(s) \/ NextModule(s)
  <2>1. PICK s \in Statements : Refused(s) \/ NextModule(s)
    BY <1>2
  <2>2. Write(s) /\ UNCHANGED <<code, whiles>>
    BY <2>1 DEF Refused, Refuse, NextModule
  <2>3. ~running'
    BY <2>2, WriteMakes
  <2> QED
    BY <1>1, <2>2, <2>3
<1>3. ASSUME NEW s \in Statements, Declared(s)
      PROVE  JumpsAimed'
  <2>1. s.size \in Nat /\ whiles' = whiles /\ Write(s)
        /\ code' = Append(code, Command("STACK_UP", NoOperand, s.size))
    BY <1>3, StatementKnown DEF Declared
  <2>2. ~running'
    BY <2>1, WriteMakes
  <2>3. /\ Extended /\ Len(code') = Len(code) + 1 /\ Len(code) \in Nat
        /\ \A i \in 1 .. Len(code) : code'[i] = code[i]
        /\ code'[Len(code) + 1].op = "STACK_UP"
        /\ code'[Len(code) + 1].target = 0
    BY <2>1, NoOperandIs, CodeAppended
  <2> QED
    BY <2>1, <2>2, <2>3, PlainAppended DEF Extended
<1>4. ASSUME NEW s \in Statements, Assigned(s)
      PROVE  JumpsAimed'
  <2>1. whiles' = whiles /\ Write(s)
    BY <1>4 DEF Assigned
  <2>2. ~running'
    BY <2>1, WriteMakes
  <2>3. /\ Extended /\ Len(code') = Len(code) + 1 /\ Len(code) \in Nat
        /\ \A i \in 1 .. Len(code) : code'[i] = code[i]
        /\ code'[Len(code) + 1].op = "STORE"
        /\ code'[Len(code) + 1].target = 0
    BY <1>4, AssignedMakes
  <2> QED
    BY <2>1, <2>2, <2>3, PlainAppended DEF Extended
<1>5. ASSUME NEW s \in Statements, OpenScope(s)
      PROVE  JumpsAimed'
  <2> DEFINE n == Len(code)
             d == Len(whiles)
  <2>1. ~running'
    BY <1>5, WriteMakes DEF OpenScope
  <2>2. /\ n \in Nat /\ code' \in Seq(Commands)
        /\ whiles' \in Seq(Nat) /\ Len(whiles') = d + 1
        /\ \A i \in 1 .. d : whiles'[i] = whiles[i]
        /\ \A i \in 1 .. n : code'[i] = code[i]
        /\ \/ code' = code /\ whiles'[d + 1] = 0
           \/ /\ Len(code') = n + 1 /\ whiles'[d + 1] = n + 1
              /\ code'[n + 1].op = "JMPCNV"
              /\ code'[n + 1].target = 0
    BY <1>5, ScopeOpened DEF Extended
  <2>3. /\ DOMAIN code = 1 .. n /\ DOMAIN whiles = 1 .. d /\ d \in Nat
        /\ DOMAIN whiles' = 1 .. d + 1 /\ DOMAIN code' = 1 .. Len(code')
        /\ Len(code') \in {n, n + 1} /\ Len(code') \in Nat
    <3>1. DOMAIN code = 1 .. n /\ DOMAIN whiles = 1 .. d /\ d \in Nat
      BY JumpsTyped
    <3>2. Len(code') \in {n, n + 1}
      BY <2>2
    <3> HIDE DEF n, d
    <3> QED
      BY <2>2, <3>1, <3>2
  <2>4. \A i \in 1 .. n : code[i].target \in Nat /\ code[i].target <= n + 1
    BY JumpsTyped
  <2>5. \A k \in 1 .. d : whiles[k] \in Nat /\ whiles[k] <= n
    BY JumpsTyped
  <2>8. n <= Len(code') /\ whiles'[d + 1] <= Len(code')
    <3>1. CASE code' = code /\ whiles'[d + 1] = 0
      BY <2>2, <3>1
    <3>2. CASE Len(code') = n + 1 /\ whiles'[d + 1] = n + 1
      <4> HIDE DEF n, d
      <4> QED
        BY <2>2, <3>2
    <3> QED
      BY <2>2, <3>1, <3>2
  <2> HIDE DEF n, d
  <2>6. \A k \in DOMAIN whiles' : whiles'[k] <= Len(code')
    <3> TAKE k \in DOMAIN whiles'
    <3>1. CASE k = d + 1
      BY <2>8, <3>1
    <3>2. CASE k # d + 1
      <4>1. k \in 1 .. d
        BY <2>3, <3>2
      <4>2. whiles'[k] = whiles[k] /\ whiles[k] \in Nat /\ whiles[k] <= n
        BY <2>2, <2>5, <4>1
      <4>3. n \in Nat /\ Len(code') \in Nat
        BY <2>2, <2>3
      <4> QED
        BY <2>8, <4>2, <4>3
    <3> QED
      BY <3>1, <3>2
  <2>7. ASSUME NEW i \in DOMAIN code'
        PROVE  Aimed(i)'
    <3>1. CASE i \in 1 .. n
      <4>1. /\ code'[i] = code[i]
            /\ code[i].op = "JMP" => code[i].target # 0
            /\ code[i].op = "JMPCNV" =>
                 code[i].target # 0 \/ \E k \in DOMAIN whiles : whiles[k] = i
        BY <2>2, <2>3, <3>1 DEF JumpsAimed, Aimed
      <4>2. code'[i].target <= Len(code') + 1
        <5>1. code[i].target \in Nat /\ code[i].target <= n + 1
          BY <2>4, <3>1
        <5>2. n \in Nat /\ Len(code') \in Nat
          BY <2>2, <2>3
        <5>3. code'[i].target = code[i].target /\ n <= Len(code')
          BY <2>8, <4>1
        <5> HIDE DEF n
        <5> QED
          BY <5>1, <5>2, <5>3
      <4>3. \A k \in DOMAIN whiles : k \in DOMAIN whiles' /\ whiles'[k] = whiles[k]
        <5>1. DOMAIN whiles = 1 .. d /\ DOMAIN whiles' = 1 .. d + 1 /\ d \in Nat
          BY <2>3
        <5>2. \A k \in 1 .. d : whiles'[k] = whiles[k]
          BY <2>2
        <5>3. \A k \in 1 .. d : k \in 1 .. d + 1
          BY <5>1
        <5> QED
          BY <5>1, <5>2, <5>3, Zenon
      <4> QED
        BY <4>1, <4>2, <4>3 DEF Aimed
    <3>2. CASE i \notin 1 .. n
      <4>1. i = n + 1 /\ Len(code') = n + 1 /\ Len(code') # n
        <5>1. n \in Nat /\ Len(code') \in {n, n + 1} /\ i \in 1 .. Len(code')
          BY <2>2, <2>3, <2>7
        <5> QED
          BY <3>2, <5>1
      <4>2. code' # code
        BY <4>1 DEF n
      <4>3. whiles'[d + 1] = i /\ code'[i].op = "JMPCNV" /\ code'[i].target = 0
        BY <2>2, <4>1, <4>2
      <4>4. d + 1 \in DOMAIN whiles'
        BY <2>3
      <4> QED
        BY <2>2, <4>1, <4>3, <4>4 DEF Aimed
    <3> QED
      BY <3>1, <3>2
  <2> QED
    BY <2>1, <2>6, <2>7 DEF JumpsAimed
<1>6. ASSUME NEW s \in Statements, CloseScope(s)
      PROVE  JumpsAimed'
  <2> DEFINE n == Len(code)
             d == Len(whiles)
             test == Last(whiles)
  <2>1. ~running'
    BY <1>6, WriteMakes DEF CloseScope
  <2>2. /\ n \in Nat /\ d \in Nat \ {0} /\ test = whiles[d] /\ code' \in Seq(Commands)
        /\ whiles' \in Seq(Nat) /\ Len(whiles') = d - 1
        /\ \A i \in 1 .. d - 1 : whiles'[i] = whiles[i]
        /\ n <= Len(code') /\ \A i \in 1 .. n : code'[i].op = code[i].op
    BY <1>6, ScopeClosed DEF Extended
  <2>3. /\ DOMAIN code = 1 .. n /\ DOMAIN whiles = 1 .. d
        /\ DOMAIN whiles' = 1 .. d - 1 /\ DOMAIN code' = 1 .. Len(code')
        /\ Len(code') \in Nat
    <3>1. DOMAIN code = 1 .. n /\ DOMAIN whiles = 1 .. d
      BY JumpsTyped
    <3> HIDE DEF n, d
    <3> QED
      BY <2>2, <3>1
  <2>4. \A i \in 1 .. n : code[i].target \in Nat /\ code[i].target <= n + 1
    BY JumpsTyped
  <2>5. \A k \in 1 .. d : whiles[k] \in Nat /\ whiles[k] <= n
    BY JumpsTyped
  <2>6. CASE test = 0
    <3>1. code' = code
      BY <1>6, <2>6 DEF CloseScope
    <3> HIDE DEF n, d, test
    <3>2. \A k \in DOMAIN whiles' : whiles'[k] <= Len(code')
      BY <2>2, <2>3, <2>5, <3>1
    <3>3. ASSUME NEW i \in DOMAIN code'
          PROVE  Aimed(i)'
      <4>1. i \in 1 .. n /\ Aimed(i)
        BY <2>3, <3>1, <3>3 DEF JumpsAimed
      <4>2. \A k \in DOMAIN whiles : whiles[k] = i => k \in DOMAIN whiles' /\ whiles'[k] = i
        <5> TAKE k \in DOMAIN whiles
        <5> HAVE whiles[k] = i
        <5>1. d \in Nat \ {0} /\ whiles[d] = 0 /\ k \in 1 .. d
          BY <2>2, <2>3, <2>6
        <5>2. i # 0
          BY <4>1
        <5>3. k \in 1 .. d - 1
          BY <5>1, <5>2
        <5> QED
          BY <2>2, <2>3, <5>3
      <4> QED
        BY <3>1, <4>1, <4>2 DEF Aimed
    <3> QED
      BY <2>1, <3>2, <3>3 DEF JumpsAimed
  <2>7. CASE test # 0
    <3>1. /\ Len(code') = n + 1 /\ test \in 1 .. n
          /\ \A i \in 1 .. n :
               code'[i].target = IF i = test THEN n + 2 ELSE code[i].target
          /\ code'[n + 1].op = "JMP" /\ code'[n + 1].target = test
      BY <1>6, <2>7, LoopClosed
    <3> HIDE DEF n, d, test
    <3>2. \A k \in DOMAIN whiles' : whiles'[k] <= Len(code')
      <4> TAKE k \in DOMAIN whiles'
      <4>1. k \in 1 .. d /\ whiles'[k] = whiles[k]
        BY <2>2, <2>3
      <4>2. whiles[k] \in Nat /\ whiles[k] <= n /\ n \in Nat
        BY <2>2, <2>5, <4>1
      <4> QED
        BY <3>1, <4>1, <4>2
    <3>3. ASSUME NEW i \in DOMAIN code'
          PROVE  Aimed(i)'
      <4>1. CASE i = n + 1
        BY <2>2, <3>1, <4>1 DEF Aimed
      <4>2. CASE i = test
        BY <2>2, <3>1, <4>2 DEF Aimed
      <4>3. CASE i # n + 1 /\ i # test
        <5>1. i \in 1 .. n /\ Aimed(i)
          BY <2>2, <2>3, <3>1, <3>3, <4>3 DEF JumpsAimed
        <5>2. \A k \in DOMAIN whiles : whiles[k] = i => k \in DOMAIN whiles' /\ whiles'[k] = i
          BY <2>2, <2>3, <4>3
        <5>3. code'[i].target = code[i].target /\ code'[i].op = code[i].op
          BY <2>2, <3>1, <4>3, <5>1
        <5>4. code'[i].target <= Len(code') + 1
          BY <2>2, <2>4, <3>1, <5>1, <5>3
        <5> QED
          BY <5>1, <5>2, <5>3, <5>4 DEF Aimed
      <4> QED
        BY <4>1, <4>2, <4>3
    <3> QED
      BY <2>1, <3>2, <3>3 DEF JumpsAimed
  <2> QED
    BY <2>6, <2>7
<1>7. CASE Link
  <2>1. Len(code) \in Nat
    BY DEF Shapes
  <2>2. UNCHANGED <<code, whiles>> /\ whiles = << >> /\ ip' = 1
    BY <1>7 DEF Link
  <2>3. ip' \in 1 .. Len(code) + 1
    BY <2>1, <2>2
  <2> QED
    BY <1>1, <2>2, <2>3
<1>8. CASE Executes
  BY <1>1, <1>8 DEF Executes, JumpsAimed
<1>9. CASE UNCHANGED vars
  BY <1>1, <1>9 DEF vars, JumpsAimed
<1> QED
  BY <1>2, <1>3, <1>4, <1>5, <1>6, <1>7, <1>8, <1>9 DEF Steps

(* A declaration belongs to the file it is in.                              *)
LEMMA VariablesInOrderKept ==
  ASSUME Shapes, VariablesInOrder, Steps
  PROVE  VariablesInOrder'
<1> USE DEF pseudo, byte
<1>1. ASSUME UNCHANGED <<variables_descriptions, current_module_id, dvicm>>
      PROVE  VariablesInOrder'
  BY <1>1 DEF VariablesInOrder
<1>2. ASSUME NEW s \in Statements, Declared(s)
      PROVE  VariablesInOrder'
  <2> DEFINE n == Len(variables_descriptions)
             v == [module_id |-> current_module_id, size |-> s.size,
                   global_stack_offset |-> NextFreeAddress]
  <2>1. /\ n \in Nat /\ variables_descriptions' \in Seq(Descriptions)
        /\ Len(variables_descriptions') = n + 1
        /\ \A i \in 1 .. n : variables_descriptions'[i] = variables_descriptions[i]
        /\ variables_descriptions'[n + 1] = v /\ dvicm' = dvicm \cup {n + 1}
    BY <1>2, DeclaredMakes
  <2>2. DOMAIN variables_descriptions' = 1 .. n + 1 /\ DOMAIN variables_descriptions = 1 .. n
        /\ current_module_id \in Nat /\ dvicm \subseteq 1 .. n
    BY <2>1 DEF Shapes
  <2>3. v.module_id = current_module_id
    OBVIOUS
  <2>4. current_module_id' = current_module_id
    BY <1>2 DEF Declared, Accept
  <2> HIDE DEF n, v
  <2>5. ASSUME NEW id \in DOMAIN variables_descriptions'
        PROVE  /\ variables_descriptions'[id].module_id <= current_module_id
               /\ id \in dvicm' <=> variables_descriptions'[id].module_id = current_module_id
    <3>1. CASE id = n + 1
      BY <2>1, <2>2, <2>3, <3>1
    <3>2. CASE id # n + 1
      <4>1. id \in 1 .. n
        BY <2>1, <2>2, <2>5, <3>2
      <4>2. variables_descriptions'[id] = variables_descriptions[id]
        BY <2>1, <4>1
      <4>3. id \in dvicm' <=> id \in dvicm
        BY <2>1, <3>2
      <4> QED
        BY <2>2, <4>1, <4>2, <4>3 DEF VariablesInOrder
    <3> QED
      BY <3>1, <3>2
  <2> QED
    BY <2>4, <2>5 DEF VariablesInOrder
<1>3. ASSUME NEW s \in Statements, NextModule(s)
      PROVE  VariablesInOrder'
  <2>1. /\ variables_descriptions' = variables_descriptions /\ dvicm' = {}
        /\ current_module_id' = current_module_id + 1
    BY <1>3 DEF NextModule
  <2>2. variables_descriptions \in Seq(Descriptions) /\ current_module_id \in Nat
    BY DEF Shapes
  <2>3. ASSUME NEW id \in DOMAIN variables_descriptions
        PROVE  /\ variables_descriptions[id].module_id < current_module_id + 1
               /\ variables_descriptions[id].module_id # current_module_id + 1
    <3>1. variables_descriptions[id] \in Descriptions
      BY <2>2, <2>3
    <3>2. variables_descriptions[id].module_id \in Nat
      BY <3>1 DEF Descriptions
    <3>3. variables_descriptions[id].module_id <= current_module_id
      BY <2>3 DEF VariablesInOrder
    <3> QED
      BY <2>2, <3>2, <3>3
  <2>4. ASSUME NEW id \in DOMAIN variables_descriptions
        PROVE  variables_descriptions[id].module_id <= current_module_id + 1
    <3>1. variables_descriptions[id] \in Descriptions
      BY <2>2, <2>4
    <3>2. variables_descriptions[id].module_id \in Nat
      BY <3>1 DEF Descriptions
    <3> QED
      BY <2>2, <2>3, <2>4, <3>2
  <2> QED
    BY <2>1, <2>3, <2>4 DEF VariablesInOrder
<1>4. CASE \E s \in Statements :
             Refused(s) \/ Assigned(s) \/ OpenScope(s) \/ CloseScope(s)
  BY <1>1, <1>4 DEF Refused, Refuse, Assigned, OpenScope, CloseScope, Accept
<1>5. CASE Link \/ Executes \/ UNCHANGED vars
  BY <1>1, <1>5 DEF Link, Executes, vars
<1> QED
  BY <1>2, <1>3, <1>4, <1>5 DEF Steps

(* Code stays in order if what is added is. *)
LEMMA InOrderExtended ==
  ASSUME Shapes, IdsKnown, CodeInOrder, NEW s \in Statements, Write(s), Extended,
         \A id \in DOMAIN variables_descriptions :
           variables_descriptions'[id] = variables_descriptions[id],
         \A i \in DOMAIN unhandled_symbols :
           i \in DOMAIN unhandled_symbols' /\ unhandled_symbols'[i] = unhandled_symbols[i],
         \A i \in Len(code) + 1 .. Len(code') : PointsBack(i)'
  PROVE  CodeInOrder'
<1>1. /\ Len(text) \in Nat /\ DOMAIN text = 1 .. Len(text) /\ DOMAIN text' = 1 .. Len(text) + 1
  BY WriteMakes
<1>2. /\ code \in Seq(Commands) /\ code' \in Seq(Commands) /\ Len(code) \in Nat
  BY DEF Shapes, Extended
<1>3. ASSUME NEW i \in DOMAIN code'
      PROVE  code'[i].statement \in DOMAIN text' /\ PointsBack(i)'
  <2>1. CASE i \in DOMAIN code
    <3>1. /\ code'[i].module = code[i].module /\ code'[i].operand = code[i].operand
          /\ code'[i].statement = code[i].statement
      BY <1>2, <2>1 DEF Extended
    <3>2. code[i].statement \in DOMAIN text /\ PointsBack(i)
      BY <2>1 DEF CodeInOrder
    <3>3. code'[i].statement \in DOMAIN text'
      BY <1>1, <3>1, <3>2
    <3>4. PointsBack(i)'
      BY <3>1, <3>2 DEF PointsBack, IdsKnown
    <3> QED
      BY <3>3, <3>4
  <2>2. CASE i \notin DOMAIN code
    <3>1. i \in Len(code) + 1 .. Len(code')
      BY <1>2, <1>3, <2>2
    <3>2. code'[i].statement = Len(text) + 1
      BY <3>1 DEF Extended
    <3> QED
      BY <1>1, <3>1, <3>2
  <2> QED
    BY <2>1, <2>2
<1> QED
  BY <1>3 DEF CodeInOrder

(* A symbol is only made of a variable of an earlier file.                  *)
LEMMA CodeInOrderKept ==
  ASSUME Shapes, IdsKnown, JumpsAimed, VariablesInOrder, CodeInOrder, Steps
  PROVE  CodeInOrder'
<1> USE DEF pseudo, byte
<1>1. ASSUME UNCHANGED <<text, code, variables_descriptions, unhandled_symbols>>
      PROVE  CodeInOrder'
  BY <1>1 DEF CodeInOrder, PointsBack
<1>2. CASE \E s \in Statements : Refused(s) \/ NextModule(s)
  <2>1. PICK s \in Statements : Refused(s) \/ NextModule(s)
    BY <1>2
  <2>2. Write(s) /\ UNCHANGED <<code, variables_descriptions, unhandled_symbols>>
    BY <2>1 DEF Refused, Refuse, NextModule
  <2>3. Extended /\ Len(code') = Len(code) /\ Len(code) \in Nat
    BY <2>2, CodeKept
  <2>4. \A i \in Len(code) + 1 .. Len(code') : PointsBack(i)'
    BY <2>3
  <2> QED
    BY <2>2, <2>3, <2>4, InOrderExtended
<1>3. ASSUME NEW s \in Statements, Declared(s)
      PROVE  CodeInOrder'
  <2>1. /\ s.size \in Nat /\ Write(s) /\ unhandled_symbols' = unhandled_symbols
        /\ code' = Append(code, Command("STACK_UP", NoOperand, s.size))
    BY <1>3, StatementKnown DEF Declared
  <2>2. /\ Extended /\ Len(code') = Len(code) + 1 /\ Len(code) \in Nat
        /\ code'[Len(code) + 1].operand = NoOperand
    BY <2>1, NoOperandIs, CodeAppended
  <2>3. \A i \in Len(code) + 1 .. Len(code') : PointsBack(i)'
    <3> TAKE i \in Len(code) + 1 .. Len(code')
    <3>1. i = Len(code) + 1
      BY <2>2
    <3> QED
      BY <2>2, <3>1, NoOperandIs DEF PointsBack
  <2>4. \A id \in DOMAIN variables_descriptions :
          variables_descriptions'[id] = variables_descriptions[id]
    <3>1. \A i \in 1 .. Len(variables_descriptions) :
            variables_descriptions'[i] = variables_descriptions[i]
      BY <1>3, DeclaredMakes
    <3>2. variables_descriptions \in Seq(Descriptions)
      BY DEF Shapes
    <3>3. DOMAIN variables_descriptions = 1 .. Len(variables_descriptions)
      BY <3>2
    <3> QED
      BY <3>1, <3>3
  <2> QED
    BY <2>1, <2>2, <2>3, <2>4, InOrderExtended
<1>4. ASSUME NEW s \in Statements, Assigned(s)
      PROVE  CodeInOrder'
  <2> DEFINE id == FindSymbolLocal(s.name)
             operand == Operand(id)
  <2>1. Write(s) /\ variables_descriptions' = variables_descriptions
    BY <1>4 DEF Assigned
  <2>2. /\ id \in DOMAIN variables_descriptions
        /\ Extended /\ Len(code') = Len(code) + 1 /\ Len(code) \in Nat
        /\ code'[Len(code) + 1].operand = operand
        /\ unhandled_symbols' \in Seq(Nat) /\ Len(unhandled_symbols) <= Len(unhandled_symbols')
        /\ \A i \in DOMAIN unhandled_symbols : unhandled_symbols'[i] = unhandled_symbols[i]
        /\ id \notin dvicm => unhandled_symbols' = AddUnhandledSymbol(id)
    BY <1>4, AssignedMakes
  <2> HIDE DEF id
  <2>3. /\ operand.source = "Symbol" =>
             /\ id \notin dvicm
             /\ operand.data \in DOMAIN AddUnhandledSymbol(id)
             /\ AddUnhandledSymbol(id)[operand.data] = id
    BY <2>2, OperandIs
  <2> HIDE DEF operand
  <2>4. id \notin dvicm => variables_descriptions[id].module_id < current_module_id
    <3>1. variables_descriptions \in Seq(Descriptions) /\ current_module_id \in Nat
      BY DEF Shapes
    <3>2. variables_descriptions[id] \in Descriptions
      BY <2>2, <3>1
    <3>3. variables_descriptions[id].module_id \in Nat
      BY <3>2 DEF Descriptions
    <3> QED
      BY <2>2, <3>1, <3>3 DEF VariablesInOrder
  <2>5. code'[Len(code) + 1].module = current_module_id
    BY <2>2 DEF Extended
  <2>6. \A i \in Len(code) + 1 .. Len(code') : PointsBack(i)'
    <3> TAKE i \in Len(code) + 1 .. Len(code')
    <3>1. i = Len(code) + 1
      BY <2>2
    <3>2. code'[i].operand = operand /\ code'[i].module = current_module_id
      BY <2>2, <2>5, <3>1
    <3>3. CASE operand.source # "Symbol"
      BY <3>2, <3>3 DEF PointsBack
    <3>4. CASE operand.source = "Symbol"
      <4>1. /\ unhandled_symbols' = AddUnhandledSymbol(id)
            /\ operand.data \in DOMAIN unhandled_symbols' /\ unhandled_symbols'[operand.data] = id
        BY <2>2, <2>3, <3>4
      <4>2. variables_descriptions'[id].module_id < current_module_id
        BY <2>1, <2>3, <2>4, <3>4
      <4> QED
        BY <3>2, <4>1, <4>2 DEF PointsBack
    <3> QED
      BY <3>3, <3>4
  <2>7. \A i \in DOMAIN unhandled_symbols :
          i \in DOMAIN unhandled_symbols' /\ unhandled_symbols'[i] = unhandled_symbols[i]
    <3>1. DOMAIN unhandled_symbols = 1 .. Len(unhandled_symbols)
          /\ Len(unhandled_symbols) \in Nat
      BY DEF Shapes
    <3>2. DOMAIN unhandled_symbols' = 1 .. Len(unhandled_symbols')
          /\ Len(unhandled_symbols') \in Nat
      BY <2>2
    <3>3. \A i \in 1 .. Len(unhandled_symbols) : i \in 1 .. Len(unhandled_symbols')
      BY <2>2, <3>1, <3>2
    <3> QED
      BY <2>2, <3>1, <3>2, <3>3
  <2> QED
    BY <2>1, <2>2, <2>6, <2>7, InOrderExtended
<1>5. CASE \E s \in Statements : OpenScope(s) \/ CloseScope(s)
  <2>1. PICK s \in Statements : OpenScope(s) \/ CloseScope(s)
    BY <1>5
  <2>2. Write(s) /\ UNCHANGED <<variables_descriptions, unhandled_symbols>>
    BY <2>1 DEF OpenScope, CloseScope
  <2>3. /\ Extended /\ Len(code) \in Nat
        /\ \/ code' = code
           \/ Len(code') = Len(code) + 1 /\ code'[Len(code) + 1].operand = NoOperand
    <3>1. CASE OpenScope(s)
      BY <3>1, ScopeOpened
    <3>2. CASE CloseScope(s) /\ Last(whiles) = 0
      <4>1. code' = code
        BY <3>2 DEF CloseScope
      <4> QED
        BY <4>1, CodeKept
    <3>3. CASE CloseScope(s) /\ Last(whiles) # 0
      BY <3>3, LoopClosed
    <3> QED
      BY <2>1, <3>1, <3>2, <3>3
  <2>4. \A i \in Len(code) + 1 .. Len(code') : PointsBack(i)'
    <3> TAKE i \in Len(code) + 1 .. Len(code')
    <3>1. i = Len(code) + 1 /\ code'[Len(code) + 1].operand = NoOperand
      <4>1. CASE code' = code
        BY <2>3, <4>1
      <4>2. CASE Len(code') = Len(code) + 1 /\ code'[Len(code) + 1].operand = NoOperand
        BY <2>3, <4>2
      <4> QED
        BY <2>3, <4>1, <4>2
    <3> QED
      BY <3>1, NoOperandIs DEF PointsBack
  <2> QED
    BY <2>2, <2>3, <2>4, InOrderExtended
<1>6. CASE Link \/ Executes \/ UNCHANGED vars
  BY <1>1, <1>6 DEF Link, Executes, vars
<1> QED
  BY <1>2, <1>3, <1>4, <1>5, <1>6 DEF Steps

-----------------------------------------------------------------------------
(* Counting the statements of the text.                                    *)

Openers == {k \in DOMAIN text : text[k].op \in Scopes!Opening}
Closers == {k \in DOMAIN text : text[k].op = "close"}
Registereds == {k \in DOMAIN text : Registered(k)}
UpTo(T, i) == Cardinality(T \cap (1 .. i))

Counted ==
  /\ \A i \in 1 .. Len(text) + 1 :
       Scopes!Depth(i) = UpTo(Openers, i - 1) - UpTo(Closers, i - 1)
  /\ \A j \in 0 .. Len(text) : IdOf(j) = UpTo(Registereds, j)

(* LexicalPromise counts as this module does. *)
LEMMA SameCardinality == \A T : Scopes!Cardinality(T) = Cardinality(T)
  BY DEF Scopes!Cardinality, Cardinality

(* Depth and IdOf count members of these sets. *)
LEMMA CountsAre == Shapes => Counted
<1> SUFFICES ASSUME Shapes
             PROVE  Counted
  OBVIOUS
<1>1. DOMAIN text = 1 .. Len(text) /\ Len(text) \in Nat
  BY DEF Shapes
<1>2. ASSUME NEW i \in 1 .. Len(text) + 1
      PROVE  Scopes!Depth(i) = UpTo(Openers, i - 1) - UpTo(Closers, i - 1)
  <2>1. {k \in 1 .. i - 1 : text[k].op \in Scopes!Opening} = Openers \cap (1 .. i - 1)
    BY <1>1 DEF Openers
  <2>2. {k \in 1 .. i - 1 : text[k].op = "close"} = Closers \cap (1 .. i - 1)
    BY <1>1 DEF Closers
  <2> QED
    BY <2>1, <2>2, SameCardinality DEF Scopes!Depth, UpTo
<1>3. ASSUME NEW j \in 0 .. Len(text)
      PROVE  IdOf(j) = UpTo(Registereds, j)
  <2>1. {k \in 1 .. j : text[k].op = "declare" /\ k \notin reported}
          = Registereds \cap (1 .. j)
    BY <1>1 DEF Registereds, Registered
  <2> QED
    BY <2>1 DEF IdOf, UpTo
<1> QED
  BY <1>2, <1>3 DEF Counted

(* A statement is added; it may be complained about. *)
Continued(s) ==
  /\ s \in Statements /\ Write(s) /\ Shapes'
  /\ reported' = reported \/ reported' = reported \cup {Len(text) + 1}

(* What was said of the text so far stays true. *)
LEMMA PastKept ==
  ASSUME Shapes, NEW s, Continued(s)
  PROVE  /\ \A j \in 1 .. Len(text) : Registered(j)' <=> Registered(j)
         /\ \A i \in 1 .. Len(text) + 1 : Scopes!Depth(i)' = Scopes!Depth(i)
         /\ \A j \in 0 .. Len(text) : IdOf(j)' = IdOf(j)
         /\ \A i \in 1 .. Len(text) + 1 : Scopes!Live(i)' = Scopes!Live(i)
<1>0. (Shapes => Counted)'
  BY CountsAre, PTL
<1> DEFINE n == Len(text)
<1>1. /\ n \in Nat /\ Len(text') = n + 1 /\ \A i \in 1 .. n : text'[i] = text[i]
      /\ DOMAIN text = 1 .. n /\ DOMAIN text' = 1 .. n + 1
  BY WriteMakes DEF Continued
<1>2. \A j \in 1 .. n : j \in reported' <=> j \in reported
  BY <1>1 DEF Continued
<1> HIDE DEF n
<1>3. \A j \in 1 .. n : Registered(j)' <=> Registered(j)
  BY <1>1, <1>2 DEF Registered
<1>4. \A k \in 1 .. n :
        /\ k \in Openers' <=> k \in Openers
        /\ k \in Closers' <=> k \in Closers
        /\ k \in Registereds' <=> k \in Registereds
  BY <1>1, <1>3 DEF Openers, Closers, Registereds
<1>5. ASSUME NEW i \in 0 .. n
      PROVE  /\ Openers' \cap (1 .. i) = Openers \cap (1 .. i)
             /\ Closers' \cap (1 .. i) = Closers \cap (1 .. i)
             /\ Registereds' \cap (1 .. i) = Registereds \cap (1 .. i)
  BY <1>1, <1>4
<1>6. ASSUME NEW i \in 1 .. n + 1
      PROVE  Scopes!Depth(i)' = Scopes!Depth(i)
  <2>1. Scopes!Depth(i) = UpTo(Openers, i - 1) - UpTo(Closers, i - 1)
    BY <1>6, CountsAre DEF n, Counted
  <2>2. Shapes' /\ i \in 1 .. Len(text') + 1
    BY <1>1, <1>6 DEF Continued
  <2>3. (Scopes!Depth(i) = UpTo(Openers, i - 1) - UpTo(Closers, i - 1))'
    BY <1>0, <2>2 DEF Counted
  <2>4. i - 1 \in 0 .. n
    BY <1>1, <1>6
  <2> QED
    BY <1>5, <2>1, <2>3, <2>4 DEF UpTo
<1>7. ASSUME NEW j \in 0 .. n
      PROVE  IdOf(j)' = IdOf(j)
  <2>1. IdOf(j) = UpTo(Registereds, j)
    BY <1>7, CountsAre DEF n, Counted
  <2>2. Shapes' /\ j \in 0 .. Len(text')
    BY <1>1, <1>7 DEF Continued
  <2>3. (IdOf(j) = UpTo(Registereds, j))'
    BY <1>0, <2>2 DEF Counted
  <2> QED
    BY <1>5, <2>1, <2>3 DEF UpTo
<1>8. ASSUME NEW i \in 1 .. n + 1
      PROVE  Scopes!Live(i)' = Scopes!Live(i)
  <2>1. \A j \in 1 .. i - 1 :
          /\ j \in 1 .. n /\ j \in 1 .. n + 1
          /\ \A k \in j + 1 .. i : k \in 1 .. n + 1
    BY <1>1
  <2>2. \A j \in 1 .. i - 1 : Scopes!Open(j, i)' <=> Scopes!Open(j, i)
    BY <1>6, <2>1 DEF Scopes!Open
  <2>3. \A j \in 1 .. i - 1 : text'[j].op = text[j].op /\ (j \in reported' <=> j \in reported)
    BY <1>1, <1>2, <2>1
  <2> QED
    BY <2>2, <2>3 DEF Scopes!Live
<1> QED
  BY <1>3, <1>6, <1>7, <1>8 DEF n

(* What the new statement adds. *)
Opens(s) == IF s.op \in {"scope", "while"} THEN 1 ELSE 0
Closes(s) == IF s.op = "close" THEN 1 ELSE 0
Registers(s) == IF s.op = "declare" /\ Len(text) + 1 \notin reported' THEN 1 ELSE 0

(* Depth and number after a statement.                                      *)
LEMMA NextCounted ==
  ASSUME Shapes, TextCounted, NEW s, Continued(s), NEW n, n = Len(text)
  PROVE  /\ Scopes!Depth(n + 2)' = Len(whiles) + Opens(s) - Closes(s)
         /\ IdOf(n + 1)' = Len(variables_descriptions) + Registers(s)
<1>0. (Shapes => Counted)'
  BY CountsAre, PTL
<1>1. /\ n \in Nat /\ Len(text') = n + 1 /\ \A i \in 1 .. n : text'[i] = text[i]
      /\ text'[n + 1] = s /\ DOMAIN text' = 1 .. n + 1
  BY WriteMakes DEF Continued
<1>2. /\ Scopes!Depth(n + 1)' = Len(whiles) /\ IdOf(n)' = Len(variables_descriptions)
      /\ Len(whiles) \in Nat /\ Len(variables_descriptions) \in Nat
  <2>1. n + 1 \in 1 .. n + 1 /\ n \in 0 .. n
    BY <1>1
  <2>2. Scopes!Depth(n + 1)' = Scopes!Depth(n + 1) /\ IdOf(n)' = IdOf(n)
    BY <2>1, PastKept
  <2> QED
    BY <2>2 DEF TextCounted, Shapes
<1>3. /\ n + 1 \in Openers' <=> s.op \in {"scope", "while"}
      /\ n + 1 \in Closers' <=> s.op = "close"
      /\ n + 1 \in Registereds' <=> s.op = "declare" /\ n + 1 \notin reported'
  BY <1>1 DEF Openers, Closers, Registereds, Registered, Scopes!Opening
<1>4. /\ UpTo(Openers, n)' \in Nat /\ UpTo(Closers, n)' \in Nat /\ UpTo(Registereds, n)' \in Nat
      /\ UpTo(Openers, n + 1)' = UpTo(Openers, n)' + Opens(s)
      /\ UpTo(Closers, n + 1)' = UpTo(Closers, n)' + Closes(s)
  <2>1. /\ UpTo(Openers, n)' \in Nat /\ UpTo(Closers, n)' \in Nat
        /\ UpTo(Registereds, n)' \in Nat
    BY <1>1, CountNext DEF UpTo
  <2>2. UpTo(Openers, n + 1)' = UpTo(Openers, n)' + Opens(s)
    BY <1>1, <1>3, CountNext DEF UpTo, Opens
  <2>3. UpTo(Closers, n + 1)' = UpTo(Closers, n)' + Closes(s)
    BY <1>1, <1>3, CountNext DEF UpTo, Closes
  <2> QED
    BY <2>1, <2>2, <2>3
<1>5. UpTo(Registereds, n + 1)' = UpTo(Registereds, n)' + Registers(s)
  BY <1>1, <1>3, CountNext DEF UpTo, Registers
<1>6. /\ Scopes!Depth(n + 1)' = UpTo(Openers, n)' - UpTo(Closers, n)'
      /\ Scopes!Depth(n + 2)' = UpTo(Openers, n + 1)' - UpTo(Closers, n + 1)'
  <2>1. /\ n + 1 \in 1 .. Len(text') + 1 /\ n + 1 - 1 = n
        /\ n + 2 \in 1 .. Len(text') + 1 /\ n + 2 - 1 = n + 1
    BY <1>1
  <2>2. \A i \in 1 .. Len(text') + 1 :
          Scopes!Depth(i)' = UpTo(Openers, i - 1)' - UpTo(Closers, i - 1)'
    BY <1>0 DEF Counted, Continued
  <2>3. /\ Scopes!Depth(n + 1)' = UpTo(Openers, n + 1 - 1)' - UpTo(Closers, n + 1 - 1)'
        /\ Scopes!Depth(n + 2)' = UpTo(Openers, n + 2 - 1)' - UpTo(Closers, n + 2 - 1)'
    BY <2>1, <2>2
  <2> QED
    BY <2>1, <2>3
<1>7. /\ IdOf(n)' = UpTo(Registereds, n)'
      /\ IdOf(n + 1)' = UpTo(Registereds, n + 1)'
  <2>1. \A j \in 0 .. Len(text') : IdOf(j)' = UpTo(Registereds, j)'
    BY <1>0 DEF Counted, Continued
  <2>2. n \in 0 .. Len(text') /\ n + 1 \in 0 .. Len(text')
    BY <1>1
  <2> QED
    BY <2>1, <2>2
<1>8. Opens(s) \in {0, 1} /\ Closes(s) \in {0, 1}
  BY DEF Opens, Closes
<1>9. Scopes!Depth(n + 2)' = Len(whiles) + Opens(s) - Closes(s)
  BY <1>2, <1>4, <1>6, <1>8
<1>10. IdOf(n + 1)' = Len(variables_descriptions) + Registers(s)
  BY <1>2, <1>5, <1>7
<1> QED
  BY <1>9, <1>10

(* Who is in scope now was in scope before, or has just been declared. *)
LEMMA LiveNext ==
  ASSUME Shapes, TextCounted, NEW s, Continued(s), NEW n, n = Len(text),
         NEW j \in Scopes!Live(n + 2)'
  PROVE  \/ j = n + 1 /\ Registers(s) = 1
         \/ /\ j \in Scopes!Live(n + 1) /\ j \in 1 .. n
            /\ Scopes!Depth(j) <= Len(whiles) + Opens(s) - Closes(s)
<1>1. /\ n \in Nat /\ Len(text') = n + 1 /\ \A i \in 1 .. n : text'[i] = text[i]
      /\ text'[n + 1] = s
  BY WriteMakes DEF Continued
<1>2. /\ j \in 1 .. n + 1 /\ text'[j].op = "declare" /\ j \notin reported'
      /\ \A k \in j + 1 .. n + 2 : Scopes!Depth(k)' >= Scopes!Depth(j)'
  <2>1. n + 2 - 1 = n + 1
    BY <1>1
  <2> QED
    BY <2>1 DEF Scopes!Live, Scopes!Open
<1>3. Scopes!Depth(n + 2)' = Len(whiles) + Opens(s) - Closes(s)
  BY NextCounted
<1>4. CASE j = n + 1
  BY <1>1, <1>2, <1>4 DEF Registers
<1>5. CASE j # n + 1
  <2>1. j \in 1 .. n /\ j \in 1 .. n + 1 /\ n + 2 \in j + 1 .. n + 2
    BY <1>1, <1>2, <1>5
  <2>2. Scopes!Depth(j)' = Scopes!Depth(j)
    BY <2>1, PastKept
  <2>3. \A k \in j + 1 .. n + 1 : Scopes!Depth(k) >= Scopes!Depth(j)
    <3> TAKE k \in j + 1 .. n + 1
    <3>1. k \in j + 1 .. n + 2 /\ k \in 1 .. n + 1
      BY <1>1, <2>1
    <3>2. Scopes!Depth(k)' = Scopes!Depth(k)
      BY <3>1, PastKept
    <3> QED
      BY <1>2, <2>2, <3>1, <3>2
  <2>4. text[j].op = "declare" /\ j \notin reported
    BY <1>1, <1>2, <2>1 DEF Continued
  <2>5. j \in Scopes!Live(n + 1)
    <3>1. j \in 1 .. n + 1 - 1
      BY <1>1, <2>1
    <3> QED
      BY <2>3, <2>4, <3>1 DEF Scopes!Live, Scopes!Open
  <2>6. Scopes!Depth(n + 2)' >= Scopes!Depth(j)'
    BY <1>2, <2>1
  <2>7. Scopes!Depth(j) \in Nat /\ Len(whiles) \in Nat /\ Opens(s) \in {0, 1} /\ Closes(s) \in {0, 1}
    BY <2>1 DEF TextCounted, Shapes, Opens, Closes
  <2>8. Scopes!Depth(j) <= Len(whiles) + Opens(s) - Closes(s)
    BY <1>3, <2>2, <2>6, <2>7
  <2> QED
    BY <2>1, <2>5, <2>8
<1> QED
  BY <1>4, <1>5

(* Who is in scope is declared, and no deeper than the scope that is open. *)
LEMMA LiveIs ==
  ASSUME Shapes, TextCounted, NEW i \in 1 .. Len(text) + 1, NEW j \in Scopes!Live(i)
  PROVE  /\ j \in 1 .. Len(text) /\ j < i /\ Registered(j) /\ IdOf(j) \in DOMAIN variables_descriptions
         /\ Scopes!Depth(j) \in Nat /\ Scopes!Depth(j) <= Scopes!Depth(i)
<1> DEFINE n == Len(text)
<1>1. n \in Nat /\ DOMAIN text = 1 .. n /\ i \in 1 .. n + 1
  BY DEF Shapes
<1> HIDE DEF n
<1>2. /\ j \in 1 .. i - 1 /\ text[j].op = "declare" /\ j \notin reported
      /\ \A k \in j + 1 .. i : Scopes!Depth(k) >= Scopes!Depth(j)
  BY DEF Scopes!Live, Scopes!Open
<1>3. j \in 1 .. n /\ j < i /\ i \in j + 1 .. i /\ j \in 1 .. n + 1
  BY <1>1, <1>2
<1>4. Scopes!Depth(i) >= Scopes!Depth(j)
  BY <1>2, <1>3
<1>5. Scopes!Depth(i) \in Nat /\ Scopes!Depth(j) \in Nat
  BY <1>1, <1>3 DEF TextCounted, n
<1>6. Registered(j)
  BY <1>2 DEF Registered
<1>7. IdOf(j) \in DOMAIN variables_descriptions
  BY <1>1, <1>3, <1>6 DEF TextCounted
<1> QED
  BY <1>3, <1>4, <1>5, <1>6, <1>7 DEF n

(* A statement counts for the scopes and variables it makes.                *)
LEMMA TextCountedNext ==
  ASSUME Shapes, TextCounted, NEW s, Continued(s),
         Len(whiles') = Len(whiles) + Opens(s) - Closes(s),
         Len(variables_descriptions') = Len(variables_descriptions) + Registers(s)
  PROVE  TextCounted'
<1>1. PICK n : n = Len(text)
  OBVIOUS
<1>2. /\ n \in Nat /\ Len(text') = n + 1 /\ \A i \in 1 .. n : text'[i] = text[i]
      /\ text'[n + 1] = s /\ DOMAIN text = 1 .. n /\ DOMAIN text' = 1 .. n + 1
  BY <1>1, WriteMakes DEF Continued
<1>3. /\ Scopes!Depth(n + 2)' = Len(whiles')
      /\ IdOf(n + 1)' = Len(variables_descriptions')
  BY <1>1, NextCounted
<1>4. Len(text') + 1 = n + 2 /\ Len(whiles') \in Nat
      /\ Len(variables_descriptions') \in Nat
  BY <1>2 DEF Continued, Shapes
<1>5. ASSUME NEW i \in 1 .. Len(text') + 1
      PROVE  Scopes!Depth(i)' \in Nat
  <2>1. CASE i = n + 2
    BY <1>3, <1>4, <2>1
  <2>2. CASE i # n + 2
    <3>1. i \in 1 .. n + 1
      BY <1>2, <1>4, <1>5, <2>2
    <3>2. Scopes!Depth(i)' = Scopes!Depth(i)
      BY <1>1, <3>1, PastKept
    <3> QED
      BY <1>1, <3>1, <3>2 DEF TextCounted
  <2> QED
    BY <2>1, <2>2
<1>6. ASSUME NEW j \in DOMAIN text', Registered(j)'
      PROVE  IdOf(j)' \in DOMAIN variables_descriptions'
  <2>1. DOMAIN variables_descriptions' = 1 .. Len(variables_descriptions')
        /\ DOMAIN variables_descriptions = 1 .. Len(variables_descriptions)
        /\ Len(variables_descriptions) \in Nat
    BY DEF Continued, Shapes
  <2>2. Registers(s) \in {0, 1}
    BY DEF Registers
  <2>3. CASE j = n + 1
    <3>1. s.op = "declare" /\ n + 1 \notin reported'
      BY <1>2, <1>6, <2>3 DEF Registered
    <3>2. Registers(s) = 1
      BY <1>1, <3>1 DEF Registers
    <3>3. IdOf(j)' = Len(variables_descriptions')
      BY <1>3, <2>3
    <3>4. Len(variables_descriptions') = Len(variables_descriptions) + 1
      BY <3>2
    <3> QED
      BY <1>4, <2>1, <3>3, <3>4
  <2>4. CASE j # n + 1
    <3>1. j \in 1 .. n
      BY <1>2, <1>6, <2>4
    <3>2. Registered(j) /\ IdOf(j)' = IdOf(j)
      <4>1. j \in 0 .. n
        BY <1>2, <3>1
      <4> QED
        BY <1>1, <1>6, <3>1, <4>1, PastKept
    <3>3. IdOf(j) \in 1 .. Len(variables_descriptions)
      BY <1>2, <2>1, <3>1, <3>2 DEF TextCounted
    <3> QED
      BY <1>4, <2>1, <2>2, <3>2, <3>3
  <2> QED
    BY <2>3, <2>4
<1> QED
  BY <1>2, <1>3, <1>4, <1>5, <1>6 DEF TextCounted

(* Every statement continues the text. *)
StatementStep(s) ==
  \/ Refused(s) \/ Declared(s) \/ Assigned(s) \/ OpenScope(s) \/ CloseScope(s)
  \/ NextModule(s)

(* Which statement makes scopes or variables.                               *)
LEMMA StatementsContinue ==
  ASSUME Shapes, Shapes', NEW s \in Statements, StatementStep(s)
  PROVE  /\ Continued(s)
         /\ Registers(s) = IF Declared(s) THEN 1 ELSE 0
         /\ Opens(s) = IF OpenScope(s) THEN 1 ELSE 0
         /\ Closes(s) = IF CloseScope(s) THEN 1 ELSE 0
<1>1. text \in Seq(Statements) /\ reported \subseteq DOMAIN text
  BY DEF Shapes
<1>2. Len(text) + 1 \notin reported
  <2>1. Len(text) \in Nat /\ DOMAIN text = 1 .. Len(text)
    BY <1>1
  <2> QED
    BY <1>1, <2>1
<1>3. CASE Refused(s)
  <2>1. s.op \in {"declare", "assign"} /\ Write(s) /\ reported' = reported \cup {Len(text) + 1}
    BY <1>3 DEF Refused, Refuse
  <2>2. ~Declared(s)
    BY <1>2, <2>1 DEF Declared, Accept
  <2> QED
    BY <2>1, <2>2 DEF Continued, Registers, Opens, Closes, OpenScope, CloseScope
<1>4. CASE ~Refused(s)
  <2>1. Write(s) /\ reported' = reported
    BY <1>4 DEF StatementStep, Declared, Assigned, OpenScope, CloseScope, NextModule, Accept
  <2>2. /\ Declared(s) <=> s.op = "declare"
        /\ OpenScope(s) <=> s.op \in {"scope", "while"}
        /\ CloseScope(s) <=> s.op = "close"
    BY <1>4 DEF StatementStep, Declared, Assigned, OpenScope, CloseScope, NextModule
  <2> QED
    BY <1>2, <2>1, <2>2 DEF Continued, Registers, Opens, Closes
<1> QED
  BY <1>3, <1>4

(* The tables grow and shrink as the text says.                             *)
LEMMA TextCountedKept ==
  ASSUME Shapes, IdsKnown, JumpsAimed, TextCounted, Shapes', Steps
  PROVE  TextCounted'
<1> USE DEF pseudo, byte
<1>1. ASSUME NEW s \in Statements, StatementStep(s)
      PROVE  TextCounted'
  <2>1. /\ Continued(s)
        /\ Registers(s) = IF Declared(s) THEN 1 ELSE 0
        /\ Opens(s) = IF OpenScope(s) THEN 1 ELSE 0
        /\ Closes(s) = IF CloseScope(s) THEN 1 ELSE 0
    BY <1>1, StatementsContinue
  <2>2. Len(whiles) \in Nat /\ Len(variables_descriptions) \in Nat
    <3>1. whiles \in Seq(Nat) /\ variables_descriptions \in Seq(Descriptions)
      BY DEF Shapes
    <3> QED
      BY <3>1
  <2>3. Len(whiles') = Len(whiles) + Opens(s) - Closes(s)
    <3>1. CASE OpenScope(s)
      <4>1. ~CloseScope(s)
        BY <3>1 DEF OpenScope, CloseScope
      <4>2. Len(whiles') = Len(whiles) + 1
        BY <3>1, ScopeOpened
      <4> QED
        BY <2>1, <2>2, <3>1, <4>1, <4>2
    <3>2. CASE CloseScope(s)
      <4>1. ~OpenScope(s)
        BY <3>2 DEF OpenScope, CloseScope
      <4>2. Len(whiles') = Len(whiles) - 1
        BY <3>2, ScopeClosed
      <4> QED
        BY <2>1, <2>2, <3>2, <4>1, <4>2
    <3>3. CASE ~OpenScope(s) /\ ~CloseScope(s)
      <4>1. whiles' = whiles
        BY <1>1, <3>3 DEF StatementStep, Refused, Refuse, Declared, Assigned, NextModule
      <4> QED
        BY <2>1, <2>2, <3>3, <4>1
    <3> QED
      BY <3>1, <3>2, <3>3
  <2>4. Len(variables_descriptions') = Len(variables_descriptions) + Registers(s)
    <3>1. CASE Declared(s)
      <4>1. Len(variables_descriptions') = Len(variables_descriptions) + 1
        BY <3>1, DeclaredMakes
      <4> QED
        BY <2>1, <3>1, <4>1
    <3>2. CASE ~Declared(s)
      <4>1. variables_descriptions' = variables_descriptions
        BY <1>1, <3>2
           DEF StatementStep, Refused, Refuse, Assigned, OpenScope, CloseScope, NextModule
      <4> QED
        BY <2>1, <2>2, <3>2, <4>1
    <3> QED
      BY <3>1, <3>2
  <2> QED
    BY <2>1, <2>3, <2>4, TextCountedNext
<1>2. CASE Link \/ Executes \/ UNCHANGED vars
  <2>1. UNCHANGED <<text, reported, whiles, variables_descriptions>>
    BY <1>2 DEF Link, Executes, vars
  <2>2. /\ \A i : Scopes!Depth(i)' = Scopes!Depth(i)
        /\ \A j : IdOf(j)' = IdOf(j)
    BY <2>1, SameCardinality DEF Scopes!Depth, IdOf, Scopes!Opening
  <2> QED
    BY <2>1, <2>2 DEF TextCounted, Registered
<1> QED
  BY <1>1, <1>2 DEF Steps, StatementStep

-----------------------------------------------------------------------------
(* Frames follow one another, and variables lie in them.                   *)

(* Frames as numbers.                                                       *)
LEMMA FramesTyped ==
  ASSUME Shapes
  PROVE  /\ Len(frame_stack) \in Nat \ {0} /\ DOMAIN frame_stack = 1 .. Len(frame_stack)
         /\ Len(frame_stack) = Len(whiles) + 1 /\ Len(whiles) \in Nat
         /\ \A i \in 1 .. Len(frame_stack) :
              /\ frame_stack[i].start_address \in Nat /\ frame_stack[i].size \in Nat
              /\ FrameEnd(i) \in Nat /\ frame_stack[i].start_address <= FrameEnd(i)
<1>1. /\ frame_stack \in Seq([start_address : Nat, size : Nat])
      /\ Len(frame_stack) = Len(whiles) + 1 /\ whiles \in Seq(Nat)
  BY DEF Shapes
<1>2. Len(whiles) \in Nat
  BY <1>1
<1>3. \A i \in 1 .. Len(frame_stack) :
        frame_stack[i].start_address \in Nat /\ frame_stack[i].size \in Nat
  <2> TAKE i \in 1 .. Len(frame_stack)
  <2> DEFINE S == [start_address : Nat, size : Nat]
  <2>1. frame_stack \in Seq(S)
    BY <1>1
  <2> HIDE DEF S
  <2>2. frame_stack[i] \in S
    BY <2>1
  <2>3. frame_stack[i] \in [start_address : Nat, size : Nat]
    BY <2>2 DEF S
  <2> QED
    BY <2>3
<1>4. \A i \in 1 .. Len(frame_stack) :
        FrameEnd(i) \in Nat /\ frame_stack[i].start_address <= FrameEnd(i)
  BY <1>3 DEF FrameEnd
<1> QED
  BY <1>1, <1>2, <1>3, <1>4

(* A scope's frame begins where the one around it ended.                    *)
LEMMA FramesInOrderKept ==
  ASSUME Shapes, IdsKnown, JumpsAimed, FramesInOrder, Shapes', Steps
  PROVE  FramesInOrder'
<1> USE DEF pseudo, byte
<1>0. current_module_id \in Nat /\ Len(stack_size) \in Nat /\ running \in BOOLEAN
  BY DEF Shapes
<1>1. ASSUME UNCHANGED <<frame_stack, stack_size, running, current_module_id>>
      PROVE  FramesInOrder'
  BY <1>1 DEF FramesInOrder, FrameEnd
<1>2. ASSUME NEW s \in Statements, Refused(s) \/ Assigned(s)
      PROVE  FramesInOrder'
  BY <1>1, <1>2 DEF Refused, Refuse, Assigned, Accept, Write, linked
<1>3. ASSUME NEW s \in Statements, Declared(s)
      PROVE  FramesInOrder'
  <2> DEFINE d == Len(frame_stack)
  <2>1. /\ s.size \in Nat /\ UNCHANGED <<stack_size, running, current_module_id>>
        /\ frame_stack' = [frame_stack EXCEPT ![Len(frame_stack)].size = @ + s.size]
    BY <1>3, StatementKnown DEF Declared, Accept, Write, linked
  <2>2. /\ Len(frame_stack') = d
        /\ \A i \in 1 .. d :
              /\ frame_stack'[i].start_address = frame_stack[i].start_address
              /\ frame_stack'[i].size =
                   frame_stack[i].size + (IF i = d THEN s.size ELSE 0)
    BY <2>1, FrameGrown
  <2>3. /\ d \in Nat \ {0} /\ DOMAIN frame_stack = 1 .. d
        /\ \A i \in 1 .. d : frame_stack[i].size \in Nat
    BY FramesTyped
  <2>4. DOMAIN frame_stack' = 1 .. d
    <3>1. frame_stack' \in Seq([start_address : Nat, size : Nat])
      BY DEF Shapes
    <3> QED
      BY <2>2, <3>1
  <2> HIDE DEF d
  <2>5. ASSUME NEW a \in DOMAIN frame_stack', NEW b \in DOMAIN frame_stack', a < b
        PROVE  FrameEnd(a)' <= frame_stack'[b].start_address
    <3>1. a \in 1 .. d /\ b \in 1 .. d /\ a # d
      BY <2>3, <2>4, <2>5
    <3>2. frame_stack'[a].size = frame_stack[a].size
      BY <2>2, <2>3, <3>1
    <3>3. FrameEnd(a)' = FrameEnd(a)
      BY <2>2, <3>1, <3>2 DEF FrameEnd
    <3>4. FrameEnd(a) <= frame_stack[b].start_address
      BY <2>3, <2>5, <3>1 DEF FramesInOrder
    <3> QED
      BY <2>2, <3>1, <3>3, <3>4
  <2>6. frame_stack'[1].start_address = 0
    BY <2>2, <2>3 DEF FramesInOrder
  <2> QED
    BY <2>1, <2>5, <2>6 DEF FramesInOrder
<1>4. ASSUME NEW s \in Statements, OpenScope(s)
      PROVE  FramesInOrder'
  <2> DEFINE d == Len(frame_stack)
             f == Frame(NextFreeAddress)
  <2>1. UNCHANGED <<stack_size, running, current_module_id>>
    BY <1>4 DEF OpenScope, Accept, Write, linked
  <2>2. /\ Len(frame_stack') = d + 1 /\ frame_stack'[d + 1] = f
        /\ \A i \in 1 .. d : frame_stack'[i] = frame_stack[i]
    BY <1>4, ScopeOpened
  <2>3. /\ d \in Nat \ {0} /\ DOMAIN frame_stack = 1 .. d
        /\ \A i \in 1 .. d : FrameEnd(i) \in Nat /\ frame_stack[i].start_address \in Nat
              /\ frame_stack[i].start_address <= FrameEnd(i)
    BY FramesTyped
  <2>4. f.start_address = FrameEnd(d)
    BY NextFreeIs DEF Frame
  <2>5. DOMAIN frame_stack' = 1 .. d + 1
    <3>1. frame_stack' \in Seq([start_address : Nat, size : Nat])
      BY <1>4, ScopeOpened
    <3> QED
      BY <2>2, <3>1
  <2> HIDE DEF d, f
  <2>6. ASSUME NEW a \in DOMAIN frame_stack', NEW b \in DOMAIN frame_stack', a < b
        PROVE  FrameEnd(a)' <= frame_stack'[b].start_address
    <3>1. a \in 1 .. d
      BY <2>3, <2>5, <2>6
    <3>2. FrameEnd(a)' = FrameEnd(a)
      BY <2>2, <3>1 DEF FrameEnd
    <3>3. CASE b \in 1 .. d
      <4>1. FrameEnd(a) <= frame_stack[b].start_address
        BY <2>3, <2>6, <3>1, <3>3 DEF FramesInOrder
      <4> QED
        BY <2>2, <3>2, <3>3, <4>1
    <3>4. CASE b \notin 1 .. d
      <4>1. b = d + 1
        BY <2>3, <2>5, <2>6, <3>4
      <4>2. FrameEnd(a) <= FrameEnd(d)
        <5>1. CASE a = d
          BY <2>3, <5>1
        <5>2. CASE a # d
          <6>1. d \in 1 .. d /\ a < d
            BY <2>3, <3>1, <5>2
          <6>2. FrameEnd(a) <= frame_stack[d].start_address
            BY <2>3, <3>1, <6>1 DEF FramesInOrder
          <6>3. /\ FrameEnd(a) \in Nat /\ FrameEnd(d) \in Nat
                /\ frame_stack[d].start_address \in Nat
                /\ frame_stack[d].start_address <= FrameEnd(d)
            BY <2>3, <3>1, <6>1
          <6> QED
            BY <6>2, <6>3
        <5> QED
          BY <5>1, <5>2
      <4> QED
        BY <2>2, <2>4, <3>2, <4>1, <4>2
    <3> QED
      BY <3>3, <3>4
  <2>7. frame_stack'[1].start_address = 0
    <3>1. 1 \in 1 .. d
      BY <2>3
    <3> QED
      BY <2>2, <3>1 DEF FramesInOrder
  <2> QED
    BY <2>1, <2>6, <2>7 DEF FramesInOrder
<1>5. ASSUME NEW s \in Statements, CloseScope(s)
      PROVE  FramesInOrder'
  <2> DEFINE d == Len(frame_stack)
  <2>1. UNCHANGED <<stack_size, running, current_module_id>>
    BY <1>5 DEF CloseScope, Accept, Write, linked
  <2>2. /\ Len(frame_stack') = d - 1 /\ Len(whiles) \in Nat \ {0}
        /\ \A i \in 1 .. d - 1 : frame_stack'[i] = frame_stack[i]
    BY <1>5, ScopeClosed
  <2>3. /\ d \in Nat \ {0} /\ DOMAIN frame_stack = 1 .. d /\ d = Len(whiles) + 1
    BY FramesTyped
  <2>4. DOMAIN frame_stack' = 1 .. d - 1
    BY <2>2 DEF Shapes
  <2> HIDE DEF d
  <2>5. 1 \in 1 .. d - 1 /\ \A i \in 1 .. d - 1 : i \in 1 .. d
    BY <2>2, <2>3
  <2>6. \A i \in 1 .. d - 1 : FrameEnd(i)' = FrameEnd(i)
    BY <2>2 DEF FrameEnd
  <2> QED
    BY <2>1, <2>2, <2>3, <2>4, <2>5, <2>6 DEF FramesInOrder
<1>6. ASSUME NEW s \in Statements, NextModule(s)
      PROVE  FramesInOrder'
  <2>1. /\ frame_stack' = << Frame(0) >> /\ running' = running /\ ~running
        /\ stack_size' = Packed /\ current_module_id' = current_module_id + 1
    BY <1>6 DEF NextModule, Write, linked
  <2>2. frame_stack'[1].start_address = 0 /\ DOMAIN frame_stack' = {1}
    BY <2>1 DEF Frame
  <2>3. Len(stack_size') = current_module_id' - 1
    BY <1>0, <2>1, PackedIs DEF FramesInOrder
  <2>4. \A a, b \in DOMAIN frame_stack' : ~(a < b)
    BY <2>2
  <2> QED
    BY <2>1, <2>2, <2>3, <2>4 DEF FramesInOrder
<1>7. CASE Link
  <2>1. /\ frame_stack' = frame_stack /\ running' = TRUE /\ ~running
        /\ stack_size' = Packed /\ current_module_id' = current_module_id
    BY <1>7 DEF Link
  <2>2. Len(stack_size') = current_module_id'
    BY <1>0, <2>1, PackedIs DEF FramesInOrder
  <2> QED
    BY <2>1, <2>2 DEF FramesInOrder, FrameEnd
<1>8. CASE Executes \/ UNCHANGED vars
  BY <1>1, <1>8 DEF Executes, vars, linked
<1> QED
  BY <1>2, <1>3, <1>4, <1>5, <1>6, <1>7, <1>8 DEF Steps

(* An inner frame does not end before an outer one.                         *)
LEMMA FramesMonotone ==
  ASSUME Shapes, FramesInOrder, NEW a \in 1 .. Len(frame_stack), NEW b \in a .. Len(frame_stack)
  PROVE  FrameEnd(a) <= FrameEnd(b)
<1> DEFINE d == Len(frame_stack)
<1>1. /\ d \in Nat \ {0} /\ DOMAIN frame_stack = 1 .. d
      /\ \A i \in 1 .. d : FrameEnd(i) \in Nat /\ frame_stack[i].start_address \in Nat
            /\ frame_stack[i].start_address <= FrameEnd(i)
  BY FramesTyped
<1> HIDE DEF d
<1>2. a \in 1 .. d /\ b \in 1 .. d
  BY <1>1 DEF d
<1>3. /\ FrameEnd(a) \in Nat /\ FrameEnd(b) \in Nat /\ frame_stack[b].start_address \in Nat
      /\ frame_stack[b].start_address <= FrameEnd(b)
  BY <1>1, <1>2
<1>4. CASE a = b
  BY <1>3, <1>4
<1>5. CASE a # b
  <2>1. a < b
    BY <1>1, <1>2, <1>5 DEF d
  <2>2. FrameEnd(a) <= frame_stack[b].start_address
    BY <1>1, <1>2, <2>1 DEF FramesInOrder
  <2> QED
    BY <1>3, <2>2
<1> QED
  BY <1>4, <1>5

(* Frames of scopes that stay open only grow. *)
LEMMA FramesGrow ==
  ASSUME Shapes, IdsKnown, JumpsAimed, NEW s \in Statements, StatementStep(s), ~NextModule(s),
         NEW k \in 1 .. Len(frame_stack), k <= Len(frame_stack')
  PROVE  FrameEnd(k) <= FrameEnd(k)'
<1> USE DEF pseudo, byte
<1> DEFINE d == Len(frame_stack)
<1>1. /\ d \in Nat \ {0} /\ k \in 1 .. d /\ FrameEnd(k) \in Nat
      /\ frame_stack[k].start_address \in Nat /\ frame_stack[k].size \in Nat
  BY FramesTyped
<1>2. CASE Declared(s)
  <2>1. /\ s.size \in Nat
        /\ frame_stack' = [frame_stack EXCEPT ![Len(frame_stack)].size = @ + s.size]
    BY <1>2, StatementKnown DEF Declared
  <2>2. /\ frame_stack'[k].start_address = frame_stack[k].start_address
        /\ frame_stack'[k].size = frame_stack[k].size + (IF k = d THEN s.size ELSE 0)
    BY <2>1, FrameGrown
  <2>3. (IF k = d THEN s.size ELSE 0) \in Nat
    BY <2>1
  <2> QED
    BY <1>1, <2>2, <2>3 DEF FrameEnd
<1>3. CASE OpenScope(s)
  <2>1. frame_stack'[k] = frame_stack[k]
    BY <1>3, ScopeOpened
  <2> QED
    BY <1>1, <2>1 DEF FrameEnd
<1>4. CASE CloseScope(s)
  <2>1. /\ Len(frame_stack') = d - 1
        /\ \A i \in 1 .. d - 1 : frame_stack'[i] = frame_stack[i]
    BY <1>4, ScopeClosed
  <2> HIDE DEF d
  <2>2. k \in 1 .. d - 1
    BY <1>1, <2>1
  <2>3. frame_stack'[k] = frame_stack[k]
    BY <2>1, <2>2
  <2> QED
    BY <1>1, <2>3 DEF FrameEnd
<1>5. CASE Refused(s) \/ Assigned(s)
  <2>1. frame_stack' = frame_stack
    BY <1>5 DEF Refused, Refuse, Assigned
  <2> QED
    BY <1>1, <2>1 DEF FrameEnd
<1> QED
  BY <1>2, <1>3, <1>4, <1>5 DEF StatementStep

(* Descriptions as numbers.                                                 *)
LEMMA DescriptionIs ==
  ASSUME Shapes, VariablesInOrder, NEW id \in DOMAIN variables_descriptions
  PROVE  LET v == variables_descriptions[id] IN
         /\ v.module_id \in 1 .. current_module_id /\ v.module_id \in Nat
         /\ v.size \in Nat /\ v.global_stack_offset \in Nat
         /\ v.global_stack_offset + v.size \in Nat
         /\ current_module_id \in Nat
<1>1. variables_descriptions \in Seq(Descriptions) /\ current_module_id \in Nat
  BY DEF Shapes
<1>2. variables_descriptions[id] \in Descriptions
  BY <1>1
<1>3. variables_descriptions[id].module_id <= current_module_id
  BY DEF VariablesInOrder
<1> DEFINE v == variables_descriptions[id]
<1>4. v \in Descriptions /\ v.module_id <= current_module_id
  BY <1>2, <1>3
<1> HIDE DEF v
<1>5. /\ v.module_id \in 1 .. MaxModules
      /\ v.size \in Nat /\ v.global_stack_offset \in Nat
  BY <1>4 DEF Descriptions
<1>6. v.module_id \in 1 .. current_module_id /\ v.module_id \in Nat
  BY <1>1, <1>4, <1>5, ProgramAssumption
<1> QED
  BY <1>1, <1>5, <1>6 DEF v

(* Descriptions stay as they are. *)
LEMMA DescriptionsKept ==
  ASSUME Shapes, NEW s \in Statements, StatementStep(s), NEW id \in DOMAIN variables_descriptions
  PROVE  variables_descriptions'[id] = variables_descriptions[id]
<1> USE DEF pseudo, byte
<1>1. CASE Declared(s)
  <2>1. \A i \in 1 .. Len(variables_descriptions) :
          variables_descriptions'[i] = variables_descriptions[i]
    BY <1>1, DeclaredMakes
  <2>2. variables_descriptions \in Seq(Descriptions)
    BY DEF Shapes
  <2>3. DOMAIN variables_descriptions = 1 .. Len(variables_descriptions)
    BY <2>2
  <2> QED
    BY <2>1, <2>3
<1>2. CASE ~Declared(s)
  BY <1>2 DEF StatementStep, Refused, Refuse, Assigned, OpenScope, CloseScope, NextModule
<1> QED
  BY <1>1, <1>2

(* So what was said of a variable stays true. *)
LEMMA VarKept ==
  ASSUME Shapes, Shapes', TextCounted, NEW s \in Statements, StatementStep(s),
         NEW j \in 1 .. Len(text), Registered(j)
  PROVE  /\ IdOf(j) \in DOMAIN variables_descriptions
         /\ VarOf(j)' = VarOf(j) /\ VarEnd(j)' = VarEnd(j)
         /\ Scopes!Depth(j)' = Scopes!Depth(j)
<1>1. PICK n : n = Len(text)
  OBVIOUS
<1>2. n \in Nat /\ DOMAIN text = 1 .. n
  <2>1. text \in Seq(Statements)
    BY DEF Shapes
  <2> QED
    BY <1>1, <2>1
<1>3. j \in 0 .. n /\ j \in 1 .. n + 1 /\ j \in 1 .. n
  BY <1>1, <1>2
<1>4. Continued(s)
  BY StatementsContinue
<1>5. IdOf(j)' = IdOf(j) /\ Scopes!Depth(j)' = Scopes!Depth(j)
  BY <1>1, <1>3, <1>4, PastKept
<1>6. IdOf(j) \in DOMAIN variables_descriptions
  BY <1>2, <1>3 DEF TextCounted
<1>7. variables_descriptions'[IdOf(j)] = variables_descriptions[IdOf(j)]
  BY <1>6, DescriptionsKept
<1>8. VarOf(j)' = VarOf(j)
  BY <1>5, <1>7 DEF VarOf
<1> QED
  BY <1>5, <1>6, <1>8 DEF VarEnd

(* The variable that has just been declared. *)
LEMMA VarDeclared ==
  ASSUME Shapes, Shapes', TextCounted, NEW s \in Statements, Declared(s), NEW n, n = Len(text)
  PROVE  /\ IdOf(n + 1)' = Len(variables_descriptions) + 1
         /\ VarOf(n + 1)' =
              [module_id |-> current_module_id, size |-> s.size,
               global_stack_offset |-> NextFreeAddress]
         /\ Scopes!Depth(n + 1)' = Len(whiles)
<1>1. n \in Nat
  BY DEF Shapes
<1>2. Continued(s) /\ Registers(s) = 1
  BY StatementsContinue DEF StatementStep
<1>3. IdOf(n + 1)' = Len(variables_descriptions) + 1
  BY <1>2, NextCounted
<1>4. variables_descriptions'[Len(variables_descriptions) + 1] =
        [module_id |-> current_module_id, size |-> s.size,
         global_stack_offset |-> NextFreeAddress]
  BY DeclaredMakes
<1>5. Scopes!Depth(n + 1)' = Scopes!Depth(n + 1)
  <2>1. n + 1 \in 1 .. n + 1
    BY <1>1
  <2> QED
    BY <1>2, <2>1, PastKept
<1>6. Scopes!Depth(n + 1) = Len(whiles)
  BY DEF TextCounted
<1> QED
  BY <1>3, <1>4, <1>5, <1>6 DEF VarOf

(* A text that stays says what it said. *)
LEMMA TextSame ==
  ASSUME UNCHANGED <<text, reported>>
  PROVE  /\ \A i : Scopes!Depth(i)' = Scopes!Depth(i) /\ Scopes!Live(i)' = Scopes!Live(i)
         /\ \A j : IdOf(j)' = IdOf(j) /\ (Registered(j)' <=> Registered(j))
<1>1. \A i : Scopes!Depth(i)' = Scopes!Depth(i)
  BY SameCardinality DEF Scopes!Depth, Scopes!Opening
<1>2. \A i, j : Scopes!Open(j, i)' <=> Scopes!Open(j, i)
  BY <1>1 DEF Scopes!Open
<1>3. \A i : Scopes!Live(i)' = Scopes!Live(i)
  BY <1>2 DEF Scopes!Live
<1>4. \A j : IdOf(j)' = IdOf(j) /\ (Registered(j)' <=> Registered(j))
  BY DEF IdOf, Registered
<1> QED
  BY <1>1, <1>3, <1>4

(* The stack sizes of modules that are finished stay. *)
LEMMA SizesKept ==
  ASSUME Shapes, FramesInOrder, Steps, NEW m \in 1 .. current_module_id, m < current_module_id
  PROVE  stack_size'[m] = stack_size[m]
<1> USE DEF pseudo, byte
<1>1. current_module_id \in Nat /\ stack_size \in Seq(Nat)
  BY DEF Shapes
<1>2. m \in 1 .. Len(stack_size)
  BY <1>1 DEF FramesInOrder
<1>3. CASE stack_size' = Packed
  BY <1>2, <1>3, PackedIs
<1>4. CASE stack_size' = stack_size
  BY <1>4
<1>5. stack_size' = Packed \/ stack_size' = stack_size
  BY DEF Steps, Refused, Refuse, Declared, Assigned, OpenScope, CloseScope, Accept, NextModule,
     Link, Executes, vars
<1> QED
  BY <1>3, <1>4, <1>5

(* Who stays in scope stays inside a frame that stays.                      *)
LEMMA LiveHousedKept ==
  ASSUME Shapes, IdsKnown, JumpsAimed, VariablesInOrder, TextCounted, FramesInOrder, LiveHoused,
         Shapes', TextCounted', FramesInOrder', Steps
  PROVE  LiveHoused'
<1> USE DEF pseudo, byte
<1>1. ASSUME NEW s \in Statements, StatementStep(s)
      PROVE  LiveHoused'
  <2>1. PICK n : n = Len(text)
    OBVIOUS
  <2>2. Continued(s) /\ Write(s)
    BY <1>1, StatementsContinue DEF Continued
  <2>3. ~running /\ n \in Nat /\ Len(text') = n + 1
    BY <2>1, <2>2, WriteMakes
  <2>4. ASSUME NEW j \in Scopes!Live(n + 2)'
        PROVE  Housed(j)'
    <3>1. CASE j = n + 1 /\ Registers(s) = 1
      <4> DEFINE d == Len(frame_stack)
                 v == [module_id |-> current_module_id, size |-> s.size,
                       global_stack_offset |-> NextFreeAddress]
      <4>1. Declared(s)
        BY <1>1, <3>1, StatementsContinue
      <4>2. VarOf(j)' = v /\ Scopes!Depth(j)' = Len(whiles)
        BY <2>1, <3>1, <4>1, VarDeclared
      <4>3. /\ s.size \in Nat /\ current_module_id' = current_module_id
            /\ frame_stack' = [frame_stack EXCEPT ![Len(frame_stack)].size = @ + s.size]
        BY <4>1, StatementKnown DEF Declared, Accept
      <4>4. d \in Nat \ {0} /\ d = Len(whiles) + 1 /\ FrameEnd(d) = NextFreeAddress
            /\ frame_stack[d].start_address \in Nat /\ frame_stack[d].size \in Nat
        <5>1. /\ d \in Nat \ {0} /\ d = Len(whiles) + 1
              /\ \A i \in 1 .. d :
                   frame_stack[i].start_address \in Nat /\ frame_stack[i].size \in Nat
          BY FramesTyped
        <5>2. FrameEnd(d) = NextFreeAddress
          BY NextFreeIs
        <5> HIDE DEF d
        <5>3. d \in 1 .. d
          BY <5>1
        <5> QED
          BY <5>1, <5>2, <5>3
      <4>5. /\ frame_stack'[d].start_address = frame_stack[d].start_address
            /\ frame_stack'[d].size = frame_stack[d].size + s.size
        BY <4>3, <4>4, FrameGrown
      <4>6. v.module_id = current_module_id /\ VarEnd(j)' = NextFreeAddress + s.size
        BY <4>2 DEF VarEnd
      <4> HIDE DEF d, v
      <4>7. FrameEnd(Scopes!Depth(j) + 1)'
              = frame_stack'[d].start_address + frame_stack'[d].size
        BY <4>2, <4>4 DEF FrameEnd
      <4>8. VarEnd(j)' <= FrameEnd(Scopes!Depth(j) + 1)'
        <5> DEFINE start == frame_stack[d].start_address
                   size == frame_stack[d].size
        <5>1. /\ VarEnd(j)' = NextFreeAddress + s.size /\ NextFreeAddress = start + size
              /\ FrameEnd(Scopes!Depth(j) + 1)' = start + (size + s.size)
              /\ start \in Nat /\ size \in Nat /\ s.size \in Nat
          BY <4>3, <4>4, <4>5, <4>6, <4>7 DEF FrameEnd
        <5> HIDE DEF start, size
        <5> QED
          BY <5>1
      <4> QED
        BY <4>2, <4>3, <4>6, <4>8 DEF Housed
    <3>2. CASE /\ j \in Scopes!Live(n + 1) /\ j \in 1 .. n
               /\ Scopes!Depth(j) <= Len(whiles) + Opens(s) - Closes(s)
      <4>1. n + 1 \in 1 .. Len(text) + 1
        BY <2>1, <2>3
      <4>2. /\ Registered(j) /\ IdOf(j) \in DOMAIN variables_descriptions
            /\ Scopes!Depth(j) \in Nat /\ Scopes!Depth(j) <= Scopes!Depth(n + 1)
        BY <3>2, <4>1, LiveIs
      <4>3. /\ VarOf(j)' = VarOf(j) /\ VarEnd(j)' = VarEnd(j)
            /\ Scopes!Depth(j)' = Scopes!Depth(j)
        BY <1>1, <2>1, <3>2, <4>2, VarKept
      <4>4. Scopes!Depth(j) <= Len(whiles) /\ Len(whiles) \in Nat
        <5>1. Scopes!Depth(n + 1) = Len(whiles)
          BY <2>1 DEF TextCounted
        <5>2. whiles \in Seq(Nat)
          BY DEF Shapes
        <5> QED
          BY <4>2, <5>1, <5>2
      <4>5. Housed(j)
        BY <2>1, <2>3, <3>2 DEF LiveHoused
      <4>6. /\ VarOf(j).module_id \in 1 .. current_module_id /\ VarOf(j).module_id \in Nat
            /\ VarEnd(j) \in Nat /\ current_module_id \in Nat
        BY <4>2, DescriptionIs DEF VarOf, VarEnd
      <4> DEFINE m == VarOf(j).module_id
                 k == Scopes!Depth(j) + 1
      <4>7. m # current_module_id => stack_size'[m] = stack_size[m]
        <5>1. Steps
          OBVIOUS
        <5>2. m # current_module_id => m \in 1 .. current_module_id /\ m < current_module_id
          BY <4>6
        <5> QED
          BY <5>1, <5>2, SizesKept
      <4>8. CASE NextModule(s)
        <5>1. /\ current_module_id' = current_module_id + 1 /\ whiles = << >>
              /\ stack_size' = Packed
          BY <4>8 DEF NextModule
        <5>2. Scopes!Depth(j) = 0 /\ k = 1 /\ Len(frame_stack) = 1
          <6>1. Len(whiles) = 0
            BY <5>1
          <6>2. Len(frame_stack) = Len(whiles) + 1
            BY DEF Shapes
          <6> QED
            BY <4>2, <4>4, <6>1, <6>2
        <5>3. CASE m = current_module_id
          <6>1. VarEnd(j) <= FrameEnd(1)
            BY <4>5, <5>2, <5>3 DEF Housed
          <6>2. FrameEnd(1) = frame_stack[1].size
            BY <5>2, FramesTyped DEF FramesInOrder, FrameEnd
          <6>3. Len(stack_size) + 1 = current_module_id
            BY <2>3, <4>6 DEF FramesInOrder
          <6>4. stack_size'[current_module_id] = frame_stack[1].size
            BY <5>1, <5>2, <6>3, PackedIs
          <6>5. VarEnd(j) <= stack_size'[m]
            BY <5>3, <6>1, <6>2, <6>4
          <6> QED
            BY <4>3, <4>6, <5>1, <5>3, <6>5 DEF Housed
        <5>4. CASE m # current_module_id
          <6>1. VarEnd(j) <= stack_size'[m]
            BY <4>5, <4>7, <5>4 DEF Housed
          <6>2. m # current_module_id'
            BY <4>6, <5>1
          <6> QED
            BY <4>3, <6>1, <6>2 DEF Housed
        <5> QED
          BY <5>3, <5>4
      <4>9. CASE ~NextModule(s)
        <5>1. current_module_id' = current_module_id
          BY <1>1, <4>9
             DEF StatementStep, Refused, Refuse, Declared, Assigned, OpenScope, CloseScope, Accept
        <5>2. CASE m = current_module_id
          <6>1. VarEnd(j) <= FrameEnd(k)
            BY <4>5, <5>2 DEF Housed
          <6>2. Len(frame_stack) = Len(whiles) + 1 /\ Len(frame_stack') = Len(whiles') + 1
                /\ Len(whiles') \in Nat
            BY DEF Shapes
          <6>3. Scopes!Depth(n + 2)' = Len(whiles) + Opens(s) - Closes(s)
            BY <2>1, <2>2, NextCounted
          <6>4. Len(text') + 1 = n + 2
            BY <2>3
          <6>5. Len(whiles') = Len(whiles) + Opens(s) - Closes(s)
            BY <6>3, <6>4 DEF TextCounted
          <6>6. k \in 1 .. Len(frame_stack) /\ k <= Len(frame_stack')
            BY <3>2, <4>2, <4>4, <6>2, <6>5
          <6>7. FrameEnd(k) <= FrameEnd(k)'
            <7>1. PICK l : l = k
              OBVIOUS
            <7>2. FrameEnd(l) <= FrameEnd(l)'
              BY <1>1, <4>9, <6>6, <7>1, FramesGrow
            <7>3. k' = l
              BY <4>3, <7>1
            <7>4. FrameEnd(k)' = FrameEnd(l)'
              BY <7>3 DEF FrameEnd
            <7> QED
              BY <7>1, <7>2, <7>4
          <6>8. VarEnd(j) <= FrameEnd(k)'
            <7>1. k' = k
              BY <4>3
            <7>2. FrameEnd(k) \in Nat /\ FrameEnd(k)' \in Nat
              <8>1. k \in Nat \ {0} /\ k \in 1 .. Len(frame_stack) /\ k \in 1 .. Len(frame_stack')
                BY <6>2, <6>6
              <8>2. frame_stack[k] \in [start_address : Nat, size : Nat]
                    /\ frame_stack'[k] \in [start_address : Nat, size : Nat]
                <9> DEFINE S == [start_address : Nat, size : Nat]
                <9>1. frame_stack \in Seq(S) /\ frame_stack' \in Seq(S)
                  BY DEF Shapes
                <9> HIDE DEF S
                <9>2. frame_stack[k] \in S /\ frame_stack'[k] \in S
                  BY <8>1, <9>1
                <9> QED
                  BY <9>2 DEF S
              <8> QED
                BY <7>1, <8>2 DEF FrameEnd
            <7> QED
              BY <4>6, <6>1, <6>7, <7>2
          <6>9. VarEnd(j)' <= FrameEnd(Scopes!Depth(j) + 1)'
            BY <4>3, <6>8
          <6> QED
            BY <4>3, <5>1, <5>2, <6>9 DEF Housed
        <5>3. CASE m # current_module_id
          <6>1. VarEnd(j) <= stack_size'[m]
            BY <4>5, <4>7, <5>3 DEF Housed
          <6> QED
            BY <4>3, <5>1, <5>3, <6>1 DEF Housed
        <5> QED
          BY <5>2, <5>3
      <4> QED
        BY <4>8, <4>9
    <3> QED
      BY <2>1, <2>2, <2>4, <3>1, <3>2, LiveNext
  <2>5. Len(text') + 1 = n + 2
    BY <2>3
  <2> QED
    BY <2>4, <2>5 DEF LiveHoused
<1>2. CASE Link \/ Executes
  <2>1. running'
    BY <1>2 DEF Link, Executes, linked
  <2> QED
    BY <2>1 DEF LiveHoused
<1>3. CASE UNCHANGED vars
  <2>1. /\ UNCHANGED <<text, reported, variables_descriptions, frame_stack, stack_size>>
        /\ running' = running /\ current_module_id' = current_module_id
    BY <1>3 DEF vars, linked
  <2>2. /\ \A i : Scopes!Depth(i)' = Scopes!Depth(i) /\ Scopes!Live(i)' = Scopes!Live(i)
        /\ \A j : IdOf(j)' = IdOf(j)
    BY <2>1, TextSame
  <2>3. \A j : VarOf(j)' = VarOf(j) /\ VarEnd(j)' = VarEnd(j)
    BY <2>1, <2>2 DEF VarOf, VarEnd
  <2>4. \A j : Housed(j)' <=> Housed(j)
    BY <2>1, <2>2, <2>3 DEF Housed, FrameEnd
  <2> QED
    BY <2>1, <2>2, <2>4 DEF LiveHoused
<1> QED
  BY <1>1, <1>2, <1>3 DEF Steps, StatementStep

(* A new variable begins where the innermost frame ends.                    *)
LEMMA DeclaredBehindKept ==
  ASSUME Shapes, IdsKnown, JumpsAimed, VariablesInOrder, TextCounted, FramesInOrder, LiveHoused,
         DeclaredBehind, Shapes', Steps
  PROVE  DeclaredBehind'
<1> USE DEF pseudo, byte
<1>0. text \in Seq(Statements) /\ DOMAIN text = 1 .. Len(text) /\ Len(text) \in Nat
  BY DEF Shapes
<1>1. ASSUME NEW i \in 1 .. Len(text), NEW j \in 1 .. Len(text), Behind(i, j),
             VarOf(i)' = VarOf(i), VarEnd(i)' = VarEnd(i), VarOf(j)' = VarOf(j),
             Registered(i), Registered(j)
      PROVE  Behind(i, j)'
  <2> DEFINE m == VarOf(i).module_id
  <2>1. IdOf(i) \in DOMAIN variables_descriptions /\ IdOf(j) \in DOMAIN variables_descriptions
    BY <1>0, <1>1 DEF TextCounted
  <2>2. /\ m \in 1 .. current_module_id /\ current_module_id \in Nat
        /\ VarOf(j).module_id \in 1 .. current_module_id
    BY <2>1, DescriptionIs DEF VarOf
  <2>3. CASE m = VarOf(j).module_id
    BY <1>1, <2>3 DEF Behind
  <2>4. CASE m # VarOf(j).module_id
    <3>1. m < VarOf(j).module_id /\ VarEnd(i) <= stack_size[m]
      BY <1>1, <2>4 DEF Behind
    <3>2. m < current_module_id
      BY <2>2, <3>1
    <3>3. stack_size'[m] = stack_size[m]
      BY <2>2, <3>2, SizesKept
    <3> QED
      BY <1>1, <2>4, <3>1, <3>3 DEF Behind
  <2> QED
    BY <2>3, <2>4
<1>2. ASSUME NEW s \in Statements, StatementStep(s)
      PROVE  DeclaredBehind'
  <2>1. PICK n : n = Len(text)
    OBVIOUS
  <2>2. Continued(s) /\ Write(s)
    BY <1>2, StatementsContinue DEF Continued
  <2>3. ~running /\ n \in Nat /\ DOMAIN text' = 1 .. n + 1 /\ text'[n + 1] = s
    BY <2>1, <2>2, WriteMakes
  <2>4. ASSUME NEW j \in 1 .. n + 1, Registered(j)', NEW i \in Scopes!Live(j)'
        PROVE  Behind(i, j)'
    <3>1. i \in Scopes!Live(j)
      BY <2>1, <2>2, <2>4, PastKept
    <3>2. j \in 1 .. Len(text) + 1
      BY <2>1, <2>4
    <3>3. /\ i \in 1 .. Len(text) /\ Registered(i) /\ IdOf(i) \in DOMAIN variables_descriptions
          /\ Scopes!Depth(i) \in Nat /\ Scopes!Depth(i) <= Scopes!Depth(j)
      BY <3>1, <3>2, LiveIs
    <3>4. VarOf(i)' = VarOf(i) /\ VarEnd(i)' = VarEnd(i)
      BY <1>2, <3>3, VarKept
    <3>5. CASE j # n + 1
      <4>1. j \in 1 .. Len(text)
        BY <2>1, <2>3, <2>4, <3>5
      <4>2. Registered(j)
        BY <2>2, <2>4, <4>1, PastKept
      <4>3. VarOf(j)' = VarOf(j)
        BY <1>2, <4>1, <4>2, VarKept
      <4>4. Behind(i, j)
        BY <1>0, <3>1, <4>1, <4>2 DEF DeclaredBehind
      <4> QED
        BY <1>1, <3>3, <3>4, <4>1, <4>2, <4>3, <4>4
    <3>6. CASE j = n + 1
      <4> DEFINE v == [module_id |-> current_module_id, size |-> s.size,
                       global_stack_offset |-> NextFreeAddress]
                 m == VarOf(i).module_id
      <4>1. Registers(s) = 1
        BY <2>1, <2>3, <2>4, <3>6 DEF Registers, Registered
      <4>2. Declared(s)
        BY <1>2, <4>1, StatementsContinue
      <4>3. VarOf(j)' = v
        BY <2>1, <3>6, <4>2, VarDeclared
      <4>4. v.module_id = current_module_id /\ v.global_stack_offset = NextFreeAddress
        OBVIOUS
      <4> HIDE DEF v
      <4>5. Housed(i)
        BY <2>1, <2>3, <3>1, <3>6 DEF LiveHoused
      <4>6. /\ m \in 1 .. current_module_id /\ m \in Nat /\ VarEnd(i) \in Nat
            /\ current_module_id \in Nat
        BY <3>3, DescriptionIs DEF VarOf, VarEnd
      <4>7. CASE m = current_module_id
        <5> DEFINE k == Scopes!Depth(i) + 1
                   d == Len(frame_stack)
        <5>1. VarEnd(i) <= FrameEnd(k)
          BY <4>5, <4>7 DEF Housed
        <5>2. Scopes!Depth(j) = Len(whiles)
          BY <2>1, <3>6 DEF TextCounted
        <5>3. /\ d \in Nat \ {0} /\ d = Len(whiles) + 1
              /\ \A l \in 1 .. d : FrameEnd(l) \in Nat
          BY FramesTyped
        <5>4. FrameEnd(d) = NextFreeAddress
          BY NextFreeIs
        <5>5. k \in 1 .. d /\ d \in k .. d /\ d \in 1 .. d
          <6> HIDE DEF d
          <6> QED
            BY <3>3, <5>2, <5>3
        <5>6. FrameEnd(k) <= FrameEnd(d)
          BY <5>5, FramesMonotone
        <5>7. FrameEnd(k) \in Nat /\ FrameEnd(d) \in Nat
          <6> HIDE DEF d, k
          <6> QED
            BY <5>3, <5>5
        <5>8. VarEnd(i) <= NextFreeAddress
          <6> HIDE DEF d, k
          <6> QED
            BY <4>6, <5>1, <5>4, <5>6, <5>7
        <5> QED
          BY <3>4, <4>3, <4>4, <4>7, <5>8 DEF Behind
      <4>8. CASE m # current_module_id
        <5>1. VarEnd(i) <= stack_size[m] /\ m < current_module_id
          BY <4>5, <4>6, <4>8 DEF Housed
        <5>2. stack_size'[m] = stack_size[m]
          <6>1. Steps
            OBVIOUS
          <6> QED
            BY <4>6, <5>1, <6>1, SizesKept
        <5> QED
          BY <3>4, <4>3, <4>4, <4>8, <5>1, <5>2 DEF Behind
      <4> QED
        BY <4>7, <4>8
    <3> QED
      BY <3>5, <3>6
  <2> QED
    BY <2>3, <2>4 DEF DeclaredBehind
<1>3. CASE Link \/ Executes \/ UNCHANGED vars
  <2>1. UNCHANGED <<text, reported, variables_descriptions>>
    BY <1>3 DEF Link, Executes, vars
  <2>2. /\ \A i : Scopes!Live(i)' = Scopes!Live(i)
        /\ \A j : IdOf(j)' = IdOf(j) /\ (Registered(j)' <=> Registered(j))
    BY <2>1, TextSame
  <2>3. \A j : VarOf(j)' = VarOf(j) /\ VarEnd(j)' = VarEnd(j)
    BY <2>1, <2>2 DEF VarOf, VarEnd
  <2>4. ASSUME NEW j \in 1 .. Len(text), Registered(j), NEW i \in Scopes!Live(j)
        PROVE  Behind(i, j)'
    <3>1. j \in 1 .. Len(text) + 1
      BY <1>0
    <3>2. i \in 1 .. Len(text) /\ Registered(i)
      BY <3>1, LiveIs
    <3>3. Behind(i, j)
      BY <1>0, <2>4 DEF DeclaredBehind
    <3> QED
      BY <1>1, <2>3, <2>4, <3>2, <3>3
  <2> QED
    BY <1>0, <2>1, <2>2, <2>4 DEF DeclaredBehind
<1> QED
  BY <1>2, <1>3 DEF Steps, StatementStep

-----------------------------------------------------------------------------
(* Offsets of modules.                                                     *)

(* What the definition of OffsetOfModule says of module m, given the       *)
(* offsets before it.                                                      *)
NextOffset(offsets, m) ==
  IF m <= 1 THEN RodSize ELSE offsets[m - 1] + Packed[m - 1]

(* h is the table of the first n of them. *)
IsTable(h, n) == h = [m \in 0 .. n |-> NextOffset(h, m)]

(* Offsets can be worked out for any number of modules.                     *)
LEMMA TablesExist == \A n \in Nat : \E h : IsTable(h, n)
<1> DEFINE T == {n \in Nat : ~\E h : IsTable(h, n)}
<1> SUFFICES ASSUME T # {}
             PROVE  FALSE
  OBVIOUS
<1>1. PICK n \in T : \A m \in T : n <= m
  BY LeastNatural
<1>2. CASE n = 0
  <2> DEFINE h == [m \in 0 .. 0 |-> RodSize]
  <2>1. IsTable(h, 0)
    BY DEF IsTable, NextOffset
  <2> QED
    BY <1>2, <2>1
<1>3. CASE n # 0
  <2>1. n \in Nat /\ n - 1 \in Nat /\ n - 1 \notin T
    BY <1>1, <1>3
  <2>2. PICK h : IsTable(h, n - 1)
    BY <2>1
  <2> DEFINE k == [m \in 0 .. n |-> IF m = n THEN NextOffset(h, n) ELSE h[m]]
  <2>3. ASSUME NEW m \in 0 .. n
        PROVE  k[m] = NextOffset(k, m)
    <3>1. CASE m <= 1 /\ m # n
      BY <2>1, <2>2, <3>1 DEF IsTable, NextOffset
    <3>2. CASE m <= 1 /\ m = n
      BY <3>2 DEF NextOffset
    <3>3. CASE ~(m <= 1)
      <4>1. m - 1 \in 0 .. n - 1 /\ m - 1 # n /\ m - 1 \in 0 .. n
        BY <2>1, <3>3
      <4>2. k[m - 1] = h[m - 1]
        BY <4>1
      <4>3. k[m] = NextOffset(h, m)
        <5>1. CASE m = n
          BY <5>1
        <5>2. CASE m # n
          <6>1. m \in 0 .. n - 1
            BY <2>1, <5>2
          <6> QED
            BY <2>2, <5>2, <6>1 DEF IsTable
        <5> QED
          BY <5>1, <5>2
      <4> QED
        BY <4>2, <4>3, Zenon DEF NextOffset
    <3> QED
      BY <2>1, <3>1, <3>2, <3>3
  <2> DEFINE l == [m \in 0 .. n |-> NextOffset(k, m)]
  <2>4. k = l
    <3>1. DOMAIN k = 0 .. n /\ DOMAIN l = 0 .. n /\ \A m \in 0 .. n : k[m] = l[m]
      BY <2>3
    <3> QED
      BY <3>1, Zenon
  <2>5. IsTable(k, n)
    BY <2>4 DEF IsTable
  <2> QED
    BY <2>1, <2>5
<1> QED
  BY <1>2, <1>3

(* Two tables say the same of the modules both have. *)
LEMMA TablesAgree ==
  ASSUME NEW m \in Nat, NEW n \in Nat, NEW h, NEW k, IsTable(h, m), IsTable(k, n)
  PROVE  \A i \in Nat : i <= m /\ i <= n => h[i] = k[i]
<1> DEFINE T == {i \in Nat : i <= m /\ i <= n /\ h[i] # k[i]}
<1> SUFFICES ASSUME T # {}
             PROVE  FALSE
  OBVIOUS
<1>1. PICK i \in T : \A j \in T : i <= j
  BY LeastNatural
<1>2. i \in 0 .. m /\ i \in 0 .. n
  BY <1>1
<1>3. h[i] = NextOffset(h, i) /\ k[i] = NextOffset(k, i)
  BY <1>2 DEF IsTable
<1>4. CASE i <= 1
  BY <1>1, <1>3, <1>4 DEF NextOffset
<1>5. CASE ~(i <= 1)
  <2>1. i - 1 \in Nat /\ i - 1 \notin T /\ i - 1 <= m /\ i - 1 <= n
    BY <1>1, <1>5
  <2>2. h[i - 1] = k[i - 1]
    BY <2>1
  <2>3. NextOffset(h, i) = NextOffset(k, i)
    BY <2>2, Zenon DEF NextOffset
  <2> QED
    BY <1>1, <1>3, <2>3
<1> QED
  BY <1>4, <1>5

(* So the definition of OffsetOfModule defines a function. *)
LEMMA OffsetOfModuleIs ==
  OffsetOfModule = [m \in Nat |-> NextOffset(OffsetOfModule, m)]
<1> DEFINE Table(n) == CHOOSE h : IsTable(h, n)
           g == [n \in Nat |-> Table(n)[n]]
<1>1. \A n \in Nat : IsTable(Table(n), n)
  BY TablesExist
<1> HIDE DEF Table
<1>2. ASSUME NEW n \in Nat
      PROVE  g[n] = NextOffset(g, n)
  <2>1. g[n] = NextOffset(Table(n), n)
    BY <1>1 DEF IsTable
  <2>2. CASE n <= 1
    BY <2>1, <2>2 DEF NextOffset
  <2>3. CASE ~(n <= 1)
    <3>1. n - 1 \in Nat /\ n - 1 <= n
      BY <2>3
    <3>2. Table(n)[n - 1] = Table(n - 1)[n - 1]
      BY <1>1, <3>1, TablesAgree
    <3>3. g[n - 1] = Table(n)[n - 1]
      BY <3>1, <3>2
    <3> QED
      BY <2>1, <3>3, Zenon DEF NextOffset
  <2> QED
    BY <2>2, <2>3
<1>3. g = [n \in Nat |-> NextOffset(g, n)]
  BY <1>2
<1>4. \E f : f = [n \in Nat |-> NextOffset(f, n)]
  BY <1>3
<1> QED
  BY <1>4, Zenon DEF OffsetOfModule, NextOffset

(* Modules lie behind the read-only data, one behind the other. *)
LEMMA OffsetsInOrder ==
  ASSUME Shapes, NEW k \in Nat, k = Len(Packed)
  PROVE  /\ \A m \in 1 .. k : OffsetOfModule[m] \in Nat /\ RodSize <= OffsetOfModule[m]
         /\ \A m \in 1 .. k, n \in 1 .. k :
              m < n => OffsetOfModule[m] + Packed[m] <= OffsetOfModule[n]
<1> DEFINE O == OffsetOfModule
           S == Packed
<1>1. /\ S \in Seq(Nat) /\ \A m \in 1 .. k : S[m] \in Nat
  BY PackedIs
<1>2. O[1] = RodSize /\ \A m \in Nat : m > 1 => O[m] = O[m - 1] + S[m - 1]
  <2>1. \A m \in Nat : O[m] = NextOffset(O, m)
    BY OffsetOfModuleIs
  <2>2. 1 \in Nat /\ 1 <= 1
    OBVIOUS
  <2>3. O[1] = RodSize
    BY <2>1, <2>2, Zenon DEF NextOffset
  <2>4. ASSUME NEW m \in Nat, m > 1
        PROVE  O[m] = O[m - 1] + S[m - 1]
    <3>1. ~(m <= 1)
      BY <2>4
    <3> QED
      BY <2>1, <3>1, Zenon DEF NextOffset
  <2> QED
    BY <2>3, <2>4
<1> HIDE DEF O, S
<1>3. RodSize \in Nat
  BY ProgramAssumption
<1>4. \A m \in 1 .. k : O[m] \in Nat /\ RodSize <= O[m]
  <2> DEFINE T == {m \in 1 .. k : ~(O[m] \in Nat /\ RodSize <= O[m])}
  <2> SUFFICES ASSUME T # {}
               PROVE  FALSE
    OBVIOUS
  <2>1. T \subseteq Nat
    OBVIOUS
  <2>2. PICK m \in T : \A l \in T : m <= l
    BY <2>1, LeastNatural
  <2>3. m \in 1 .. k /\ m # 1
    BY <1>2, <1>3, <2>2
  <2>4. m \in Nat /\ m > 1 /\ m - 1 \in 1 .. k /\ m - 1 \notin T
    BY <2>2, <2>3
  <2>5. O[m - 1] \in Nat /\ RodSize <= O[m - 1] /\ S[m - 1] \in Nat
    BY <1>1, <2>4
  <2>6. O[m] = O[m - 1] + S[m - 1]
    BY <1>2, <2>4
  <2> QED
    BY <1>3, <2>2, <2>5, <2>6
<1>5. ASSUME NEW m \in 1 .. k
      PROVE  \A n \in 1 .. k : m < n => O[m] + S[m] <= O[n]
  <2> DEFINE T == {n \in 1 .. k : m < n /\ ~(O[m] + S[m] <= O[n])}
  <2> SUFFICES ASSUME T # {}
               PROVE  FALSE
    OBVIOUS
  <2>1. T \subseteq Nat
    OBVIOUS
  <2>2. PICK n \in T : \A l \in T : n <= l
    BY <2>1, LeastNatural
  <2>3. n \in Nat /\ n > 1 /\ n \in 1 .. k /\ n - 1 \in 1 .. k /\ n - 1 \notin T /\ m < n
    BY <2>2
  <2>4. /\ O[n] = O[n - 1] + S[n - 1] /\ O[n - 1] \in Nat /\ S[n - 1] \in Nat
        /\ O[m] \in Nat /\ S[m] \in Nat
    BY <1>1, <1>2, <1>4, <2>3
  <2>5. O[m] + S[m] <= O[n]
    <3>1. CASE m = n - 1
      BY <2>4, <3>1
    <3>2. CASE m # n - 1
      <4>1. m < n - 1
        BY <2>3, <3>2
      <4>2. O[m] + S[m] <= O[n - 1]
        BY <2>3, <4>1
      <4> QED
        BY <2>4, <4>2
    <3> QED
      BY <3>1, <3>2
  <2> QED
    BY <2>2, <2>5
<1> QED
  BY <1>4, <1>5 DEF O, S

(* The linker lays modules out so, and nobody after it moves them.          *)
LEMMA ModulesLaidOutKept ==
  ASSUME Shapes, FramesInOrder, ModulesLaidOut, Steps
  PROVE  ModulesLaidOut'
<1> USE DEF pseudo, byte
<1>1. CASE \E s \in Statements : StatementStep(s)
  <2>1. PICK s \in Statements : StatementStep(s)
    BY <1>1
  <2>2. Write(s)
    BY <2>1 DEF StatementStep, Refused, Declared, Assigned, OpenScope, CloseScope, NextModule
  <2>3. ~running'
    BY <2>2, WriteMakes
  <2> QED
    BY <2>3 DEF ModulesLaidOut
<1>2. CASE Link
  <2> DEFINE k == current_module_id
  <2>1. /\ stack_offset_of_module' = [m \in 1 .. k |-> OffsetOfModule[m]]
        /\ stack_size' = Packed /\ current_module_id' = k /\ ~running
    BY <1>2 DEF Link
  <2>2. k \in Nat /\ k = Len(Packed)
    BY <2>1, PackedIs DEF Shapes, FramesInOrder
  <2>3. /\ \A m \in 1 .. k : OffsetOfModule[m] \in Nat /\ RodSize <= OffsetOfModule[m]
        /\ \A m \in 1 .. k, n \in 1 .. k :
             m < n => OffsetOfModule[m] + Packed[m] <= OffsetOfModule[n]
    BY <2>2, OffsetsInOrder
  <2>4. \A m \in 1 .. k : stack_offset_of_module'[m] = OffsetOfModule[m]
    BY <2>1
  <2> HIDE DEF k
  <2> QED
    BY <2>1, <2>3, <2>4 DEF ModulesLaidOut
<1>3. CASE Executes \/ UNCHANGED vars
  BY <1>3 DEF Executes, vars, linked, ModulesLaidOut
<1> QED
  BY <1>1, <1>2, <1>3 DEF Steps, StatementStep

-----------------------------------------------------------------------------
(* The invariant, and what it says.                                        *)

(* Before the first statement nothing is written.                           *)
LEMMA InitIInv == Init => IInv
<1> SUFFICES ASSUME Init
             PROVE  IInv
  OBVIOUS
<1>1. /\ text = << >> /\ reported = {} /\ current_module_id = 1
      /\ frames_stack = << << >> >> /\ variables_descriptions = << >>
      /\ unhandled_symbols = << >> /\ frame_stack = << Frame(0) >>
      /\ dvicm = {} /\ whiles = << >> /\ code = << >>
      /\ stack_size = << >> /\ running = FALSE /\ ip = 0
  BY DEF Init
<1>2. Frame(0) \in [start_address : Nat, size : Nat] /\ Frame(0).start_address = 0
  BY DEF Frame
<1>3. Shapes
  <2>1. frames_stack \in Seq(Tables) /\ Len(frames_stack) = 1
    BY <1>1, EmptyTable
  <2>2. frame_stack \in Seq([start_address : Nat, size : Nat]) /\ Len(frame_stack) = 1
    BY <1>1, <1>2
  <2>3. current_module_id \in 1 .. MaxModules
    BY <1>1, ProgramAssumption
  <2>4. /\ text \in Seq(Statements) /\ variables_descriptions \in Seq(Descriptions)
        /\ unhandled_symbols \in Seq(Nat) /\ whiles \in Seq(Nat) /\ code \in Seq(Commands)
        /\ stack_size \in Seq(Nat) /\ Len(whiles) = 0
    BY <1>1
  <2>5. /\ running \in BOOLEAN /\ ip \in Nat
        /\ reported \subseteq DOMAIN text /\ dvicm \subseteq DOMAIN variables_descriptions
    BY <1>1
  <2>6. Len(frames_stack) = Len(whiles) + 1 /\ Len(frame_stack) = Len(whiles) + 1
    BY <2>1, <2>2, <2>4
  <2> QED
    BY <2>1, <2>2, <2>3, <2>4, <2>5, <2>6, Zenon DEF Shapes
<1>4. IdsKnown
  <2>1. DOMAIN frames_stack = {1} /\ frames_stack[1] = << >>
    BY <1>1
  <2>2. DOMAIN frames_stack[1] = {} /\ DOMAIN unhandled_symbols = {}
    BY <1>1, <2>1
  <2> QED
    BY <2>1, <2>2 DEF IdsKnown
<1>5. JumpsAimed /\ VariablesInOrder /\ CodeInOrder /\ ModulesLaidOut
  <2>1. DOMAIN whiles = {} /\ DOMAIN code = {} /\ DOMAIN variables_descriptions = {}
    BY <1>1
  <2> QED
    BY <1>1, <2>1 DEF JumpsAimed, VariablesInOrder, CodeInOrder, ModulesLaidOut
<1>6. TextCounted
  <2>1. Scopes!Depth(1) = 0
    <3>1. /\ {k \in 1 .. 1 - 1 : text[k].op \in Scopes!Opening} = {}
          /\ {k \in 1 .. 1 - 1 : text[k].op = "close"} = {}
      OBVIOUS
    <3>2. Scopes!Cardinality({}) = 0
      BY SameCardinality, FS_EmptySet
    <3> QED
      BY <3>1, <3>2 DEF Scopes!Depth
  <2>2. IdOf(0) = 0
    <3>1. {k \in 1 .. 0 : text[k].op = "declare" /\ k \notin reported} = {}
      OBVIOUS
    <3> QED
      BY <3>1, FS_EmptySet DEF IdOf
  <2>3. Len(text) = 0 /\ Len(whiles) = 0 /\ Len(variables_descriptions) = 0 /\ DOMAIN text = {}
    BY <1>1
  <2>4. \A i \in 1 .. Len(text) + 1 : i = 1
    BY <2>3
  <2> QED
    BY <2>1, <2>2, <2>3, <2>4 DEF TextCounted
<1>7. FramesInOrder
  <2>1. DOMAIN frame_stack = {1} /\ frame_stack[1] = Frame(0) /\ Len(stack_size) = 0
    BY <1>1
  <2> QED
    BY <1>1, <1>2, <2>1 DEF FramesInOrder
<1>8. LiveHoused /\ DeclaredBehind
  <2>1. Len(text) + 1 = 1 /\ DOMAIN text = {}
    BY <1>1
  <2>2. Scopes!Live(1) = {}
    BY DEF Scopes!Live
  <2> QED
    BY <2>1, <2>2 DEF LiveHoused, DeclaredBehind
<1> QED
  BY <1>3, <1>4, <1>5, <1>6, <1>7, <1>8 DEF IInv

(* Every statement, linking and every instruction keeps the invariant.      *)
LEMMA NextIInv == IInv /\ [Next]_vars => IInv'
<1> SUFFICES ASSUME IInv, [Next]_vars
             PROVE  IInv'
  OBVIOUS
<1>1. /\ Shapes /\ IdsKnown /\ JumpsAimed /\ VariablesInOrder /\ CodeInOrder
      /\ TextCounted /\ FramesInOrder /\ LiveHoused /\ DeclaredBehind /\ ModulesLaidOut
  BY DEF IInv
<1>2. Steps
  BY <1>1, StepsKnown
<1>3. Shapes'
  BY <1>1, <1>2, ShapesKept
<1>4. IdsKnown' /\ JumpsAimed'
  BY <1>1, <1>2, IdsKnownKept, JumpsAimedKept
<1>5. VariablesInOrder' /\ CodeInOrder'
  BY <1>1, <1>2, VariablesInOrderKept, CodeInOrderKept
<1>6. TextCounted' /\ FramesInOrder'
  BY <1>1, <1>2, <1>3, TextCountedKept, FramesInOrderKept
<1>7. LiveHoused'
  BY <1>1, <1>2, <1>3, <1>6, LiveHousedKept
<1>8. DeclaredBehind'
  BY <1>1, <1>2, <1>3, DeclaredBehindKept
<1>9. ModulesLaidOut'
  BY <1>1, <1>2, ModulesLaidOutKept
<1> QED
  BY <1>3, <1>4, <1>5, <1>6, <1>7, <1>8, <1>9 DEF IInv

(* Wherever a program is, its statement is one of the text, or it is done. *)
LEMMA AtStatementIs ==
  ASSUME Shapes, JumpsAimed, CodeInOrder, running
  PROVE  AtStatement \in 1 .. Len(text) + 1
<1>1. DOMAIN text = 1 .. Len(text) /\ DOMAIN code = 1 .. Len(code)
      /\ Len(text) \in Nat /\ Len(code) \in Nat
  BY DEF Shapes
<1>2. ip \in 1 .. Len(code) + 1
  BY DEF JumpsAimed
<1>3. CASE ip > Len(code)
  BY <1>1, <1>3 DEF AtStatement
<1>4. CASE ~(ip > Len(code))
  <2>1. ip \in DOMAIN code
    BY <1>1, <1>2, <1>4
  <2>2. code[ip].statement \in 1 .. Len(text)
    BY <1>1, <2>1 DEF CodeInOrder
  <2>3. AtStatement = code[ip].statement
    BY <1>4 DEF AtStatement
  <2> QED
    BY <1>1, <2>2, <2>3
<1> QED
  BY <1>3, <1>4

(* Of two variables in scope the earlier was in scope when the later was   *)
(* declared.                                                               *)
LEMMA EarlierIsLive ==
  ASSUME Shapes, NEW p \in 1 .. Len(text) + 1, NEW i \in Scopes!Live(p),
         NEW j \in Scopes!Live(p), i < j
  PROVE  i \in Scopes!Live(j)
<1>1. Len(text) \in Nat
  BY DEF Shapes
<1>2. /\ i \in 1 .. p - 1 /\ j \in 1 .. p - 1
      /\ text[i].op = "declare" /\ i \notin reported
      /\ \A k \in i + 1 .. p : Scopes!Depth(k) >= Scopes!Depth(i)
  BY DEF Scopes!Live, Scopes!Open
<1>3. i \in 1 .. j - 1 /\ \A k \in i + 1 .. j : k \in i + 1 .. p
  BY <1>1, <1>2
<1> QED
  BY <1>2, <1>3 DEF Scopes!Live, Scopes!Open

(* A variable in scope lies behind every earlier one, wherever the linker  *)
(* put the modules the two belong to.                                      *)
LEMMA AddressesApart ==
  ASSUME IInv, running, NEW p \in 1 .. Len(text) + 1,
         NEW i \in Scopes!Live(p), NEW j \in Scopes!Live(p)
  PROVE  /\ AddressOf(IdOf(i)) \in Nat /\ RodSize <= AddressOf(IdOf(i))
         /\ VarOf(i).size \in Nat
         /\ i < j => AddressOf(IdOf(i)) + VarOf(i).size <= AddressOf(IdOf(j))
<1>1. /\ Shapes /\ VariablesInOrder /\ TextCounted /\ FramesInOrder /\ DeclaredBehind
      /\ ModulesLaidOut
  BY DEF IInv
<1>2. /\ i \in 1 .. Len(text) /\ Registered(i) /\ IdOf(i) \in DOMAIN variables_descriptions
      /\ j \in 1 .. Len(text) /\ Registered(j) /\ IdOf(j) \in DOMAIN variables_descriptions
  BY <1>1, LiveIs
<1> DEFINE mi == VarOf(i).module_id
           oi == VarOf(i).global_stack_offset
           si == VarOf(i).size
           mj == VarOf(j).module_id
           oj == VarOf(j).global_stack_offset
<1>3. /\ mi \in 1 .. current_module_id /\ si \in Nat /\ oi \in Nat
      /\ mj \in 1 .. current_module_id /\ oj \in Nat
      /\ current_module_id \in Nat /\ mi \in Nat /\ mj \in Nat
  BY <1>1, <1>2, DescriptionIs DEF VarOf
<1>4. /\ AddressOf(IdOf(i)) = stack_offset_of_module[mi] + oi
      /\ AddressOf(IdOf(j)) = stack_offset_of_module[mj] + oj
  BY DEF AddressOf, VarOf
<1>5. /\ stack_offset_of_module[mi] \in Nat /\ RodSize <= stack_offset_of_module[mi]
      /\ stack_offset_of_module[mj] \in Nat
      /\ mi < mj => stack_offset_of_module[mi] + stack_size[mi] <= stack_offset_of_module[mj]
  BY <1>1, <1>3 DEF ModulesLaidOut
<1>6. RodSize \in Nat
  BY ProgramAssumption
<1> DEFINE a == AddressOf(IdOf(i))
           b == AddressOf(IdOf(j))
           fi == stack_offset_of_module[mi]
           fj == stack_offset_of_module[mj]
<1>7. ASSUME i < j
      PROVE  a + si <= b
  <2>1. DOMAIN text = 1 .. Len(text)
    BY <1>1 DEF Shapes
  <2>2. Behind(i, j)
    BY <1>1, <1>2, <1>7, <2>1, EarlierIsLive DEF DeclaredBehind
  <2>3. CASE mi = mj
    <3>1. oi + si <= oj
      BY <2>2, <2>3 DEF Behind, VarEnd
    <3>2. a = fi + oi /\ b = fi + oj
      BY <1>4, <2>3
    <3>3. fi \in Nat /\ oi \in Nat /\ si \in Nat /\ oj \in Nat
      BY <1>3, <1>5
    <3> HIDE DEF a, b, fi, oi, si, oj
    <3> QED
      BY <3>1, <3>2, <3>3
  <2>4. CASE mi # mj
    <3> DEFINE room == stack_size[mi]
    <3>1. mi < mj /\ oi + si <= room
      BY <2>2, <2>4 DEF Behind, VarEnd
    <3>2. room \in Nat
      <4>1. stack_size \in Seq(Nat) /\ Len(stack_size) = current_module_id
        BY <1>1 DEF Shapes, FramesInOrder
      <4>2. mi \in 1 .. Len(stack_size)
        BY <1>3, <4>1
      <4> QED
        BY <4>1, <4>2
    <3>3. /\ a = fi + oi /\ b = fj + oj /\ fi + room <= fj
          /\ fi \in Nat /\ fj \in Nat /\ oi \in Nat /\ si \in Nat /\ oj \in Nat
      BY <1>3, <1>4, <1>5, <3>1
    <3> HIDE DEF a, b, fi, fj, oi, si, oj, room
    <3> QED
      BY <3>1, <3>2, <3>3
  <2> QED
    BY <2>3, <2>4
<1>8. /\ a = fi + oi /\ fi \in Nat /\ RodSize <= fi /\ oi \in Nat /\ si \in Nat
  BY <1>3, <1>4, <1>5
<1>9. a \in Nat /\ RodSize <= a
  <2> HIDE DEF a, fi, oi
  <2> QED
    BY <1>6, <1>8
<1> QED
  BY <1>7, <1>8, <1>9

(* A program is at one of its statements, and there LiveApart holds.       *)
LEMMA IInvApart == IInv => LiveApart
<1> SUFFICES ASSUME IInv, running, NEW i \in Scopes!Live(AtStatement),
                    NEW j \in Scopes!Live(AtStatement)
             PROVE  /\ \A x \in Bytes(IdOf(i)) : x >= RodSize
                    /\ i # j => Bytes(IdOf(i)) \cap Bytes(IdOf(j)) = {}
  BY DEF LiveApart
<1>1. Shapes /\ JumpsAimed /\ CodeInOrder /\ TextCounted
  BY DEF IInv
<1>2. AtStatement \in 1 .. Len(text) + 1
  BY <1>1, AtStatementIs
<1>3. i \in Nat /\ j \in Nat
  BY <1>1, <1>2, LiveIs
<1> DEFINE a == AddressOf(IdOf(i))
           b == AddressOf(IdOf(j))
           s == VarOf(i).size
           t == VarOf(j).size
<1>4. /\ a \in Nat /\ RodSize <= a /\ s \in Nat /\ (i < j => a + s <= b)
      /\ b \in Nat /\ t \in Nat /\ (j < i => b + t <= a)
  BY <1>2, AddressesApart
<1>5. Bytes(IdOf(i)) = a .. a + s - 1 /\ Bytes(IdOf(j)) = b .. b + t - 1
  BY DEF Bytes, VarOf
<1> HIDE DEF a, b, s, t
<1>6. RodSize \in Nat
  BY ProgramAssumption
<1>7. \A x \in Bytes(IdOf(i)) : x >= RodSize
  BY <1>4, <1>5, <1>6
<1>8. ASSUME i # j, NEW x \in Bytes(IdOf(i)), x \in Bytes(IdOf(j))
      PROVE  FALSE
  <2>1. a <= x /\ x <= a + s - 1 /\ b <= x /\ x <= b + t - 1 /\ x \in Int
    BY <1>4, <1>5, <1>8
  <2>2. i < j \/ j < i
    BY <1>3, <1>8
  <2> QED
    BY <1>4, <2>1, <2>2
<1> QED
  BY <1>7, <1>8

(* A symbol in the code points back.                                        *)
LEMMA IInvPointsBack == IInv => SymbolsPointBack
  BY DEF IInv, CodeInOrder, PointsBack, SymbolsPointBack

(* The invariant is more than types.                                        *)
LEMMA IInvTyped == IInv => TypeOK
<1> SUFFICES ASSUME IInv
             PROVE  TypeOK
  OBVIOUS
<1>1. Shapes /\ IdsKnown /\ JumpsAimed
  BY DEF IInv
<1>2. /\ text \in Seq(Statements) /\ reported \subseteq DOMAIN text
      /\ current_module_id \in 1 .. MaxModules /\ dvicm \subseteq DOMAIN variables_descriptions
      /\ frames_stack \in Seq(Tables) /\ variables_descriptions \in Seq(Descriptions)
      /\ unhandled_symbols \in Seq(Nat)
      /\ frame_stack \in Seq([start_address : Nat, size : Nat])
      /\ Len(frames_stack) = Len(whiles) + 1 /\ Len(frame_stack) = Len(frames_stack)
  BY <1>1 DEF Shapes
<1>3. ASSUME NEW i \in DOMAIN frames_stack
      PROVE  /\ DOMAIN frames_stack[i] \subseteq Names
             /\ \A n \in DOMAIN frames_stack[i] :
                  frames_stack[i][n] \in DOMAIN variables_descriptions
  <2>1. frames_stack[i] \in Tables
    BY <1>2
  <2> QED
    BY <1>1, <2>1, TableKnown DEF IdsKnown
<1>4. \A i \in DOMAIN variables_descriptions : variables_descriptions[i] \in Descriptions
  BY <1>2
<1>5. ToSet(unhandled_symbols) \subseteq DOMAIN variables_descriptions
  BY <1>1 DEF IdsKnown, ToSet
<1>6. \A i \in DOMAIN frame_stack : frame_stack[i] \in [start_address : Nat, size : Nat]
  <2> DEFINE F == [start_address : Nat, size : Nat]
  <2>1. frame_stack \in Seq(F)
    BY <1>2
  <2> HIDE DEF F
  <2>2. \A i \in DOMAIN frame_stack : frame_stack[i] \in F
    BY <2>1
  <2> QED
    BY <2>2 DEF F
<1>7. /\ \A i \in DOMAIN code : code[i].target \in 0 .. Len(code) + 1
      /\ running => ip \in 1 .. Len(code) + 1
  BY <1>1, JumpsTyped DEF JumpsAimed
<1> QED
  BY <1>2, <1>3, <1>4, <1>5, <1>6, <1>7 DEF TypeOK, Descriptions

(* The invariant holds throughout.                                          *)
LEMMA SpecIInv == Spec => []IInv
  BY InitIInv, NextIInv, PTL DEF Spec

(* Every table, frame, description and jump the compiler makes is in       *)
(* order, for a text of any length.                                        *)
THEOREM TypeCorrect == Spec => []TypeOK
  BY SpecIInv, IInvTyped, PTL

(* Wherever a program is, the variables in scope share no byte, whatever   *)
(* the order of declarations, scopes, loops and modules; and a symbol is   *)
(* of a module that is linked before the one that uses it.                 *)
THEOREM VariablesArePlaced == Spec => []VariablesPlaced
<1>1. IInv => VariablesPlaced
  BY IInvApart, IInvPointsBack DEF VariablesPlaced
<1> QED
  BY <1>1, SpecIInv, PTL

-----------------------------------------------------------------------------
(* What the code means.                                                    *)

(* A scope that is open was opened by a statement, and a loop's test is    *)
(* the command of that statement.                                          *)
OpenedBy(k, d) ==
  /\ text[k].op \in Scopes!Opening /\ Scopes!Depth(k) = d - 1
  /\ \A m \in k + 1 .. Len(text) + 1 : Scopes!Depth(m) >= d
  /\ IF text[k].op = "while"
       THEN whiles[d] \in DOMAIN code /\ code[whiles[d]].statement = k
              /\ code[whiles[d]].op = "JMPCNV"
       ELSE whiles[d] = 0
ScopesOpened == \A d \in DOMAIN whiles : \E k \in DOMAIN text : OpenedBy(k, d)

(* A scope that was closed is the innermost one that was open.             *)
ClosedBy(k, c) ==
  /\ Scopes!Opener(c) = k /\ k \in 1 .. c - 1 /\ text[k].op \in Scopes!Opening
  /\ Scopes!Depth(k) = Scopes!Depth(c) - 1
  /\ \A m \in k + 1 .. c : Scopes!Depth(m) >= Scopes!Depth(c)
ScopesClosed ==
  \A c \in DOMAIN text : text[c].op = "close" => ClosedBy(Scopes!Opener(c), c)

(* The commands are those of the statements that do anything, in order.    *)
CodeFollowsText ==
  /\ \A i, j \in DOMAIN code : i < j => code[i].statement < code[j].statement
  /\ \A k \in DOMAIN text :
       Scopes!Loud(k) <=> \E i \in DOMAIN code : code[i].statement = k

(* A STORE goes to the variable that the name means.                       *)
Denotes(i, id) ==
  /\ id \in DOMAIN variables_descriptions
  /\ code[i].size = variables_descriptions[id].size
  /\ \/ /\ code[i].operand.source = "StaticAddress"
        /\ code[i].operand.data = variables_descriptions[id].global_stack_offset
        /\ code[i].module = variables_descriptions[id].module_id
     \/ /\ code[i].operand.source = "Symbol"
        /\ code[i].operand.data \in DOMAIN unhandled_symbols
        /\ unhandled_symbols[code[i].operand.data] = id

StoresTo(i, k) ==
  /\ Scopes!Candidates(text[k].name, k) # {}
  /\ Denotes(i, IdOf(Scopes!Meaning(text[k].name, k)))

(* A test is left behind the jump that leads back to it.                   *)
CommandMeans(i) ==
  LET k == code[i].statement
      target == code[i].target IN
  /\ code[i].op = "STACK_UP" => text[k].op = "declare"
  /\ code[i].op = "STORE" => text[k].op = "assign" /\ StoresTo(i, k)
  /\ code[i].op = "JMPCNV" =>
       /\ text[k].op = "while"
       /\ target # 0 => /\ target - 1 \in DOMAIN code /\ code[target - 1].op = "JMP"
                        /\ code[target - 1].target = i
  /\ code[i].op = "JMP" =>
       /\ text[k].op = "close" /\ target \in DOMAIN code
       /\ code[target].op = "JMPCNV" /\ code[target].statement = Scopes!Opener(k)
CodeMeans == \A i \in DOMAIN code : CommandMeans(i)

(* The tables of names hold the declarations in scope, by their scopes.    *)
DeclaredAs(j, i, name) == text[j].name = name /\ Scopes!Depth(j) = i - 1
NamesStand ==
  LET live == Scopes!Live(Len(text) + 1) IN
  \A i \in DOMAIN frames_stack :
    /\ \A name \in DOMAIN frames_stack[i] : \E j \in live : DeclaredAs(j, i, name)
    /\ \A j \in live :
         Scopes!Depth(j) = i - 1 =>
           /\ text[j].name \in DOMAIN frames_stack[i]
           /\ frames_stack[i][text[j].name] = IdOf(j)

NoneIsEmpty == \A id \in DOMAIN variables_descriptions : variables_descriptions[id].size # 0

MeaningKept ==
  /\ ScopesOpened /\ ScopesClosed /\ CodeFollowsText /\ CodeMeans /\ NamesStand
  /\ NoneIsEmpty

-----------------------------------------------------------------------------
(* Depths and openers.                                                     *)

Step(op) ==
  IF op \in Scopes!Opening THEN 1 ELSE IF op = "close" THEN -1 ELSE 0

(* A statement opens a scope, closes one or neither. *)
LEMMA DepthStep ==
  ASSUME Shapes, TextCounted, NEW i \in 1 .. Len(text)
  PROVE  /\ Scopes!Depth(i) \in Nat /\ Scopes!Depth(i + 1) \in Nat
         /\ Scopes!Depth(i + 1) = Scopes!Depth(i) + Step(text[i].op)
<1>1. DOMAIN text = 1 .. Len(text) /\ Len(text) \in Nat
  BY DEF Shapes
<1>2. i \in 1 .. Len(text) + 1 /\ i + 1 \in 1 .. Len(text) + 1 /\ i - 1 \in Nat
      /\ i + 1 - 1 = i /\ i - 1 + 1 = i
  BY <1>1
<1>3. Scopes!Depth(i) \in Nat /\ Scopes!Depth(i + 1) \in Nat
  BY <1>2 DEF TextCounted
<1>4. /\ Scopes!Depth(i) = UpTo(Openers, i - 1) - UpTo(Closers, i - 1)
      /\ Scopes!Depth(i + 1) = UpTo(Openers, i) - UpTo(Closers, i)
  BY <1>2, CountsAre DEF Counted
<1>5. \A T : /\ UpTo(T, i - 1) \in Nat
             /\ UpTo(T, i) = UpTo(T, i - 1) + (IF i \in T THEN 1 ELSE 0)
  <2> TAKE T
  <2>1. /\ Cardinality(T \cap (1 .. i - 1)) \in Nat
        /\ Cardinality(T \cap (1 .. i - 1 + 1)) =
             Cardinality(T \cap (1 .. i - 1)) + (IF i - 1 + 1 \in T THEN 1 ELSE 0)
    BY <1>2, CountNext
  <2> QED
    BY <1>2, <2>1 DEF UpTo
<1>6. /\ i \in Openers <=> text[i].op \in Scopes!Opening
      /\ i \in Closers <=> text[i].op = "close"
  BY <1>1 DEF Openers, Closers
<1>7. text[i].op = "close" => text[i].op \notin Scopes!Opening
  BY DEF Scopes!Opening
<1>8. UpTo(Openers, i - 1) \in Nat /\ UpTo(Closers, i - 1) \in Nat
  BY <1>5
<1>9. /\ UpTo(Openers, i) = UpTo(Openers, i - 1) + (IF i \in Openers THEN 1 ELSE 0)
      /\ UpTo(Closers, i) = UpTo(Closers, i - 1) + (IF i \in Closers THEN 1 ELSE 0)
  BY <1>5
<1>10. CASE text[i].op \in Scopes!Opening
  <2>1. /\ UpTo(Openers, i) = UpTo(Openers, i - 1) + 1
        /\ UpTo(Closers, i) = UpTo(Closers, i - 1)
    BY <1>6, <1>7, <1>8, <1>9, <1>10
  <2>2. Step(text[i].op) = 1
    BY <1>10 DEF Step
  <2> QED
    BY <1>3, <1>4, <1>8, <2>1, <2>2
<1>11. CASE text[i].op = "close"
  <2>1. /\ UpTo(Openers, i) = UpTo(Openers, i - 1)
        /\ UpTo(Closers, i) = UpTo(Closers, i - 1) + 1
    BY <1>6, <1>7, <1>8, <1>9, <1>11
  <2>2. Step(text[i].op) = -1
    BY <1>7, <1>11 DEF Step
  <2> QED
    BY <1>3, <1>4, <1>8, <2>1, <2>2
<1>12. CASE text[i].op \notin Scopes!Opening \cup {"close"}
  <2>1. /\ UpTo(Openers, i) = UpTo(Openers, i - 1)
        /\ UpTo(Closers, i) = UpTo(Closers, i - 1)
    BY <1>6, <1>8, <1>9, <1>12
  <2>2. Step(text[i].op) = 0
    BY <1>12 DEF Step
  <2> QED
    BY <1>3, <1>4, <1>8, <2>1, <2>2
<1> QED
  BY <1>10, <1>11, <1>12

(* Max and Min of LexicalPromise are those of this module. *)
LEMMA SameMaxMin == \A T : Scopes!Max(T) = Max(T) /\ Scopes!Min(T) = Min(T)
  BY DEF Scopes!Max, Max, Scopes!Min, Min

(* What the greatest member of a set is. *)
LEMMA MaxIs ==
  ASSUME NEW T, T \subseteq Int, NEW k \in T, \A m \in T : m <= k
  PROVE  Max(T) = k
<1>1. \E x \in T : \A y \in T : x >= y
  OBVIOUS
<1> DEFINE x == Max(T)
<1>2. x \in T /\ \A y \in T : x >= y
  BY <1>1 DEF Max
<1> HIDE DEF x
<1>3. x >= k /\ x <= k /\ x \in Int /\ k \in Int
  BY <1>2
<1>4. x = k
  BY <1>3
<1> QED
  BY <1>4 DEF x

(* What the least member of a set is. *)
LEMMA MinIs ==
  ASSUME NEW T, T \subseteq Int, NEW k \in T, \A m \in T : k <= m
  PROVE  Min(T) = k
<1>1. \E x \in T : \A y \in T : x <= y
  OBVIOUS
<1> DEFINE x == Min(T)
<1>2. x \in T /\ \A y \in T : x <= y
  BY <1>1 DEF Min
<1> HIDE DEF x
<1>3. x <= k /\ k <= x /\ x \in Int /\ k \in Int
  BY <1>2
<1>4. x = k
  BY <1>3
<1> QED
  BY <1>4 DEF x

(* The last of these is the greatest. *)
LEMMA MaxIsGreatest ==
  ASSUME NEW n \in Nat, NEW T, T \subseteq 1 .. n, T # {}
  PROVE  Max(T) \in T /\ \A m \in T : m <= Max(T)
<1>1. Max(T) \in T
  BY MaxIsMember
<1>2. \E x \in T : \A y \in T : x >= y
  <2> DEFINE M == {n - x : x \in T}
  <2>1. M \subseteq Nat /\ M # {}
    <3>1. \A x \in T : n - x \in Nat
      OBVIOUS
    <3>2. M \subseteq Nat
      BY <3>1
    <3> QED
      BY <3>2
  <2> HIDE DEF M
  <2>2. PICK z \in M : \A y \in M : z <= y
    BY <2>1, LeastNatural
  <2>3. PICK x \in T : z = n - x
    BY <2>2 DEF M
  <2>4. \A y \in T : n - x <= n - y
    BY <2>2, <2>3 DEF M
  <2>5. \A y \in T : y \in Int /\ x \in Int
    OBVIOUS
  <2> QED
    BY <2>4, <2>5
<1> QED
  BY <1>1, <1>2 DEF Max

(* The statement that opened the innermost scope before i. *)
LEMMA OpenerIs ==
  ASSUME Shapes, TextCounted, NEW i \in 1 .. Len(text) + 1, NEW k \in 1 .. i - 1,
         text[k].op \in Scopes!Opening, Scopes!Depth(k) = Scopes!Depth(i) - 1,
         \A m \in k + 1 .. i : Scopes!Depth(m) >= Scopes!Depth(i)
  PROVE  Scopes!Opener(i) = k
<1> DEFINE T == {m \in 1 .. i - 1 : text[m].op \in Scopes!Opening /\ Scopes!Open(m + 1, i)}
<1>1. Len(text) \in Nat
  BY DEF Shapes
<1>2. \A m \in 1 .. i - 1 :
        /\ m \in 1 .. Len(text)
        /\ text[m].op \in Scopes!Opening =>
             /\ Scopes!Depth(m + 1) = Scopes!Depth(m) + 1
             /\ Scopes!Depth(m) \in Nat
  <2> TAKE m \in 1 .. i - 1
  <2>1. m \in 1 .. Len(text)
    BY <1>1
  <2> QED
    BY <2>1, DepthStep DEF Step
<1>3. Scopes!Depth(i) \in Nat
  BY DEF TextCounted
<1>4. k \in T
  <2>1. Scopes!Depth(k + 1) = Scopes!Depth(i)
    BY <1>2, <1>3
  <2>2. \A m \in k + 1 + 1 .. i : m \in k + 1 .. i
    BY <1>1
  <2> QED
    BY <2>1, <2>2 DEF Scopes!Open
<1>5. ASSUME NEW m \in T
      PROVE  m <= k
  <2> SUFFICES ASSUME m > k
               PROVE  FALSE
    BY <1>1
  <2>1. /\ m \in 1 .. i - 1 /\ text[m].op \in Scopes!Opening
        /\ \A l \in m + 1 + 1 .. i : Scopes!Depth(l) >= Scopes!Depth(m + 1)
    BY DEF Scopes!Open
  <2>2. m \in k + 1 .. i
    BY <1>1, <2>1
  <2>3. Scopes!Depth(m) >= Scopes!Depth(i)
    BY <2>2
  <2>4. Scopes!Depth(i) >= Scopes!Depth(m + 1)
    <3>1. CASE m + 1 = i
      BY <1>3, <3>1
    <3>2. CASE m + 1 # i
      <4>1. i \in m + 1 + 1 .. i
        BY <1>1, <2>1, <3>2
      <4> QED
        BY <2>1, <4>1
    <3> QED
      BY <3>1, <3>2
  <2> QED
    BY <1>2, <1>3, <2>1, <2>3, <2>4
<1>6. T \subseteq Int
  BY <1>1
<1> HIDE DEF T
<1>7. Max(T) = k
  BY <1>4, <1>5, <1>6, MaxIs
<1> QED
  BY <1>7, SameMaxMin DEF T, Scopes!Opener

(* What was said of earlier statements stays true. *)
LEMMA MeaningsStay ==
  ASSUME Shapes, NEW s, Continued(s)
  PROVE  /\ \A i \in 1 .. Len(text) + 1 : Scopes!Opener(i)' = Scopes!Opener(i)
         /\ \A i \in 1 .. Len(text) + 1 : \A name :
              /\ Scopes!Candidates(name, i)' = Scopes!Candidates(name, i)
              /\ Scopes!Meaning(name, i)' = Scopes!Meaning(name, i)
<1> DEFINE n == Len(text)
<1>1. /\ n \in Nat /\ Len(text') = n + 1 /\ \A i \in 1 .. n : text'[i] = text[i]
      /\ DOMAIN text = 1 .. n /\ DOMAIN text' = 1 .. n + 1
  BY WriteMakes DEF Continued
<1>2. \A i \in 1 .. n + 1 :
         Scopes!Depth(i)' = Scopes!Depth(i) /\ Scopes!Live(i)' = Scopes!Live(i)
  BY PastKept
<1> HIDE DEF n
<1>3. ASSUME NEW i \in 1 .. n + 1
      PROVE  Scopes!Opener(i)' = Scopes!Opener(i)
  <2>1. \A k \in 1 .. i - 1 : text'[k] = text[k]
    BY <1>1
  <2>2. \A k \in 1 .. i - 1 : Scopes!Open(k + 1, i)' <=> Scopes!Open(k + 1, i)
    <3> TAKE k \in 1 .. i - 1
    <3>1. k + 1 \in 1 .. n + 1 /\ \A m \in k + 1 + 1 .. i : m \in 1 .. n + 1
      BY <1>1
    <3> QED
      BY <1>2, <3>1 DEF Scopes!Open
  <2>3. {k \in 1 .. i - 1 : text'[k].op \in Scopes!Opening /\ Scopes!Open(k + 1, i)'} =
        {k \in 1 .. i - 1 : text[k].op \in Scopes!Opening /\ Scopes!Open(k + 1, i)}
    BY <2>1, <2>2
  <2>4. Scopes!Opener(i)' =
          Max({k \in 1 .. i - 1 : text'[k].op \in Scopes!Opening /\ Scopes!Open(k + 1, i)'})
    BY SameMaxMin DEF Scopes!Opener, Scopes!Opening
  <2>5. Scopes!Opener(i) =
          Max({k \in 1 .. i - 1 : text[k].op \in Scopes!Opening /\ Scopes!Open(k + 1, i)})
    BY SameMaxMin DEF Scopes!Opener, Scopes!Opening
  <2> QED
    BY <2>3, <2>4, <2>5
<1>4. ASSUME NEW i \in 1 .. n + 1, NEW name
      PROVE  /\ Scopes!Candidates(name, i)' = Scopes!Candidates(name, i)
             /\ Scopes!Meaning(name, i)' = Scopes!Meaning(name, i)
  <2>1. \A j \in Scopes!Live(i) : j \in 1 .. n
    BY <1>1 DEF Scopes!Live
  <2>2. Scopes!Candidates(name, i)' = Scopes!Candidates(name, i)
    BY <1>1, <1>2, <2>1 DEF Scopes!Candidates
  <2> QED
    BY <2>2, SameMaxMin DEF Scopes!Meaning, Scopes!Max, Max
<1> QED
  BY <1>3, <1>4 DEF n

(* Whether an earlier statement does anything stays the same. *)
LEMMA LoudStays ==
  ASSUME Shapes, NEW s, Continued(s), NEW i \in 1 .. Len(text),
         text[i].op = "close" => Scopes!Opener(i) \in 1 .. i - 1
  PROVE  Scopes!Loud(i)' <=> Scopes!Loud(i)
<1> DEFINE n == Len(text)
<1>1. /\ n \in Nat /\ Len(text') = n + 1 /\ \A k \in 1 .. n : text'[k] = text[k]
  BY WriteMakes DEF Continued
<1>2. i \in 1 .. n + 1 /\ \A k \in 1 .. i - 1 : text'[k] = text[k]
  BY <1>1
<1>3. i \in reported' <=> i \in reported
  BY <1>1 DEF Continued
<1>4. Scopes!Opener(i)' = Scopes!Opener(i)
  BY <1>2, MeaningsStay
<1>5. text'[i] = text[i]
  BY <1>1
<1> HIDE DEF n
<1>6. text[i].op = "close" => text'[Scopes!Opener(i)'] = text[Scopes!Opener(i)]
  BY <1>2, <1>4
<1> QED
  BY <1>3, <1>4, <1>5, <1>6 DEF Scopes!Loud

(* A text that stays means what it meant. *)
LEMMA MeaningsSame ==
  ASSUME UNCHANGED <<text, reported>>
  PROVE  /\ \A i : Scopes!Opener(i)' = Scopes!Opener(i) /\ (Scopes!Loud(i)' <=> Scopes!Loud(i))
         /\ \A i, name : /\ Scopes!Candidates(name, i)' = Scopes!Candidates(name, i)
                         /\ Scopes!Meaning(name, i)' = Scopes!Meaning(name, i)
<1>1. \A i, j : Scopes!Open(j, i)' <=> Scopes!Open(j, i)
  BY TextSame DEF Scopes!Open
<1>2. ASSUME NEW i
      PROVE  Scopes!Opener(i)' = Scopes!Opener(i)
  <2>1. {k \in 1 .. i - 1 : text'[k].op \in Scopes!Opening /\ Scopes!Open(k + 1, i)'} =
        {k \in 1 .. i - 1 : text[k].op \in Scopes!Opening /\ Scopes!Open(k + 1, i)}
    BY <1>1
  <2>2. Scopes!Opener(i)' =
          Max({k \in 1 .. i - 1 : text'[k].op \in Scopes!Opening /\ Scopes!Open(k + 1, i)'})
    BY SameMaxMin DEF Scopes!Opener, Scopes!Opening
  <2>3. Scopes!Opener(i) =
          Max({k \in 1 .. i - 1 : text[k].op \in Scopes!Opening /\ Scopes!Open(k + 1, i)})
    BY SameMaxMin DEF Scopes!Opener, Scopes!Opening
  <2> QED
    BY <2>1, <2>2, <2>3
<1>3. \A i : Scopes!Loud(i)' <=> Scopes!Loud(i)
  BY <1>2 DEF Scopes!Loud
<1>4. \A i, name : Scopes!Candidates(name, i)' = Scopes!Candidates(name, i)
  BY TextSame DEF Scopes!Candidates
<1>5. \A i, name : Scopes!Meaning(name, i)' = Scopes!Meaning(name, i)
  BY <1>4, SameMaxMin DEF Scopes!Meaning, Scopes!Max, Max
<1> QED
  BY <1>2, <1>3, <1>4, <1>5

(* Texts and codes are numbered from 1. *)
LEMMA LengthsKnown ==
  ASSUME Shapes
  PROVE  /\ Len(text) \in Nat /\ Len(code) \in Nat
         /\ DOMAIN text = 1 .. Len(text) /\ DOMAIN code = 1 .. Len(code)
<1>1. text \in Seq(Statements) /\ code \in Seq(Commands)
  BY DEF Shapes
<1>2. Len(text) \in Nat /\ DOMAIN text = 1 .. Len(text)
  BY <1>1
<1>3. Len(code) \in Nat /\ DOMAIN code = 1 .. Len(code)
  BY <1>1
<1> QED
  BY <1>2, <1>3

-----------------------------------------------------------------------------
(* Scopes and commands follow the text.                                    *)

(* What a statement makes of the code and of the stack of loops. *)
MakesCommand(s) ==
  \/ Declared(s)
  \/ Assigned(s)
  \/ OpenScope(s) /\ s.op = "while"
  \/ CloseScope(s) /\ Last(whiles) # 0

(* A statement adds one command or none, and keeps those there are. *)
LEMMA CodeGrows ==
  ASSUME Shapes, IdsKnown, JumpsAimed, Shapes', NEW s \in Statements, StatementStep(s)
  PROVE  /\ Extended /\ Len(code) \in Nat
         /\ DOMAIN code = 1 .. Len(code) /\ DOMAIN code' = 1 .. Len(code')
         /\ Len(code') = Len(code) + (IF MakesCommand(s) THEN 1 ELSE 0)
<1> USE DEF pseudo, byte
<1>1. /\ code \in Seq(Commands) /\ code' \in Seq(Commands)
      /\ Len(code) \in Nat
      /\ DOMAIN code = 1 .. Len(code) /\ DOMAIN code' = 1 .. Len(code')
  BY DEF Shapes
<1>2. CASE Refused(s) \/ NextModule(s)
  <2>1. code' = code
    BY <1>2 DEF Refused, Refuse, NextModule
  <2>2. ~MakesCommand(s)
    <3>1. Refused(s) => reported' # reported
      <4>1. Refused(s) => Len(text) + 1 \in reported'
        BY DEF Refused, Refuse
      <4>2. text \in Seq(Statements) /\ reported \subseteq DOMAIN text
        BY DEF Shapes
      <4>3. Len(text) + 1 \notin reported
        <5>1. Len(text) \in Nat /\ DOMAIN text = 1 .. Len(text)
          BY <4>2
        <5> QED
          BY <4>2, <5>1
      <4> QED
        BY <4>1, <4>3
    <3>2. NextModule(s) => s.op = "module"
      BY DEF NextModule
    <3> QED
      BY <1>2, <3>1, <3>2
         DEF MakesCommand, Declared, Assigned, OpenScope, CloseScope, Accept
  <2> QED
    BY <1>1, <2>1, <2>2, CodeKept
<1>3. CASE Declared(s)
  <2>1. code' = Append(code, Command("STACK_UP", NoOperand, s.size))
    BY <1>3 DEF Declared
  <2>2. Extended /\ Len(code') = Len(code) + 1
    BY <2>1, CodeAppended, NoOperandIs, StatementKnown
  <2>3. MakesCommand(s)
    BY <1>3 DEF MakesCommand
  <2> QED
    BY <1>1, <2>2, <2>3
<1>4. CASE Assigned(s)
  <2>1. MakesCommand(s)
    BY <1>4 DEF MakesCommand
  <2>2. Extended /\ Len(code') = Len(code) + 1
    BY <1>4, AssignedMakes
  <2> QED
    BY <1>1, <2>1, <2>2
<1>5. CASE OpenScope(s)
  <2>1. Extended /\ ~Declared(s) /\ ~Assigned(s) /\ ~CloseScope(s)
    BY <1>5, ScopeOpened DEF OpenScope, Declared, Assigned, CloseScope
  <2>2. CASE s.op = "while"
    <3>1. code' = Append(code, Command("JMPCNV", NoOperand, 0))
      BY <1>5, <2>2 DEF OpenScope
    <3>2. Len(code') = Len(code) + 1
      BY <3>1, CodeAppended, NoOperandIs
    <3>3. MakesCommand(s)
      BY <1>5, <2>2 DEF MakesCommand
    <3> QED
      BY <1>1, <2>1, <3>2, <3>3
  <2>3. CASE s.op # "while"
    <3>1. code' = code
      BY <1>5, <2>3 DEF OpenScope
    <3>2. ~MakesCommand(s)
      BY <2>1, <2>3 DEF MakesCommand
    <3> QED
      BY <1>1, <2>1, <3>1, <3>2
  <2> QED
    BY <2>2, <2>3
<1>6. CASE CloseScope(s)
  <2>1. ~Declared(s) /\ ~Assigned(s) /\ ~OpenScope(s)
    BY <1>6 DEF OpenScope, Declared, Assigned, CloseScope
  <2>2. CASE Last(whiles) = 0
    <3>1. code' = code
      BY <1>6, <2>2 DEF CloseScope
    <3>2. ~MakesCommand(s)
      BY <2>1, <2>2 DEF MakesCommand
    <3> QED
      BY <1>1, <3>1, <3>2, CodeKept
  <2>3. CASE Last(whiles) # 0
    <3>1. MakesCommand(s)
      BY <1>6, <2>3 DEF MakesCommand
    <3>2. Extended /\ Len(code') = Len(code) + 1
      BY <1>6, <2>3, LoopClosed
    <3> QED
      BY <1>1, <3>1, <3>2
  <2> QED
    BY <2>2, <2>3
<1> QED
  BY <1>2, <1>3, <1>4, <1>5, <1>6 DEF StatementStep

(* Loops that stay open keep their place. *)
LEMMA WhilesGrow ==
  ASSUME Shapes, JumpsAimed, Shapes', NEW s \in Statements, StatementStep(s)
  PROVE  /\ Len(whiles) \in Nat /\ Len(whiles') \in Nat
         /\ DOMAIN whiles = 1 .. Len(whiles) /\ DOMAIN whiles' = 1 .. Len(whiles')
         /\ Len(whiles') = Len(whiles) + (IF OpenScope(s) THEN 1 ELSE 0)
                                       - (IF CloseScope(s) THEN 1 ELSE 0)
         /\ \A d \in 1 .. Len(whiles') :
              \/ d \in 1 .. Len(whiles) /\ whiles'[d] = whiles[d]
              \/ OpenScope(s) /\ d = Len(whiles) + 1
<1>1. /\ Len(whiles) \in Nat /\ Len(whiles') \in Nat
      /\ DOMAIN whiles = 1 .. Len(whiles) /\ DOMAIN whiles' = 1 .. Len(whiles')
  <2>1. whiles \in Seq(Nat) /\ whiles' \in Seq(Nat)
    BY DEF Shapes
  <2> QED
    BY <2>1
<1>2. CASE OpenScope(s)
  <2>1. ~CloseScope(s)
    BY <1>2 DEF OpenScope, CloseScope
  <2>2. /\ Len(whiles') = Len(whiles) + 1
        /\ \A i \in 1 .. Len(whiles) : whiles'[i] = whiles[i]
    BY <1>2, ScopeOpened
  <2> QED
    BY <1>1, <1>2, <2>1, <2>2
<1>3. CASE CloseScope(s)
  <2>1. ~OpenScope(s)
    BY <1>3 DEF OpenScope, CloseScope
  <2>2. /\ Len(whiles') = Len(whiles) - 1
        /\ \A i \in 1 .. Len(whiles) - 1 : whiles'[i] = whiles[i]
    BY <1>3, ScopeClosed
  <2> QED
    BY <1>1, <1>3, <2>1, <2>2
<1>4. CASE ~OpenScope(s) /\ ~CloseScope(s)
  <2>1. whiles' = whiles
    BY <1>4 DEF StatementStep, Refused, Refuse, Declared, Assigned, NextModule, byte
  <2> QED
    BY <1>1, <1>4, <2>1
<1> QED
  BY <1>2, <1>3, <1>4

(* The statement that has just been written. *)
LEMMA Written ==
  ASSUME Shapes, Shapes', TextCounted, TextCounted', NEW s \in Statements, StatementStep(s),
         NEW n, n = Len(text)
  PROVE  /\ Continued(s) /\ n \in Nat /\ Len(text') = n + 1
         /\ DOMAIN text = 1 .. n /\ DOMAIN text' = 1 .. n + 1
         /\ text'[n + 1] = s /\ \A i \in 1 .. n : text'[i] = text[i]
         /\ Scopes!Depth(n + 1)' = Len(whiles) /\ Scopes!Depth(n + 1) = Len(whiles)
         /\ Scopes!Depth(n + 2)' = Len(whiles')
<1>1. Continued(s)
  BY StatementsContinue
<1>2. /\ n \in Nat /\ Len(text') = n + 1
      /\ DOMAIN text = 1 .. n /\ DOMAIN text' = 1 .. n + 1
      /\ text'[n + 1] = s /\ \A i \in 1 .. n : text'[i] = text[i]
  BY <1>1, WriteMakes DEF Continued
<1>3. Scopes!Depth(n + 1)' = Scopes!Depth(n + 1)
  <2>1. n + 1 \in 1 .. n + 1
    BY <1>2
  <2> QED
    BY <1>1, <2>1, PastKept
<1>4. Scopes!Depth(n + 1) = Len(whiles)
  BY DEF TextCounted
<1>5. Scopes!Depth(n + 2)' = Len(whiles')
  <2>1. n + 2 = Len(text') + 1
    BY <1>2
  <2> QED
    BY <2>1 DEF TextCounted
<1> QED
  BY <1>1, <1>2, <1>3, <1>4, <1>5

(* Each open scope was opened by a statement. *)
LEMMA ScopesOpenedKept ==
  ASSUME Shapes, IdsKnown, JumpsAimed, TextCounted, Shapes', TextCounted', ScopesOpened, Steps
  PROVE  ScopesOpened'
<1> USE DEF pseudo, byte
<1>1. ASSUME NEW s \in Statements, StatementStep(s), NEW d \in DOMAIN whiles'
      PROVE  \E k \in DOMAIN text' : OpenedBy(k, d)'
  <2>1. PICK n : n = Len(text)
    OBVIOUS
  <2>2. /\ Continued(s) /\ n \in Nat /\ Len(text') = n + 1
        /\ DOMAIN text = 1 .. n /\ DOMAIN text' = 1 .. n + 1
        /\ text'[n + 1] = s /\ \A i \in 1 .. n : text'[i] = text[i]
        /\ Scopes!Depth(n + 1)' = Len(whiles) /\ Scopes!Depth(n + 2)' = Len(whiles')
    BY <1>1, <2>1, Written
  <2>3. /\ Len(whiles) \in Nat /\ Len(whiles') \in Nat
        /\ DOMAIN whiles = 1 .. Len(whiles) /\ d \in 1 .. Len(whiles')
        /\ \/ d \in 1 .. Len(whiles) /\ whiles'[d] = whiles[d]
           \/ OpenScope(s) /\ d = Len(whiles) + 1
    BY <1>1, WhilesGrow
  <2>4. /\ Extended /\ Len(code) \in Nat
        /\ DOMAIN code = 1 .. Len(code) /\ DOMAIN code' = 1 .. Len(code')
        /\ Len(code) <= Len(code') /\ Len(code') \in Nat
    <3>1. Len(code') \in Nat
      BY DEF Shapes
    <3> QED
      BY <1>1, <3>1, CodeGrows DEF Extended
  <2>5. CASE d \in 1 .. Len(whiles) /\ whiles'[d] = whiles[d]
    <3>1. PICK k \in DOMAIN text : OpenedBy(k, d)
      BY <2>3, <2>5 DEF ScopesOpened
    <3>2. k \in 1 .. n /\ k \in 1 .. n + 1 /\ text'[k] = text[k]
      BY <2>2, <3>1
    <3>3. Scopes!Depth(k)' = Scopes!Depth(k)
      BY <2>1, <2>2, <3>2, PastKept
    <3>4. ASSUME NEW m \in k + 1 .. Len(text') + 1
          PROVE  Scopes!Depth(m)' >= d
      <4>1. CASE m = n + 2
        BY <2>2, <2>3, <4>1
      <4>2. CASE m # n + 2
        <5>1. m \in k + 1 .. Len(text) + 1 /\ m \in 1 .. Len(text) + 1
          BY <2>1, <2>2, <3>2, <3>4, <4>2
        <5>2. Scopes!Depth(m)' = Scopes!Depth(m)
          BY <2>2, <5>1, PastKept
        <5> QED
          BY <3>1, <5>1, <5>2 DEF OpenedBy
      <4> QED
        BY <4>1, <4>2
    <3>5. IF text'[k].op = "while"
          THEN whiles'[d] \in DOMAIN code' /\ code'[whiles'[d]].statement = k
                 /\ code'[whiles'[d]].op = "JMPCNV"
          ELSE whiles'[d] = 0
      <4>1. CASE text[k].op = "while"
        <5>1. /\ whiles[d] \in 1 .. Len(code) /\ code[whiles[d]].statement = k
              /\ code[whiles[d]].op = "JMPCNV"
          BY <2>4, <3>1, <4>1 DEF OpenedBy
        <5>2. /\ whiles[d] \in 1 .. Len(code') /\ code'[whiles[d]].statement = k
              /\ code'[whiles[d]].op = "JMPCNV"
          BY <2>4, <5>1 DEF Extended
        <5> QED
          BY <2>4, <2>5, <3>2, <4>1, <5>2
      <4>2. CASE text[k].op # "while"
        BY <2>5, <3>1, <3>2, <4>2 DEF OpenedBy
      <4> QED
        BY <4>1, <4>2
    <3>6. OpenedBy(k, d)'
      BY <3>1, <3>2, <3>3, <3>4, <3>5 DEF OpenedBy, Scopes!Opening
    <3> QED
      BY <2>2, <3>2, <3>6
  <2>6. CASE OpenScope(s) /\ d = Len(whiles) + 1
    <3>1. s.op \in Scopes!Opening
      BY <2>6 DEF OpenScope, Scopes!Opening
    <3>2. \A m \in n + 1 + 1 .. Len(text') + 1 : Scopes!Depth(m)' >= d
      <4>1. \A m \in n + 1 + 1 .. Len(text') + 1 : m = n + 2
        BY <2>2
      <4> QED
        BY <2>2, <2>3, <4>1
    <3>3. IF s.op = "while"
          THEN whiles'[d] \in DOMAIN code' /\ code'[whiles'[d]].statement = n + 1
                 /\ code'[whiles'[d]].op = "JMPCNV"
          ELSE whiles'[d] = 0
      <4>1. CASE s.op = "while"
        <5>1. /\ code' = Append(code, Command("JMPCNV", NoOperand, 0))
              /\ whiles' = Append(whiles, Len(code) + 1)
          BY <2>6, <4>1 DEF OpenScope
        <5>2. Len(code') = Len(code) + 1 /\ code'[Len(code) + 1].op = "JMPCNV"
          BY <5>1, CodeAppended, NoOperandIs
        <5>3. whiles'[d] = Len(code) + 1
          <6>1. whiles \in Seq(Nat)
            BY DEF Shapes
          <6> QED
            BY <2>6, <5>1, <6>1
        <5>4. Len(code) + 1 \in Len(code) + 1 .. Len(code')
          BY <2>4, <5>2
        <5>5. code'[Len(code) + 1].statement = n + 1
          BY <2>1, <2>4, <5>4 DEF Extended
        <5> QED
          BY <2>4, <4>1, <5>2, <5>3, <5>5
      <4>2. CASE s.op # "while"
        <5>1. whiles' = Append(whiles, 0)
          BY <2>6, <4>2 DEF OpenScope
        <5>2. whiles \in Seq(Nat)
          BY DEF Shapes
        <5> QED
          BY <2>6, <4>2, <5>1, <5>2
      <4> QED
        BY <4>1, <4>2
    <3>4. Scopes!Depth(n + 1)' = d - 1
      BY <2>2, <2>3, <2>6
    <3>5. OpenedBy(n + 1, d)'
      BY <2>2, <3>1, <3>2, <3>3, <3>4 DEF OpenedBy, Scopes!Opening
    <3> QED
      BY <2>2, <3>5
  <2> QED
    BY <2>3, <2>5, <2>6
<1>2. CASE Link \/ Executes \/ UNCHANGED vars
  <2>1. UNCHANGED <<text, reported, whiles, code>>
    BY <1>2 DEF Link, Executes, vars
  <2>2. \A k, d : OpenedBy(k, d)' <=> OpenedBy(k, d)
    BY <2>1, TextSame DEF OpenedBy, Scopes!Opening
  <2> QED
    BY <2>1, <2>2 DEF ScopesOpened
<1>3. CASE \E s \in Statements : StatementStep(s)
  BY <1>1, <1>3 DEF ScopesOpened
<1> QED
  BY <1>2, <1>3 DEF Steps, StatementStep

(* A statement is complained about, or is what it says. *)
LEMMA StatementKinds ==
  ASSUME Shapes, NEW s \in Statements, StatementStep(s)
  PROVE  \/ Refused(s) /\ Len(text) + 1 \in reported' /\ ~MakesCommand(s)
         \/ /\ reported' = reported /\ Len(text) + 1 \notin reported'
            /\ Declared(s) <=> s.op = "declare"
            /\ Assigned(s) <=> s.op = "assign"
            /\ OpenScope(s) <=> s.op \in {"scope", "while"}
            /\ CloseScope(s) <=> s.op = "close"
<1>1. text \in Seq(Statements) /\ reported \subseteq DOMAIN text
  BY DEF Shapes
<1>2. Len(text) + 1 \notin reported
  <2>1. Len(text) \in Nat /\ DOMAIN text = 1 .. Len(text)
    BY <1>1
  <2> QED
    BY <1>1, <2>1
<1>3. CASE Refused(s)
  <2>1. /\ s.op \in {"declare", "assign"} /\ reported' = reported \cup {Len(text) + 1}
        /\ s.op = "declare" => Has(Last(frames_stack), s.name)
        /\ s.op = "assign" => FindSymbolLocal(s.name) = 0
    BY <1>3 DEF Refused, Refuse
  <2>2. ~Declared(s) /\ ~Assigned(s) /\ ~OpenScope(s) /\ ~CloseScope(s)
    BY <2>1 DEF Declared, Assigned, OpenScope, CloseScope
  <2> QED
    BY <1>3, <2>1, <2>2 DEF MakesCommand
<1>4. CASE ~Refused(s)
  <2>1. reported' = reported
    BY <1>4 DEF StatementStep, Declared, Assigned, OpenScope, CloseScope, NextModule, Accept
  <2>2. /\ Declared(s) <=> s.op = "declare"
        /\ Assigned(s) <=> s.op = "assign"
        /\ OpenScope(s) <=> s.op \in {"scope", "while"}
        /\ CloseScope(s) <=> s.op = "close"
    BY <1>4 DEF StatementStep, Declared, Assigned, OpenScope, CloseScope, NextModule
  <2> QED
    BY <1>2, <2>1, <2>2
<1> QED
  BY <1>3, <1>4

(* The end of a scope belongs to the statement that opened it. *)
LEMMA ClosesItsOpener ==
  ASSUME Shapes, JumpsAimed, TextCounted, ScopesOpened, NEW s \in Statements, CloseScope(s),
         NEW n, n = Len(text)
  PROVE  /\ Len(whiles) \in DOMAIN whiles /\ Last(whiles) = whiles[Len(whiles)]
         /\ Scopes!Opener(n + 1) \in 1 .. n /\ OpenedBy(Scopes!Opener(n + 1), Len(whiles))
<1>1. n \in Nat /\ DOMAIN text = 1 .. n
  BY DEF Shapes
<1>2. Len(whiles) \in Nat \ {0} /\ Last(whiles) = whiles[Len(whiles)]
  BY ScopeClosed
<1>3. Len(whiles) \in DOMAIN whiles
  <2>1. whiles \in Seq(Nat)
    BY DEF Shapes
  <2> QED
    BY <1>2, <2>1
<1>4. PICK k \in 1 .. n : OpenedBy(k, Len(whiles))
  BY <1>1, <1>3 DEF ScopesOpened
<1>5. Scopes!Depth(n + 1) = Len(whiles)
  BY DEF TextCounted
<1>6. k \in 1 .. n + 1 - 1 /\ n + 1 \in 1 .. Len(text) + 1
  BY <1>1
<1>7. /\ text[k].op \in Scopes!Opening /\ Scopes!Depth(k) = Scopes!Depth(n + 1) - 1
      /\ \A m \in k + 1 .. n + 1 : Scopes!Depth(m) >= Scopes!Depth(n + 1)
  BY <1>4, <1>5 DEF OpenedBy
<1>8. Scopes!Opener(n + 1) = k
  BY <1>6, <1>7, OpenerIs
<1> QED
  BY <1>2, <1>3, <1>4, <1>8

(* Each end of a scope belongs to the innermost scope that is open. *)
LEMMA ScopesClosedKept ==
  ASSUME Shapes, JumpsAimed, TextCounted, Shapes', TextCounted',
         ScopesOpened, ScopesClosed, Steps
  PROVE  ScopesClosed'
<1>1. ASSUME NEW s \in Statements, StatementStep(s), NEW c \in DOMAIN text',
             text'[c].op = "close"
      PROVE  ClosedBy(Scopes!Opener(c), c)'
  <2>1. PICK n : n = Len(text)
    OBVIOUS
  <2>2. /\ Continued(s) /\ n \in Nat
        /\ DOMAIN text = 1 .. n /\ DOMAIN text' = 1 .. n + 1
        /\ text'[n + 1] = s /\ \A i \in 1 .. n : text'[i] = text[i]
    BY <1>1, <2>1, Written
  <2>3. c \in 1 .. n + 1
    BY <1>1, <2>2
  <2>4. ClosedBy(Scopes!Opener(c), c)
    <3>1. CASE c \in 1 .. n
      BY <1>1, <2>2, <3>1 DEF ScopesClosed
    <3>2. CASE c = n + 1
      <4>1. s.op = "close"
        BY <1>1, <2>2, <3>2
      <4>2. CloseScope(s)
        BY <1>1, <4>1, StatementKinds DEF Refused
      <4> DEFINE k == Scopes!Opener(n + 1)
      <4>3. k \in 1 .. n /\ OpenedBy(k, Len(whiles))
        BY <2>1, <4>2, ClosesItsOpener
      <4>4. Scopes!Depth(n + 1) = Len(whiles)
        BY <2>1 DEF TextCounted
      <4>5. k \in 1 .. n + 1 - 1
        BY <2>2, <4>3
      <4> QED
        BY <2>1, <3>2, <4>3, <4>4, <4>5 DEF ClosedBy, OpenedBy
    <3> QED
      BY <2>2, <2>3, <3>1, <3>2
  <2>0. PICK k : k = Scopes!Opener(c)
    OBVIOUS
  <2>5. /\ k \in 1 .. c - 1 /\ text[k].op \in Scopes!Opening
        /\ Scopes!Depth(k) = Scopes!Depth(c) - 1
        /\ \A m \in k + 1 .. c : Scopes!Depth(m) >= Scopes!Depth(c)
    BY <2>0, <2>4 DEF ClosedBy
  <2>6. Scopes!Opener(c)' = k
    BY <2>0, <2>1, <2>2, <2>3, MeaningsStay
  <2>7. \A m \in 1 .. c : Scopes!Depth(m)' = Scopes!Depth(m)
    <3> TAKE m \in 1 .. c
    <3>1. m \in 1 .. n + 1
      BY <2>2, <2>3
    <3> QED
      BY <2>1, <2>2, <3>1, PastKept
  <2>8. /\ k \in 1 .. c /\ k \in 1 .. n /\ c \in 1 .. c
        /\ \A m \in k + 1 .. c : m \in 1 .. c
    BY <2>2, <2>3, <2>5
  <2>9. text'[k] = text[k]
    BY <2>2, <2>8
  <2>10. /\ Scopes!Depth(k)' = Scopes!Depth(k) /\ Scopes!Depth(c)' = Scopes!Depth(c)
    BY <2>7, <2>8
  <2>11. \A m \in k + 1 .. c : Scopes!Depth(m)' >= Scopes!Depth(c)'
    BY <2>5, <2>7, <2>8, <2>10
  <2>12. ClosedBy(k, c)'
    BY <2>5, <2>6, <2>9, <2>10, <2>11 DEF ClosedBy, Scopes!Opening
  <2> QED
    BY <2>6, <2>12 DEF ClosedBy
<1>2. CASE Link \/ Executes \/ UNCHANGED vars
  <2>1. UNCHANGED <<text, reported>>
    BY <1>2 DEF Link, Executes, vars
  <2>2. \A k, c : ClosedBy(k, c)' <=> ClosedBy(k, c)
    BY <2>1, TextSame, MeaningsSame DEF ClosedBy, Scopes!Opening
  <2> QED
    BY <2>1, <2>2, MeaningsSame DEF ScopesClosed
<1>3. CASE \E s \in Statements : StatementStep(s)
  BY <1>1, <1>3 DEF ScopesClosed
<1> QED
  BY <1>2, <1>3 DEF Steps, StatementStep

(* Each statement that does anything has one command, in order. *)
LEMMA CodeFollowsTextKept ==
  ASSUME Shapes, IdsKnown, JumpsAimed, CodeInOrder, TextCounted, Shapes', TextCounted',
         ScopesOpened, ScopesClosed, CodeFollowsText, Steps
  PROVE  CodeFollowsText'
<1>1. ASSUME NEW s \in Statements, StatementStep(s)
      PROVE  CodeFollowsText'
  <2>1. PICK n : n = Len(text)
    OBVIOUS
  <2>2. /\ Continued(s) /\ n \in Nat
        /\ DOMAIN text = 1 .. n /\ DOMAIN text' = 1 .. n + 1
        /\ text'[n + 1] = s /\ \A i \in 1 .. n : text'[i] = text[i]
    BY <1>1, <2>1, Written
  <2>3. PICK p : p = Len(code)
    OBVIOUS
  <2>4. /\ p \in Nat /\ DOMAIN code = 1 .. p /\ DOMAIN code' = 1 .. Len(code')
        /\ Len(code') = p + (IF MakesCommand(s) THEN 1 ELSE 0)
        /\ \A i \in 1 .. p : code'[i].statement = code[i].statement
        /\ \A i \in p + 1 .. Len(code') : code'[i].statement = n + 1
    BY <1>1, <2>1, <2>3, CodeGrows DEF Extended
  <2>5. \A i \in 1 .. p : code[i].statement \in 1 .. n
    BY <2>2, <2>4 DEF CodeInOrder
  <2>6. ASSUME NEW i \in DOMAIN code', NEW j \in DOMAIN code', i < j
        PROVE  code'[i].statement < code'[j].statement
    <3>1. i \in 1 .. p
      BY <2>4, <2>6
    <3>2. CASE j \in 1 .. p
      <4>1. code[i].statement < code[j].statement
        BY <2>4, <2>6, <3>1, <3>2 DEF CodeFollowsText
      <4> QED
        BY <2>4, <3>1, <3>2, <4>1
    <3>3. CASE j \notin 1 .. p
      <4>1. j \in p + 1 .. Len(code')
        BY <2>4, <2>6, <3>3
      <4>2. code'[j].statement = n + 1 /\ code'[i].statement \in 1 .. n
        BY <2>4, <2>5, <3>1, <4>1
      <4> QED
        BY <2>2, <4>2
    <3> QED
      BY <3>2, <3>3
  <2>7. ASSUME NEW k \in 1 .. n
        PROVE  Scopes!Loud(k)' <=> \E i \in DOMAIN code' : code'[i].statement = k
    <3>1. text[k].op = "close" => Scopes!Opener(k) \in 1 .. k - 1
      BY <2>2 DEF ScopesClosed, ClosedBy
    <3>2. Scopes!Loud(k)' <=> Scopes!Loud(k)
      BY <2>1, <2>2, <3>1, LoudStays
    <3>3. Scopes!Loud(k) <=> \E i \in 1 .. p : code[i].statement = k
      BY <2>2, <2>4 DEF CodeFollowsText
    <3>4. ASSUME NEW i \in DOMAIN code', code'[i].statement = k
          PROVE  i \in 1 .. p
      <4>1. i \notin p + 1 .. Len(code')
        BY <2>2, <2>4, <3>4
      <4> QED
        BY <2>4, <4>1
    <3>5. \A i \in 1 .. p : i \in DOMAIN code'
      BY <2>4
    <3>6. ASSUME NEW i \in 1 .. p, code[i].statement = k
          PROVE  \E j \in DOMAIN code' : code'[j].statement = k
      BY <2>4, <3>5, <3>6
    <3>7. ASSUME NEW i \in DOMAIN code', code'[i].statement = k
          PROVE  \E j \in 1 .. p : code[j].statement = k
      BY <2>4, <3>4, <3>7
    <3> QED
      BY <3>2, <3>3, <3>6, <3>7
  <2>8. Scopes!Loud(n + 1)' <=> MakesCommand(s)
    <3>1. CASE Refused(s) /\ Len(text) + 1 \in reported' /\ ~MakesCommand(s)
      BY <2>1, <3>1 DEF Scopes!Loud
    <3>2. CASE /\ reported' = reported /\ Len(text) + 1 \notin reported'
               /\ Declared(s) <=> s.op = "declare"
               /\ Assigned(s) <=> s.op = "assign"
               /\ OpenScope(s) <=> s.op \in {"scope", "while"}
               /\ CloseScope(s) <=> s.op = "close"
      <4>1. Scopes!Loud(n + 1)' <=>
              \/ s.op \in {"declare", "assign", "while"}
              \/ s.op = "close" /\ text'[Scopes!Opener(n + 1)'].op = "while"
        BY <2>1, <2>2, <3>2 DEF Scopes!Loud
      <4>2. ASSUME s.op = "close"
            PROVE  text'[Scopes!Opener(n + 1)'].op = "while" <=> Last(whiles) # 0
        <5>1. CloseScope(s)
          BY <3>2, <4>2
        <5>2. /\ Scopes!Opener(n + 1) \in 1 .. n /\ Last(whiles) = whiles[Len(whiles)]
              /\ OpenedBy(Scopes!Opener(n + 1), Len(whiles))
          BY <2>1, <5>1, ClosesItsOpener
        <5>3. Scopes!Opener(n + 1)' = Scopes!Opener(n + 1)
          <6>1. n + 1 \in 1 .. n + 1
            BY <2>2
          <6> QED
            BY <2>1, <2>2, <6>1, MeaningsStay
        <5>4. text'[Scopes!Opener(n + 1)'] = text[Scopes!Opener(n + 1)]
          BY <2>2, <5>2, <5>3
        <5>5. text[Scopes!Opener(n + 1)].op = "while" <=> Last(whiles) # 0
          <6>1. 0 \notin DOMAIN code
            BY <2>4
          <6> QED
            BY <5>2, <6>1 DEF OpenedBy
        <5> QED
          BY <5>4, <5>5
      <4>3. MakesCommand(s) <=>
              \/ s.op \in {"declare", "assign", "while"}
              \/ s.op = "close" /\ Last(whiles) # 0
        BY <3>2 DEF MakesCommand
      <4> QED
        BY <4>1, <4>2, <4>3
    <3> QED
      BY <1>1, <3>1, <3>2, StatementKinds
  <2>9. MakesCommand(s) <=> \E i \in DOMAIN code' : code'[i].statement = n + 1
    <3>1. ASSUME MakesCommand(s)
          PROVE  \E i \in DOMAIN code' : code'[i].statement = n + 1
      <4>1. p + 1 \in p + 1 .. Len(code') /\ p + 1 \in DOMAIN code'
        BY <2>4, <3>1
      <4> QED
        BY <2>4, <4>1
    <3>2. ASSUME NEW i \in DOMAIN code', code'[i].statement = n + 1
          PROVE  MakesCommand(s)
      <4>1. i \notin 1 .. p
        BY <2>2, <2>4, <2>5, <3>2
      <4> QED
        BY <2>4, <4>1
    <3> QED
      BY <3>1, <3>2
  <2>10. \A k \in 1 .. n + 1 : k \in 1 .. n \/ k = n + 1
    BY <2>2
  <2> QED
    BY <2>2, <2>6, <2>7, <2>8, <2>9, <2>10 DEF CodeFollowsText
<1>2. CASE Link \/ Executes \/ UNCHANGED vars
  <2>1. UNCHANGED <<text, reported, code>>
    BY <1>2 DEF Link, Executes, vars, byte
  <2> QED
    BY <2>1, MeaningsSame DEF CodeFollowsText
<1>3. CASE \E s \in Statements : StatementStep(s)
  BY <1>1, <1>3
<1> QED
  BY <1>2, <1>3 DEF Steps, StatementStep

-----------------------------------------------------------------------------
(* What a name stands for, and the commands made of it.                    *)

(* Looking a name up finds the declaration it means, if there is one. *)
LEMMA LookUp ==
  ASSUME Shapes, IdsKnown, TextCounted, NamesStand, NEW name, NEW n, n = Len(text)
  PROVE  /\ FindSymbolLocal(name) = 0 <=> Scopes!Candidates(name, n + 1) = {}
         /\ Scopes!Candidates(name, n + 1) # {} =>
              FindSymbolLocal(name) = IdOf(Scopes!Meaning(name, n + 1))
         /\ Has(Last(frames_stack), name) <=>
              \E j \in Scopes!Candidates(name, n + 1) : Scopes!Depth(j) = Scopes!Depth(n + 1)
<1> DEFINE frames == {i \in DOMAIN frames_stack : Has(frames_stack[i], name)}
           C == Scopes!Candidates(name, n + 1)
           L == Scopes!Live(n + 1)
<1>1. /\ n \in Nat /\ n + 1 \in 1 .. Len(text) + 1
      /\ Len(whiles) \in Nat /\ Len(frames_stack) = Len(whiles) + 1
      /\ DOMAIN frames_stack = 1 .. Len(whiles) + 1
      /\ frames_stack \in Seq(Tables)
  BY DEF Shapes
<1>2. Scopes!Depth(n + 1) = Len(whiles)
  BY DEF TextCounted
<1>3. \A j \in L : /\ j \in 1 .. n /\ Scopes!Depth(j) \in Nat
                   /\ Scopes!Depth(j) <= Len(whiles)
  BY <1>1, <1>2, LiveIs
<1>4. C = {j \in L : text[j].name = name}
  BY DEF Scopes!Candidates
<1>5. /\ frames = {} => FindSymbolLocal(name) = 0
      /\ frames # {} => FindSymbolLocal(name) = frames_stack[Max(frames)][name]
  BY DEF FindSymbolLocal
<1>6. ASSUME NEW j \in C
      PROVE  /\ Scopes!Depth(j) + 1 \in frames
             /\ frames_stack[Scopes!Depth(j) + 1][name] = IdOf(j)
  <2>1. j \in L /\ text[j].name = name
    BY <1>4
  <2>2. Scopes!Depth(j) + 1 \in DOMAIN frames_stack /\ Scopes!Depth(j) = Scopes!Depth(j) + 1 - 1
    BY <1>1, <1>3, <2>1
  <2>3. PICK d : d = Scopes!Depth(j) + 1
    OBVIOUS
  <2>4. d \in DOMAIN frames_stack /\ Scopes!Depth(j) = d - 1
    BY <1>3, <2>1, <2>2, <2>3
  <2>5. text[j].name \in DOMAIN frames_stack[d] /\ frames_stack[d][text[j].name] = IdOf(j)
    BY <2>1, <2>4 DEF NamesStand
  <2> QED
    BY <2>1, <2>3, <2>4, <2>5 DEF Has
<1>7. ASSUME NEW i \in frames
      PROVE  \E j \in C : Scopes!Depth(j) = i - 1
  <2>1. i \in DOMAIN frames_stack /\ name \in DOMAIN frames_stack[i]
    BY DEF Has
  <2>2. PICK j \in L : DeclaredAs(j, i, name)
    BY <2>1 DEF NamesStand
  <2> QED
    BY <1>4, <2>2 DEF DeclaredAs
<1>8. ASSUME frames # {}
      PROVE  FindSymbolLocal(name) # 0
  <2>1. Max(frames) \in frames
    <3>1. frames \subseteq 1 .. Len(whiles) + 1 /\ Len(whiles) + 1 \in Nat
      BY <1>1
    <3> QED
      BY <1>8, <3>1, MaxIsMember
  <2>2. frames_stack[Max(frames)][name] \in DOMAIN variables_descriptions
    BY <2>1 DEF IdsKnown, Has
  <2>3. 0 \notin DOMAIN variables_descriptions
    BY DEF Shapes
  <2> QED
    BY <1>5, <1>8, <2>2, <2>3
<1>9. ASSUME C # {}
      PROVE  FindSymbolLocal(name) = IdOf(Scopes!Meaning(name, n + 1))
  <2>1. frames # {} /\ frames \subseteq 1 .. Len(whiles) + 1 /\ Len(whiles) + 1 \in Nat
    BY <1>1, <1>6, <1>9
  <2> HIDE DEF frames
  <2>2. PICK f : f = Max(frames)
    OBVIOUS
  <2>3. f \in frames /\ f \in Nat /\ \A i \in frames : i <= f
    <3>1. Max(frames) \in frames /\ \A i \in frames : i <= Max(frames)
      BY <2>1, MaxIsGreatest
    <3>2. f \in frames /\ \A i \in frames : i <= f
      BY <2>2, <3>1, Zenon
    <3>3. f \in 1 .. Len(whiles) + 1
      BY <2>1, <3>2, Zenon
    <3>4. f \in Nat
      BY <1>1, <3>3
    <3> QED
      BY <3>2, <3>4
  <2>4. PICK j0 \in C : Scopes!Depth(j0) = f - 1
    BY <1>7, <2>3
  <2>5. C \subseteq 1 .. n /\ C \subseteq L
    BY <1>3, <1>4
  <2> HIDE DEF C, L
  <2>6. PICK m : m = Max(C)
    OBVIOUS
  <2>7. m \in C /\ \A j \in C : j <= m
    BY <1>1, <1>9, <2>5, <2>6, MaxIsGreatest
  <2>8. Scopes!Meaning(name, n + 1) = m
    BY <2>6, SameMaxMin DEF Scopes!Meaning, C
  <2>9. Scopes!Depth(m) + 1 <= f
    BY <1>6, <2>3, <2>7
  <2>10. Scopes!Depth(m) >= f - 1
    <3>1. CASE m = j0
      <4>1. Scopes!Depth(m) \in Nat
        BY <1>3, <2>5, <2>7
      <4> QED
        BY <2>3, <2>4, <3>1, <4>1
    <3>2. CASE m # j0
      <4>1. j0 <= m /\ j0 \in 1 .. n /\ m \in 1 .. n /\ j0 \in L
        BY <2>4, <2>5, <2>7
      <4>2. m \in j0 + 1 .. n + 1
        BY <1>1, <3>2, <4>1
      <4>3. Scopes!Open(j0, n + 1)
        BY <4>1 DEF L, Scopes!Live
      <4>4. Scopes!Depth(m) >= Scopes!Depth(j0)
        BY <4>2, <4>3 DEF Scopes!Open
      <4> QED
        BY <2>4, <4>4
    <3> QED
      BY <3>1, <3>2
  <2>11. f = Scopes!Depth(m) + 1
    <3>1. Scopes!Depth(m) \in Nat
      BY <1>3, <2>5, <2>7
    <3> QED
      BY <2>3, <2>9, <2>10, <3>1
  <2>12. frames_stack[f][name] = IdOf(m)
    BY <1>6, <2>7, <2>11
  <2> QED
    BY <1>5, <2>1, <2>2, <2>8, <2>12
<1>10. Has(Last(frames_stack), name) <=> Len(whiles) + 1 \in frames
  <2>1. Last(frames_stack) = frames_stack[Len(whiles) + 1]
    BY <1>1 DEF Last
  <2> QED
    BY <1>1, <2>1
<1>11. Has(Last(frames_stack), name) <=>
         \E j \in C : Scopes!Depth(j) = Scopes!Depth(n + 1)
  <2>1. ASSUME Len(whiles) + 1 \in frames
        PROVE  \E j \in C : Scopes!Depth(j) = Scopes!Depth(n + 1)
    <3>1. Len(whiles) + 1 - 1 = Len(whiles)
      BY <1>1
    <3> QED
      BY <1>2, <1>7, <2>1, <3>1
  <2>2. ASSUME NEW j \in C, Scopes!Depth(j) = Scopes!Depth(n + 1)
        PROVE  Len(whiles) + 1 \in frames
    BY <1>2, <1>6, <2>2
  <2> QED
    BY <1>10, <2>1, <2>2
<1>12. FindSymbolLocal(name) = 0 <=> C = {}
  <2>1. C = {} => frames = {}
    BY <1>7
  <2>2. C # {} => frames # {}
    BY <1>6
  <2> QED
    BY <1>5, <1>8, <2>1, <2>2
<1> QED
  BY <1>9, <1>11, <1>12

(* A declaration that a name means lies before its use. *)
LEMMA MeaningIs ==
  ASSUME Shapes, TextCounted, NEW i \in 1 .. Len(text) + 1, NEW name,
         Scopes!Candidates(name, i) # {}
  PROVE  /\ Scopes!Meaning(name, i) \in Scopes!Candidates(name, i)
         /\ Scopes!Meaning(name, i) \in Scopes!Live(i)
         /\ Scopes!Meaning(name, i) \in 1 .. Len(text) /\ Scopes!Meaning(name, i) < i
<1> DEFINE C == Scopes!Candidates(name, i)
<1>1. C \subseteq Scopes!Live(i)
  BY DEF Scopes!Candidates
<1>2. \A j \in Scopes!Live(i) : j \in 1 .. Len(text) /\ j < i
  BY LiveIs
<1>3. C \subseteq 1 .. Len(text) /\ Len(text) \in Nat
  <2>1. Len(text) \in Nat
    BY LengthsKnown
  <2>2. C \subseteq 1 .. Len(text)
    BY <1>1, <1>2
  <2> HIDE DEF C
  <2> QED
    BY <2>1, <2>2
<1>4. Scopes!Meaning(name, i) = Max(C)
  BY SameMaxMin DEF Scopes!Meaning
<1> HIDE DEF C
<1>5. Max(C) \in C
  BY <1>3, MaxIsGreatest DEF C
<1> QED
  BY <1>1, <1>2, <1>4, <1>5 DEF C

(* A jump is aimed once, when the loop ends whose test it is. *)
LEMMA TargetsKept ==
  ASSUME Shapes, IdsKnown, JumpsAimed, Shapes', NEW s \in Statements, StatementStep(s),
         NEW i \in DOMAIN code
  PROVE  /\ i \in 1 .. Len(code) /\ i \in DOMAIN code'
         /\ code'[i].op = code[i].op /\ code'[i].module = code[i].module
         /\ code'[i].operand = code[i].operand /\ code'[i].statement = code[i].statement
         /\ code'[i].size = code[i].size
         /\ \/ code'[i].target = code[i].target
            \/ /\ CloseScope(s) /\ Last(whiles) = i /\ MakesCommand(s)
               /\ code'[i].target = Len(code) + 2
               /\ code'[Len(code) + 1].op = "JMP" /\ code'[Len(code) + 1].target = i
<1> USE DEF pseudo, byte
<1>1. /\ Extended /\ Len(code) \in Nat
      /\ DOMAIN code = 1 .. Len(code) /\ DOMAIN code' = 1 .. Len(code')
  BY CodeGrows
<1>2. i \in 1 .. Len(code) /\ i \in DOMAIN code'
  <2>1. Len(code') \in Nat /\ Len(code) <= Len(code')
    BY <1>1 DEF Extended, Shapes
  <2> QED
    BY <1>1, <2>1
<1>3. \/ code'[i].target = code[i].target
      \/ /\ CloseScope(s) /\ Last(whiles) = i /\ MakesCommand(s)
         /\ code'[i].target = Len(code) + 2
         /\ code'[Len(code) + 1].op = "JMP" /\ code'[Len(code) + 1].target = i
  <2>1. CASE Refused(s) \/ NextModule(s)
    BY <2>1 DEF Refused, Refuse, NextModule
  <2>2. CASE Declared(s)
    <3>1. code' = Append(code, Command("STACK_UP", NoOperand, s.size))
      BY <2>2 DEF Declared
    <3> QED
      BY <1>2, <3>1, CodeAppended, NoOperandIs, StatementKnown
  <2>3. CASE Assigned(s)
    BY <1>2, <2>3, AssignedMakes
  <2>4. CASE OpenScope(s)
    BY <1>2, <2>4, ScopeOpened
  <2>5. CASE CloseScope(s)
    <3>1. CASE Last(whiles) = 0
      BY <2>5, <3>1 DEF CloseScope
    <3>2. CASE Last(whiles) # 0
      <4>1. /\ code'[i].target = IF i = Last(whiles) THEN Len(code) + 2 ELSE code[i].target
            /\ code'[Len(code) + 1].op = "JMP" /\ code'[Len(code) + 1].target = Last(whiles)
        BY <1>2, <2>5, <3>2, LoopClosed
      <4>2. MakesCommand(s)
        BY <2>5, <3>2 DEF MakesCommand
      <4> QED
        BY <2>5, <4>1, <4>2
    <3> QED
      BY <3>1, <3>2
  <2> QED
    BY <2>1, <2>2, <2>3, <2>4, <2>5 DEF StatementStep
<1> QED
  BY <1>1, <1>2, <1>3 DEF Extended

(* Symbols keep their places. *)
LEMMA SymbolsKept ==
  ASSUME Shapes, IdsKnown, NEW s \in Statements, StatementStep(s),
         NEW i \in DOMAIN unhandled_symbols
  PROVE  i \in DOMAIN unhandled_symbols' /\ unhandled_symbols'[i] = unhandled_symbols[i]
<1>1. CASE Assigned(s)
  <2>1. /\ unhandled_symbols' \in Seq(Nat) /\ Len(unhandled_symbols) <= Len(unhandled_symbols')
        /\ unhandled_symbols'[i] = unhandled_symbols[i]
    BY <1>1, AssignedMakes
  <2>2. unhandled_symbols \in Seq(Nat)
    BY DEF Shapes
  <2> QED
    BY <2>1, <2>2
<1>2. CASE ~Assigned(s)
  <2>1. unhandled_symbols' = unhandled_symbols
    BY <1>2 DEF StatementStep, Refused, Refuse, Declared, OpenScope, CloseScope, NextModule, byte
  <2> QED
    BY <2>1
<1> QED
  BY <1>1, <1>2

(* A command that is already there keeps its meaning. *)
LEMMA CommandKept ==
  ASSUME Shapes, IdsKnown, JumpsAimed, CodeInOrder, TextCounted, Shapes', TextCounted',
         ScopesOpened, ScopesClosed, CodeMeans,
         NEW s \in Statements, StatementStep(s), NEW i \in DOMAIN code
  PROVE  CommandMeans(i)'
<1>1. PICK n : n = Len(text)
  OBVIOUS
<1>2. /\ Continued(s) /\ n \in Nat
      /\ DOMAIN text = 1 .. n /\ DOMAIN text' = 1 .. n + 1
      /\ \A k \in 1 .. n : text'[k] = text[k]
  BY <1>1, Written
<1>3. PICK p : p = Len(code)
  OBVIOUS
<1>4. /\ p \in Nat /\ DOMAIN code = 1 .. p /\ DOMAIN code' = 1 .. Len(code')
      /\ Len(code') = p + (IF MakesCommand(s) THEN 1 ELSE 0)
  BY <1>3, CodeGrows
<1>5. PICK k : k = code[i].statement
  OBVIOUS
<1>6. k \in 1 .. n /\ k \in DOMAIN text /\ text'[k] = text[k] /\ k \in 1 .. n + 1
  BY <1>2, <1>5 DEF CodeInOrder
<1>7. /\ i \in 1 .. p /\ i \in DOMAIN code'
      /\ code'[i].op = code[i].op /\ code'[i].module = code[i].module
      /\ code'[i].operand = code[i].operand /\ code'[i].statement = k
      /\ code'[i].size = code[i].size
      /\ \/ code'[i].target = code[i].target
         \/ /\ CloseScope(s) /\ Last(whiles) = i /\ MakesCommand(s)
            /\ code'[i].target = p + 2
            /\ code'[p + 1].op = "JMP" /\ code'[p + 1].target = i
  BY <1>3, <1>5, TargetsKept
<1>8. /\ code[i].op = "STACK_UP" => text[k].op = "declare"
      /\ code[i].op = "STORE" => text[k].op = "assign" /\ StoresTo(i, k)
      /\ code[i].op = "JMPCNV" =>
           /\ text[k].op = "while"
           /\ code[i].target # 0 =>
                /\ code[i].target - 1 \in DOMAIN code /\ code[code[i].target - 1].op = "JMP"
                /\ code[code[i].target - 1].target = i
      /\ code[i].op = "JMP" =>
           /\ text[k].op = "close" /\ code[i].target \in DOMAIN code
           /\ code[code[i].target].op = "JMPCNV"
           /\ code[code[i].target].statement = Scopes!Opener(k)
  BY <1>5 DEF CodeMeans, CommandMeans
<1>9. ASSUME CloseScope(s), MakesCommand(s)
      PROVE  Last(whiles) \in DOMAIN code /\ code[Last(whiles)].op = "JMPCNV"
  <2>1. Last(whiles) # 0
    BY <1>9 DEF MakesCommand, CloseScope, Declared, Assigned, OpenScope
  <2>2. /\ Last(whiles) = whiles[Len(whiles)]
        /\ OpenedBy(Scopes!Opener(n + 1), Len(whiles))
    BY <1>1, <1>9, ClosesItsOpener
  <2> QED
    BY <2>1, <2>2 DEF OpenedBy
<1>10. ASSUME code[i].op = "STORE"
       PROVE  StoresTo(i, k)'
  <2>1. text[k].op = "assign" /\ StoresTo(i, k)
    BY <1>8, <1>10
  <2>2. PICK name : name = text[k].name
    OBVIOUS
  <2>3. PICK m : m = Scopes!Meaning(name, k)
    OBVIOUS
  <2>4. Scopes!Candidates(name, k) # {} /\ Denotes(i, IdOf(m))
    BY <2>1, <2>2, <2>3 DEF StoresTo
  <2>5. k \in 1 .. Len(text) + 1
    BY <1>1, <1>6
  <2>6. m \in 1 .. n
    BY <1>1, <2>3, <2>4, <2>5, MeaningIs
  <2>7. /\ Scopes!Candidates(name, k)' = Scopes!Candidates(name, k)
        /\ Scopes!Meaning(name, k)' = m
    BY <1>2, <2>3, <2>5, MeaningsStay
  <2>8. IdOf(m)' = IdOf(m)
    <3>1. m \in 0 .. Len(text)
      BY <1>1, <1>2, <2>6
    <3> QED
      BY <1>2, <3>1, PastKept
  <2>9. PICK id : id = IdOf(m)
    OBVIOUS
  <2>10. Denotes(i, id)'
    <3>1. Denotes(i, id)
      BY <2>4, <2>9
    <3>2. id \in DOMAIN variables_descriptions
      BY <3>1 DEF Denotes
    <3>3. id \in DOMAIN variables_descriptions'
          /\ variables_descriptions'[id] = variables_descriptions[id]
      <4>1. variables_descriptions'[id] = variables_descriptions[id]
        BY <3>2, DescriptionsKept
      <4>0. /\ variables_descriptions \in Seq(Descriptions)
            /\ variables_descriptions' \in Seq(Descriptions)
        BY DEF Shapes
      <4>2. /\ DOMAIN variables_descriptions = 1 .. Len(variables_descriptions)
            /\ DOMAIN variables_descriptions' = 1 .. Len(variables_descriptions')
            /\ Len(variables_descriptions) \in Nat /\ Len(variables_descriptions') \in Nat
        BY <4>0
      <4>3. Len(variables_descriptions) <= Len(variables_descriptions')
        <5>1. CASE Declared(s)
          <6>1. Len(variables_descriptions') = Len(variables_descriptions) + 1
            BY <5>1, DeclaredMakes
          <6> QED
            BY <4>2, <6>1
        <5>2. CASE ~Declared(s)
          <6>1. variables_descriptions' = variables_descriptions
            BY <5>2
               DEF StatementStep, Refused, Refuse, Assigned, OpenScope, CloseScope, NextModule, pseudo
          <6> QED
            BY <4>2, <6>1
        <5> QED
          BY <5>1, <5>2
      <4> QED
        BY <3>2, <4>1, <4>2, <4>3
    <3>4. \A x \in DOMAIN unhandled_symbols :
            x \in DOMAIN unhandled_symbols' /\ unhandled_symbols'[x] = unhandled_symbols[x]
      BY SymbolsKept
    <3> QED
      BY <1>7, <3>1, <3>3, <3>4 DEF Denotes
  <2>11. text'[k].name = name
    BY <1>6, <2>2
  <2> QED
    BY <2>4, <2>7, <2>8, <2>9, <2>10, <2>11 DEF StoresTo
<1>11. ASSUME code[i].op = "JMPCNV", code'[i].target # 0
       PROVE  /\ code'[i].target - 1 \in DOMAIN code' /\ code'[code'[i].target - 1].op = "JMP"
              /\ code'[code'[i].target - 1].target = i
  <2>1. CASE code'[i].target = code[i].target
    <3>1. PICK t : t = code[i].target - 1
      OBVIOUS
    <3>2. t \in DOMAIN code /\ code[t].op = "JMP" /\ code[t].target = i
      BY <1>8, <1>11, <2>1, <3>1
    <3>3. t \in DOMAIN code' /\ code'[t].op = "JMP"
      BY <3>2, TargetsKept
    <3>4. \/ code'[t].target = code[t].target
          \/ CloseScope(s) /\ Last(whiles) = t /\ MakesCommand(s)
      BY <3>2, TargetsKept
    <3>5. code'[t].target = i
      BY <1>9, <3>2, <3>4
    <3> QED
      BY <2>1, <3>1, <3>3, <3>5
  <2>2. CASE /\ CloseScope(s) /\ Last(whiles) = i /\ MakesCommand(s)
             /\ code'[i].target = p + 2
             /\ code'[p + 1].op = "JMP" /\ code'[p + 1].target = i
    <3>1. p + 1 \in DOMAIN code' /\ p + 2 - 1 = p + 1
      BY <1>4, <2>2
    <3>2. PICK t : t = code'[i].target - 1
      OBVIOUS
    <3>3. t = p + 1
      <4>1. code'[i].target = p + 2
        BY <2>2
      <4> QED
        BY <1>4, <3>1, <3>2, <4>1
    <3>4. t \in DOMAIN code' /\ code'[t].op = "JMP" /\ code'[t].target = i
      BY <2>2, <3>1, <3>3, Zenon
    <3> QED
      BY <3>2, <3>4, Zenon
  <2> QED
    BY <1>7, <2>1, <2>2
<1>12. ASSUME code[i].op = "JMP"
       PROVE  /\ code'[i].target \in DOMAIN code'
              /\ code'[code'[i].target].op = "JMPCNV"
              /\ code'[code'[i].target].statement = Scopes!Opener(k)'
  <2>1. code'[i].target = code[i].target
    BY <1>7, <1>9, <1>12
  <2>2. PICK t : t = code[i].target
    OBVIOUS
  <2>3. t \in DOMAIN code /\ code[t].op = "JMPCNV" /\ code[t].statement = Scopes!Opener(k)
    BY <1>8, <1>12, <2>2
  <2>4. t \in DOMAIN code' /\ code'[t].op = "JMPCNV" /\ code'[t].statement = Scopes!Opener(k)
    BY <2>3, TargetsKept
  <2>5. Scopes!Opener(k)' = Scopes!Opener(k)
    BY <1>1, <1>2, <1>6, MeaningsStay
  <2> QED
    BY <2>1, <2>2, <2>4, <2>5
<1> QED
  BY <1>6, <1>7, <1>8, <1>10, <1>11, <1>12 DEF CommandMeans

(* A new command means what its statement says. *)
LEMMA CommandMeant ==
  ASSUME Shapes, IdsKnown, JumpsAimed, VariablesInOrder, TextCounted, Shapes', TextCounted',
         ScopesOpened, CodeMeans, NamesStand,
         NEW s \in Statements, StatementStep(s), MakesCommand(s), NEW p, p = Len(code)
  PROVE  CommandMeans(p + 1)'
<1>1. PICK n : n = Len(text)
  OBVIOUS
<1>2. /\ Continued(s) /\ n \in Nat
      /\ DOMAIN text = 1 .. n /\ DOMAIN text' = 1 .. n + 1
      /\ text'[n + 1] = s /\ \A k \in 1 .. n : text'[k] = text[k]
      /\ n + 1 \in 1 .. Len(text) + 1
  <2>1. Continued(s) /\ n \in Nat /\ DOMAIN text = 1 .. n /\ DOMAIN text' = 1 .. n + 1
    BY <1>1, Written
  <2>2. text'[n + 1] = s /\ \A k \in 1 .. n : text'[k] = text[k]
    BY <1>1, Written
  <2> QED
    BY <1>1, <2>1, <2>2
<1>3. /\ p \in Nat /\ DOMAIN code = 1 .. p /\ DOMAIN code' = 1 .. p + 1
      /\ code'[p + 1].statement = n + 1 /\ code'[p + 1].module = current_module_id
  <2>1. /\ Extended /\ p \in Nat /\ DOMAIN code = 1 .. p /\ DOMAIN code' = 1 .. Len(code')
        /\ Len(code') = p + 1
    BY CodeGrows
  <2>2. p + 1 \in Len(code) + 1 .. Len(code')
    BY <2>1
  <2> QED
    BY <1>1, <2>1, <2>2 DEF Extended
<1>4. CASE Declared(s)
  <2>1. s.op = "declare" /\ code' = Append(code, Command("STACK_UP", NoOperand, s.size))
    BY <1>4 DEF Declared
  <2>2. code'[p + 1].op = "STACK_UP"
    BY <2>1, CodeAppended, NoOperandIs, StatementKnown
  <2> QED
    BY <1>2, <1>3, <2>1, <2>2 DEF CommandMeans
<1>5. CASE Assigned(s)
  <2>1. PICK id : id = FindSymbolLocal(s.name)
    OBVIOUS
  <2>2. /\ id \in DOMAIN variables_descriptions /\ id # 0 /\ s.op = "assign"
        /\ code'[p + 1].op = "STORE" /\ code'[p + 1].operand = Operand(id)
        /\ code'[p + 1].size = variables_descriptions[id].size
        /\ id \notin dvicm => unhandled_symbols' = AddUnhandledSymbol(id)
        /\ variables_descriptions' = variables_descriptions
    BY <1>5, <2>1, AssignedMakes DEF Assigned, pseudo
  <2>3. PICK m : m = Scopes!Meaning(s.name, n + 1)
    OBVIOUS
  <2>4. Scopes!Candidates(s.name, n + 1) # {} /\ id = IdOf(m)
    BY <1>1, <2>1, <2>2, <2>3, LookUp
  <2>5. m \in 1 .. n
    BY <1>1, <1>2, <2>3, <2>4, MeaningIs
  <2>6. IdOf(m)' = id
    <3>1. m \in 0 .. Len(text)
      BY <1>1, <1>2, <2>5
    <3> QED
      BY <1>2, <2>4, <3>1, PastKept
  <2>7. /\ Scopes!Candidates(s.name, n + 1)' = Scopes!Candidates(s.name, n + 1)
        /\ Scopes!Meaning(s.name, n + 1)' = m
    BY <1>2, <2>3, MeaningsStay
  <2>8. Denotes(p + 1, id)'
    <3>1. CASE id \in dvicm
      <4>1. Operand(id) = [source |-> "StaticAddress",
                           data |-> variables_descriptions[id].global_stack_offset]
        BY <3>1 DEF Operand, DeclaredHere
      <4>2. variables_descriptions[id].module_id = current_module_id
        BY <2>2, <3>1 DEF VariablesInOrder
      <4> QED
        BY <1>3, <2>2, <4>1, <4>2 DEF Denotes
    <3>2. CASE id \notin dvicm
      <4>1. Operand(id).source = "Symbol"
        BY <3>2 DEF Operand, DeclaredHere
      <4>2. /\ Operand(id).data \in DOMAIN unhandled_symbols'
            /\ unhandled_symbols'[Operand(id).data] = id
        BY <2>2, <3>2, <4>1, OperandIs
      <4> QED
        BY <2>2, <4>1, <4>2 DEF Denotes
    <3> QED
      BY <3>1, <3>2
  <2>9. StoresTo(p + 1, n + 1)'
    BY <1>2, <2>4, <2>6, <2>7, <2>8 DEF StoresTo
  <2> QED
    BY <1>2, <1>3, <2>2, <2>9 DEF CommandMeans
<1>6. CASE OpenScope(s) /\ s.op = "while"
  <2>1. code' = Append(code, Command("JMPCNV", NoOperand, 0))
    BY <1>6 DEF OpenScope
  <2>2. code'[p + 1].op = "JMPCNV" /\ code'[p + 1].target = 0
    BY <2>1, CodeAppended, NoOperandIs
  <2> QED
    BY <1>2, <1>3, <1>6, <2>2 DEF CommandMeans
<1>7. CASE CloseScope(s) /\ Last(whiles) # 0
  <2>1. PICK t : t = Last(whiles)
    OBVIOUS
  <2>2. code'[p + 1].op = "JMP" /\ code'[p + 1].target = t
    BY <1>7, <2>1, LoopClosed
  <2>3. PICK k : k = Scopes!Opener(n + 1)
    OBVIOUS
  <2>4. t = whiles[Len(whiles)] /\ OpenedBy(k, Len(whiles))
    BY <1>1, <1>7, <2>1, <2>3, ClosesItsOpener
  <2>5. t \in DOMAIN code /\ code[t].statement = k /\ code[t].op = "JMPCNV"
    BY <1>7, <2>1, <2>4 DEF OpenedBy
  <2>6. t \in DOMAIN code' /\ code'[t].statement = k /\ code'[t].op = "JMPCNV"
    BY <2>5, TargetsKept
  <2>7. Scopes!Opener(n + 1)' = k
    BY <1>2, <2>3, MeaningsStay
  <2>8. s.op = "close"
    BY <1>7 DEF CloseScope
  <2> QED
    BY <1>2, <1>3, <2>2, <2>6, <2>7, <2>8 DEF CommandMeans
<1> QED
  BY <1>4, <1>5, <1>6, <1>7 DEF MakesCommand

(* Every command keeps its meaning, and what is linked is not changed. *)
LEMMA CodeMeansKept ==
  ASSUME Shapes, IdsKnown, JumpsAimed, VariablesInOrder, CodeInOrder, TextCounted,
         Shapes', TextCounted',
         ScopesOpened, ScopesClosed, CodeMeans, NamesStand, Steps
  PROVE  CodeMeans'
<1>1. ASSUME NEW s \in Statements, StatementStep(s)
      PROVE  CodeMeans'
  <2>1. PICK p : p = Len(code)
    OBVIOUS
  <2>2. /\ p \in Nat /\ DOMAIN code = 1 .. p /\ DOMAIN code' = 1 .. Len(code')
        /\ Len(code') = p + (IF MakesCommand(s) THEN 1 ELSE 0)
    BY <1>1, <2>1, CodeGrows
  <2>3. ASSUME NEW i \in DOMAIN code'
        PROVE  CommandMeans(i)'
    <3>1. CASE i \in DOMAIN code
      BY <1>1, <3>1, CommandKept
    <3>2. CASE i \notin DOMAIN code
      <4>1. i = p + 1 /\ MakesCommand(s)
        BY <2>2, <2>3, <3>2
      <4> QED
        BY <1>1, <2>1, <4>1, CommandMeant
    <3> QED
      BY <3>1, <3>2
  <2> QED
    BY <2>3 DEF CodeMeans
<1>2. CASE Link \/ Executes \/ UNCHANGED vars
  <2>1. UNCHANGED <<text, reported, code, variables_descriptions, unhandled_symbols>>
    BY <1>2 DEF Link, Executes, vars, byte, pseudo
  <2>2. \A i, id : Denotes(i, id)' <=> Denotes(i, id)
    BY <2>1 DEF Denotes
  <2>3. \A j : IdOf(j)' = IdOf(j)
    BY <2>1, TextSame
  <2>4. /\ \A k : Scopes!Opener(k)' = Scopes!Opener(k)
        /\ \A k, name : /\ Scopes!Candidates(name, k)' = Scopes!Candidates(name, k)
                        /\ Scopes!Meaning(name, k)' = Scopes!Meaning(name, k)
    BY <2>1, MeaningsSame
  <2>5. \A i, k : StoresTo(i, k)' <=> StoresTo(i, k)
    BY <2>1, <2>2, <2>3, <2>4 DEF StoresTo
  <2>6. \A i : CommandMeans(i)' <=> CommandMeans(i)
    BY <2>1, <2>4, <2>5 DEF CommandMeans
  <2> QED
    BY <2>1, <2>6 DEF CodeMeans
<1>3. CASE \E s \in Statements : StatementStep(s)
  BY <1>1, <1>3
<1> QED
  BY <1>2, <1>3 DEF Steps, StatementStep

-----------------------------------------------------------------------------
(* The tables of names.                                                    *)

(* Who is in scope behind the statement that has just been written. *)
LEMMA LiveIff ==
  ASSUME Shapes, Shapes', TextCounted, TextCounted', NEW s \in Statements, StatementStep(s),
         NEW n, n = Len(text), NEW j
  PROVE  /\ j \in Scopes!Live(n + 2)' <=>
              \/ j = n + 1 /\ Declared(s)
              \/ j \in Scopes!Live(n + 1) /\ Scopes!Depth(j) <= Len(whiles')
         /\ j \in Scopes!Live(n + 1) =>
              /\ j \in 1 .. n /\ text'[j] = text[j] /\ Scopes!Depth(j)' = Scopes!Depth(j)
              /\ IdOf(j)' = IdOf(j) /\ Scopes!Depth(j) \in Nat
              /\ Scopes!Depth(j) <= Len(whiles)
<1>1. /\ Continued(s) /\ n \in Nat /\ Len(text') = n + 1
      /\ DOMAIN text = 1 .. n /\ DOMAIN text' = 1 .. n + 1
      /\ text'[n + 1] = s /\ \A i \in 1 .. n : text'[i] = text[i]
      /\ Scopes!Depth(n + 1)' = Len(whiles) /\ Scopes!Depth(n + 1) = Len(whiles)
      /\ Scopes!Depth(n + 2)' = Len(whiles')
  BY Written
<1>2. /\ Scopes!Depth(n + 2)' = Len(whiles) + Opens(s) - Closes(s)
      /\ Registers(s) = IF Declared(s) THEN 1 ELSE 0
  BY <1>1, NextCounted, StatementsContinue
<1>3. ASSUME j \in Scopes!Live(n + 1)
      PROVE  /\ j \in 1 .. n /\ text'[j] = text[j] /\ Scopes!Depth(j)' = Scopes!Depth(j)
             /\ IdOf(j)' = IdOf(j) /\ Scopes!Depth(j) \in Nat
             /\ Scopes!Depth(j) <= Len(whiles) /\ Registered(j)
  <2>1. n + 1 \in 1 .. Len(text) + 1
    BY <1>1
  <2>2. /\ j \in 1 .. n /\ Scopes!Depth(j) \in Nat
        /\ Scopes!Depth(j) <= Len(whiles) /\ Registered(j)
    BY <1>1, <1>3, <2>1, LiveIs
  <2>3. j \in 1 .. Len(text) + 1 /\ j \in 0 .. Len(text)
    BY <1>1, <2>2
  <2> QED
    BY <1>1, <2>2, <2>3, PastKept
<1>4. ASSUME j \in Scopes!Live(n + 2)'
      PROVE  \/ j = n + 1 /\ Declared(s)
             \/ j \in Scopes!Live(n + 1) /\ Scopes!Depth(j) <= Len(whiles')
  <2>1. \/ j = n + 1 /\ Registers(s) = 1
        \/ j \in Scopes!Live(n + 1) /\ Scopes!Depth(j) <= Len(whiles) + Opens(s) - Closes(s)
    BY <1>1, <1>4, LiveNext
  <2> QED
    BY <1>1, <1>2, <2>1
<1>5. ASSUME j = n + 1, Declared(s)
      PROVE  j \in Scopes!Live(n + 2)'
  <2>1. text'[j].op = "declare" /\ j \notin reported'
    BY <1>1, <1>2, <1>5 DEF Registers
  <2>2. Len(whiles') = Len(whiles)
    BY <1>5 DEF Declared
  <2>3. \A k \in n + 1 + 1 .. n + 2 : k = n + 2
    BY <1>1
  <2>4. Len(whiles) \in Nat
    BY DEF Shapes
  <2>5. Scopes!Open(n + 1, n + 2)'
    BY <1>1, <2>2, <2>3, <2>4 DEF Scopes!Open
  <2>6. n + 1 \in 1 .. n + 2 - 1
    BY <1>1
  <2> QED
    BY <1>5, <2>1, <2>5, <2>6 DEF Scopes!Live
<1>6. ASSUME j \in Scopes!Live(n + 1), Scopes!Depth(j) <= Len(whiles')
      PROVE  j \in Scopes!Live(n + 2)'
  <2>1. text'[j].op = "declare" /\ j \notin reported'
    BY <1>1, <1>3, <1>6 DEF Registered, Continued
  <2>2. ASSUME NEW k \in j + 1 .. n + 2
        PROVE  Scopes!Depth(k)' >= Scopes!Depth(j)'
    <3>1. CASE k = n + 2
      <4>1. Len(whiles') \in Nat
        BY DEF Shapes
      <4> QED
        BY <1>1, <1>3, <1>6, <3>1, <4>1
    <3>2. CASE k # n + 2
      <4>1. k \in j + 1 .. n + 1 /\ k \in 1 .. Len(text) + 1
        BY <1>1, <1>3, <1>6, <2>2, <3>2
      <4>2. Scopes!Depth(k)' = Scopes!Depth(k)
        BY <1>1, <4>1, PastKept
      <4>3. Scopes!Depth(k) >= Scopes!Depth(j)
        BY <1>6, <4>1 DEF Scopes!Live, Scopes!Open
      <4> QED
        BY <1>3, <1>6, <4>2, <4>3
    <3> QED
      BY <3>1, <3>2
  <2>3. j \in 1 .. n + 2 - 1
    BY <1>1, <1>3, <1>6
  <2>4. Scopes!Open(j, n + 2)'
    BY <2>2 DEF Scopes!Open
  <2> QED
    BY <2>1, <2>3, <2>4 DEF Scopes!Live
<1> QED
  BY <1>3, <1>4, <1>5, <1>6

(* What a statement makes of the tables. *)
LEMMA FramesStep ==
  ASSUME Shapes, JumpsAimed, Shapes', NEW s \in Statements, StatementStep(s),
         NEW i \in DOMAIN frames_stack'
  PROVE  /\ i \in 1 .. Len(whiles') + 1 /\ Len(whiles) \in Nat /\ Len(whiles') \in Nat
         /\ DOMAIN frames_stack = 1 .. Len(whiles) + 1
         /\ \/ /\ i \in DOMAIN frames_stack /\ frames_stack'[i] = frames_stack[i]
               /\ Declared(s) => i # Len(whiles) + 1
            \/ OpenScope(s) /\ i = Len(whiles) + 2 /\ DOMAIN frames_stack'[i] = {}
            \/ /\ Declared(s) /\ i = Len(whiles) + 1
               /\ frames_stack'[i] = Added(frames_stack[i], s.name, NewId)
<1>1. frames_stack \in Seq(Tables) /\ frames_stack' \in Seq(Tables)
      /\ whiles \in Seq(Nat) /\ whiles' \in Seq(Nat)
      /\ Len(frames_stack) = Len(whiles) + 1 /\ Len(frames_stack') = Len(whiles') + 1
  BY DEF Shapes
<1>2. /\ Len(whiles) \in Nat /\ Len(whiles') \in Nat
      /\ DOMAIN frames_stack = 1 .. Len(whiles) + 1
      /\ DOMAIN frames_stack' = 1 .. Len(whiles') + 1
  BY <1>1
<1>3. CASE Refused(s) \/ Assigned(s) \/ NextModule(s)
  <2>1. frames_stack' = frames_stack
    BY <1>3 DEF Refused, Refuse, Assigned, NextModule, pseudo
  <2>2. ~Declared(s)
    <3>1. \/ Refused(s) /\ Len(text) + 1 \in reported' /\ ~MakesCommand(s)
          \/ s.op \in {"assign", "module"}
      <4>1. Refused(s) => Len(text) + 1 \in reported'
        BY DEF Refused, Refuse
      <4> QED
        BY <1>3, <4>1, StatementKinds DEF Assigned, NextModule
    <3> QED
      BY <3>1 DEF MakesCommand, Declared
  <2> QED
    BY <1>2, <2>1, <2>2
<1>4. CASE Declared(s)
  <2>1. frames_stack' = [frames_stack EXCEPT ![Len(frames_stack)] =
                           Added(frames_stack[Len(frames_stack)], s.name, NewId)]
    BY <1>4 DEF Declared
  <2>2. i \in DOMAIN frames_stack
    BY <2>1
  <2>3. CASE i = Len(whiles) + 1
    BY <1>1, <1>2, <1>4, <2>1, <2>2, <2>3
  <2>4. CASE i # Len(whiles) + 1
    <3>1. frames_stack'[i] = frames_stack[i]
      BY <1>1, <2>1, <2>2, <2>4
    <3> QED
      BY <1>2, <2>2, <2>4, <3>1
  <2> QED
    BY <2>3, <2>4
<1>5. CASE OpenScope(s)
  <2>1. /\ Len(frames_stack') = Len(frames_stack) + 1
        /\ DOMAIN frames_stack'[Len(frames_stack) + 1] = {}
        /\ \A k \in 1 .. Len(frames_stack) : frames_stack'[k] = frames_stack[k]
    BY <1>5, ScopeOpened
  <2>2. ~Declared(s)
    BY <1>5 DEF OpenScope, Declared
  <2>3. CASE i \in DOMAIN frames_stack
    BY <1>1, <1>2, <2>1, <2>2, <2>3
  <2>4. CASE i \notin DOMAIN frames_stack
    <3>1. i = Len(whiles) + 2 /\ i = Len(frames_stack) + 1
      BY <1>1, <1>2, <2>1, <2>4
    <3>2. DOMAIN frames_stack'[i] = {}
      BY <2>1, <3>1
    <3> QED
      BY <1>2, <1>5, <3>1, <3>2
  <2> QED
    BY <2>3, <2>4
<1>6. CASE CloseScope(s)
  <2>1. /\ Len(frames_stack') = Len(frames_stack) - 1
        /\ \A k \in 1 .. Len(frames_stack) - 1 : frames_stack'[k] = frames_stack[k]
    BY <1>6, ScopeClosed
  <2>2. ~Declared(s)
    BY <1>6 DEF CloseScope, Declared
  <2>3. i \in 1 .. Len(frames_stack) - 1 /\ i \in DOMAIN frames_stack
    BY <1>1, <1>2, <2>1
  <2> QED
    BY <1>2, <2>1, <2>2, <2>3
<1> QED
  BY <1>3, <1>4, <1>5, <1>6 DEF StatementStep

(* The tables go on to hold the declarations in scope. *)
LEMMA NamesStandKept ==
  ASSUME Shapes, IdsKnown, JumpsAimed, TextCounted, NamesStand, Shapes', TextCounted', Steps
  PROVE  NamesStand'
<1>1. ASSUME NEW s \in Statements, StatementStep(s)
      PROVE  NamesStand'
  <2>1. PICK n : n = Len(text)
    OBVIOUS
  <2>2. /\ Continued(s) /\ n \in Nat /\ Len(text') = n + 1
        /\ text'[n + 1] = s
        /\ Scopes!Depth(n + 1)' = Len(whiles)
    BY <1>1, <2>1, Written
  <2>3. Scopes!Live(Len(text) + 1)' = Scopes!Live(n + 2)'
    <3>1. Len(text') + 1 = n + 2
      BY <2>2
    <3> QED
      BY <3>1
  <2>4. \A j : /\ j \in Scopes!Live(n + 2)' <=>
                    \/ j = n + 1 /\ Declared(s)
                    \/ j \in Scopes!Live(n + 1) /\ Scopes!Depth(j) <= Len(whiles')
               /\ j \in Scopes!Live(n + 1) =>
                    /\ j \in 1 .. n /\ text'[j] = text[j] /\ Scopes!Depth(j)' = Scopes!Depth(j)
                    /\ IdOf(j)' = IdOf(j) /\ Scopes!Depth(j) \in Nat
                    /\ Scopes!Depth(j) <= Len(whiles)
    BY <1>1, <2>1, LiveIff
  <2>5. \A i \in DOMAIN frames_stack :
          /\ \A name \in DOMAIN frames_stack[i] :
               \E j \in Scopes!Live(n + 1) : text[j].name = name /\ Scopes!Depth(j) = i - 1
          /\ \A j \in Scopes!Live(n + 1) :
               Scopes!Depth(j) = i - 1 =>
                 /\ text[j].name \in DOMAIN frames_stack[i]
                 /\ frames_stack[i][text[j].name] = IdOf(j)
    BY <2>1 DEF NamesStand, DeclaredAs
  <2>6. ASSUME NEW i \in DOMAIN frames_stack'
        PROVE  /\ \A name \in DOMAIN frames_stack'[i] :
                    \E j \in Scopes!Live(n + 2)' :
                      text'[j].name = name /\ Scopes!Depth(j)' = i - 1
               /\ \A j \in Scopes!Live(n + 2)' :
                    Scopes!Depth(j)' = i - 1 =>
                      /\ text'[j].name \in DOMAIN frames_stack'[i]
                      /\ frames_stack'[i][text'[j].name] = IdOf(j)'
    <3>1. /\ i \in 1 .. Len(whiles') + 1 /\ Len(whiles) \in Nat /\ Len(whiles') \in Nat
          /\ DOMAIN frames_stack = 1 .. Len(whiles) + 1
      BY <1>1, FramesStep
    <3>2. ASSUME i \in DOMAIN frames_stack, NEW name \in DOMAIN frames_stack[i]
          PROVE  \E j \in Scopes!Live(n + 2)' :
                   text'[j].name = name /\ Scopes!Depth(j)' = i - 1
      <4>1. PICK j \in Scopes!Live(n + 1) : text[j].name = name /\ Scopes!Depth(j) = i - 1
        BY <2>5, <3>2
      <4>2. Scopes!Depth(j) <= Len(whiles')
        BY <3>1, <4>1
      <4> QED
        BY <2>4, <4>1, <4>2
    <3>3. CASE /\ i \in DOMAIN frames_stack /\ frames_stack'[i] = frames_stack[i]
               /\ Declared(s) => i # Len(whiles) + 1
      <4>1. ASSUME NEW j \in Scopes!Live(n + 2)', Scopes!Depth(j)' = i - 1
            PROVE  /\ text'[j].name \in DOMAIN frames_stack'[i]
                   /\ frames_stack'[i][text'[j].name] = IdOf(j)'
        <5>1. ~(j = n + 1 /\ Declared(s))
          BY <2>2, <3>1, <3>3, <4>1
        <5>2. j \in Scopes!Live(n + 1)
          BY <2>4, <4>1, <5>1
        <5> QED
          BY <2>4, <2>5, <3>3, <4>1, <5>2
      <4> QED
        BY <3>2, <3>3, <4>1
    <3>4. CASE OpenScope(s) /\ i = Len(whiles) + 2 /\ DOMAIN frames_stack'[i] = {}
      <4>1. ~Declared(s)
        BY <3>4 DEF OpenScope, Declared
      <4>2. ASSUME NEW j \in Scopes!Live(n + 2)'
            PROVE  Scopes!Depth(j)' # i - 1
        <5>1. Scopes!Depth(j)' \in Nat /\ Scopes!Depth(j)' <= Len(whiles)
          BY <2>4, <4>1, <4>2
        <5> QED
          BY <3>1, <3>4, <5>1
      <4> QED
        BY <3>4, <4>2
    <3>5. CASE /\ Declared(s) /\ i = Len(whiles) + 1
               /\ frames_stack'[i] = Added(frames_stack[i], s.name, NewId)
      <4>1. i \in DOMAIN frames_stack /\ i - 1 = Len(whiles)
        BY <3>1, <3>5
      <4>2. /\ DOMAIN frames_stack'[i] = DOMAIN frames_stack[i] \cup {s.name}
            /\ frames_stack'[i][s.name] = NewId
            /\ \A name \in DOMAIN frames_stack[i] :
                 name # s.name => frames_stack'[i][name] = frames_stack[i][name]
        BY <3>5 DEF Added
      <4>3. s.name \notin DOMAIN frames_stack[i]
        <5>1. Last(frames_stack) = frames_stack[i]
          <6>1. Len(frames_stack) = i
            BY <3>5 DEF Shapes
          <6> QED
            BY <6>1 DEF Last
        <5> QED
          BY <3>5, <5>1 DEF Declared, Has
      <4>4. IdOf(n + 1)' = NewId
        BY <2>1, <3>5, VarDeclared DEF NewId
      <4>5. n + 1 \in Scopes!Live(n + 2)'
        BY <2>4, <3>5
      <4>6. ASSUME NEW name \in DOMAIN frames_stack'[i]
            PROVE  \E j \in Scopes!Live(n + 2)' :
                     text'[j].name = name /\ Scopes!Depth(j)' = i - 1
        <5>1. CASE name = s.name
          BY <2>2, <4>1, <4>5, <5>1
        <5>2. CASE name \in DOMAIN frames_stack[i]
          BY <3>2, <4>1, <5>2
        <5> QED
          BY <4>2, <5>1, <5>2
      <4>7. ASSUME NEW j \in Scopes!Live(n + 2)', Scopes!Depth(j)' = i - 1
            PROVE  /\ text'[j].name \in DOMAIN frames_stack'[i]
                   /\ frames_stack'[i][text'[j].name] = IdOf(j)'
        <5>1. CASE j = n + 1
          BY <2>2, <4>2, <4>4, <5>1
        <5>2. CASE j # n + 1
          <6>1. j \in Scopes!Live(n + 1)
            BY <2>4, <4>7, <5>2
          <6>2. /\ text'[j].name = text[j].name /\ Scopes!Depth(j) = i - 1 /\ IdOf(j)' = IdOf(j)
            BY <2>4, <4>7, <6>1
          <6>3. /\ text[j].name \in DOMAIN frames_stack[i]
                /\ frames_stack[i][text[j].name] = IdOf(j)
            BY <2>5, <4>1, <6>1, <6>2
          <6> QED
            BY <4>2, <4>3, <6>2, <6>3
        <5> QED
          BY <5>1, <5>2
      <4> QED
        BY <4>6, <4>7
    <3> QED
      BY <1>1, <3>3, <3>4, <3>5, FramesStep
  <2> QED
    BY <2>3, <2>6 DEF NamesStand, DeclaredAs
<1>2. CASE Link \/ Executes \/ UNCHANGED vars
  <2>1. UNCHANGED <<text, reported, frames_stack>>
    BY <1>2 DEF Link, Executes, vars, pseudo
  <2>2. /\ \A i : Scopes!Depth(i)' = Scopes!Depth(i) /\ Scopes!Live(i)' = Scopes!Live(i)
        /\ \A j : IdOf(j)' = IdOf(j)
    BY <2>1, TextSame
  <2>3. Scopes!Live(Len(text) + 1)' = Scopes!Live(Len(text) + 1)
    BY <2>1, <2>2
  <2> QED
    BY <2>1, <2>2, <2>3 DEF NamesStand, DeclaredAs
<1>3. CASE \E s \in Statements : StatementStep(s)
  BY <1>1, <1>3
<1> QED
  BY <1>2, <1>3 DEF Steps, StatementStep

(* No type is empty. *)
LEMMA NoneIsEmptyKept ==
  ASSUME Shapes, NoneIsEmpty, Steps
  PROVE  NoneIsEmpty'
<1>1. ASSUME NEW s \in Statements, Declared(s)
      PROVE  NoneIsEmpty'
  <2>1. PICK n : n = Len(variables_descriptions)
    OBVIOUS
  <2>2. /\ n \in Nat /\ Len(variables_descriptions') = n + 1
        /\ variables_descriptions' \in Seq(Descriptions)
        /\ \A i \in 1 .. n : variables_descriptions'[i] = variables_descriptions[i]
        /\ variables_descriptions'[n + 1] =
             [module_id |-> current_module_id, size |-> s.size,
              global_stack_offset |-> NextFreeAddress]
    BY <1>1, <2>1, DeclaredMakes
  <2>3. s.size # 0
    BY <1>1, StatementKnown DEF Declared
  <2>4. variables_descriptions \in Seq(Descriptions)
    BY DEF Shapes
  <2>5. DOMAIN variables_descriptions = 1 .. n /\ DOMAIN variables_descriptions' = 1 .. n + 1
    BY <2>1, <2>2, <2>4
  <2>6. \A i \in 1 .. n : variables_descriptions[i].size # 0
    BY <2>5 DEF NoneIsEmpty
  <2>7. \A i \in 1 .. n + 1 : i \in 1 .. n \/ i = n + 1
    BY <2>2
  <2>8. \A i \in 1 .. n + 1 : variables_descriptions'[i].size # 0
    BY <2>2, <2>3, <2>6, <2>7
  <2> QED
    BY <2>5, <2>8 DEF NoneIsEmpty
<1>2. CASE UNCHANGED variables_descriptions
  BY <1>2 DEF NoneIsEmpty
<1> QED
  BY <1>1, <1>2
     DEF Steps, Refused, Refuse, Assigned, OpenScope, CloseScope, NextModule, Link, Executes,
         vars, pseudo

(* At first there is nothing to mean. *)
LEMMA InitMeaning == Init => MeaningKept
<1> SUFFICES ASSUME Init
             PROVE  MeaningKept
  OBVIOUS
<1>1. /\ text = << >> /\ frames_stack = << << >> >> /\ variables_descriptions = << >>
      /\ whiles = << >> /\ code = << >>
  BY DEF Init
<1>2. /\ DOMAIN text = {} /\ DOMAIN whiles = {} /\ DOMAIN code = {}
      /\ DOMAIN variables_descriptions = {} /\ Len(text) + 1 = 1
      /\ DOMAIN frames_stack = {1} /\ DOMAIN frames_stack[1] = {}
  BY <1>1
<1>3. ScopesOpened /\ ScopesClosed /\ CodeFollowsText /\ CodeMeans /\ NoneIsEmpty
  BY <1>2 DEF ScopesOpened, ScopesClosed, CodeFollowsText, CodeMeans, NoneIsEmpty
<1>4. Scopes!Live(1) = {}
  BY DEF Scopes!Live
<1>5. NamesStand
  BY <1>2, <1>4 DEF NamesStand
<1> QED
  BY <1>3, <1>5 DEF MeaningKept

(* Every step keeps what the code means. *)
LEMMA NextMeaning == IInv /\ MeaningKept /\ [Next]_vars => MeaningKept'
<1> SUFFICES ASSUME IInv, MeaningKept, [Next]_vars
             PROVE  MeaningKept'
  OBVIOUS
<1>1. /\ Shapes /\ IdsKnown /\ JumpsAimed /\ VariablesInOrder /\ CodeInOrder /\ TextCounted
  BY DEF IInv
<1>2. Shapes' /\ TextCounted'
  BY NextIInv DEF IInv
<1>3. Steps
  BY <1>1, StepsKnown
<1>4. /\ ScopesOpened /\ ScopesClosed /\ CodeFollowsText /\ CodeMeans /\ NamesStand
      /\ NoneIsEmpty
  BY DEF MeaningKept
<1>5. ScopesOpened' /\ ScopesClosed'
  BY <1>1, <1>2, <1>3, <1>4, ScopesOpenedKept, ScopesClosedKept
<1>6. CodeFollowsText'
  BY <1>1, <1>2, <1>3, <1>4, CodeFollowsTextKept
<1>7. CodeMeans'
  BY <1>1, <1>2, <1>3, <1>4, CodeMeansKept
<1>8. NamesStand' /\ NoneIsEmpty'
  BY <1>1, <1>2, <1>3, <1>4, NamesStandKept, NoneIsEmptyKept
<1> QED
  BY <1>5, <1>6, <1>7, <1>8 DEF MeaningKept

-----------------------------------------------------------------------------
(* Where a program goes on.                                                *)

(* The statement that the machine is at when it is at command i. *)
AtOf(i) == IF i > Len(code) THEN Len(text) + 1 ELSE code[i].statement

(* The first command of statement i or a later one is where i leads. *)
LEMMA SettleIs ==
  ASSUME Shapes, CodeInOrder, CodeFollowsText, NEW i \in 1 .. Len(text) + 1,
         NEW t \in 1 .. Len(code) + 1,
         t # 1 => code[t - 1].statement < i,
         t <= Len(code) => i <= code[t].statement
  PROVE  Scopes!Settle(i) = AtOf(t)
<1>1. /\ Len(text) \in Nat /\ Len(code) \in Nat
      /\ DOMAIN text = 1 .. Len(text) /\ DOMAIN code = 1 .. Len(code)
  BY LengthsKnown
<1> DEFINE loud == {k \in i .. Len(text) : Scopes!Loud(k)}
<1>2. \A x \in DOMAIN code : code[x].statement \in 1 .. Len(text)
  BY <1>1 DEF CodeInOrder
<1>3. ASSUME NEW k \in loud
      PROVE  \E x \in DOMAIN code : x >= t /\ code[x].statement = k
  <2>1. k \in DOMAIN text /\ k >= i
    BY <1>1
  <2>2. PICK x \in DOMAIN code : code[x].statement = k
    BY <2>1 DEF CodeFollowsText
  <2>3. ASSUME x < t
        PROVE  FALSE
    <3>1. t # 1 /\ t - 1 \in DOMAIN code /\ (x = t - 1 \/ x < t - 1)
      BY <1>1, <2>3
    <3>2. code[x].statement <= code[t - 1].statement
      BY <1>2, <3>1 DEF CodeFollowsText
    <3>3. code[t - 1].statement < i /\ code[t - 1].statement \in Nat
      BY <1>2, <3>1
    <3> QED
      BY <1>1, <2>1, <2>2, <3>2, <3>3
  <2> QED
    BY <1>1, <2>2, <2>3
<1>4. Scopes!Settle(i) = IF loud = {} THEN Len(text) + 1 ELSE Min(loud)
  BY SameMaxMin DEF Scopes!Settle
<1>5. CASE t > Len(code)
  <2>1. loud = {}
    BY <1>1, <1>3, <1>5
  <2> QED
    BY <1>4, <1>5, <2>1 DEF AtOf
<1>6. CASE t <= Len(code)
  <2>1. PICK k : k = code[t].statement
    OBVIOUS
  <2>2. t \in DOMAIN code /\ k \in 1 .. Len(text) /\ i <= k
    BY <1>1, <1>2, <1>6, <2>1
  <2>3. Scopes!Loud(k)
    BY <1>1, <2>1, <2>2 DEF CodeFollowsText
  <2>4. k \in loud
    BY <1>1, <2>2, <2>3
  <2>5. ASSUME NEW m \in loud
        PROVE  k <= m
    <3>1. PICK x \in DOMAIN code : x >= t /\ code[x].statement = m
      BY <1>3
    <3>2. CASE x = t
      BY <2>1, <2>2, <3>1, <3>2
    <3>3. CASE x # t
      <4>1. t < x
        BY <1>1, <2>2, <3>1, <3>3
      <4>2. code[t].statement < code[x].statement
        BY <2>2, <4>1 DEF CodeFollowsText
      <4> QED
        BY <1>1, <1>2, <2>1, <2>2, <3>1, <4>2
    <3> QED
      BY <3>2, <3>3
  <2>6. loud \subseteq Int
    BY <1>1
  <2> HIDE DEF loud
  <2>7. Min(loud) = k
    BY <2>4, <2>5, <2>6, MinIs
  <2>8. AtOf(t) = k
    BY <1>1, <1>6, <2>1 DEF AtOf
  <2> QED
    BY <1>4, <2>4, <2>7, <2>8
<1> QED
  BY <1>1, <1>5, <1>6

(* Behind a command comes the next one, and a command is where it is. *)
LEMMA SettledBehind ==
  ASSUME Shapes, CodeInOrder, CodeFollowsText, NEW t \in DOMAIN code
  PROVE  /\ code[t].statement \in 1 .. Len(text)
         /\ Scopes!Settle(code[t].statement + 1) = AtOf(t + 1)
         /\ Scopes!Settle(code[t].statement) = AtOf(t)
<1>1. /\ Len(text) \in Nat /\ Len(code) \in Nat
      /\ DOMAIN text = 1 .. Len(text) /\ DOMAIN code = 1 .. Len(code)
  BY DEF Shapes
<1>2. \A x \in DOMAIN code : code[x].statement \in 1 .. Len(text)
  BY <1>1 DEF CodeInOrder
<1>3. PICK k : k = code[t].statement
  OBVIOUS
<1>4. k \in 1 .. Len(text) /\ t \in 1 .. Len(code)
  BY <1>1, <1>2, <1>3
<1>5. Scopes!Settle(k + 1) = AtOf(t + 1)
  <2>1. k + 1 \in 1 .. Len(text) + 1 /\ t + 1 \in 1 .. Len(code) + 1 /\ t + 1 - 1 = t
    BY <1>1, <1>4
  <2>2. t + 1 <= Len(code) => k + 1 <= code[t + 1].statement
    <3>1. ASSUME t + 1 <= Len(code)
          PROVE  k + 1 <= code[t + 1].statement
      <4>1. t + 1 \in DOMAIN code /\ t < t + 1
        BY <1>1, <1>4, <3>1
      <4>2. code[t].statement < code[t + 1].statement
        BY <4>1 DEF CodeFollowsText
      <4>3. code[t + 1].statement \in Nat
        BY <1>2, <4>1
      <4> QED
        BY <1>3, <1>4, <4>2, <4>3
    <3> QED
      BY <3>1
  <2>3. code[t + 1 - 1].statement < k + 1
    BY <1>3, <1>4, <2>1
  <2>4. PICK u : u = t + 1
    OBVIOUS
  <2>5. PICK i : i = k + 1
    OBVIOUS
  <2>6. /\ i \in 1 .. Len(text) + 1 /\ u \in 1 .. Len(code) + 1
        /\ u # 1 => code[u - 1].statement < i
        /\ u <= Len(code) => i <= code[u].statement
    BY <2>1, <2>2, <2>3, <2>4, <2>5
  <2>7. Scopes!Settle(i) = AtOf(u)
    BY <2>6, SettleIs
  <2> QED
    BY <2>4, <2>5, <2>7
<1>6. Scopes!Settle(k) = AtOf(t)
  <2>1. k \in 1 .. Len(text) + 1 /\ t \in 1 .. Len(code) + 1
    BY <1>1, <1>4
  <2>2. ASSUME t # 1
        PROVE  code[t - 1].statement < k
    <3>1. t - 1 \in DOMAIN code /\ t - 1 < t
      BY <1>1, <1>4, <2>2
    <3> QED
      BY <1>3, <3>1 DEF CodeFollowsText
  <2>3. t <= Len(code) => k <= code[t].statement
    BY <1>3, <1>4
  <2> QED
    BY <2>1, <2>2, <2>3, SettleIs
<1> QED
  BY <1>3, <1>4, <1>5, <1>6

(* A program begins with its first command. *)
LEMMA SettledFirst ==
  ASSUME Shapes, CodeInOrder, CodeFollowsText
  PROVE  /\ Scopes!Settle(1) = AtOf(1)
         /\ Scopes!Live(AtOf(1)) = {}
<1>1. /\ Len(text) \in Nat /\ Len(code) \in Nat
      /\ DOMAIN text = 1 .. Len(text) /\ DOMAIN code = 1 .. Len(code)
  BY DEF Shapes
<1>2. \A x \in DOMAIN code : code[x].statement \in 1 .. Len(text)
  BY <1>1 DEF CodeInOrder
<1>3. Scopes!Settle(1) = AtOf(1)
  <2>1. 1 \in 1 .. Len(text) + 1 /\ 1 \in 1 .. Len(code) + 1
    BY <1>1
  <2>2. 1 <= Len(code) => 1 <= code[1].statement
    BY <1>1, <1>2
  <2> QED
    BY <2>1, <2>2, SettleIs
<1>4. ASSUME NEW j \in Scopes!Live(AtOf(1))
      PROVE  FALSE
  <2>1. AtOf(1) \in 1 .. Len(text) + 1
    BY <1>1, <1>2 DEF AtOf
  <2>2. /\ j \in 1 .. AtOf(1) - 1 /\ text[j].op = "declare" /\ j \notin reported
    BY DEF Scopes!Live
  <2>3. Scopes!Loud(j) /\ j \in DOMAIN text
    BY <1>1, <2>1, <2>2 DEF Scopes!Loud
  <2>4. PICK x \in DOMAIN code : code[x].statement = j
    BY <2>3 DEF CodeFollowsText
  <2>5. 1 \in DOMAIN code /\ AtOf(1) = code[1].statement
    BY <1>1, <2>4 DEF AtOf
  <2>6. code[1].statement <= j
    <3>1. CASE x = 1
      BY <1>1, <1>2, <2>4, <2>5, <3>1
    <3>2. CASE x # 1
      <4>1. 1 < x
        BY <1>1, <2>4, <3>2
      <4>2. code[1].statement < code[x].statement
        BY <2>4, <2>5, <4>1 DEF CodeFollowsText
      <4> QED
        BY <1>2, <2>4, <2>5, <4>2
    <3> QED
      BY <3>1, <3>2
  <2> QED
    BY <1>1, <2>1, <2>2, <2>5, <2>6
<1> QED
  BY <1>3, <1>4

(* Nothing comes into scope where nothing is done. *)
LEMMA LiveSettled ==
  ASSUME Shapes, NEW i \in 1 .. Len(text) + 1
  PROVE  /\ Scopes!Settle(i) \in i .. Len(text) + 1
         /\ Scopes!Live(Scopes!Settle(i)) \subseteq Scopes!Live(i)
<1>1. Len(text) \in Nat
  BY DEF Shapes
<1> DEFINE loud == {k \in i .. Len(text) : Scopes!Loud(k)}
<1>2. Scopes!Settle(i) = IF loud = {} THEN Len(text) + 1 ELSE Min(loud)
  BY SameMaxMin DEF Scopes!Settle
<1>3. PICK q : q = Scopes!Settle(i)
  OBVIOUS
<1>4. q \in i .. Len(text) + 1 /\ \A k \in loud : q <= k
  <2>1. CASE loud = {}
    BY <1>1, <1>2, <1>3, <2>1
  <2>2. CASE loud # {}
    <3>1. loud \subseteq Nat /\ loud \subseteq i .. Len(text)
      BY <1>1
    <3> HIDE DEF loud
    <3>2. PICK x \in loud : \A y \in loud : x <= y
      BY <2>2, <3>1, LeastNatural
    <3>3. loud \subseteq Int
      BY <3>1
    <3>4. Min(loud) = x
      BY <3>2, <3>3, MinIs
    <3>5. q = x /\ x \in i .. Len(text)
      BY <1>2, <1>3, <2>2, <3>1, <3>2, <3>4
    <3> QED
      BY <1>1, <3>2, <3>5
  <2> QED
    BY <2>1, <2>2
<1>5. ASSUME NEW j \in Scopes!Live(q)
      PROVE  j \in Scopes!Live(i)
  <2>1. /\ j \in 1 .. q - 1 /\ text[j].op = "declare" /\ j \notin reported
        /\ \A k \in j + 1 .. q : Scopes!Depth(k) >= Scopes!Depth(j)
    BY DEF Scopes!Live, Scopes!Open
  <2>2. Scopes!Loud(j)
    BY <2>1 DEF Scopes!Loud
  <2>3. j \in 1 .. i - 1
    <3>1. j \notin loud
      BY <1>1, <1>4, <2>1
    <3>2. j \notin i .. Len(text)
      BY <2>2, <3>1
    <3> QED
      BY <1>1, <1>4, <2>1, <3>2
  <2>4. \A k \in j + 1 .. i : k \in j + 1 .. q
    BY <1>1, <1>4, <2>3
  <2> QED
    BY <2>1, <2>3, <2>4 DEF Scopes!Live, Scopes!Open
<1> QED
  BY <1>3, <1>4, <1>5

(* One statement brings at most its own variable into scope. *)
LEMMA LiveAfter ==
  ASSUME Shapes, NEW q \in 1 .. Len(text), NEW j \in Scopes!Live(q + 1)
  PROVE  \/ j = q /\ text[q].op = "declare"
         \/ j \in Scopes!Live(q)
<1>1. Len(text) \in Nat
  BY DEF Shapes
<1>2. /\ j \in 1 .. q /\ text[j].op = "declare" /\ j \notin reported
      /\ \A k \in j + 1 .. q + 1 : Scopes!Depth(k) >= Scopes!Depth(j)
  <2>1. q + 1 - 1 = q
    BY <1>1
  <2> QED
    BY <2>1 DEF Scopes!Live, Scopes!Open
<1>3. CASE j # q
  <2>1. j \in 1 .. q - 1 /\ \A k \in j + 1 .. q : k \in j + 1 .. q + 1
    BY <1>1, <1>2, <1>3
  <2> QED
    BY <1>2, <2>1 DEF Scopes!Live, Scopes!Open
<1> QED
  BY <1>2, <1>3

(* What is in scope before a loop is so at its end, and no more behind it. *)
LEMMA LiveAroundLoop ==
  ASSUME Shapes, TextCounted, NEW c \in 1 .. Len(text), text[c].op = "close",
         NEW k, ClosedBy(k, c)
  PROVE  /\ k \in 1 .. c - 1
         /\ Scopes!Live(c + 1) \subseteq Scopes!Live(k)
         /\ Scopes!Live(k) \subseteq Scopes!Live(c)
<1>1. Len(text) \in Nat
  BY DEF Shapes
<1>2. /\ k \in 1 .. c - 1 /\ text[k].op \in {"scope", "while"}
      /\ Scopes!Depth(k) = Scopes!Depth(c) - 1
      /\ \A m \in k + 1 .. c : Scopes!Depth(m) >= Scopes!Depth(c)
  BY DEF ClosedBy, Scopes!Opening
<1>3. /\ Scopes!Depth(c) \in Nat /\ Scopes!Depth(c + 1) \in Nat
      /\ Scopes!Depth(c + 1) = Scopes!Depth(c) - 1
  <2>1. Step("close") = 0 - 1
    BY DEF Step, Scopes!Opening
  <2> QED
    BY <2>1, DepthStep
<1>4. ASSUME NEW j \in Scopes!Live(c + 1)
      PROVE  j \in Scopes!Live(k)
  <2>1. /\ j \in 1 .. c /\ text[j].op = "declare" /\ j \notin reported
        /\ \A m \in j + 1 .. c + 1 : Scopes!Depth(m) >= Scopes!Depth(j)
    <3>1. c + 1 - 1 = c
      BY <1>1
    <3> QED
      BY <3>1 DEF Scopes!Live, Scopes!Open
  <2>2. Scopes!Depth(j) \in Nat /\ Scopes!Depth(j) <= Scopes!Depth(c + 1)
    <3>1. j \in 1 .. Len(text) + 1 /\ c + 1 \in j + 1 .. c + 1
      BY <1>1, <2>1
    <3>2. Scopes!Depth(j) \in Nat
      BY <3>1 DEF TextCounted
    <3> QED
      BY <1>3, <2>1, <3>1, <3>2
  <2>3. j \notin k + 1 .. c
    BY <1>2, <1>3, <2>2
  <2>4. j # k
    BY <1>2, <2>1
  <2>5. j \in 1 .. k - 1 /\ \A m \in j + 1 .. k : m \in j + 1 .. c + 1
    BY <1>1, <1>2, <2>1, <2>3, <2>4
  <2> QED
    BY <2>1, <2>5 DEF Scopes!Live, Scopes!Open
<1>5. ASSUME NEW j \in Scopes!Live(k)
      PROVE  j \in Scopes!Live(c)
  <2>1. /\ j \in 1 .. k - 1 /\ text[j].op = "declare" /\ j \notin reported
        /\ \A m \in j + 1 .. k : Scopes!Depth(m) >= Scopes!Depth(j)
    BY DEF Scopes!Live, Scopes!Open
  <2>2. Scopes!Depth(j) \in Nat /\ Scopes!Depth(j) <= Scopes!Depth(k)
    <3>1. k \in 1 .. Len(text) + 1
      BY <1>1, <1>2
    <3> QED
      BY <3>1, LiveIs
  <2>3. ASSUME NEW m \in j + 1 .. c
        PROVE  Scopes!Depth(m) >= Scopes!Depth(j)
    <3>1. CASE m \in j + 1 .. k
      BY <2>1, <3>1
    <3>2. CASE m \notin j + 1 .. k
      <4>1. m \in k + 1 .. c /\ m \in 1 .. Len(text) + 1
        BY <1>1, <1>2, <2>1, <2>3, <3>2
      <4>2. Scopes!Depth(m) >= Scopes!Depth(c) /\ Scopes!Depth(m) \in Nat
        BY <1>2, <4>1 DEF TextCounted
      <4> QED
        BY <1>2, <1>3, <2>2, <4>2
    <3> QED
      BY <3>1, <3>2
  <2>4. j \in 1 .. c - 1
    BY <1>1, <1>2, <2>1
  <2> QED
    BY <2>1, <2>3, <2>4 DEF Scopes!Live, Scopes!Open
<1> QED
  BY <1>2, <1>4, <1>5

(* A scope has one end. *)
LEMMA CloserIs ==
  ASSUME Shapes, TextCounted, ScopesClosed, NEW c \in 1 .. Len(text), text[c].op = "close",
         NEW k, k = Scopes!Opener(c)
  PROVE  Scopes!Closer(k) = c /\ ClosedBy(k, c)
<1>1. Len(text) \in Nat /\ DOMAIN text = 1 .. Len(text)
  BY DEF Shapes
<1>2. ClosedBy(k, c)
  BY <1>1 DEF ScopesClosed
<1>3. /\ k \in 1 .. c - 1
      /\ Scopes!Depth(k) = Scopes!Depth(c) - 1
      /\ \A m \in k + 1 .. c : Scopes!Depth(m) >= Scopes!Depth(c)
  BY <1>2 DEF ClosedBy
<1> DEFINE T == {m \in k + 1 .. Len(text) : text[m].op = "close" /\ Scopes!Opener(m) = k}
<1>4. c \in T
  BY <1>1, <1>3
<1>5. ASSUME NEW m \in T
      PROVE  c <= m
  <2> SUFFICES ASSUME m < c
               PROVE  FALSE
    BY <1>1, <1>3
  <2>1. m \in 1 .. Len(text) /\ m + 1 \in k + 1 .. c /\ text[m].op = "close"
    BY <1>1, <1>3
  <2>2. ClosedBy(k, m)
    BY <1>1, <2>1 DEF ScopesClosed
  <2>3. Scopes!Depth(k) = Scopes!Depth(m) - 1
    BY <2>2 DEF ClosedBy
  <2>4. /\ Scopes!Depth(m) \in Nat /\ Scopes!Depth(m + 1) = Scopes!Depth(m) - 1
        /\ Scopes!Depth(c) \in Nat
    <3>1. Step("close") = 0 - 1
      BY DEF Step, Scopes!Opening
    <3> QED
      BY <2>1, <3>1, DepthStep
  <2>5. Scopes!Depth(m + 1) >= Scopes!Depth(c)
    BY <1>3, <2>1
  <2> QED
    BY <1>3, <2>3, <2>4, <2>5
<1>6. T \subseteq Int
  BY <1>1, <1>3
<1>7. Scopes!Closer(k) = Min(T)
  BY SameMaxMin DEF Scopes!Closer
<1> HIDE DEF T
<1>8. Min(T) = c
  BY <1>4, <1>5, <1>6, MinIs
<1> QED
  BY <1>2, <1>7, <1>8

-----------------------------------------------------------------------------
(* The operators of the two instances of LexicalPromise are the same.      *)

(* They count alike. *)
LEMMA PromiseCardinality == \A T : Promise!Cardinality(T) = Scopes!Cardinality(T)
  BY DEF Promise!Cardinality, Scopes!Cardinality

(* They choose the first and the last of a set alike. *)
LEMMA PromiseMaxMin == \A T : Promise!Max(T) = Scopes!Max(T) /\ Promise!Min(T) = Scopes!Min(T)
  BY DEF Promise!Max, Scopes!Max, Promise!Min, Scopes!Min

(* They agree on how many scopes are open before a statement. *)
LEMMA PromiseDepth == \A i : Promise!Depth(i) = Scopes!Depth(i)
  BY PromiseCardinality DEF Promise!Depth, Scopes!Depth, Promise!Opening, Scopes!Opening

(* They agree on the declarations in scope. *)
LEMMA PromiseLive == \A i : Promise!Live(i) = Scopes!Live(i)
<1>1. \A j, i : Promise!Open(j, i) <=> Scopes!Open(j, i)
  BY PromiseDepth DEF Promise!Open, Scopes!Open
<1> QED
  BY <1>1 DEF Promise!Live, Scopes!Live

(* They agree on the declaration that a name means. *)
LEMMA PromiseMeaning ==
  \A name, i : /\ Promise!Candidates(name, i) = Scopes!Candidates(name, i)
               /\ Promise!Meaning(name, i) = Scopes!Meaning(name, i)
<1>1. \A name, i : Promise!Candidates(name, i) = Scopes!Candidates(name, i)
  BY PromiseLive DEF Promise!Candidates, Scopes!Candidates
<1> QED
  BY <1>1, PromiseMaxMin DEF Promise!Meaning, Scopes!Meaning

(* They agree on the statement that opened the innermost scope. *)
LEMMA PromiseOpener == \A i : Promise!Opener(i) = Scopes!Opener(i)
<1> TAKE i
<1>1. \A j : Promise!Open(j, i) <=> Scopes!Open(j, i)
  BY PromiseDepth DEF Promise!Open, Scopes!Open
<1>2. {k \in 1 .. i - 1 : text[k].op \in Promise!Opening /\ Promise!Open(k + 1, i)} =
      {k \in 1 .. i - 1 : text[k].op \in Scopes!Opening /\ Scopes!Open(k + 1, i)}
  BY <1>1 DEF Promise!Opening, Scopes!Opening
<1> QED
  BY <1>2, PromiseMaxMin DEF Promise!Opener, Scopes!Opener

(* They agree on the statement that closes a loop. *)
LEMMA PromiseCloser == \A i : Promise!Closer(i) = Scopes!Closer(i)
<1> TAKE i
<1>1. {k \in i + 1 .. Len(text) : text[k].op = "close" /\ Promise!Opener(k) = i} =
      {k \in i + 1 .. Len(text) : text[k].op = "close" /\ Scopes!Opener(k) = i}
  BY PromiseOpener
<1> QED
  BY <1>1, PromiseMaxMin DEF Promise!Closer, Scopes!Closer

(* They agree on the first statement that does anything. *)
LEMMA PromiseSettle == \A i : Promise!Settle(i) = Scopes!Settle(i)
<1> TAKE i
<1>1. \A k : Promise!Loud(k) <=> Scopes!Loud(k)
  BY PromiseOpener DEF Promise!Loud, Scopes!Loud
<1>2. {k \in i .. Len(text) : Promise!Loud(k)} = {k \in i .. Len(text) : Scopes!Loud(k)}
  BY <1>1
<1> QED
  BY <1>2, PromiseMaxMin DEF Promise!Settle, Scopes!Settle

-----------------------------------------------------------------------------
(* What memory holds.                                                      *)

(* Every byte of a variable is part of v. *)
Whole(id, v) ==
  \A x \in Bytes(id) : x \in DOMAIN memory /\ memory[x] = Byte(v, x - AddressOf(id))

(* What is in a variable is unique, for it has at least one byte. *)
LEMMA HeldIs ==
  \A id :
    /\ AddressOf(id) \in Nat /\ variables_descriptions[id].size \in Nat \ {0}
    => /\ \A v \in Values : Whole(id, v) => Held(id) = v
       /\ (\A v \in Values : ~Whole(id, v)) => Held(id) = Garbage
       /\ Held(id) \in Values \cup {Garbage}
<1> SUFFICES ASSUME NEW id, AddressOf(id) \in Nat,
                    variables_descriptions[id].size \in Nat \ {0}
             PROVE  /\ \A v \in Values : Whole(id, v) => Held(id) = v
                    /\ (\A v \in Values : ~Whole(id, v)) => Held(id) = Garbage
                    /\ Held(id) \in Values \cup {Garbage}
  OBVIOUS
<1>1. AddressOf(id) \in Bytes(id)
  <2> DEFINE a == AddressOf(id)
             z == variables_descriptions[id].size
  <2>1. a \in Nat /\ z \in Nat \ {0} /\ Bytes(id) = a .. a + z - 1
    BY DEF Bytes
  <2> HIDE DEF a, z
  <2>2. a \in a .. a + z - 1
    BY <2>1
  <2> QED
    BY <2>1, <2>2 DEF a
<1>2. ASSUME NEW v, NEW w, Whole(id, v), Whole(id, w)
      PROVE  v = w
  <2>1. PICK i : i = AddressOf(id) - AddressOf(id)
    OBVIOUS
  <2>2. Byte(v, i) = Byte(w, i)
    BY <1>1, <1>2, <2>1 DEF Whole
  <2>3. Byte(v, i).value = v /\ Byte(w, i).value = w
    BY DEF Byte
  <2> QED
    BY <2>2, <2>3
<1>3. Held(id) = IF \E v \in Values : Whole(id, v)
                 THEN CHOOSE v \in Values : Whole(id, v) ELSE Garbage
  BY DEF Held, Whole
<1> QED
  BY <1>2, <1>3

(* The same of the next state. *)
LEMMA HeldIsNext ==
  (\A id :
     /\ AddressOf(id) \in Nat /\ variables_descriptions[id].size \in Nat \ {0}
     => /\ \A v \in Values : Whole(id, v) => Held(id) = v
        /\ (\A v \in Values : ~Whole(id, v)) => Held(id) = Garbage
        /\ Held(id) \in Values \cup {Garbage})'
  BY HeldIs, PTL

(* Variables stay where they are. *)
LEMMA PlacesStay ==
  ASSUME UNCHANGED <<variables_descriptions, stack_offset_of_module>>
  PROVE  \A id : AddressOf(id)' = AddressOf(id) /\ Bytes(id)' = Bytes(id)
<1>1. \A id : AddressOf(id)' = AddressOf(id)
  BY DEF AddressOf
<1> QED
  BY <1>1 DEF Bytes

(* A variable whose bytes stay the same holds what it held. *)
LEMMA HeldStays ==
  ASSUME UNCHANGED <<variables_descriptions, stack_offset_of_module>>,
         NEW id, AddressOf(id) \in Nat, variables_descriptions[id].size \in Nat \ {0},
         \A x \in Bytes(id) : /\ x \in DOMAIN memory' <=> x \in DOMAIN memory
                              /\ x \in DOMAIN memory => memory'[x] = memory[x]
  PROVE  Held(id)' = Held(id)
<1>1. AddressOf(id)' = AddressOf(id) /\ Bytes(id)' = Bytes(id)
  BY PlacesStay
<1>2. \A v : Whole(id, v)' <=> Whole(id, v)
  BY <1>1 DEF Whole, Byte
<1>3. AddressOf(id)' \in Nat /\ variables_descriptions'[id].size \in Nat \ {0}
  BY <1>1
<1>4. /\ \A v \in Values : Whole(id, v)' => Held(id)' = v
      /\ (\A v \in Values : ~Whole(id, v)') => Held(id)' = Garbage
  BY <1>3, HeldIsNext
<1>5. /\ \A v \in Values : Whole(id, v) => Held(id) = v
      /\ (\A v \in Values : ~Whole(id, v)) => Held(id) = Garbage
  BY HeldIs
<1> QED
  BY <1>2, <1>4, <1>5

(* Variables in scope have a place, and some room. *)
LEMMA LivePlaced ==
  ASSUME IInv, NoneIsEmpty, running, NEW p \in 1 .. Len(text) + 1, NEW j \in Scopes!Live(p)
  PROVE  /\ AddressOf(IdOf(j)) \in Nat
         /\ variables_descriptions[IdOf(j)].size \in Nat \ {0}
<1>1. AddressOf(IdOf(j)) \in Nat /\ variables_descriptions[IdOf(j)].size \in Nat
  BY AddressesApart DEF VarOf
<1>2. Shapes /\ TextCounted
  BY DEF IInv
<1>3. IdOf(j) \in DOMAIN variables_descriptions
  BY <1>2, LiveIs
<1> QED
  BY <1>1, <1>3 DEF NoneIsEmpty

(* The bytes that a STORE writes, and what it writes there. *)
StoreAddress == Relocated(code[ip])
StoredBytes == StoreAddress .. StoreAddress + code[ip].size - 1
MemoryStored(v) ==
  /\ DOMAIN memory' = DOMAIN memory \cup StoredBytes
  /\ \A x \in StoredBytes : memory'[x] = Byte(v, x - StoreAddress)
  /\ \A x \in DOMAIN memory : x \notin StoredBytes => memory'[x] = memory[x]

(* A STORE writes the variable that the name means, and no other in scope. *)
LEMMA StoreWrites ==
  ASSUME IInv, MeaningKept, running, ip \in DOMAIN code, code[ip].op = "STORE",
         UNCHANGED <<variables_descriptions, stack_offset_of_module>>,
         NEW v \in Values, MemoryStored(v),
         NEW q, q = code[ip].statement, NEW m, m = Scopes!Meaning(text[q].name, q)
  PROVE  /\ text[q].op = "assign" /\ m \in Scopes!Live(q)
         /\ \A j \in Scopes!Live(q) :
              \A id : id = IdOf(j) => Held(id)' = IF j = m THEN v ELSE Held(id)
<1>1. /\ Shapes /\ CodeInOrder /\ TextCounted /\ JumpsAimed
  BY DEF IInv
<1>2. CodeMeans /\ NoneIsEmpty
  BY DEF MeaningKept
<1>3. q \in 1 .. Len(text) /\ Len(text) \in Nat
  BY <1>1 DEF CodeInOrder, Shapes
<1>4. q \in 1 .. Len(text) + 1
  BY <1>3
<1>5. text[q].op = "assign" /\ StoresTo(ip, q)
  BY <1>2 DEF CodeMeans, CommandMeans
<1>6. Scopes!Candidates(text[q].name, q) # {} /\ Denotes(ip, IdOf(m))
  BY <1>5 DEF StoresTo
<1>7. m \in Scopes!Live(q) /\ m \in Nat
  BY <1>1, <1>4, <1>6, MeaningIs
<1>8. PICK i : i = IdOf(m)
  OBVIOUS
<1>9. StoreAddress = AddressOf(i) /\ code[ip].size = variables_descriptions[i].size
  BY <1>6, <1>8 DEF Denotes, StoreAddress, Relocated, AddressOf
<1>10. /\ DOMAIN memory' = DOMAIN memory \cup Bytes(i)
       /\ \A x \in Bytes(i) : memory'[x] = Byte(v, x - AddressOf(i))
       /\ \A x \in DOMAIN memory : x \notin Bytes(i) => memory'[x] = memory[x]
  <2>1. StoredBytes = Bytes(i)
    BY <1>9 DEF Bytes, StoredBytes
  <2> QED
    BY <1>9, <2>1 DEF MemoryStored
<1>11. AddressOf(i) \in Nat /\ variables_descriptions[i].size \in Nat \ {0}
  BY <1>2, <1>4, <1>7, <1>8, LivePlaced
<1>12. Held(i)' = v
  <2>1. AddressOf(i)' = AddressOf(i) /\ Bytes(i)' = Bytes(i)
    BY PlacesStay
  <2>2. Whole(i, v)'
    BY <1>10, <2>1 DEF Whole, Byte
  <2>3. AddressOf(i)' \in Nat /\ variables_descriptions'[i].size \in Nat \ {0}
    BY <1>11, <2>1
  <2> QED
    BY <2>2, <2>3, HeldIsNext
<1>13. ASSUME NEW j \in Scopes!Live(q), j # m, NEW id, id = IdOf(j)
       PROVE  Held(id)' = Held(id)
  <2>1. AddressOf(id) \in Nat /\ variables_descriptions[id].size \in Nat \ {0}
    BY <1>2, <1>4, <1>13, LivePlaced
  <2>2. Bytes(id) \cap Bytes(i) = {}
    <3>1. AtStatement = q
      <4>1. ip \in 1 .. Len(code) /\ Len(code) \in Nat
        BY <1>1 DEF Shapes
      <4> QED
        BY <4>1 DEF AtStatement
    <3>2. LiveApart
      BY IInvApart
    <3> QED
      BY <1>7, <1>8, <1>13, <3>1, <3>2 DEF LiveApart
  <2>3. \A x \in Bytes(id) : /\ x \in DOMAIN memory' <=> x \in DOMAIN memory
                             /\ x \in DOMAIN memory => memory'[x] = memory[x]
    BY <1>10, <2>2
  <2> QED
    BY <2>1, <2>3, HeldStays
<1> QED
  BY <1>5, <1>7, <1>8, <1>12, <1>13

-----------------------------------------------------------------------------
(* Each instruction carries a statement out.                               *)

(* What the variables in scope hold, by their declarations. *)
Variables == [j \in Scopes!Live(AtStatement) |-> Held(IdOf(j))]

(* The machine is at a command of a statement. *)
LEMMA RunningIs ==
  ASSUME IInv, MeaningKept, NEW op, Running(op), NEW q, q = AtStatement
  PROVE  /\ running /\ ip \in DOMAIN code /\ ip \in Nat /\ code[ip].op = op
         /\ q = code[ip].statement /\ q \in 1 .. Len(text) /\ Len(text) \in Nat
         /\ q \in 1 .. Len(text) + 1 /\ q + 1 \in 1 .. Len(text) + 1
         /\ Scopes!Settle(q + 1) = AtOf(ip + 1) /\ CommandMeans(ip)
<1>1. /\ Shapes /\ CodeInOrder /\ JumpsAimed /\ CodeFollowsText /\ CodeMeans
  BY DEF IInv, MeaningKept
<1>2. /\ Len(text) \in Nat /\ Len(code) \in Nat
      /\ DOMAIN text = 1 .. Len(text) /\ DOMAIN code = 1 .. Len(code)
  BY <1>1 DEF Shapes
<1>3. running /\ ip <= Len(code) /\ code[ip].op = op
  BY DEF Running
<1>4. ip \in DOMAIN code /\ ip \in Nat
  BY <1>1, <1>2, <1>3 DEF JumpsAimed
<1>5. q = code[ip].statement
  BY <1>2, <1>3, <1>4 DEF AtStatement
<1>6. q \in 1 .. Len(text) /\ Scopes!Settle(q + 1) = AtOf(ip + 1)
  BY <1>1, <1>4, <1>5, SettledBehind
<1> QED
  BY <1>1, <1>2, <1>3, <1>4, <1>5, <1>6 DEF CodeMeans

(* Control goes on there, and the variables hold this. *)
LEMMA Proceeds ==
  ASSUME running, UNCHANGED <<text, reported, running, code>>,
         NEW t, ip' = t, NEW i, Scopes!Settle(i) = AtOf(t), NEW held,
         \A j \in Scopes!Live(AtOf(t)) : \A id : id = IdOf(j) => Held(id)' = held[j]
  PROVE  Promise!Proceed(i, held)
<1>1. AtStatement' = AtOf(t)
  BY DEF AtStatement, AtOf
<1>2. AtStatement' = Promise!Settle(i)
  BY <1>1, PromiseSettle
<1>3. PICK p : p = AtOf(t)
  OBVIOUS
<1>4. Scopes!Live(AtStatement)' = Scopes!Live(p)
  <2>1. Scopes!Live(p)' = Scopes!Live(p)
    BY TextSame
  <2> QED
    BY <1>1, <1>3, <2>1
<1>5. Promise!Live(AtStatement') = Scopes!Live(p)
  BY <1>1, <1>3, PromiseLive
<1>6. \A j : IdOf(j)' = IdOf(j)
  BY TextSame
<1>7. \A j \in Scopes!Live(p) : Held(IdOf(j))' = held[j]
  BY <1>3, <1>6
<1>8. (IF running THEN [j \in Scopes!Live(AtStatement) |-> Held(IdOf(j))] ELSE << >>)'
        = [j \in Promise!Live(AtStatement') |-> held[j]]
  BY <1>4, <1>5, <1>7
<1> QED
  BY <1>2, <1>8 DEF Promise!Proceed

(* Where memory is not written, variables hold what they held. *)
LEMMA NothingWritten ==
  ASSUME IInv, MeaningKept, running,
         UNCHANGED <<variables_descriptions, stack_offset_of_module, memory>>,
         NEW p \in 1 .. Len(text) + 1, NEW j \in Scopes!Live(p), NEW id, id = IdOf(j)
  PROVE  Held(id)' = Held(id)
<1>1. NoneIsEmpty
  BY DEF MeaningKept
<1>2. AddressOf(id) \in Nat /\ variables_descriptions[id].size \in Nat \ {0}
  BY <1>1, LivePlaced
<1> QED
  BY <1>2, HeldStays

(* STORE assigns. *)
LEMMA StoreMaps ==
  ASSUME IInv, MeaningKept, Store
  PROVE  Promise!Assign
<1>1. PICK q : q = AtStatement
  OBVIOUS
<1>2. Running("STORE") /\ GoTo(ip + 1)
  BY DEF Store
<1>3. /\ UNCHANGED <<text, reported, running, code, variables_descriptions,
                     stack_offset_of_module>>
      /\ ip' = ip + 1
  BY <1>2 DEF GoTo, pseudo, byte, linked
<1>4. /\ running /\ ip \in DOMAIN code /\ ip \in Nat /\ code[ip].op = "STORE"
      /\ q = code[ip].statement /\ q \in 1 .. Len(text) /\ Len(text) \in Nat
      /\ q + 1 \in 1 .. Len(text) + 1
      /\ Scopes!Settle(q + 1) = AtOf(ip + 1)
  BY <1>1, <1>2, RunningIs
<1>5. Shapes
  BY DEF IInv
<1>6. PICK m : m = Scopes!Meaning(text[q].name, q)
  OBVIOUS
<1>7. PICK v \in Values : MemoryStored(v)
  <2>1. PICK v \in Values :
          memory' = [x \in DOMAIN memory \cup StoredBytes |->
                       IF x \in StoredBytes THEN Byte(v, x - StoreAddress) ELSE memory[x]]
    BY DEF Store, StoredBytes, StoreAddress
  <2> QED
    BY <2>1 DEF MemoryStored
<1>8. UNCHANGED <<variables_descriptions, stack_offset_of_module>>
  BY <1>3
<1>9. /\ text[q].op = "assign" /\ m \in Scopes!Live(q)
      /\ \A j \in Scopes!Live(q) :
           \A id : id = IdOf(j) => Held(id)' = IF j = m THEN v ELSE Held(id)
  BY <1>4, <1>6, <1>7, <1>8, StoreWrites
<1>10. PICK held : held = [Variables EXCEPT ![m] = v]
  OBVIOUS
<1>11. \A j \in Scopes!Live(q) : held[j] = IF j = m THEN v ELSE Held(IdOf(j))
  BY <1>1, <1>10 DEF Variables
<1>12. Scopes!Live(AtOf(ip + 1)) \subseteq Scopes!Live(q)
  <2>1. Scopes!Live(AtOf(ip + 1)) \subseteq Scopes!Live(q + 1)
    BY <1>4, <1>5, LiveSettled
  <2>2. Scopes!Live(q + 1) \subseteq Scopes!Live(q)
    BY <1>4, <1>5, <1>9, LiveAfter
  <2> QED
    BY <2>1, <2>2
<1>13. Promise!Proceed(q + 1, held)
  <2>1. \A j \in Scopes!Live(AtOf(ip + 1)) : \A id : id = IdOf(j) => Held(id)' = held[j]
    BY <1>9, <1>11, <1>12
  <2>2. PICK t : t = ip + 1
    OBVIOUS
  <2> QED
    BY <1>3, <1>4, <2>1, <2>2, Proceeds
<1>14. Promise!At("assign")
  BY <1>1, <1>4, <1>9 DEF Promise!At
<1>15. Promise!Meaning(text[AtStatement].name, AtStatement) = m
  BY <1>1, <1>6, PromiseMeaning
<1>16. Promise!Proceed(AtStatement + 1,
         [(IF running THEN [j \in Scopes!Live(AtStatement) |-> Held(IdOf(j))] ELSE << >>)
            EXCEPT ![Promise!Meaning(text[AtStatement].name, AtStatement)] = v])
  BY <1>1, <1>4, <1>10, <1>13, <1>15 DEF Variables
<1> QED
  BY <1>14, <1>16 DEF Promise!Assign

(* STACK_UP declares. *)
LEMMA StackUpMaps ==
  ASSUME IInv, MeaningKept, StackUp
  PROVE  Promise!Declare
<1>1. PICK q : q = AtStatement
  OBVIOUS
<1>2. Running("STACK_UP") /\ GoTo(ip + 1)
  BY DEF StackUp
<1>3. /\ UNCHANGED <<text, reported, running, code, variables_descriptions,
                     stack_offset_of_module, memory>>
      /\ ip' = ip + 1
  BY <1>2 DEF StackUp, GoTo, pseudo, byte, linked
<1>4. /\ running /\ ip \in DOMAIN code /\ ip \in Nat /\ code[ip].op = "STACK_UP"
      /\ q = code[ip].statement /\ q \in 1 .. Len(text) /\ Len(text) \in Nat
      /\ q \in 1 .. Len(text) + 1 /\ q + 1 \in 1 .. Len(text) + 1
      /\ Scopes!Settle(q + 1) = AtOf(ip + 1) /\ CommandMeans(ip)
  BY <1>1, <1>2, RunningIs
<1>5. /\ Shapes /\ TextCounted /\ CodeFollowsText /\ NoneIsEmpty
      /\ DOMAIN text = 1 .. Len(text)
  BY DEF IInv, MeaningKept, Shapes
<1>6. text[q].op = "declare"
  BY <1>4 DEF CommandMeans
<1>7. q \in Scopes!Live(q + 1)
  <2>1. q \notin reported
    BY <1>4, <1>5 DEF CodeFollowsText, Scopes!Loud
  <2>2. /\ Scopes!Depth(q) \in Nat /\ Scopes!Depth(q + 1) = Scopes!Depth(q) + Step("declare")
    BY <1>4, <1>5, <1>6, DepthStep
  <2>3. Step("declare") = 0
    BY DEF Step, Scopes!Opening
  <2>4. \A k \in q + 1 .. q + 1 : k = q + 1
    BY <1>4
  <2>5. Scopes!Open(q, q + 1)
    BY <2>2, <2>3, <2>4 DEF Scopes!Open
  <2>6. q \in 1 .. q + 1 - 1
    BY <1>4
  <2> QED
    BY <1>6, <2>1, <2>5, <2>6 DEF Scopes!Live
<1>8. PICK v : v = Held(IdOf(q))
  OBVIOUS
<1>9. v \in Values \cup {Garbage}
  <2>1. /\ AddressOf(IdOf(q)) \in Nat
        /\ variables_descriptions[IdOf(q)].size \in Nat \ {0}
    BY <1>4, <1>5, <1>7, LivePlaced
  <2> QED
    BY <1>8, <2>1, HeldIs
<1>10. PICK held :
         held = [j \in DOMAIN Variables \cup {q} |-> IF j = q THEN v ELSE Variables[j]]
  OBVIOUS
<1>11. \A j \in Scopes!Live(q) \cup {q} : held[j] = Held(IdOf(j))
  BY <1>1, <1>8, <1>10 DEF Variables
<1>12. Scopes!Live(AtOf(ip + 1)) \subseteq Scopes!Live(q) \cup {q}
  <2>1. Scopes!Live(AtOf(ip + 1)) \subseteq Scopes!Live(q + 1)
    BY <1>4, <1>5, LiveSettled
  <2>2. Scopes!Live(q + 1) \subseteq Scopes!Live(q) \cup {q}
    BY <1>4, <1>5, LiveAfter
  <2> QED
    BY <2>1, <2>2
<1>13. Promise!Proceed(q + 1, held)
  <2>1. ASSUME NEW j \in Scopes!Live(AtOf(ip + 1)), NEW id, id = IdOf(j)
        PROVE  Held(id)' = held[j]
    <3>1. j \in Scopes!Live(q + 1)
      BY <1>4, <1>5, <2>1, LiveSettled
    <3>2. Held(id)' = Held(id)
      BY <1>3, <1>4, <2>1, <3>1, NothingWritten
    <3> QED
      BY <1>11, <1>12, <2>1, <3>2
  <2>2. PICK t : t = ip + 1
    OBVIOUS
  <2> QED
    BY <1>3, <1>4, <2>1, <2>2, Proceeds
<1>14. Promise!At("declare")
  BY <1>1, <1>4, <1>6 DEF Promise!At
<1> DEFINE store == IF running THEN [j \in Scopes!Live(AtStatement) |-> Held(IdOf(j))]
                    ELSE << >>
<1>15. store = Variables
  BY <1>4 DEF Variables
<1>16. Promise!Proceed(AtStatement + 1,
         [j \in DOMAIN store \cup {AtStatement} |-> IF j = AtStatement THEN v ELSE store[j]])
  <2> HIDE DEF store
  <2> QED
    BY <1>1, <1>10, <1>13, <1>15
<1> QED
  BY <1>9, <1>14, <1>16 DEF Promise!Declare

(* JMP leads from the end of a loop to its test. *)
LEMMA JumpMaps ==
  ASSUME IInv, MeaningKept, Jump
  PROVE  Promise!EndOfBody
<1>1. PICK q : q = AtStatement
  OBVIOUS
<1>2. PICK t : t = code[ip].target
  OBVIOUS
<1>3. Running("JMP") /\ GoTo(t)
  BY <1>2 DEF Jump
<1>4. /\ UNCHANGED <<text, reported, running, code, variables_descriptions,
                     stack_offset_of_module, memory>>
      /\ ip' = t
  BY <1>3 DEF Jump, GoTo, pseudo, byte, linked
<1>5. /\ running /\ ip \in DOMAIN code /\ code[ip].op = "JMP"
      /\ q = code[ip].statement /\ q \in 1 .. Len(text) /\ Len(text) \in Nat
      /\ q \in 1 .. Len(text) + 1 /\ CommandMeans(ip)
  BY <1>1, <1>3, RunningIs
<1>6. /\ Shapes /\ TextCounted /\ CodeInOrder /\ CodeFollowsText /\ ScopesClosed
  BY DEF IInv, MeaningKept
<1>7. PICK k : k = Scopes!Opener(q)
  OBVIOUS
<1>8. /\ text[q].op = "close" /\ t \in DOMAIN code /\ code[t].statement = k
  BY <1>2, <1>5, <1>7 DEF CommandMeans
<1>9. ClosedBy(k, q)
  BY <1>5, <1>6, <1>7, <1>8, CloserIs
<1>10. k \in 1 .. q - 1 /\ Scopes!Live(k) \subseteq Scopes!Live(q)
  BY <1>5, <1>6, <1>8, <1>9, LiveAroundLoop
<1>11. Scopes!Settle(k) = AtOf(t)
  BY <1>6, <1>8, SettledBehind
<1>12. Scopes!Live(AtOf(t)) \subseteq Scopes!Live(q)
  <2>1. k \in 1 .. Len(text) + 1
    BY <1>5, <1>10
  <2>2. Scopes!Live(AtOf(t)) \subseteq Scopes!Live(k)
    BY <1>6, <1>11, <2>1, LiveSettled
  <2> QED
    BY <1>10, <2>2
<1>13. PICK held : held = Variables
  OBVIOUS
<1>14. Promise!Proceed(k, held)
  <2>1. ASSUME NEW j \in Scopes!Live(AtOf(t)), NEW id, id = IdOf(j)
        PROVE  Held(id)' = held[j]
    <3>1. j \in Scopes!Live(q)
      BY <1>12
    <3>2. Held(id)' = Held(id)
      BY <1>4, <1>5, <2>1, <3>1, NothingWritten
    <3> QED
      BY <1>1, <1>13, <2>1, <3>1, <3>2 DEF Variables
  <2> QED
    BY <1>4, <1>5, <1>11, <2>1, Proceeds
<1>15. Promise!At("close")
  BY <1>1, <1>5, <1>8 DEF Promise!At
<1>16. Promise!Opener(AtStatement) = k
  BY <1>1, <1>7, PromiseOpener
<1>17. (IF running THEN [j \in Scopes!Live(AtStatement) |-> Held(IdOf(j))] ELSE << >>) = held
  BY <1>5, <1>13 DEF Variables
<1> QED
  BY <1>14, <1>15, <1>16, <1>17 DEF Promise!EndOfBody

(* JMPCNV enters the loop or leaves it behind its end. *)
LEMMA JumpIfNotMaps ==
  ASSUME IInv, MeaningKept, JumpIfNot
  PROVE  Promise!EnterLoop \/ Promise!LeaveLoop
<1>1. PICK q : q = AtStatement
  OBVIOUS
<1>2. PICK t : t = code[ip].target
  OBVIOUS
<1>3. Running("JMPCNV") /\ (GoTo(ip + 1) \/ GoTo(t)) /\ UNCHANGED memory
  BY <1>2 DEF JumpIfNot
<1>4. /\ UNCHANGED <<text, reported, running, code, variables_descriptions,
                     stack_offset_of_module, memory>>
      /\ ip' = ip + 1 \/ ip' = t
  BY <1>3 DEF GoTo, pseudo, byte, linked
<1>5. /\ running /\ ip \in DOMAIN code /\ code[ip].op = "JMPCNV"
      /\ q = code[ip].statement /\ q \in 1 .. Len(text) /\ Len(text) \in Nat
      /\ q \in 1 .. Len(text) + 1 /\ q + 1 \in 1 .. Len(text) + 1
      /\ Scopes!Settle(q + 1) = AtOf(ip + 1) /\ CommandMeans(ip)
  BY <1>1, <1>3, RunningIs
<1>6. /\ Shapes /\ JumpsAimed /\ TextCounted /\ CodeInOrder /\ CodeFollowsText
      /\ CodeMeans /\ ScopesClosed
  BY DEF IInv, MeaningKept
<1>7. text[q].op = "while"
  BY <1>5 DEF CommandMeans
<1>8. Promise!At("while")
  BY <1>1, <1>5, <1>7 DEF Promise!At
<1>9. PICK held : held = Variables
  OBVIOUS
<1>10. (IF running THEN [j \in Scopes!Live(AtStatement) |-> Held(IdOf(j))] ELSE << >>) = held
  BY <1>5, <1>9 DEF Variables
<1>11. ASSUME NEW j \in Scopes!Live(q), NEW id, id = IdOf(j)
       PROVE  Held(id)' = held[j]
  <2>1. Held(id)' = Held(id)
    BY <1>4, <1>5, <1>11, NothingWritten
  <2> QED
    BY <1>1, <1>9, <1>11, <2>1 DEF Variables
<1>12. CASE ip' = ip + 1
  <2>1. PICK u : u = ip + 1
    OBVIOUS
  <2>2. Scopes!Live(AtOf(u)) \subseteq Scopes!Live(q)
    <3>1. Scopes!Live(AtOf(u)) \subseteq Scopes!Live(q + 1)
      BY <1>5, <1>6, <2>1, LiveSettled
    <3>2. Scopes!Live(q + 1) \subseteq Scopes!Live(q)
      BY <1>5, <1>6, <1>7, LiveAfter
    <3> QED
      BY <3>1, <3>2
  <2>3. Promise!Proceed(q + 1, held)
    BY <1>4, <1>5, <1>11, <1>12, <2>1, <2>2, Proceeds
  <2>4. Promise!EnterLoop
    BY <1>1, <1>8, <1>10, <2>3 DEF Promise!EnterLoop
  <2> QED
    BY <2>4
<1>13. CASE ip' = t
  <2>1. t # 0
    <3>1. whiles = << >>
      BY <1>5, <1>6 DEF JumpsAimed
    <3>2. DOMAIN whiles = {}
      BY <3>1
    <3>3. Aimed(ip)
      BY <1>5, <1>6 DEF JumpsAimed
    <3> QED
      BY <1>2, <1>5, <3>2, <3>3 DEF Aimed
  <2>2. PICK e : e = t - 1
    OBVIOUS
  <2>3. e \in DOMAIN code /\ code[e].op = "JMP" /\ code[e].target = ip
    BY <1>2, <1>5, <2>1, <2>2 DEF CommandMeans
  <2>4. PICK c : c = code[e].statement
    OBVIOUS
  <2>5. /\ text[c].op = "close" /\ q = Scopes!Opener(c)
    <3>1. CommandMeans(e)
      BY <1>6, <2>3 DEF CodeMeans
    <3> QED
      BY <1>5, <2>3, <2>4, <3>1 DEF CommandMeans
  <2>6. /\ c \in 1 .. Len(text) /\ Scopes!Settle(c + 1) = AtOf(e + 1)
    BY <1>6, <2>3, <2>4, SettledBehind
  <2>7. e + 1 = t
    <3>1. t \in Nat
      BY <1>2, <1>5, <1>6, JumpsTyped
    <3> QED
      BY <2>2, <3>1
  <2>8. Scopes!Closer(q) = c /\ ClosedBy(q, c)
    BY <1>6, <2>5, <2>6, CloserIs
  <2>9. Scopes!Live(AtOf(t)) \subseteq Scopes!Live(q)
    <3>1. c + 1 \in 1 .. Len(text) + 1
      BY <1>5, <2>6
    <3>2. Scopes!Live(AtOf(t)) \subseteq Scopes!Live(c + 1)
      BY <1>6, <2>6, <2>7, <3>1, LiveSettled
    <3>3. Scopes!Live(c + 1) \subseteq Scopes!Live(q)
      BY <1>6, <2>5, <2>6, <2>8, LiveAroundLoop
    <3> QED
      BY <3>2, <3>3
  <2>10. Promise!Proceed(c + 1, held)
    BY <1>4, <1>5, <1>11, <1>13, <2>6, <2>7, <2>9, Proceeds
  <2>11. Promise!Closer(AtStatement) = c
    BY <1>1, <2>8, PromiseCloser
  <2>12. Promise!LeaveLoop
    BY <1>8, <1>10, <2>10, <2>11 DEF Promise!LeaveLoop
  <2> QED
    BY <2>12
<1> QED
  BY <1>4, <1>12, <1>13

(* The linked program begins with its first statement. *)
LEMMA LinkMaps ==
  ASSUME IInv, MeaningKept, Link
  PROVE  Promise!Start
<1>1. /\ Shapes /\ TextCounted /\ CodeInOrder /\ CodeFollowsText
  BY DEF IInv, MeaningKept
<1>2. /\ ~running /\ running' /\ whiles = << >> /\ ip' = 1
      /\ UNCHANGED <<text, reported, code>>
  BY DEF Link, byte
<1>3. Promise!Depth(Len(text) + 1) = 0
  BY <1>1, <1>2, PromiseDepth DEF TextCounted
<1>4. AtStatement' = AtOf(1)
  BY <1>2 DEF AtStatement, AtOf
<1>5. Scopes!Settle(1) = AtOf(1) /\ Scopes!Live(AtOf(1)) = {}
  BY <1>1, SettledFirst
<1>6. AtStatement' = Promise!Settle(1)
  BY <1>4, <1>5, PromiseSettle
<1>7. Scopes!Live(AtStatement)' = {}
  <2>1. PICK p : p = AtOf(1)
    OBVIOUS
  <2>2. Scopes!Live(p)' = Scopes!Live(p)
    BY <1>2, TextSame
  <2> QED
    BY <1>4, <1>5, <2>1, <2>2
<1>8. (IF running THEN [j \in Scopes!Live(AtStatement) |-> Held(IdOf(j))] ELSE << >>)' = << >>
  BY <1>2, <1>7
<1>9. running' = TRUE
  BY DEF Link
<1> QED
  BY <1>2, <1>3, <1>6, <1>8, <1>9 DEF Promise!Start

(* A statement is complained about when it means nothing. *)
LEMMA StatementMaps ==
  ASSUME IInv, MeaningKept, NEW s \in Statements, StatementStep(s)
  PROVE  Promise!Write
<1>1. /\ Shapes /\ IdsKnown /\ TextCounted /\ NamesStand
  BY DEF IInv, MeaningKept
<1>2. Write(s)
  BY DEF StatementStep, Refused, Declared, Assigned, OpenScope, CloseScope, NextModule
<1>3. ~running /\ text' = Append(text, s) /\ running' = running
  BY <1>2 DEF Write, linked
<1>4. PICK n : n = Len(text)
  OBVIOUS
<1>5. Promise!Wrong(s) <=>
        \/ s.op = "declare" /\ Has(Last(frames_stack), s.name)
        \/ s.op = "assign" /\ FindSymbolLocal(s.name) = 0
  <2>1. /\ FindSymbolLocal(s.name) = 0 <=> Scopes!Candidates(s.name, n + 1) = {}
        /\ Has(Last(frames_stack), s.name) <=>
             \E j \in Scopes!Candidates(s.name, n + 1) : Scopes!Depth(j) = Scopes!Depth(n + 1)
    BY <1>1, <1>4, LookUp
  <2>2. /\ \A i : Promise!Depth(i) = Scopes!Depth(i)
        /\ Promise!Candidates(s.name, n + 1) = Scopes!Candidates(s.name, n + 1)
    BY PromiseDepth, PromiseMeaning
  <2> QED
    BY <1>4, <2>1, <2>2 DEF Promise!Wrong
<1>6. reported' = IF Promise!Wrong(s) THEN reported \cup {Len(text) + 1} ELSE reported
  <2>1. CASE Refused(s)
    BY <1>5, <2>1 DEF Refused, Refuse
  <2>2. CASE Declared(s)
    BY <1>5, <2>2 DEF Declared, Accept
  <2>3. CASE Assigned(s)
    BY <1>5, <2>3 DEF Assigned, Accept
  <2>4. CASE OpenScope(s)
    BY <1>5, <2>4 DEF OpenScope, Accept
  <2>5. CASE CloseScope(s)
    BY <1>5, <2>5 DEF CloseScope, Accept
  <2>6. CASE NextModule(s)
    BY <1>5, <2>6 DEF NextModule
  <2> QED
    BY <2>1, <2>2, <2>3, <2>4, <2>5, <2>6 DEF StatementStep
<1>7. AtStatement' = AtStatement
  BY <1>3 DEF AtStatement
<1>8. UNCHANGED (IF running THEN [j \in Scopes!Live(AtStatement) |-> Held(IdOf(j))] ELSE << >>)
  BY <1>3
<1> QED
  BY <1>3, <1>6, <1>7, <1>8 DEF Promise!Write

(* What does not change stays what it was promised to be. *)
LEMMA StutterMaps ==
  ASSUME IInv, MeaningKept, UNCHANGED vars
  PROVE  UNCHANGED Promise!vars
<1>1. UNCHANGED <<text, reported, running, ip, code, variables_descriptions,
                  stack_offset_of_module, memory>>
  BY DEF vars, pseudo, byte, linked, machine
<1>2. AtStatement' = AtStatement
  BY <1>1 DEF AtStatement
<1>3. UNCHANGED (IF running THEN [j \in Scopes!Live(AtStatement) |-> Held(IdOf(j))] ELSE << >>)
  <2>1. CASE ~running
    BY <1>1, <2>1
  <2>2. CASE running
    <3>1. AtStatement \in 1 .. Len(text) + 1
      BY <2>2, AtStatementIs DEF IInv
    <3>2. PICK p : p = AtStatement
      OBVIOUS
    <3>3. Scopes!Live(p)' = Scopes!Live(p) /\ \A j : IdOf(j)' = IdOf(j)
      BY <1>1, TextSame
    <3>4. \A j \in Scopes!Live(p) : \A id : id = IdOf(j) => Held(id)' = Held(id)
      BY <1>1, <2>2, <3>1, <3>2, NothingWritten
    <3>5. \A j \in Scopes!Live(p) : Held(IdOf(j))' = Held(IdOf(j))
      BY <3>3, <3>4
    <3>6. Scopes!Live(AtStatement)' = Scopes!Live(p)
      BY <1>2, <3>2, <3>3
    <3> QED
      BY <1>1, <1>2, <3>2, <3>5, <3>6
  <2> QED
    BY <2>1, <2>2
<1> QED
  BY <1>1, <1>2, <1>3 DEF Promise!vars

-----------------------------------------------------------------------------
(* The promise is kept.                                                    *)

(* With nothing written and nothing loaded, the promise begins. *)
LEMMA InitPromise == Init => Promise!Init
<1> SUFFICES ASSUME Init
             PROVE  Promise!Init
  OBVIOUS
<1>1. text = << >> /\ reported = {} /\ running = FALSE
  BY DEF Init
<1> QED
  BY <1>1 DEF Promise!Init, AtStatement

(* A step of the whole chain is one of the promise, or none. *)
LEMMA NextPromise ==
  IInv /\ MeaningKept /\ [Next]_vars => [Promise!Next]_(Promise!vars)
<1> SUFFICES ASSUME IInv, MeaningKept, [Next]_vars
             PROVE  [Promise!Next]_(Promise!vars)
  OBVIOUS
<1>1. ASSUME NEW s \in Statements,
             Declare(s) \/ Assign(s) \/ OpenScope(s) \/ CloseScope(s) \/ NextModule(s)
      PROVE  Promise!Next
  <2>1. Declare(s) => Refused(s) \/ Declared(s)
    BY DEF Declare, Refused, Declared
  <2>2. Assign(s) => Refused(s) \/ Assigned(s)
    BY DEF Assign, Refused, Assigned
  <2>3. StatementStep(s)
    BY <1>1, <2>1, <2>2 DEF StatementStep
  <2> QED
    BY <2>3, StatementMaps DEF Promise!Next
<1>2. CASE Link
  BY <1>2, LinkMaps DEF Promise!Next
<1>3. CASE Store
  BY <1>3, StoreMaps DEF Promise!Next
<1>4. CASE StackUp
  BY <1>4, StackUpMaps DEF Promise!Next
<1>5. CASE JumpIfNot
  BY <1>5, JumpIfNotMaps DEF Promise!Next
<1>6. CASE Jump
  BY <1>6, JumpMaps DEF Promise!Next
<1>7. CASE UNCHANGED vars
  BY <1>7, StutterMaps
<1> QED
  BY <1>1, <1>2, <1>3, <1>4, <1>5, <1>6, <1>7 DEF Next

(* The chain from the compiler's tables to the machine's memory implements *)
(* LexicalPromise: whatever the text, exactly those statements are         *)
(* complained about that mean nothing, and every name in the program       *)
(* reaches the variable it means, which holds what was last assigned to it *)
(* until its scope ends.                                                   *)
THEOREM LexicalPromiseKept == Spec => KeepsLexicalPromise
<1>1. Init => MeaningKept
  BY InitMeaning
<1>2. Init => Promise!Init
  BY InitPromise
<1>3. IInv /\ MeaningKept /\ [Next]_vars => MeaningKept'
  BY NextMeaning
<1>4. IInv /\ MeaningKept /\ [Next]_vars => [Promise!Next]_(Promise!vars)
  BY NextPromise
<1> QED
  BY <1>1, <1>2, <1>3, <1>4, SpecIInv, PTL DEF Spec, KeepsLexicalPromise, Promise!Spec

=============================================================================
