---------------------------- MODULE OpCodePromise ---------------------------
(***************************************************************************)
(* What the op_code sections of an MSL program mean: a machine with named  *)
(* registers, a memory and a heap, and lines of an operation and its       *)
(* arguments,                                                              *)
(*                                                                         *)
(*     OPERATION : argument , argument , ...                               *)
(*                                                                         *)
(* mixed with statements of MSL and the ends of modules.  A wrong line is  *)
(* reported and has no effect.  Names of registers and labels belong to    *)
(* their module.  A jump goes to the nearest label of its name above it,   *)
(* else to the first below it, and a program with a jump to nowhere does   *)
(* not run.  A statement of MSL may destroy the registers that no line     *)
(* above it names, and nothing else.  An illegal access and a division by  *)
(* zero end the run.  A request for memory that cannot be met and a wrong  *)
(* FREE leave everything as it is, go on with the next line, and are told  *)
(* to the program when it asks for its last error.  The heap does not know *)
(* who holds a cell: one that is given back twice may be had twice.        *)
(* When a module needs more registers at once than there are, a message is *)
(* printed and anything may happen.  LowLevel is shown to implement this.  *)
(***************************************************************************)
EXTENDS Integers, Sequences, SequencesExt

CONSTANTS
  Names,            (* of registers: RA .. RH                              *)
  Literals,         (* the value of each token that is a number            *)
  Home, Address,    (* the module and the place of each variable           *)
  Pointers,         (* the variables that are pointers                     *)
  GeneralRegisters, (* how many a module may use at once                   *)
  Base, Width,      (* the digits of a cell, the cells of a register       *)
  MemorySize, HeapStart,
  SizeLimit         (* a size is stored in a byte                          *)

VARIABLES
  program,   (* any sequence of [kind, tokens, temps, kept]                *)
  judged,    (* the items the compiler has gone through                    *)
  reported,  (* those of them it complained about and left out             *)
  spoiled,   (* it complained that registers have run out                  *)
  stage,     (* "compiled", "running", "refused", "ended" or "faulted"     *)
  at,        (* the item that comes next                                   *)
  reg, memory,
  free,      (* how often each cell of the heap can be had                 *)
  errors,    (* what failed, and was not asked for                         *)
  shown      (* what was shown last                                        *)

vars == <<program, judged, reported, spoiled, stage, at, reg, memory, free, errors, shown>>

Words == 0 .. Base ^ Width - 1
Word(n) == n % Base ^ Width
Signed(w) == IF 2 * w >= Base ^ Width THEN w - Base ^ Width ELSE w

(* Division towards zero. *)
Quotient(a, b) ==
  LET size(n) == IF n < 0 THEN -n ELSE n
  IN IF (a < 0) = (b < 0) THEN size(a) \div size(b) ELSE -(size(a) \div size(b))

Digit(w, i) == (w \div Base ^ i) % Base
Cells(a, n) == a .. a + n - 1
Inside(a, n) == n > 0 => Cells(a, n) \subseteq 0 .. MemorySize - 1
Fetch(a, n) ==
  FoldLeft(LAMBDA w, i : w + memory[a + i - 1] * Base ^ (i - 1),
           0, [i \in 1 .. n |-> i])

-----------------------------------------------------------------------------
(* Lines.                                                                  *)

Module(i) ==
  Len(SelectSeq(SubSeq(program, 1, i - 1), LAMBDA s : s.kind = "module"))
Tokens(i) == program[i].tokens
IsLine(i) == program[i].kind = "line"
Op(i) == Head(Tokens(i))
Separators(i) ==
  SetToSortSeq({k \in 1 .. Len(Tokens(i)) : Tokens(i)[k] \in {":", ","}}, <)
Count(i) == Len(Separators(i))
(* Of an argument only the first token has a meaning. *)
Arg(i, n) == Tokens(i)[Separators(i)[n] + 1]
Single(i, n) ==
  Separators(i)[n] + 2 = (IF n = Count(i) THEN Len(Tokens(i)) + 1
                          ELSE Separators(i)[n + 1])

WellFormed(i) ==
  LET t == Tokens(i)
  IN /\ Len(t) > 2 /\ t[1] \notin {":", ","} /\ t[2] = ":"
     /\ \A k \in 3 .. Len(t) : t[k] # ":"
     /\ \A k \in 2 .. Len(t) : t[k] \in {":", ","} => k < Len(t) /\ t[k + 1] # ","

(* The arguments of an operation that must be registers. *)
Arithmetic == {"ADDI", "SUBI", "MULI", "DIVI", "MODI"}
RegistersOf(op) ==
  CASE op \in Arithmetic \cup {"COPY"} -> {1, 2, 3}
    [] op \in {"STORE", "LOAD", "NEGI", "MOV", "ALLOC", "FREE"} -> {1, 2}
    [] op \in {"LEA", "DLEA", "MOVRI"} -> {1}
    [] op \in {"JMP_IF", "JMP_NIF"} -> {2}
    [] OTHER -> {}

(* How many arguments it takes. *)
Counts(op) ==
  CASE op \in Arithmetic \cup {"COPY", "STORE", "LOAD"} -> {3}
    [] op \in {"LEA", "DLEA", "NEGI", "MOV", "MOVRI", "FREE"} -> {2}
    [] op = "ALLOC" -> {2, 3}
    [] op \in {"JMP_IF", "JMP_NIF"} -> Nat \ {0, 1}
    [] op \in {"LABEL", "JMP", "SPEC_CALL"} -> Nat \ {0}
    [] OTHER -> {}

Size(i) ==
  (IF Arg(i, 3) \in DOMAIN Literals THEN Literals[Arg(i, 3)] ELSE 0) % SizeLimit

Wrong(i) ==
  /\ IsLine(i)
  /\ ~ /\ WellFormed(i)
       /\ Count(i) \in Counts(Op(i))
       /\ \A n \in RegistersOf(Op(i)) : Arg(i, n) \in Names
       /\ Op(i) \in {"LEA", "DLEA"} =>
            /\ Single(i, 2) /\ Arg(i, 2) \in DOMAIN Home
            /\ Home[Arg(i, 2)] <= Module(i)
       /\ Op(i) = "DLEA" => Arg(i, 2) \in Pointers
       /\ Op(i) = "MOVRI" => Arg(i, 2) \in DOMAIN Literals
       /\ Op(i) \in {"STORE", "LOAD"} => Size(i) <= Width
       /\ Op(i) \in {"LABEL", "JMP", "JMP_IF", "JMP_NIF"} =>
            Arg(i, 1) \notin DOMAIN Literals

-----------------------------------------------------------------------------
(* Modules, registers and labels.                                          *)

Means(i) == IsLine(i) /\ i \notin reported

(* A call may take a register or a number, which is that of a register. *)
Named(i) ==
  {Arg(i, n) : n \in IF Op(i) = "SPEC_CALL" THEN 2 .. Count(i) \cap 2 .. 3
                     ELSE RegistersOf(Op(i))} \cap Names
NamedAbove(i) ==
  UNION {Named(j) : j \in {k \in 1 .. i - 1 : Means(k) /\ Module(k) = Module(i)}}

(* The registers that item i needs, and those it finds in use. *)
Crowded(i) ==
  LET above == {j \in 1 .. i - 1 : Module(j) = Module(i)}
      kept == FoldLeft(LAMBDA n, j : n + IF j \in above THEN program[j].kept ELSE 0,
                       0, [j \in 1 .. i - 1 |-> j])
      names == NamedAbove(i) \cup (IF Means(i) THEN Named(i) ELSE {})
  IN Cardinality(names) + kept + program[i].temps > GeneralRegisters

Labels(i) ==
  {j \in DOMAIN program : /\ Means(j) /\ Op(j) = "LABEL"
                          /\ Module(j) = Module(i) /\ Arg(j, 1) = Arg(i, 1)}
Jumps == {i \in DOMAIN program :
            Means(i) /\ Op(i) \in {"JMP", "JMP_IF", "JMP_NIF"}}
Target(i) ==
  IF \E j \in Labels(i) : j < i THEN Max({j \in Labels(i) : j < i})
  ELSE Min(Labels(i))

Silent(i) ==
  \/ program[i].kind = "module"
  \/ i \in reported
  \/ IsLine(i) /\ Op(i) = "LABEL"
Settled(i) ==
  Min({j \in i .. Len(program) : ~Silent(j)} \cup {Len(program) + 1})

(* The codes of errors that do not end the run. *)
FreeFailed == 402
AllocFailed == 403

-----------------------------------------------------------------------------
Init ==
  /\ judged = 0 /\ reported = {} /\ spoiled = FALSE /\ stage = "compiled" /\ at = 1
  /\ reg = [r \in Names |-> 0]
  /\ memory = [a \in 0 .. MemorySize - 1 |-> 0]
  /\ free = [c \in HeapStart .. MemorySize - 1 |-> 1]
  /\ errors = << >> /\ shown = << >>

(* The compiler judges the next item. *)
Judge ==
  /\ stage = "compiled" /\ judged < Len(program)
  /\ judged' = judged + 1
  /\ reported' = reported \cup {i \in {judged + 1} : Wrong(i)}
  /\ spoiled' = (spoiled \/ (~Wrong(judged + 1) /\ Crowded(judged + 1)))
  /\ UNCHANGED <<program, stage, at, reg, memory, free, errors, shown>>

(* The next item.  The registers named hold what is said, the others and   *)
(* those of another module anything.                                       *)
GoesWith(to, names, registers) ==
  /\ at' = Settled(to)
  /\ Module(at') = Module(at) => \A r \in names : reg'[r] = registers[r]
  /\ stage' = IF at' > Len(program) THEN "ended" ELSE "running"
  /\ UNCHANGED <<program, judged, reported, spoiled>>

Goes(to, registers) == GoesWith(to, Names, registers)

Start ==
  /\ stage = "compiled" /\ judged = Len(program)
  /\ \A i \in Jumps : Labels(i) # {}
  /\ at' = Settled(1) /\ reg' \in [Names -> Words]
  /\ stage' = IF at' > Len(program) THEN "ended" ELSE "running"
  /\ UNCHANGED <<program, judged, reported, spoiled, memory, free, errors, shown>>

Refuse ==
  /\ stage = "compiled" /\ judged = Len(program)
  /\ \E i \in Jumps : Labels(i) = {}
  /\ stage' = "refused"
  /\ UNCHANGED <<program, judged, reported, spoiled, at, reg, memory, free, errors, shown>>

Fault ==
  /\ stage' = "faulted"
  /\ UNCHANGED <<program, judged, reported, spoiled, at, reg, memory, free, errors, shown>>

Running(ops) == stage = "running" /\ IsLine(at) /\ Op(at) \in ops
Value(n) == reg[Arg(at, n)]
Sets(w) == /\ Goes(at + 1, [reg EXCEPT ![Arg(at, 1)] = w])
           /\ UNCHANGED <<memory, free, errors, shown>>

Result(op, a, b) ==
  CASE op = "ADDI" -> Word(a + b)
    [] op = "SUBI" -> Word(a - b)
    [] op = "MULI" -> Word(a * b)
    [] op = "DIVI" -> Word(Quotient(a, b))
    [] op = "MODI" -> Word(a - b * Quotient(a, b))

Compute ==
  /\ Running(Arithmetic)
  /\ IF Op(at) \in {"DIVI", "MODI"} /\ Value(3) = 0 THEN Fault
     ELSE Sets(Result(Op(at), Signed(Value(2)), Signed(Value(3))))

Set ==
  /\ Running({"NEGI", "MOV", "MOVRI", "LEA", "DLEA"})
  /\ Sets(CASE Op(at) = "NEGI" -> Word(-Value(2))
            [] Op(at) = "MOV" -> Value(2)
            [] Op(at) = "MOVRI" -> Word(Literals[Arg(at, 2)])
            [] Op(at) = "LEA" -> Address[Arg(at, 2)]
            [] Op(at) = "DLEA" -> Fetch(Address[Arg(at, 2)], Width))

Load ==
  /\ Running({"LOAD"})
  /\ IF Inside(Value(2), Size(at)) THEN Sets(Fetch(Value(2), Size(at))) ELSE Fault

Store ==
  /\ Running({"STORE"})
  /\ LET a == Value(1)
     IN IF Inside(a, Size(at))
        THEN /\ memory' = [c \in DOMAIN memory |->
                             IF c \in Cells(a, Size(at)) THEN Digit(Value(2), c - a)
                             ELSE memory[c]]
             /\ Goes(at + 1, reg) /\ UNCHANGED <<free, errors, shown>>
        ELSE Fault

Copy ==
  /\ Running({"COPY"})
  /\ IF Inside(Value(1), Value(3)) /\ Inside(Value(2), Value(3))
     THEN /\ memory' = [c \in DOMAIN memory |->
                          IF c \in Cells(Value(1), Value(3))
                          THEN memory[c - Value(1) + Value(2)] ELSE memory[c]]
          /\ Goes(at + 1, reg) /\ UNCHANGED <<free, errors, shown>>
     ELSE Fault

(* A line that failed, and the run goes on. *)
Fails(code) ==
  /\ errors' = Append(errors, code)
  /\ Goes(at + 1, reg) /\ UNCHANGED <<memory, free, shown>>

Offered(a, n) ==
  /\ Cells(a, n) \subseteq DOMAIN free
  /\ \A c \in Cells(a, n) : free[c] > 0

(* Memory of the heap that can be had, with what it happens to hold: the   *)
(* third argument, which comments say is for a reset (LowLevelInfo.hpp:37, *)
(* ByteTranslationInfo.hpp:175, LinkDefinitions.hpp:116), means nothing.   *)
Alloc ==
  /\ Running({"ALLOC"})
  /\ \/ \E a \in DOMAIN free :
          /\ Value(2) > 0 /\ Offered(a, Value(2))
          /\ free' = [c \in DOMAIN free |->
                        free[c] - IF c \in Cells(a, Value(2)) THEN 1 ELSE 0]
          /\ Goes(at + 1, [reg EXCEPT ![Arg(at, 1)] = a])
          /\ UNCHANGED <<memory, errors, shown>>
     \/ /\ \/ Value(2) = 0 \/ \A a \in DOMAIN free : ~Offered(a, Value(2))
           \/ \E c \in DOMAIN free : free[c] > 1
        /\ Fails(AllocFailed)

Free ==
  /\ Running({"FREE"})
  /\ IF Value(2) > 0 /\ Cells(Value(1), Value(2)) \subseteq DOMAIN free
     THEN /\ free' = [c \in DOMAIN free |->
                        free[c] + IF c \in Cells(Value(1), Value(2)) THEN 1 ELSE 0]
          /\ Goes(at + 1, reg) /\ UNCHANGED <<memory, errors, shown>>
     ELSE Fails(FreeFailed)

(* Calls 0 to 3 show what their register holds, and call 4 puts the code   *)
(* of the last error there.  Which register that is when the argument is   *)
(* no name is not said.                                                    *)
Call == IF Arg(at, 1) \in DOMAIN Literals THEN Literals[Arg(at, 1)] ELSE 0
Says == Count(at) > 1 /\ Arg(at, 2) \in Names

Show ==
  /\ Running({"SPEC_CALL"}) /\ Call \in 0 .. 3
  /\ \E w \in IF Says THEN {Value(2)} ELSE Words : shown' = <<Call, w>>
  /\ Goes(at + 1, reg) /\ UNCHANGED <<memory, free, errors>>

GetError ==
  /\ Running({"SPEC_CALL"}) /\ Call = 4
  /\ IF Says
     THEN Goes(at + 1, [reg EXCEPT ![Arg(at, 2)] =
                          IF errors = << >> THEN 0 ELSE Word(Last(errors))])
     ELSE GoesWith(at + 1, {}, reg)
  /\ errors' = SubSeq(errors, 1, Len(errors) - 1)
  /\ UNCHANGED <<memory, free, shown>>

NoCall ==
  /\ Running({"SPEC_CALL"}) /\ Call > 4
  /\ Goes(at + 1, reg) /\ UNCHANGED <<memory, free, errors, shown>>

Jump ==
  /\ Running({"JMP", "JMP_IF", "JMP_NIF"})
  /\ LET jumps == CASE Op(at) = "JMP" -> TRUE
                         [] Op(at) = "JMP_IF" -> Value(2) # 0
                         [] Op(at) = "JMP_NIF" -> Value(2) = 0
     IN Goes(IF jumps THEN Target(at) ELSE at + 1, reg)
  /\ UNCHANGED <<memory, free, errors, shown>>

Statement ==
  /\ stage = "running" /\ program[at].kind = "statement"
  /\ GoesWith(at + 1, NamedAbove(at), reg)
  /\ UNCHANGED <<memory, free, errors, shown>>

Next ==
  \/ Judge \/ Start \/ Refuse
  \/ Compute \/ Set \/ Load \/ Store \/ Copy \/ Alloc \/ Free \/ Jump
  \/ Show \/ GetError \/ NoCall
  \/ Statement
  \/ spoiled /\ spoiled'

Spec == Init /\ [][Next]_vars
=============================================================================
