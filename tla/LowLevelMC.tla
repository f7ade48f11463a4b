----------------------------- MODULE LowLevelMC -----------------------------
(***************************************************************************)
(* LowLevel on small programs: every operation in every role after two     *)
(* registers were set, every wrong line, jumps and labels of two modules   *)
(* in every order, and names among statements that use registers.          *)
(***************************************************************************)
EXTENDS LowLevel

Numbers == ("0" :> 0) @@ ("1" :> 1) @@ ("2" :> 2) @@ ("4" :> 4) @@ ("6" :> 6)
             @@ ("9" :> 9)
HomeOf == ("v" :> 0) @@ ("p" :> 1)
OffsetOf == ("v" :> 0) @@ ("p" :> 0)
PointerVariables == {"p"}
RegisterNames == {"RA", "RB", "RC"}
Starts == 0 :> 0 @@ 1 :> 3

Text(tokens) == [kind |-> "line", tokens |-> tokens, temps |-> 0, kept |-> 0]
MSL(temps, kept) ==
  [kind |-> "statement", tokens |-> << >>, temps |-> temps, kept |-> kept]
ModuleEnd == [kind |-> "module", tokens |-> << >>, temps |-> 0, kept |-> 0]

On1(op, a) == Text(<<op, ":", a>>)
On2(op, a, b) == Text(<<op, ":", a, ",", b>>)
On3(op, a, b, c) == Text(<<op, ":", a, ",", b, ",", c>>)

AB == {"RA", "RB"}
Showing(r) == On2("SPEC_CALL", "0", r)

Computing ==
  {On3(op, "RA", a, b) : op \in {"ADDI", "SUBI"}, a \in AB, b \in AB} \cup
  {On3(op, "RB", "RA", "RB") : op \in {"MULI", "DIVI", "MODI"}} \cup
  {On2(op, "RB", "RA") : op \in {"NEGI", "MOV"}}
Reaching ==
  {On2("LEA", "RA", "v"), On2("LEA", "RB", "p"), On2("DLEA", "RA", "p")} \cup
  {On3("STORE", "RA", "RB", n) : n \in {"1", "2", "9"}} \cup
  {On3("LOAD", "RB", "RA", n) : n \in {"0", "1", "2"}} \cup
  {On3("COPY", "RA", "RB", "RB"), On2("ALLOC", "RA", "RB"),
   On3("ALLOC", "RB", "RB", "0"), On2("FREE", "RA", "RB")}
Failing ==
  {On2("ALLOC", "RA", "RB"), On2("FREE", "RA", "RB"), On2("FREE", "RB", "RA"),
   On3("STORE", "RA", "RB", "1"), On2("SPEC_CALL", "4", "RB")}
Calling ==
  {On1("SPEC_CALL", "0"), On2("SPEC_CALL", "3", "1"), On1("SPEC_CALL", "4"),
   On2("SPEC_CALL", "4", "2"), On3("SPEC_CALL", "4", "RA", "RB"),
   On2("SPEC_CALL", "9", "RA"), On2("SPEC_CALL", "RA", "RB")}
Misleading ==
  {Text(<<"MOV", "RA", ",", "RB">>), Text(<<"MOV", ":", "RA", ":", "RB">>),
   Text(<<"MOV", ":", "RA", ",">>), Text(<<"MOV", ":", ",", "RA", ",", "RB">>),
   Text(<<"MOV", "x", ":", "RA", ",", "RB">>), Text(<<"NOP", ":", "RA">>),
   Text(<<"MOV", ":", "RA", "x", ",", "RB">>), Text(<<"NOP">>),
   Text(<<"LEA", ":", "RA", ",", "v", "x">>),
   On2("DLEA", "RA", "v"), On2("LEA", "v", "RA"), On2("MOVRI", "RA", "x"),
   On2("ADDI", "RA", "RB"), On3("MOV", "RA", "RB", "RA"), On2("NEGI", "RA", "1"),
   On3("STORE", "RA", "RB", "4"), On3("LOAD", "RA", "RB", "x"), On1("JMP", "1"),
   On2("JMP_IF", "a", "x"), On1("JMP_NIF", "a"), On1("FREE", "RA"),
   On1("ALLOC", "RA"), On3("COPY", "RA", "RB", "1")}

Seqs(n, S) == [1 .. n -> S]
SetUp == {<<On2("MOVRI", "RA", m), On2("MOVRI", "RB", n)>> :
            m \in {"0", "6"}, n \in {"1", "2"}}

Jumping == {On1("LABEL", "a"), On1("LABEL", "b"), On1("JMP", "a"),
            On2("JMP_IF", "a", "RA"), On2("JMP_NIF", "b", "RA"),
            On2("MOVRI", "RA", "1"), ModuleEnd}
Among == {On2("MOVRI", "RA", "1"), On2("MOV", "RB", "RA"), Showing("RC"),
          MSL(1, 0), MSL(1, 1), MSL(2, 0), ModuleEnd}
Around == {On2("MOVRI", "RA", "2"), Showing("RA"), Showing("RB"), MSL(1, 0), MSL(2, 1)}

SmallPrograms ==
  {s \o t : s \in SetUp, t \in Seqs(2, Computing \cup Reaching)} \cup
  {<<ModuleEnd>> \o s \o t \o <<Showing("RA")>> : s \in SetUp, t \in Seqs(1, Reaching)} \cup
  {t \o <<Showing("RA")>> : t \in Seqs(1, Misleading)} \cup
  Seqs(4, Jumping) \cup Seqs(4, Among) \cup
  {s \o t \o <<On2("SPEC_CALL", "4", "RA"), Showing("RA")>> :
     s \in SetUp, t \in Seqs(3, Failing)} \cup
  {s \o t \o <<Showing("RA"), Showing("RB")>> : s \in SetUp, t \in Seqs(2, Calling)} \cup
  {<<On1("LABEL", "a")>> \o t \o <<On2("JMP_IF", "a", "RA")>> : t \in Seqs(3, Around)}
=============================================================================
