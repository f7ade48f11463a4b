--------------------------- MODULE LexicalPromise ---------------------------
(***************************************************************************)
(* What names mean in MSL.  A program is a text of declarations,           *)
(* assignments, scopes and loops in one or more modules, which are carried *)
(* out one after the other.  A name stands for the last declaration above  *)
(* it whose scope is still open, also one in a module before, and a        *)
(* variable keeps what was assigned to it until its scope ends.  Program,  *)
(* which turns names into places in memory as the compiler, the linker and *)
(* the machine do, is shown to implement this.                             *)
(***************************************************************************)
EXTENDS Integers, Sequences, FiniteSetsExt

CONSTANTS
  Statements,  (* what can be written, [op, name, ...]                     *)
  Values,      (* what can be assigned                                     *)
  Garbage      (* what a variable may hold before anything is              *)

VARIABLES
  text,      (* the statements                                             *)
  reported,  (* positions of those the compiler complained about           *)
  running,
  at,        (* the statement that comes next                              *)
  store      (* what the variables in scope hold, by their declarations    *)

vars == <<text, reported, running, at, store>>

Opening == {"scope", "while"}

(* How many scopes are open before statement i. *)
Depth(i) ==
  Cardinality({k \in 1 .. i - 1 : text[k].op \in Opening})
    - Cardinality({k \in 1 .. i - 1 : text[k].op = "close"})

(* The scope statement j is in is still open before i. *)
Open(j, i) == \A k \in j + 1 .. i : Depth(k) >= Depth(j)

(* The declarations in scope before i, shadowed ones among them. *)
Live(i) ==
  {j \in 1 .. i - 1 : text[j].op = "declare" /\ j \notin reported /\ Open(j, i)}

Candidates(name, i) == {j \in Live(i) : text[j].name = name}
Meaning(name, i) == Max(Candidates(name, i))

(* A statement that cannot be the next: the name is taken in this very     *)
(* scope, or stands for nothing.                                           *)
Wrong(s) ==
  LET i == Len(text) + 1 IN
  \/ s.op = "declare" /\ \E j \in Candidates(s.name, i) : Depth(j) = Depth(i)
  \/ s.op = "assign" /\ Candidates(s.name, i) = {}

-----------------------------------------------------------------------------
(* What is left to be done of a program: not the marks of scopes and       *)
(* modules, nor what was reported.                                         *)
Opener(i) == Max({k \in 1 .. i - 1 : text[k].op \in Opening /\ Open(k + 1, i)})
Closer(i) == Min({k \in i + 1 .. Len(text) : text[k].op = "close" /\ Opener(k) = i})

Loud(i) ==
  /\ i \notin reported
  /\ \/ text[i].op \in {"declare", "assign", "while"}
     \/ text[i].op = "close" /\ text[Opener(i)].op = "while"

Settle(i) ==
  LET loud == {k \in i .. Len(text) : Loud(k)}
  IN IF loud = {} THEN Len(text) + 1 ELSE Min(loud)

Init ==
  /\ text = << >> /\ reported = {}
  /\ running = FALSE /\ at = 0 /\ store = << >>

Write ==
  /\ ~running
  /\ \E s \in Statements :
       /\ text' = Append(text, s)
       /\ reported' = IF Wrong(s) THEN reported \cup {Len(text) + 1} ELSE reported
  /\ UNCHANGED <<running, at, store>>

(* Control goes on at i; variables that go out of scope are forgotten. *)
Proceed(i, held) ==
  /\ at' = Settle(i)
  /\ store' = [j \in Live(at') |-> held[j]]
  /\ UNCHANGED <<text, reported, running>>

Start ==
  /\ ~running /\ Depth(Len(text) + 1) = 0
  /\ running' = TRUE
  /\ at' = Settle(1) /\ store' = << >>
  /\ UNCHANGED <<text, reported>>

At(op) == running /\ at <= Len(text) /\ text[at].op = op

(* A fresh variable holds anything. *)
Declare ==
  /\ At("declare")
  /\ \E v \in Values \cup {Garbage} :
       Proceed(at + 1, [j \in DOMAIN store \cup {at} |-> IF j = at THEN v ELSE store[j]])

Assign ==
  /\ At("assign")
  /\ \E v \in Values :
       Proceed(at + 1, [store EXCEPT ![Meaning(text[at].name, at)] = v])

EnterLoop == At("while") /\ Proceed(at + 1, store)
LeaveLoop == At("while") /\ Proceed(Closer(at) + 1, store)
EndOfBody == At("close") /\ Proceed(Opener(at), store)

Next == Write \/ Start \/ Declare \/ Assign \/ EnterLoop \/ LeaveLoop \/ EndOfBody

Spec == Init /\ [][Next]_vars
=============================================================================
