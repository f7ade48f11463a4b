-------------------------- MODULE StructuredPromise ------------------------
(***************************************************************************)
(* What a structured program means: simple statements are done and         *)
(* conditions tested in the order the nesting says.  The compiler must     *)
(* produce a program of labels and jumps that does the same (the module    *)
(* ControlFlow).                                                           *)
(*                                                                         *)
(* A program is a sequence of statements: a "do" has a name; a "block" a   *)
(* body; a "while" a condition and a body; an "if" has arms, each with a   *)
(* condition and a body, the condition of the last may be "else"; "break"  *)
(* and "continue" have nothing else.                                       *)
(***************************************************************************)
EXTENDS Sequences

VARIABLES
  event,      (* what was done last                                        *)
  rest,       (* the part of the program that is left, in order, where     *)
              (* "again" ends the body of a loop that was entered          *)
  failed      (* a message was printed: anything may happen                *)

vars == <<event, rest, failed>>

RECURSIVE FromLoop(_)
FromLoop(statements) ==
  IF statements = << >> \/ Head(statements).kind = "again" THEN statements
  ELSE FromLoop(Tail(statements))

(* What is silent is over: the next statement is a "do" or has a condition *)
(* to test.                                                                *)
RECURSIVE Settled(_)
Settled(statements) ==
  IF statements = << >> THEN << >>
  ELSE LET head == Head(statements)
       IN CASE head.kind \in {"do", "if", "while"} -> statements
            [] head.kind = "block" -> Settled(head.body \o Tail(statements))
            [] head.kind = "again" -> << head.loop >> \o Tail(statements)
            [] head.kind = "continue" -> Settled(FromLoop(statements))
            [] head.kind = "break" -> Settled(Tail(FromLoop(statements)))

(* The arms that are left when the condition of the first does not hold. *)
NotTaken(arms) ==
  IF arms = << >> THEN << >>
  ELSE IF Head(arms).cond = "else" THEN Head(arms).body
  ELSE << [kind |-> "if", arms |-> arms] >>

(* What is left after the next statement was done, or its condition tested *)
(* with this outcome.                                                      *)
After(statements, outcome) ==
  IF statements = << >> THEN << >>
  ELSE LET head == Head(statements)
           then == CASE head.kind = "do" -> << >>
                     [] head.kind = "if" ->
                          IF outcome THEN Head(head.arms).body
                          ELSE NotTaken(Tail(head.arms))
                     [] head.kind = "while" ->
                          IF outcome
                            THEN Append(head.body, [kind |-> "again", loop |-> head])
                            ELSE << >>
       IN Settled(then \o Tail(statements))

Init == event = << "Start" >> /\ rest = Settled(rest)

Next1(kinds) == rest # << >> /\ Head(rest).kind \in kinds

Do ==
  /\ Next1({"do"})
  /\ event' = << "Do", Head(rest).name >>
  /\ rest' = After(rest, TRUE)
  /\ UNCHANGED failed

Condition(statement) ==
  IF statement.kind = "while" THEN statement.cond ELSE Head(statement.arms).cond

Test ==
  /\ Next1({"if", "while"})
  /\ \E outcome \in BOOLEAN :
       /\ event' = << "Test", Condition(Head(rest)), outcome >>
       /\ rest' = After(rest, outcome)
  /\ UNCHANGED failed

End == rest = << >> /\ event' = << "End" >> /\ UNCHANGED <<rest, failed>>

Fail == failed'

Next == Do \/ Test \/ End \/ Fail

Spec == Init /\ [][Next]_vars
=============================================================================
