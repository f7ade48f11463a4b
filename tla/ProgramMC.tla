----------------------------- MODULE ProgramMC -----------------------------
(* Two names, one of them declared as a type of two bytes here and of one  *)
(* there, so that variables of different sizes come to lie over each other *)
(* when scopes end.                                                        *)
EXTENDS Program

MCDeclarations ==
  {[name |-> "x", size |-> 2], [name |-> "x", size |-> 1], [name |-> "y", size |-> 2]}
=============================================================================
