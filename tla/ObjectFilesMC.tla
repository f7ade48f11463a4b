---------------------------- MODULE ObjectFilesMC ---------------------------
(* Three compilations.  The first has two modules and each kind of entry;  *)
(* the second has one of its modules changed, another order, an empty      *)
(* string and a string as long as a header; the third is an empty file.    *)
EXTENDS ObjectFiles

Command(n) == <<n, 1, n, 2, 0, 3, 7, 0, 5>>
MCData == {"real", "char", "", "long"}
MCCompilations ==
  {[order |-> <<2, 1>>,
    constants |-> << [size |-> 8, data |-> "real"], [size |-> 1, data |-> "char"] >>,
    symbols |-> << [offset |-> 8, module |-> 2] >>,
    code |-> << <<Command(9)>>, <<Command(4), Command(5)>> >>,
    stack_size |-> <<16, 0>>],
   [order |-> <<1, 3>>,
    constants |-> << [size |-> 0, data |-> ""], [size |-> 600, data |-> "long"] >>,
    symbols |-> << [offset |-> 0, module |-> 1], [offset |-> 24, module |-> 3] >>,
    code |-> << <<Command(4)>>, << >> >>,
    stack_size |-> <<8, 8>>],
   [order |-> <<1>>, constants |-> << >>, symbols |-> << >>,
    code |-> << << >> >>, stack_size |-> <<0>>]}
=============================================================================
