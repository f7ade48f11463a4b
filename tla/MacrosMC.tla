------------------------------ MODULE MacrosMC ------------------------------
(***************************************************************************)
(* Macros on short texts put together from definitions, calls and bits of  *)
(* text, in one module or two, and on every short row of the tokens that   *)
(* the preprocessor looks at.                                              *)
(***************************************************************************)
EXTENDS Macros

Names == {"C", "F", "x", "y"}
Numbers == {"1", "2"}
Strings == {"path"}
CallTokens == ("#C" :> "C") @@ ("#F" :> "F") @@ ("#y" :> "y")

Definitions ==
  {<<"#define_const", "C", "=", "1", ";">>,
   <<"#define_const", "C", "=", "2", ";">>,
   <<"#define_const", "y", "=", "C", ";">>,
   <<"#define_const", "C", "=", "F">>,
   <<"#define_const", "F", "2", ";">>,
   <<"#define_insertion", "F", "(", "x", ",", "y", ")", "{", "y", "{", "x", "}", "C", "}">>,
   <<"#define_insertion", "F", "(", "x", ")", "{", "x", "#C", "}">>,
   <<"#define_insertion", "C", "(", ")", "{", "1", "}">>}
CallsMade ==
  {<<"#C">>, <<"#y">>,
   <<"#F", "(", "1", ",", "x", "2", ")">>,
   <<"#F", "(", "#y", ")">>}
Rest ==
  {<<"#import", "path">>, <<";">>, <<"#F", "(", ")", "x">>,
   <<"#F", "(", "(", "1", ")", ")">>, <<"#F", "(", "1">>,
   <<"#define_const", "C", "=", "1", "x", ";">>}

Blocks(n) == [1 .. n -> Definitions \cup CallsMade \cup Rest]
Tokens == {"#define_const", "#define_insertion", "#import", "#F", "(", ")", "{",
           "}", ",", "x", "path"}

SmallTexts ==
  {<<b[1] \o b[2] \o b[3]>> : b \in Blocks(3)} \cup
  {<<b[1] \o b[2], b[3]>> : b \in Blocks(3)} \cup
  {<<t>> : t \in [1 .. 3 -> Tokens]} \cup
  {<<<<"#define_insertion", "F">> \o t \o <<"{", "x", "}", "#F">>>> :
     t \in [1 .. 3 -> {"(", ")", ",", "x", "y", "{", "}"}]}
=============================================================================
