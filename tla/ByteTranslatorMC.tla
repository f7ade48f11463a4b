--------------------------- MODULE ByteTranslatorMC -------------------------
(* ByteTranslator with variables of other modules at work, an int, a       *)
(* pointer to it and a char, which the linker put behind this module's     *)
(* bytes; with a real of its own, and a real constant.                     *)
EXTENDS ByteTranslator

VariableTypes ==
  [x |-> [depth |-> 0, base |-> "Int"], p |-> [depth |-> 1, base |-> "Int"],
   c |-> [depth |-> 0, base |-> "Char"], y |-> [depth |-> 0, base |-> "Real"],
   k |-> [depth |-> 1, base |-> "Char"], kk |-> [depth |-> 2, base |-> "Char"]]
TypesOf == [v \in Variables |-> VariableTypes[v]]

(* They lie side by side, in bytes with numbers of more than a byte; p     *)
(* points to x, k to c and kk to k.                                        *)
Place ==
  [c |-> 0, x |-> 1, p |-> 1 + Size, k |-> 1 + 2 * Size, kk |-> 1 + 3 * Size]
At == [v \in DOMAIN Place |-> 256 + Place[v]]
Links == [v \in Imported |-> At[v]]
Values ==
  [v \in Imported |->
     CASE v = "x" -> Number("Int", 2)
       [] v = "c" -> Number("Int", 1)
       [] v = "p" -> Number("UInt", At["x"])
       [] v = "k" -> Number("UInt", At["c"])
       [] v = "kk" -> Number("UInt", At["k"])]

CharNumberAndPointer == {"c", "x", "p"}
Local == {"y"}
One == {[prim |-> "Real", n |-> 1, size |-> Size]}
SomeUnary == {"Negative", "BitNot"}
Compounds == {"Subtract", "Mod"}
LL == {"R0"}
=============================================================================
