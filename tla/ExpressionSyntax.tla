--------------------------- MODULE ExpressionSyntax ------------------------
(***************************************************************************)
(* What an expression is, how it is written, and which pseudo-code carries *)
(* it out: the operands from left to right, each operator after its        *)
(* operands.  The compiler (the module Expressions) must find the          *)
(* expression in its text and produce that pseudo-code.                    *)
(*                                                                         *)
(* An expression is a name, a literal, a path through a namespace, an      *)
(* array literal, an access by index, a prefix or postfix operator with an *)
(* operand, a binary operator with two, an assignment, or the declaration  *)
(* of a variable with a type.                                              *)
(***************************************************************************)
EXTENDS Integers, Sequences, SequencesExt

Name(n) == [kind |-> "name", name |-> n]
Literal(l) == [kind |-> "literal", literal |-> l]
Path(names) == [kind |-> "path", names |-> names]
Array(items) == [kind |-> "array", items |-> items]
At(e, index) == [kind |-> "at", of |-> e, index |-> index]
Prefix(op, e) == [kind |-> "prefix", op |-> op, of |-> e]
Postfix(op, e) == [kind |-> "postfix", op |-> op, of |-> e]
Binary(op, l, r) == [kind |-> "binary", op |-> op, left |-> l, right |-> r]
Assign(op, l, r) == [kind |-> "assign", op |-> op, left |-> l, right |-> r]
Declare(n, type) == [kind |-> "declare", name |-> n, type |-> type]

Nothing == [kind |-> "nothing"]

(* The levels of the binary operators, from those that bind least. *)
BinaryLevels ==
  << {"&&", "||"}, {"&", "|"}, {"==", "!="}, {"<", ">", "<=", ">="},
     {"<<", ">>"}, {"+", "-"}, {"*", "/", "%"}, {"^"} >>

Level(e) ==
  CASE e.kind = "assign" -> 0
    [] e.kind = "binary" ->
         CHOOSE l \in DOMAIN BinaryLevels : e.op \in BinaryLevels[l]
    [] e.kind = "prefix" -> 9
    [] e.kind = "postfix" -> 10
    [] OTHER -> 11

(* An expression as a sequence of lexemes, with parentheses where they are *)
(* needed, or around every operand that is not a single lexeme.            *)
RECURSIVE TextOf(_, _)
TextOf(e, every) ==
  LET Operand(o, level) ==
        IF Level(o) < level \/ (every /\ Level(o) < 11)
          THEN << "(" >> \o TextOf(o, every) \o << ")" >>
          ELSE TextOf(o, every)
  IN CASE e.kind = "name" -> << e.name >>
       [] e.kind = "literal" -> << e.literal >>
       [] e.kind = "path" -> << e.names[1], "::", e.names[2] >>
       [] e.kind = "array" ->
            << "[" >>
              \o FoldLeft(LAMBDA t, i : (IF t = << >> THEN t ELSE t \o << "," >>)
                                          \o TextOf(i, every),
                          << >>, e.items)
              \o << "]" >>
       [] e.kind = "at" ->
            Operand(e.of, 11) \o << "[" >> \o TextOf(e.index, every) \o << "]" >>
       [] e.kind = "prefix" -> << e.op >> \o Operand(e.of, 9)
       [] e.kind = "postfix" -> Operand(e.of, 11) \o << e.op >>
       [] e.kind = "binary" ->
            Operand(e.left, Level(e)) \o << e.op >> \o Operand(e.right, Level(e) + 1)
       [] e.kind = "assign" ->
            Operand(e.left, 1) \o << e.op >> \o Operand(e.right, 0)
       [] e.kind = "declare" -> << e.name, ":" >> \o e.type

(* The pseudo-code of e.  Id is the number each name has before e, and New *)
(* that of a variable e declares, which nothing in e but the assignment it *)
(* is declared in means yet.  An assignment that is an operand leaves its  *)
(* value ("AssignR").                                                      *)
RECURSIVE Meaning(_, _, _, _)
Meaning(e, Id, New, operand) ==
  LET Of(o) == Meaning(o, Id, New, TRUE)
  IN CASE e.kind = "name" -> << << "Use", Id[e.name] >> >>
       [] e.kind = "literal" -> << << "UseConstant", e.literal >> >>
       [] e.kind = "path" -> << << "Use", Id[Last(e.names)] >> >>
       [] e.kind = "array" ->
            FlattenSeq([i \in DOMAIN e.items |-> Of(e.items[i])])
              \o << << "CreateArray", Len(e.items) >> >>
       [] e.kind = "at" -> Of(e.of) \o Of(e.index) \o << << "GetByArgument", 0 >> >>
       [] e.kind = "prefix" -> Of(e.of) \o << << "Unary", e.op \o "u" >> >>
       [] e.kind = "postfix" -> Of(e.of) \o << << "Unary", "u" \o e.op >> >>
       [] e.kind = "binary" -> Of(e.left) \o Of(e.right) \o << << "Binary", e.op >> >>
       [] e.kind = "assign" ->
            Of(e.left)
              \o (IF e.left.kind = "declare" THEN << << "Use", New >> >> ELSE << >>)
              \o Of(e.right)
              \o << << IF operand THEN "AssignR" ELSE "Assign", e.op >> >>
       [] e.kind = "declare" -> << << "DeclareVariable", New >> >>
=============================================================================
