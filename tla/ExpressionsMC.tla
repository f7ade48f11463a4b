---------------------------- MODULE ExpressionsMC --------------------------
(***************************************************************************)
(* Texts for Expressions: every expression of up to three operators from a *)
(* few of each kind, written with the parentheses it needs or with all,    *)
(* with and without a space between a sign and a digit; and every text of  *)
(* four lexemes, most of which are no expression.                          *)
(***************************************************************************)
EXTENDS Expressions

Variable(id) == [kind |-> "Variable", id |-> id]
MCSymbols ==
  [a |-> Variable(0), b |-> Variable(4), p |-> Variable(5),
   int |-> [kind |-> "Type", id |-> 0], N |-> [kind |-> "Namespace", id |-> 1]]
MCMembers == << [c |-> Variable(6)] >>
MCLiterals == {"1"}
MCGlued == [l \in {"-1"} |-> "1"]

(* Expressions of "size" operators; the operands are a and b by turns, so  *)
(* that two neighbours differ.                                             *)
Other == [n \in {"a", "b"} |-> IF n = "a" THEN "b" ELSE "a"]
MCPrefixes == {"-", "*", "++"}
MCBinaries == {"-", "*", "^", "<<", "=="}

RECURSIVE Expressions_(_, _)
Expressions_(size, leaf) ==
  IF size = 0 THEN {Name(leaf)}
  ELSE LET one == Expressions_(size - 1, leaf)
           two == UNION {Expressions_(l, leaf) \X Expressions_(size - 1 - l, Other[leaf]) :
                           l \in 0 .. size - 1}
       IN {Prefix(op, e) : op \in MCPrefixes, e \in one}
            \cup {Postfix("++", e) : e \in one}
            \cup {Binary(op, e[1], e[2]) : op \in MCBinaries, e \in two}
            \cup {At(e[1], e[2]) : e \in two}

UpTo(size) == UNION {Expressions_(s, "a") : s \in 0 .. size}

(* Literals on the right of operators, arrays and paths. *)
Small == {Name("a"), Literal("1"), Path(<< "N", "c" >>), At(Name("a"), Literal("1")),
          Array(<< Name("a"), Binary("-", Name("b"), Literal("1")) >>), Array(<< >>),
          Prefix("~", Name("a")), Prefix("!", Name("a")), Postfix("--", Name("a"))}
Mixed == Small
  \cup {Binary(op, l, r) : op \in {"-", "&&", "&"}, l \in Small, r \in Small}
  \cup {At(l, r) : l \in {Name("p")}, r \in Small}

AnInt == << "int" >>
Targets == {Name("a"), Prefix("*", Name("p")), At(Name("p"), Name("a")),
            Declare("x", AnInt), Declare("x", << "const", "ptr", "int" >>),
            Declare("a", AnInt), Declare("x", << "ptr", "ref", "int" >>),
            Declare("x", << "a" >>), Declare("x", << "b" >>)}
Assigned == UpTo(1) \cup Small
              \cup {Assign(op, Name("b"), r) : op \in {"=", "-="}, r \in UpTo(1)}
              \cup {Binary("-", Assign("=", Name("b"), Literal("1")), Name("a")),
                    Assign("=", Name("b"), Assign("=", Name("p"), Name("a")))}
MCAssignments == {Assign(op, t, r) : op \in {"=", "-=", "~="}, t \in Targets, r \in Assigned}
                    \cup Targets

(* A minus sign that touches a digit. *)
RECURSIVE Touching(_)
Touching(text) ==
  IF Len(text) < 2 THEN text
  ELSE IF text[1] = "-" /\ text[2] = "1" THEN << "-1" >> \o Touching(SubSeq(text, 3, Len(text)))
  ELSE << Head(text) >> \o Touching(Tail(text))

AtStart == NoToken
AfterEnd == Token("COMPILATION_LABEL", "")
Befores == {AtStart, AfterEnd, Token("DELIMITER", ")"), Token("DELIMITER", "}"),
            Token("DELIMITER", "{"), Token("KEYWORD", "else")}

Source(before, text, tree1) ==
  [before |-> before, text |-> text, declared |-> {"a", "b"}, tree |-> tree1]

Written(es, befores) ==
  {Source(before, TextOf(e, every), e) : before \in befores, e \in es, every \in BOOLEAN}
WrittenClose(es) == {Source(AfterEnd, Touching(TextOf(e, FALSE)), e) : e \in es}

Lexemes == {"a", "-", "-1", "++", "=", "(", ")", "[", "]", ","}
AllLexemes == Lexemes \cup {"1", ":", "::", "to", "new", "ptr"}
Scraps == {Source(AtStart, t, Nothing) : t \in [1 .. 4 -> Lexemes] \cup [1 .. 3 -> AllLexemes]}

MCSources ==
  Written(UpTo(3) \cup Mixed \cup MCAssignments, {AfterEnd})
    \cup Written(UpTo(1) \cup {Assign("=", t, Name("b")) : t \in Targets}, Befores)
    \cup WrittenClose(Mixed \cup MCAssignments)
    \cup Scraps
=============================================================================
