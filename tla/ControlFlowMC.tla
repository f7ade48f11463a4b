---------------------------- MODULE ControlFlowMC --------------------------
(***************************************************************************)
(* Texts for ControlFlow: every program of a few shapes, each written in   *)
(* several styles, and every short sequence of lines and braces, most of   *)
(* which are no program.  Statements and conditions have names of their    *)
(* own, so that two that change places are noticed.                        *)
(***************************************************************************)
EXTENDS ControlFlow

MCConditions == {"c1", "c2", "c3", "w", "v"}
MCStatements == {"s1", "s2", "s3", "a", "b"}

(* Programs.  An arm or a loop that is "line" has its one statement on the *)
(* line of its header.                                                     *)
Say(name) == [kind |-> "do", name |-> name]
Break == [kind |-> "break"]
Again == [kind |-> "continue"]
Block(body) == [kind |-> "block", body |-> body]
Arm(cond, line, body) == [cond |-> cond, line |-> line, body |-> body]
If(arms) == [kind |-> "if", arms |-> arms]
While(cond, line, body) == [kind |-> "while", cond |-> cond, line |-> line, body |-> body]

(* Arms of every form: i is the place of the arm in its chain. *)
Own(i) == Say(<< "s1", "s2", "s3" >>[i])
Bodies(i, leaves) ==
  {<< TRUE, << s >> >> : s \in leaves \cup {Own(i)}}
  \cup {<< FALSE, << >> >>, << FALSE, << Own(i) >> >>}
  \cup {<< FALSE, << Own(i), s >> >> : s \in leaves}
ArmsOf(cond, i, leaves) == {Arm(cond, b[1], b[2]) : b \in Bodies(i, leaves)}

Ones(leaves) == {<< x >> : x \in ArmsOf("c1", 1, leaves)}
Twos(leaves) ==
  {<< x, y >> : x \in ArmsOf("c1", 1, leaves),
                y \in ArmsOf("c2", 2, leaves) \cup ArmsOf("else", 2, leaves)}
Threes(leaves) ==
  {<< x, y, z >> : x \in ArmsOf("c1", 1, leaves), y \in ArmsOf("c2", 2, leaves),
                   z \in ArmsOf("else", 3, leaves)}
Chains(leaves) == {If(arms) : arms \in Ones(leaves) \cup Twos(leaves)}
LongChains(leaves) == {If(arms) : arms \in Threes(leaves)}

Followers == {<< >>, << Say("a") >>, << Block(<< Say("a") >>) >>,
              << If(<< Arm("c3", TRUE, << Say("a") >>) >>) >>}

(* A chain and what follows it; a loop around a chain; a loop around a     *)
(* loop; a chain around a loop or another chain.                           *)
Sequences == {<< c >> \o f : c \in Chains({}) \cup LongChains({}), f \in Followers}
Loops == {<< While("w", FALSE, << c, Say("b") >>), Say("a") >> : c \in Chains({Break, Again})}
Nests ==
  {<< While("w", FALSE, << While("v", FALSE, body), last, Say("b") >>), Say("a") >> :
     body \in {<< >>, << Break >>, << Again >>, << Say("s1"), Break >>,
               << If(<< Arm("c1", TRUE, << Again >>) >>), Say("s1") >>},
     last \in {Say("s2"), Break, Again, If(<< Arm("c2", FALSE, << Break >>) >>)}}
InnerThings ==
  {<< If(<< Arm("c1", FALSE, << inner >>), Arm("else", FALSE, << Say("s3") >>) >>), Say("a") >> :
     inner \in {While("w", FALSE, << Say("s1"), Break >>), Block(<< Say("s1") >>),
                If(<< Arm("c2", TRUE, << Say("s1") >>), Arm("else", TRUE, << Say("s2") >>) >>)}}

Programs == Sequences \cup Loops \cup Nests \cup InnerThings

(* Styles: where an operation ends, where a brace opens, and whether there *)
(* are comments at the ends of lines that open nothing.                    *)
Styles == {[stop |-> << "nl" >>, open |-> << "nl", "{", "nl" >>],
           [stop |-> << ";" >>, open |-> << "{" >>],
           [stop |-> << "comment", "nl" >>, open |-> << "{", "comment", "nl" >>]}

RECURSIVE TextOf(_, _)
Text1(statement, style) ==
  LET Scope(body) ==
        style.open \o TextOf(body, style) \o << "}" >>
          \o (IF style.stop = << ";" >> THEN << >> ELSE style.stop)
      Under(line, body) == IF line THEN TextOf(body, style) ELSE Scope(body)
      ArmText(i) ==
        LET arm == statement.arms[i]
        IN (CASE arm.cond = "else" -> << "else" >>
              [] i = 1 -> << "if", arm.cond >>
              [] OTHER -> << "elif", arm.cond >>)
           \o Under(arm.line, arm.body)
  IN CASE statement.kind = "do" -> << statement.name >> \o style.stop
       [] statement.kind \in {"break", "continue"} -> << statement.kind >> \o style.stop
       [] statement.kind = "block" -> Scope(statement.body)
       [] statement.kind = "while" ->
            << "while", statement.cond >> \o Under(statement.line, statement.body)
       [] statement.kind = "if" ->
            FlattenSeq([i \in DOMAIN statement.arms |-> ArmText(i)])

TextOf(statements, style) ==
  FlattenSeq([i \in DOMAIN statements |-> Text1(statements[i], style)])

Written(programs) ==
  {[text |-> TextOf(p, style), program |-> p] : p \in programs, style \in Styles}

(* Texts that need not be programs. *)
Pieces == {<< "if", "c1" >>, << "elif", "c2" >>, << "else" >>, << "while", "w" >>,
           << "s1", "nl" >>, << "break", ";" >>, << "{" >>, << "}", "nl" >>}
Scraps == {[text |-> FlattenSeq(pieces), program |-> << >>] : pieces \in [1 .. 4 -> Pieces]}

MCSources == Written(Programs) \cup Scraps
=============================================================================
