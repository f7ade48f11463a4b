---------------------------- MODULE ControlFlow ----------------------------
(***************************************************************************)
(* How MSLC turns statements into labels and jumps: the lexer decides      *)
(* where operations end, ASTBuilder builds the tree of scopes and groups   *)
(* the arms of a condition, PseudoTranslator and BasicSyntaxTranslator     *)
(* walk the tree and write pseudo-code.  To say that the pseudo-code is    *)
(* right the model carries it out, with conditions that come out either    *)
(* way, and compares it with StructuredPromise.                            *)
(*                                                                         *)
(* A text is a sequence of lexemes.  A condition in its parentheses is one *)
(* lexeme, and so is a simple statement; "nl" is the end of a line,        *)
(* "comment" a comment that does not end in a brace.  The recursion of the *)
(* translators is in "work", the tasks that wait, first to do first.  For, *)
(* functions and templates have no code yet, and an op_code section is one *)
(* statement (LLTranslator).                                               *)
(***************************************************************************)
EXTENDS Integers, Sequences, SequencesExt, FiniteSetsExt

CONSTANTS
  Sources,     (* [text, program]: a text and the program it stands for,   *)
               (* or, for a text no program has, the program << >>          *)
  Conditions,  (* the lexemes that are conditions                          *)
  Statements   (* and simple statements, other than break and continue     *)

Keywords == {"if", "elif", "else", "while"}

ASSUME ControlFlowAssumption ==
  /\ Conditions \cap Statements = {}
  /\ (Conditions \cup Statements)
       \cap (Keywords \cup {"{", "}", ";", "nl", "comment", "end", "break", "continue"}) = {}

VARIABLES
  source,          (* an element of Sources                                *)
  phase,           (* "lex", "tree", "translate", "run", "done"            *)
  at,              (* how far the lexer, the builder or the run is         *)
  tokens,          (* what the lexer made; "end" is OPERATION_END          *)
  cn_stack,        (* the scopes that are open, each a node                *)
  command_tokens,  (* the operation the builder is at                      *)
  current_depth,
  work,            (* tasks of the translators                             *)
  pseudo_code,
  labels,          (* how many labels there are (GetNewLabelID)            *)
  reported,        (* a message was printed                                *)
  outcome,         (* of the condition tested last                         *)
  event, rest      (* what was done last, and what StructuredPromise has   *)
                   (* left                                                 *)

lexing == <<tokens>>
building == <<cn_stack, command_tokens, current_depth>>
translating == <<work, pseudo_code, labels>>
running == <<outcome, event, rest>>
vars == <<source, phase, at, reported, lexing, building, translating, running>>

Promise == INSTANCE StructuredPromise WITH failed <- reported \/ source.program = << >>

-----------------------------------------------------------------------------
(* The lexer. *)

text == source.text
Reading == phase = "lex" /\ at <= Len(text)

(* GetNearCharWithoutSpaces; comments are characters like any other. *)
NearAfter ==
  LET ahead == {i \in at + 1 .. Len(text) : text[i] # "nl"}
  IN IF ahead = {} THEN "nothing" ELSE text[Min(ahead)]

NearBefore ==
  LET behind == {i \in 1 .. at - 1 : text[i] # "nl"}
  IN IF behind = {} THEN "nothing" ELSE text[Max(behind)]

(* What is one token waits for the character behind it, and InsertOpEnd    *)
(* does not see it before a semicolon; a statement has tokens before.      *)
OneWaits ==
  Len(tokens) = 1 /\ tokens[1] \in Keywords \cup {"break", "continue"}

(* InsertOpEnd: whether the operation before c ends here. *)
InsertOpEnd(c) ==
  /\ tokens # << >> /\ (c = ";" => ~OneWaits)
  /\ \/ c = ";"
     \/ /\ Last(tokens) \notin {"end", "{"}
        /\ \/ c = "}" /\ Last(tokens) # "}"
           \/ c = "nl" /\ NearAfter # "{" /\ NearBefore # "}"

Comment ==
  /\ Reading /\ text[at] = "comment"
  /\ at' = at + 1
  /\ UNCHANGED <<source, phase, reported, lexing, building, translating, running>>

(* A semicolon that ends nothing is a token. *)
Lexeme ==
  LET c == text[at]
      ends == InsertOpEnd(c)
  IN /\ Reading /\ c # "comment"
     /\ at' = at + 1
     /\ tokens' = tokens \o (IF ends THEN << "end" >> ELSE << >>)
                       \o (IF c = "nl" \/ (c = ";" /\ ends) THEN << >> ELSE << c >>)
     /\ UNCHANGED <<source, phase, reported, building, translating, running>>

EndOfText ==
  /\ phase = "lex" /\ at > Len(text)
  /\ phase' = "tree" /\ at' = 1
  /\ UNCHANGED <<source, reported, lexing, building, translating, running>>

-----------------------------------------------------------------------------
(* ASTBuilder. *)

Node(type, header, children) ==
  [type |-> type, tokens |-> header, children |-> children]
Marker(label) == Node("None", << label >>, << >>)

DefineType(operation) ==
  LET keywords == SelectSeq(operation, LAMBDA t : t \in Keywords)
  IN IF Len(keywords) > 1 THEN "None"
     ELSE IF keywords = << >> THEN "Expression"
     ELSE CASE keywords[1] = "if" -> "If" [] keywords[1] = "elif" -> "Elif"
            [] keywords[1] = "else" -> "Else" [] keywords[1] = "while" -> "WhileCycle"

(* The scope on top gets one more child. *)
WithChild(stack, node) ==
  [stack EXCEPT ![Len(stack)].children = Append(@, node)]

OperationNode == Node(DefineType(command_tokens), command_tokens, << >>)

WithOperation(stack) ==
  IF command_tokens = << >> THEN stack ELSE WithChild(stack, OperationNode)

Building == phase = "tree" /\ at <= Len(tokens)

Built ==
  /\ at' = at + 1
  /\ UNCHANGED <<source, phase, lexing, translating, running>>

(* "{" after a header opens its scope; otherwise it opens a block. *)
OpenScope ==
  LET type == DefineType(command_tokens)
      header == type \notin {"None", "Expression"}
      below == IF header THEN cn_stack ELSE WithOperation(cn_stack)
      open == Node(IF header THEN type ELSE "CodeBlock",
                   IF header THEN command_tokens ELSE << >>,
                   << Marker("OPEN_VISIBLE_SCOPE") >>)
  IN /\ Building /\ tokens[at] = "{" /\ type # "None"
     /\ cn_stack' = Append(below, open)
     /\ command_tokens' = << >>
     /\ current_depth' = current_depth + 1
     /\ Built /\ UNCHANGED reported

(* Two keywords in one header: it stays, and so do its tokens. *)
RefuseScope ==
  /\ Building /\ tokens[at] = "{" /\ DefineType(command_tokens) = "None"
  /\ reported' = TRUE
  /\ Built /\ UNCHANGED building

Closed(marks) ==
  LET closed == [Last(cn_stack) EXCEPT !.children = @ \o marks]
  IN /\ Building /\ tokens[at] = "}"
     /\ IF Len(cn_stack) <= 1
          THEN reported' = TRUE /\ UNCHANGED building
          ELSE /\ cn_stack' = WithChild(Front(cn_stack), closed)
               /\ current_depth' = current_depth - 1
               /\ UNCHANGED <<command_tokens, reported>>
     /\ Built

CloseScope == Closed(<< Marker("CLOSE_VISIBLE_SCOPE") >>)

OperationEnd ==
  /\ Building /\ tokens[at] = "end"
  /\ cn_stack' = WithOperation(cn_stack)
  /\ command_tokens' = << >>
  /\ Built /\ UNCHANGED <<current_depth, reported>>

OtherToken ==
  /\ Building /\ tokens[at] \notin {"{", "}", "end"}
  /\ command_tokens' = Append(command_tokens, tokens[at])
  /\ Built /\ UNCHANGED <<cn_stack, current_depth, reported>>

(* Postprocess: if, elif and else that follow each other become one group, *)
(* and an if starts a new one.                                             *)
InGroup == {"If", "Elif", "Else"}

Grouped(nodes, node) ==
  IF node.type \notin InGroup THEN Append(nodes, node)
  ELSE IF nodes # << >> /\ Last(nodes).type = "NodeGroup" /\ node.type # "If"
    THEN WithChild(nodes, node)
    ELSE Append(nodes, Node("NodeGroup", << >>, << node >>))

RECURSIVE Postprocess(_)
Postprocess(node) ==
  [node EXCEPT !.children =
     FoldLeft(Grouped, << >>,
              [i \in DOMAIN node.children |-> Postprocess(node.children[i])])]

Analyze(node) == [task |-> "Node", node |-> node]
AnalyzeAll(nodes) == [i \in DOMAIN nodes |-> Analyze(nodes[i])]

(* After the last token: the root is the scope on top of the stack. *)
EndOfTokens ==
  LET root == Last(WithOperation(cn_stack))
  IN /\ phase = "tree" /\ at > Len(tokens)
     /\ phase' = "translate" /\ at' = 1
     /\ reported' = (reported \/ current_depth > 0)
     /\ work' = AnalyzeAll(Postprocess(root).children)
     /\ UNCHANGED <<source, lexing, building, pseudo_code, labels, running>>

-----------------------------------------------------------------------------
(* PseudoTranslator and BasicSyntaxTranslator. *)

Operation(op, arg) == [op |-> op, arg |-> arg, flag |-> "None"]
Flagged(flag) == [op |-> "Jump", arg |-> 0, flag |-> flag]

Working(kind) == phase = "translate" /\ work # << >> /\ Head(work).task = kind

(* The task at the head is replaced by others, and operations are added. *)
Continue(tasks, operations, new_labels) ==
  /\ work' = tasks \o Tail(work)
  /\ pseudo_code' = pseudo_code \o operations
  /\ labels' = labels + new_labels
  /\ UNCHANGED <<source, phase, at, lexing, building, running>>

Emit(operations) == [task |-> "Emit", operations |-> operations]
EmitNext ==
  /\ Working("Emit")
  /\ Continue(<< >>, Head(work).operations, 0) /\ UNCHANGED reported

(* The handler reports and returns; what it emitted stays. *)
Refuse == [task |-> "Refuse"]
RefuseNext == Working("Refuse") /\ Continue(<< >>, << >>, 0) /\ reported' = TRUE

node == Head(work).node
AtNode(types) ==
  Working("Node") /\ node.type \in types /\ (node.children # << >> \/ node.tokens # << >>)

ScopeMarker ==
  /\ AtNode({"None"})
  /\ node.tokens \in {<< "OPEN_VISIBLE_SCOPE" >>, << "CLOSE_VISIBLE_SCOPE" >>}
  /\ Continue(<< >>,
              << Operation(IF node.tokens = << "OPEN_VISIBLE_SCOPE" >>
                             THEN "PushFrame" ELSE "PopFrame", 0) >>, 0)
  /\ UNCHANGED reported

(* An expression; break and continue wait for the loop to say where to.    *)
(* Among other tokens PostfixBuilder passes over them, and over semicolons.*)
Expression ==
  LET first == Head(node.tokens)
      said == SelectSeq(node.tokens, LAMBDA t : t \in Conditions \cup Statements)
      operations ==
        CASE node.tokens \in {<< "break" >>, << "continue" >>} -> << Flagged(first) >>
          [] said # << >> -> << Operation("Do", Head(said)) >>
          [] OTHER -> << >>
  IN /\ AtNode({"Expression"})
     /\ Continue(<< >>, operations, 0)
     /\ reported' = (reported \/ operations = << >>)

CodeBlock ==
  /\ AtNode({"CodeBlock"})
  /\ Continue(AnalyzeAll(node.children), << >>, 0) /\ UNCHANGED reported

(* A header without a scope that is not an arm, and one with two keywords, *)
(* are passed over.                                                        *)
PassedOver ==
  /\ Working("Node")
  /\ \/ node.tokens = << >> /\ node.children = << >>
     \/ node.type = "WhileCycle" /\ node.children = << >>
     \/ node.type = "None" /\ Len(node.tokens) > 1
  /\ Continue(<< >>, << >>, 0) /\ UNCHANGED reported

(* A header is a keyword, a condition, and what follows on its line. *)
HasCondition(header) == Len(header.tokens) > 1 /\ header.tokens[2] \in Conditions
Line(header) ==
  IF header.type = "Else" THEN Tail(header.tokens) ELSE SubSeq(header.tokens, 3, Len(header.tokens))
Body(header) == Node("CodeBlock", << >>, header.children)

(* What the header commands: the statement on its line, or else its scope. *)
Commanded(header) ==
  << Analyze(IF Line(header) # << >> THEN Node("Expression", Line(header), << >>)
             ELSE Body(header)) >>

(* Mutation: such a scope is forgotten. *)
Left_Forgotten(header) == << >>

(* A scope after a statement on the header's line is a block of its own. *)
Left(header) ==
  IF Line(header) # << >> /\ header.children # << >> THEN << Analyze(Body(header)) >>
  ELSE << >>

(* The loop over the arms that are left, of a chain of "count" arms. *)
Arms(arms, count, end_label, left) ==
  [task |-> "Arms", arms |-> arms, count |-> count, label |-> end_label, left |-> left]

Misplaced(arms) ==
  \/ arms[1].type # "If"
  \/ \E i, j \in DOMAIN arms : i < j /\ arms[i].type = "Else" /\ arms[j].type = "Elif"

(* HandleIfCondition, up to the loop. *)
IfCondition ==
  LET arms == node.children
  IN /\ AtNode({"NodeGroup"})
     /\ Continue(IF Misplaced(arms) THEN << Refuse >>
                 ELSE << Arms(arms, Len(arms), labels, << >>) >>,
                 << >>,
                 IF Len(arms) > 1 THEN 1 ELSE 0)
     /\ UNCHANGED reported

(* The arms but the last arm's else jump to the end of the chain. *)
ToEnd(chain) ==
  IF chain.count > 1 THEN << Operation("Jump", chain.label) >> ELSE << >>

(* Mutation: a statement on the line of an arm breaks the chain. *)
Breaks_Line(chain, arm) == chain.count > 1 /\ Line(arm) # << >>

(* Breaking the structure of the condition block. *)
Breaks(chain, arm) == chain.count > 1 /\ Left(arm) # << >>

ConditionArm ==
  LET chain == Head(work)
      arm == Head(chain.arms)
  IN /\ Working("Arms") /\ chain.arms # << >> /\ arm.type \in {"If", "Elif"}
     /\ IF HasCondition(arm)
          THEN Continue(Commanded(arm)
                          \o << Emit(Append(ToEnd(chain), Operation("Label", labels))),
                                IF Breaks(chain, arm) THEN Refuse
                                ELSE [chain EXCEPT !.arms = Tail(@), !.left = Left(arm)] >>,
                        << Operation("Test", arm.tokens[2]), Operation("JumpNIf", labels) >>,
                        1)
          ELSE Continue(<< Refuse >>, << >>, 0)
     /\ UNCHANGED reported

ElseArm ==
  LET chain == Head(work)
      arm == Head(chain.arms)
  IN /\ Working("Arms") /\ chain.arms # << >> /\ arm.type = "Else"
     /\ Continue(Append(Commanded(arm), [chain EXCEPT !.arms = Tail(@), !.left = Left(arm)]),
                 << >>, 0)
     /\ UNCHANGED reported

(* The end of the chain, where the label is if "labelled". *)
ArmsEndWith(labelled) ==
  /\ Working("Arms") /\ Head(work).arms = << >>
  /\ Continue(Head(work).left,
              IF labelled THEN << Operation("Label", Head(work).label) >> ELSE << >>, 0)
  /\ UNCHANGED reported

ArmsEnd == ArmsEndWith(Head(work).count > 1)

(* HandleWhile, up to its body.  Without parentheses all that stands behind *)
(* the keyword is the condition.                                           *)
WhileCycle ==
  LET check == labels
      end == labels + 1
      start == Len(pseudo_code) + 4
      header == IF HasCondition(node) THEN node
                ELSE [node EXCEPT !.tokens = SubSeq(@, 1, 2)]
  IN /\ AtNode({"WhileCycle"}) /\ node.children # << >>
     /\ IF Len(node.tokens) > 1 /\ node.tokens[1] = "while"
          THEN Continue(Commanded(header)
                          \o << [task |-> "LoopEnd", start |-> start,
                                 check |-> check, end |-> end] >>
                          \o Left(header),
                        << Operation("Label", check), Operation("Test", node.tokens[2]),
                           Operation("JumpNIf", end) >>,
                        2)
          ELSE Continue(<< Refuse >>, << >>, 2)
     /\ UNCHANGED reported

(* Mutation: the loops around handle it again. *)
Handled_Again(operation, loop) ==
  CASE operation.flag = "break" -> [operation EXCEPT !.arg = loop.end]
    [] operation.flag = "continue" -> [operation EXCEPT !.arg = loop.check]
    [] OTHER -> operation

Handled(operation, loop) ==
  CASE operation.flag = "break" -> Operation("Jump", loop.end)
    [] operation.flag = "continue" -> Operation("Jump", loop.check)
    [] OTHER -> operation

(* HandleWhile, from its body on. *)
LoopEnd ==
  LET loop == Head(work)
  IN /\ Working("LoopEnd")
     /\ work' = Tail(work)
     /\ pseudo_code' =
          [i \in DOMAIN pseudo_code |->
             IF i < loop.start THEN pseudo_code[i] ELSE Handled(pseudo_code[i], loop)]
          \o << Operation("Jump", loop.check), Operation("Label", loop.end) >>
     /\ UNCHANGED <<source, phase, at, reported, labels, lexing, building, running>>

(* What a program becomes is run if it was accepted. *)
EndOfTree ==
  /\ phase = "translate" /\ work = << >>
  /\ phase' = IF reported \/ source.program = << >> THEN "done" ELSE "run"
  /\ UNCHANGED <<source, at, reported, lexing, building, translating, running>>

-----------------------------------------------------------------------------
(* The pseudo-code carried out. *)

Running == phase = "run" /\ at <= Len(pseudo_code)
Current == pseudo_code[at]

Ran == UNCHANGED <<source, phase, reported, lexing, building, translating>>

PlaceOf(label) ==
  LET places == {i \in DOMAIN pseudo_code : pseudo_code[i] = Operation("Label", label)}
  IN IF places = {} THEN Len(pseudo_code) + 1 ELSE Min(places)

RunStatement ==
  /\ Running /\ Current.op = "Do"
  /\ at' = at + 1
  /\ event' = << "Do", Current.arg >> /\ rest' = Promise!After(rest, TRUE)
  /\ Ran /\ UNCHANGED outcome

RunTest ==
  /\ Running /\ Current.op = "Test"
  /\ at' = at + 1
  /\ outcome' \in BOOLEAN
  /\ event' = << "Test", Current.arg, outcome' >> /\ rest' = Promise!After(rest, outcome')
  /\ Ran

RunSilent ==
  /\ Running /\ Current.op \in {"Label", "PushFrame", "PopFrame", "Jump", "JumpNIf"}
  /\ at' = IF Current.op = "Jump" \/ (Current.op = "JumpNIf" /\ ~outcome)
             THEN PlaceOf(Current.arg) ELSE at + 1
  /\ Ran /\ UNCHANGED running

RunEnds ==
  /\ phase = "run" /\ at > Len(pseudo_code)
  /\ phase' = "done" /\ event' = << "End" >>
  /\ UNCHANGED <<source, at, reported, outcome, rest, lexing, building, translating>>

-----------------------------------------------------------------------------

Init ==
  /\ source \in Sources
  /\ phase = "lex" /\ at = 1 /\ tokens = << >>
  /\ cn_stack = << Node("CodeBlock", << >>, << >>) >>
  /\ command_tokens = << >> /\ current_depth = 0
  /\ work = << >> /\ pseudo_code = << >> /\ labels = 0
  /\ reported = FALSE
  /\ outcome = FALSE /\ event = << "Start" >> /\ rest = Promise!Settled(source.program)

Next ==
  \/ Comment \/ Lexeme \/ EndOfText
  \/ OpenScope \/ RefuseScope \/ CloseScope \/ OperationEnd \/ OtherToken \/ EndOfTokens
  \/ EmitNext \/ RefuseNext \/ ScopeMarker \/ Expression \/ CodeBlock \/ PassedOver
  \/ IfCondition \/ ConditionArm \/ ElseArm \/ ArmsEnd \/ WhileCycle \/ LoopEnd
  \/ EndOfTree
  \/ RunStatement \/ RunTest \/ RunSilent \/ RunEnds

Spec == Init /\ [][Next]_vars

-----------------------------------------------------------------------------
(* Properties. *)

(* The pseudo-code is complete and nothing was said against the text. *)
Accepted == phase \in {"run", "done"} /\ ~reported

PlacesOf(label) ==
  {i \in DOMAIN pseudo_code : pseudo_code[i].op = "Label" /\ pseudo_code[i].arg = label}

(* Whatever the text, what is accepted has each label in one place at most *)
(* and a place for each jump; only a break or a continue outside of loops  *)
(* waits for ever (HandleIfCondition and HandleWhile return early and must *)
(* not leave a jump behind).                                               *)
LabelsPlaced ==
  Accepted =>
    /\ \A label \in 0 .. labels - 1 : Cardinality(PlacesOf(label)) <= 1
    /\ \A i \in DOMAIN pseudo_code :
         pseudo_code[i].op \in {"Jump", "JumpNIf"} /\ pseudo_code[i].flag = "None" =>
           PlacesOf(pseudo_code[i].arg) # {}

(* Statements with the depth of the scopes they are in, and the depth      *)
(* below which it never was.                                               *)
NoScope == [depth |-> 0, lowest |-> 0, seen |-> << >>]
Deeper(scopes) == [scopes EXCEPT !.depth = @ + 1]
Higher(scopes) ==
  [scopes EXCEPT !.depth = @ - 1, !.lowest = Min({@, scopes.depth - 1})]
Saw(scopes, statement) ==
  [scopes EXCEPT !.seen = Append(@, << statement, scopes.depth >>)]

ScopesOfCode ==
  FoldLeft(LAMBDA scopes, o :
             CASE o.op = "PushFrame" -> Deeper(scopes)
               [] o.op = "PopFrame" -> Higher(scopes)
               [] o.op = "Do" -> Saw(scopes, o.arg)
               [] OTHER -> scopes,
           NoScope, pseudo_code)

ScopesOfText ==
  FoldLeft(LAMBDA scopes, c :
             CASE c = "{" -> Deeper(scopes)
               [] c = "}" -> Higher(scopes)
               [] c \in Statements -> Saw(scopes, c)
               [] OTHER -> scopes,
           NoScope, text)

(* Whatever the text, frames are opened before they are closed, and all    *)
(* are closed: the back end pops a frame it has (the markers ASTBuilder    *)
(* leaves, ASTBuilder.cpp:118-175).                                        *)
FramesNest == Accepted => ScopesOfCode.lowest = 0 /\ ScopesOfCode.depth = 0

(* Each statement of an accepted program is in the pseudo-code once, in    *)
(* its order and in the scopes the braces say: none is dropped with a      *)
(* header, and none declares its names in another scope (Postprocess and   *)
(* the trees the handlers take apart and put together).                    *)
EachInItsScope ==
  Accepted /\ source.program # << >> => ScopesOfCode.seen = ScopesOfText.seen

(* What is accepted has its labels, its scopes and its statements in place.*)
CodeHangsTogether == LabelsPlaced /\ FramesNest /\ EachInItsScope

(* A program is refused only if a block follows, on the next line, an elif *)
(* with its statement on its line: such a block is taken for the elif's    *)
(* (BasicSyntaxTranslator.cpp:139, and the comment at 189).                *)
RefusedOnlyThere ==
  reported /\ source.program # << >> =>
    \E i \in 1 .. Len(text) - 3 :
      /\ text[i] = "elif" /\ text[i + 2] \in Statements \cup {"break", "continue"}
      /\ "{" \in {text[j] : j \in {i + 4, i + 5} \cap DOMAIN text}

(* The labels and jumps of an accepted program do what its nesting says:   *)
(* the same statements and conditions, in the same order, to the end.      *)
FollowsSource == Promise!Spec
=============================================================================
