----------------------------- MODULE Expressions ---------------------------
(***************************************************************************)
(* How MSLC turns the text of one expression into pseudo-code: the lexer   *)
(* decides whether an operator is prefix, postfix or binary,               *)
(* PostfixBuilder orders operands and operators, APSTBuilder builds a tree *)
(* from them, and ExpressionsTranslator writes the tree down.              *)
(*                                                                         *)
(* A text is a sequence of lexemes, of which "-1" is a minus sign directly *)
(* before a digit.  What the expression stands behind matters to the       *)
(* lexer, so a source has the token before it.  A command is its operation *)
(* code and first argument; for operators, whose codes correspond one to   *)
(* one to their tokens, it is the token.                                   *)
(***************************************************************************)
EXTENDS ExpressionSyntax, FiniteSetsExt, TLC

CONSTANTS
  Sources,     (* [before, text, declared, tree]: the token before the     *)
               (* expression, its lexemes, the variables declared in its   *)
               (* scope, and the expression it is, or Nothing              *)
  Symbols,     (* what each name that is visible means: [kind, id]         *)
  Members,     (* of each namespace: [name -> [kind, id]]                  *)
  Literals,
  Glued,       (* the lexeme of a minus sign and a literal -> the literal  *)
  NextId       (* the number the next variable gets (global_variable_id)   *)

TypeIds == {Symbols[n].id : n \in {m \in DOMAIN Symbols : Symbols[m].kind = "Type"}}

VARIABLES
  source,      (* an element of Sources                                    *)
  phase,       (* "lex", "postfix", "tree", "translate", "done"; and       *)
               (* "undefined" after a read from an empty container         *)
  at,          (* how far the lexer is                                     *)
  tokens,
  postfix,     (* what PostfixBuilder::Build returned                      *)
  tree,        (* what APSTBuilder::BuildAPST returned                     *)
  pseudo_code,
  earlier,     (* what statements before this one left at its start: the   *)
               (* command that came last, if there is one                  *)
  reported     (* a message was printed                                    *)

vars == <<source, phase, at, tokens, postfix, tree, pseudo_code, earlier, reported>>

-----------------------------------------------------------------------------
(* Tokens and operators. *)

TypeMarkers == {"ptr", "ref", "const"}
Keywords == {"to", "new", "else"}
Delimiters == {"(", ")", "[", "]", "{", "}", ","}

Assignments == {"=", "+=", "-=", "*=", "/=", "%=", "&=", "|=", "<<=", ">>=",
                "&&=", "||=", "~=", "^="}
Unaries == {"!u", "~u", "-u", "*u", "&u", "--u", "++u", "u++", "u--"}

(* TokensInfoTable: the operators there are a prefix and a postfix form of. *)
PrefixForm == [op \in {"+", "-", "++", "--", "&", "*", "!"} |-> op \o "u"]
PostfixForm == [op \in {"++", "--"} |-> "u" \o op]

(* OperatorsTable; "+u" is not in it, nor is "~" without its u. *)
Priority(op) ==
  CASE op \in {":", "::", ".", "->"} -> 12
    [] op \in {"to", "new"} -> 11
    [] op \in Unaries -> 9
    [] op = "^" -> 8
    [] op \in {"*", "/", "%"} -> 7
    [] op \in {"+", "-"} -> 6
    [] op \in {"<<", ">>"} -> 4
    [] op \in {"<", "<=", ">", ">="} -> 3
    [] op \in {"==", "!="} -> 2
    [] op \in {"&", "|"} -> 1
    [] op \in {"&&", "||"} -> 0
    [] op \in Assignments \cup {"(", ")", "[", "]"} -> -1

Binaries == {"::", ".", "->", "^", "*", "/", "%", "+", "-", "<<", ">>",
             "<", "<=", ">", ">=", "==", "!=", "&", "|", "&&", "||"}
InTable == Binaries \cup Unaries \cup Assignments \cup {":", "to", "new"}

Token(type, t) == [type |-> type, text |-> t]
NoToken == Token("UNDEFINED", "")

TokenType(lexeme) ==
  CASE lexeme \in Literals \cup DOMAIN Glued -> "LITERAL"
    [] lexeme \in TypeMarkers -> "TYPE_MARKER"
    [] lexeme \in Keywords -> "KEYWORD"
    [] lexeme \in Delimiters -> "DELIMITER"
    [] lexeme \in InTable \cup DOMAIN PrefixForm \cup {"~"} -> "OPERATOR"
    [] lexeme = "end" -> "COMPILATION_LABEL"
    [] OTHER -> "IDENTIFIER"

-----------------------------------------------------------------------------
(* The lexer. *)

LastToken == IF tokens = << >> THEN source.before ELSE Last(tokens)

(* What an operator is after the token "last" (IsUnary, ProcessOperator). *)
AfterOperand(last) ==
  \/ last.type \in {"IDENTIFIER", "TYPE_MARKER", "LITERAL", "COMPILATION_LABEL"}
  \/ last.text \in {")", "]", "}"}

AfterNoOperand(last) ==
  \/ last = NoToken
  \/ last.type \in {"OPERATOR", "COMPILATION_LABEL", "KEYWORD"}
  \/ last.text \in {"(", "[", "{", ","}

FormOf(op, last) ==
  IF last # NoToken /\ op \in DOMAIN PostfixForm /\ AfterOperand(last)
    THEN PostfixForm[op]
  ELSE IF op \in DOMAIN PrefixForm /\ AfterNoOperand(last) THEN PrefixForm[op]
  ELSE op

(* A sign before a digit belongs to it, unless a literal or a name is      *)
(* before it.                                                              *)
TokensOf(lexeme, last) ==
  IF lexeme \in DOMAIN Glued /\ last.type \in {"LITERAL", "IDENTIFIER"}
    THEN << Token("OPERATOR", "-"), Token("LITERAL", Glued[lexeme]) >>
  ELSE IF TokenType(lexeme) = "OPERATOR"
    THEN << Token("OPERATOR", FormOf(lexeme, last)) >>
  ELSE << Token(TokenType(lexeme), lexeme) >>

Lexeme ==
  /\ phase = "lex" /\ at <= Len(source.text)
  /\ tokens' = tokens \o TokensOf(source.text[at], LastToken)
  /\ at' = at + 1
  /\ UNCHANGED <<source, phase, postfix, tree, pseudo_code, earlier, reported>>

EndOfText ==
  /\ phase = "lex" /\ at > Len(source.text)
  /\ phase' = "postfix"
  /\ UNCHANGED <<source, at, tokens, postfix, tree, pseudo_code, earlier, reported>>

-----------------------------------------------------------------------------
(* TokensGroup: a token, a group of groups, or both (an operation). *)

Group(type, simple, complex) == [type |-> type, simple |-> simple, complex |-> complex]
Simple(token) == Group("Simple", token, << >>)
Complex(type, groups) == Group(type, NoToken, groups)
Empty == Simple(NoToken)

IsIdentifier(g) == g.simple.type = "IDENTIFIER"
IsName(g) == IsIdentifier(g) \/ g.type = "QualifiedName"

(* PostfixBuilder.  What is built and whether a message was printed. *)
Built(group, message) == [group |-> group, message |-> message]

(* Preprocess: names joined by "::" become one group. *)
RECURSIVE Preprocess(_, _)
Preprocess(left, done) ==
  IF left = << >> THEN Built(done, FALSE)
  ELSE IF Head(left) # Token("OPERATOR", "::")
    THEN Preprocess(Tail(left), Append(done, Simple(Head(left))))
  ELSE IF done # << >> /\ IsName(Last(done)) /\ Len(left) > 1 /\ left[2].type = "IDENTIFIER"
    THEN LET so_far == IF IsIdentifier(Last(done)) THEN << Last(done) >>
                       ELSE Last(done).complex
         IN Preprocess(SubSeq(left, 3, Len(left)),
                       Append(Front(done),
                              Complex("QualifiedName", Append(so_far, Simple(left[2])))))
  ELSE Built(Preprocess(Tail(left), done).group, TRUE)

IsText(g, t) == g.simple.text = t

IdentificateGroupType(groups, i) ==
  CASE IsName(groups[i]) /\ i < Len(groups)
         /\ groups[i + 1].simple = Token("DELIMITER", "(") -> "FunctionCall"
    [] groups[i].simple = Token("DELIMITER", "[") ->
         IF \/ i = 1
            \/ groups[i - 1].simple.type = "OPERATOR"
            \/ /\ groups[i - 1].simple.type = "DELIMITER"
               /\ groups[i - 1].simple.text \notin {"]", ")", "}"}
           THEN "ArrayLiteral" ELSE "DataAccess"
    [] OTHER -> "Simple"

(* What is in brackets that open before "from": where they close (or the   *)
(* end of the groups), and the pieces between the commas of their own.     *)
Depth(groups, from, brackets, j) ==
  1 + Cardinality({k \in from .. j : IsText(groups[k], brackets[1])})
    - Cardinality({k \in from .. j : IsText(groups[k], brackets[2])})

(* Mutation: brackets do not nest. *)
EndOfBrackets_First(groups, from, brackets) ==
  Min({Len(groups) + 1} \cup {j \in from .. Len(groups) : IsText(groups[j], brackets[2])})

EndOfBrackets(groups, from, brackets) ==
  Min({Len(groups) + 1}
        \cup {j \in from .. Len(groups) : Depth(groups, from, brackets, j) = 0})

Commas(groups, from, end, brackets) ==
  {j \in from .. end - 1 : IsText(groups[j], ",") /\ Depth(groups, from, brackets, j) = 1}

Pieces(groups, from, end, cuts) ==
  LET borders == << from - 1 >> \o SetToSortSeq(cuts, <) \o << end >>
  IN [k \in 1 .. Len(borders) - 1 |-> SubSeq(groups, borders[k] + 1, borders[k + 1] - 1)]

InBrackets(groups, from, brackets) ==
  LET end == EndOfBrackets(groups, from, brackets)
  IN [end |-> end, pieces |-> Pieces(groups, from, end, Commas(groups, from, end, brackets))]

Argument(group) ==
  Complex("Argument", IF group.type = "Root" THEN group.complex ELSE << group >>)

(* Mutation: operators of one level group to the right. *)
Yields_Right(waiting, current) == Priority(waiting) > Priority(current)

Yields(waiting, current) ==
  \/ Priority(waiting) > Priority(current)
  \/ /\ Priority(waiting) = Priority(current)
     /\ current \notin Assignments
     /\ ~(waiting \in Unaries /\ current \in Unaries)

Stays(waiting, current) == IsText(waiting, "(") \/ ~Yields(waiting.simple.text, current)

(* The state of BuildPostfix is the next group, the operators that wait,  *)
(* and the result.  The operators above the last one that stays go there.  *)
Flushed(s, staying) ==
  LET kept == Max({0} \cup staying)
  IN [s EXCEPT !.operations = SubSeq(@, 1, kept),
               !.result = @ \o Reverse(SubSeq(s.operations, kept + 1, Len(s.operations)))]

Through(s, groups) == [s EXCEPT !.result = @ \o groups]
Skip(s, next) == [s EXCEPT !.next = next]

Operator(s, g) ==
  LET f == Flushed(s, {k \in DOMAIN s.operations : Stays(s.operations[k], g.simple.text)})
  IN [f EXCEPT !.operations = Append(@, g)]

CloseParenthesis(s) ==
  LET f == Flushed(s, {k \in DOMAIN s.operations : IsText(s.operations[k], "(")})
  IN [f EXCEPT !.operations = IF @ = << >> THEN @ ELSE Front(@)]

(* Modifiers up to the name of the type. *)
TypeWithModifiers(s, groups) ==
  LET rest == {j \in s.next + 1 .. Len(groups) : groups[j].simple.type # "TYPE_MARKER"}
      found == rest # {} /\ IsName(groups[Min(rest)])
  IN IF found
       THEN Skip(Through(s, << Complex("Type", SubSeq(groups, s.next, Min(rest))) >>), Min(rest) + 1)
       ELSE [Skip(s, s.next + 2) EXCEPT !.message = @ \/ rest # {}]

SimpleGroup(s, groups) ==
  LET g == groups[s.next]
      next == Skip(s, s.next + 1)
  IN CASE g.simple.type = "TYPE_MARKER" -> TypeWithModifiers(s, groups)
       [] IsName(g) \/ g.simple.type = "LITERAL" -> Through(next, << g >>)
       [] g.simple.type \in {"OPERATOR", "KEYWORD"} /\ g.simple.text \in InTable ->
            Operator(next, g)
       [] g.simple = Token("DELIMITER", "(") -> [next EXCEPT !.operations = Append(@, g)]
       [] g.simple = Token("DELIMITER", ")") -> CloseParenthesis(next)
       [] OTHER -> next

Start == [next |-> 1, operations |-> << >>, result |-> << >>, message |-> FALSE]

RECURSIVE BuildPostfix(_)

(* An index or an array literal; what no bracket closes is lost. *)
HandleDataAccessOrArrayLiteral(s, groups, type) ==
  LET inside == InBrackets(groups, s.next + 1, << "[", "]" >>)
      pieces == IF inside.end > Len(groups) THEN Front(inside.pieces) ELSE inside.pieces
      built == [k \in DOMAIN pieces |-> BuildPostfix(pieces[k])]
      filled == SelectSeq([k \in DOMAIN pieces |-> k], LAMBDA k : pieces[k] # << >>)
      arguments == [k \in DOMAIN filled |-> Argument(built[filled[k]].group)]
  IN [Skip(Through(s, << Complex(type, arguments) >>), inside.end + 1)
        EXCEPT !.message = @ \/ \E k \in DOMAIN built : built[k].message]

(* Arguments of a call: an argument of one token is part of the next again *)
(* (its tokens are not cleared).  An empty one ends the call.              *)
RECURSIVE CallArguments(_, _, _)
CallArguments(pieces, carried, cut) ==
  LET collected == carried \o Head(pieces)
      built == BuildPostfix(collected)
      clear == built.group.type = "Root"
      rest == CallArguments(Tail(pieces), IF clear THEN << >> ELSE collected,
                            cut + Len(Head(pieces)) + 1)
  IN CASE Len(pieces) = 1 /\ collected = << >> ->
            [arguments |-> << >>, next |-> cut + 1, message |-> FALSE]
       [] Len(pieces) = 1 /\ collected # << >> ->
            [arguments |-> << Argument(built.group) >>,
             next |-> cut + Len(Head(pieces)) + 1, message |-> built.message]
       [] Len(pieces) > 1 /\ collected = << >> ->
            [arguments |-> << >>, next |-> cut + 1, message |-> TRUE]
       [] OTHER ->
            [rest EXCEPT !.arguments = << Argument(built.group) >> \o @,
                         !.message = @ \/ built.message]

HandleFuncCall(s, groups) ==
  LET inside == InBrackets(groups, s.next + 2, << "(", ")" >>)
      call == CallArguments(inside.pieces, << >>, s.next + 2)
  IN [Skip(Through(s, << Complex("FunctionCall", << groups[s.next] >> \o call.arguments) >>),
           call.next)
        EXCEPT !.message = @ \/ call.message]

OneGroup(s, groups) ==
  LET type == IdentificateGroupType(groups, s.next)
  IN CASE type = "Simple" -> SimpleGroup(s, groups)
       [] type = "FunctionCall" -> HandleFuncCall(s, groups)
       [] OTHER -> HandleDataAccessOrArrayLiteral(s, groups, type)

RECURSIVE AllGroups(_, _)
AllGroups(s, groups) ==
  IF s.next > Len(groups) THEN Flushed(s, {})
  ELSE AllGroups(OneGroup(s, groups), groups)

BuildPostfix(groups) ==
  IF Len(groups) = 1 THEN Built(groups[1], FALSE)
  ELSE LET s == AllGroups(Start, groups)
       IN Built(Complex("Root", s.result), s.message)

(* Preprocess asks what is before the second of two "::" that come first.   *)
LooksBehindStart ==
  Len(tokens) > 1 /\ {tokens[1], tokens[2]} = {Token("OPERATOR", "::")}

(* PostfixBuilder::Build. *)
Build ==
  LET groups == Preprocess(tokens, << >>)
      built == BuildPostfix(groups.group)
  IN /\ phase = "postfix"
     /\ phase' = IF LooksBehindStart THEN "undefined" ELSE "tree"
     /\ postfix' = built.group
     /\ reported' = (groups.message \/ built.message)
     /\ UNCHANGED <<source, at, tokens, tree, pseudo_code, earlier>>

-----------------------------------------------------------------------------
(* APSTBuilder: the state is a stack of trees. *)

Trees(stack, message, undefined) ==
  [stack |-> stack, message |-> message, undefined |-> undefined]

Push(s, group) == [s EXCEPT !.stack = Append(@, group)]
Complain(s) == [s EXCEPT !.stack = Append(@, Empty), !.message = TRUE]
Drop(s, n) == [s EXCEPT !.stack = SubSeq(@, 1, Len(@) - n)]
Top(s, n) == SubSeq(s.stack, Len(s.stack) - n + 1, Len(s.stack))

(* HandleOperator. *)
Operation(s, operator, n) ==
  IF Len(s.stack) < n THEN Complain(s)
  ELSE Push(Drop(s, n), Group("Operation", operator.simple, Top(s, n)))

Declaration(s) ==
  IF Len(s.stack) < 2 THEN Complain(s)
  ELSE IF ~IsIdentifier(Top(s, 2)[1]) THEN Complain(Drop(s, 2))
  ELSE Push(Drop(s, 2), Complex("Declaration", Top(s, 2)))

HandleOperator(s, operator) ==
  CASE operator.simple.text \in Unaries -> Operation(s, operator, 1)
    [] operator.simple.text \in Binaries \cup Assignments -> Operation(s, operator, 2)
    [] operator.simple.text = ":" -> Declaration(s)
    [] OTHER -> Complain(s)

HandleToOperator(s, operator) ==
  IF Len(s.stack) < 2 THEN Complain(s)
  ELSE Push(Drop(s, 2), Complex("TypeCast", << Top(s, 2)[1], operator, Top(s, 2)[2] >>))

HandleNewOperator(s, operator) ==
  IF s.stack = << >> THEN Complain(s)
  ELSE Push(Drop(s, 1), Complex("NewExpression", << operator >> \o Top(s, 1)))

(* An index belongs to the tree before it, in one chain with the indexes   *)
(* that tree has.                                                          *)
DataAccess(s, group) ==
  CASE group.complex = << >> -> [s EXCEPT !.message = TRUE]
    [] group.complex # << >> /\ s.stack = << >> -> [s EXCEPT !.undefined = TRUE]
    [] OTHER ->
         LET before == Last(s.stack)
             chain == IF before.type = "DataAccessChain" THEN before.complex ELSE << before >>
         IN Push(Drop(s, 1), Complex("DataAccessChain", Append(chain, group)))

OneToken(s, group) ==
  CASE group.simple.type \in {"IDENTIFIER", "LITERAL", "TYPE_MARKER"} -> Push(s, group)
    [] group.simple.type = "OPERATOR" -> HandleOperator(s, group)
    [] group.simple = Token("KEYWORD", "to") -> HandleToOperator(s, group)
    [] group.simple = Token("KEYWORD", "new") -> HandleNewOperator(s, group)
    [] group.simple.type = "KEYWORD" /\ group.simple.text \notin {"to", "new"} -> Push(s, group)
    [] OTHER -> s

RECURSIVE BuildAPST(_)

OneTree(s, group) ==
  IF group.type = "Simple" THEN OneToken(s, group)
  ELSE LET built == BuildAPST(group)
           children == [group EXCEPT !.complex = built.stack]
           t == [s EXCEPT !.message = @ \/ built.message,
                          !.undefined = @ \/ built.undefined]
       IN IF group.type = "DataAccess" THEN DataAccess(t, children) ELSE Push(t, children)

BuildAPST(root) == FoldLeft(OneTree, Trees(<< >>, FALSE, FALSE), root.complex)

(* BuildAPST of the root. *)
BuildTree ==
  LET built == BuildAPST(postfix)
  IN /\ phase = "tree"
     /\ phase' = IF built.undefined THEN "undefined" ELSE "translate"
     /\ tree' = CASE postfix.type = "Simple" -> postfix
                  [] postfix.type # "Simple" /\ built.stack = << >> -> Empty
                  [] OTHER -> Complex("Root", built.stack)
     /\ reported' = (reported \/ built.message)
     /\ UNCHANGED <<source, at, tokens, postfix, pseudo_code, earlier>>

-----------------------------------------------------------------------------
(* ExpressionsTranslator: the pseudo-code so far, the symbols of the       *)
(* current scope, and the number the next variable gets.                   *)

Translation(code, frame, next_id) ==
  [code |-> code, frame |-> frame, next_id |-> next_id, message |-> FALSE, undefined |-> FALSE]

Command(op, arg) == << op, arg >>
Pushback(t, command) == [t EXCEPT !.code = Append(@, command)]
Report(t) == [t EXCEPT !.message = TRUE]

NoSymbol == [kind |-> "None", id |-> -1]

(* FindSymbolLocal. *)
FindSymbol(t, name) ==
  IF name \in DOMAIN t.frame THEN t.frame[name]
  ELSE IF name \in DOMAIN Symbols THEN Symbols[name]
  ELSE NoSymbol

UseName(t, name) ==
  LET symbol == FindSymbol(t, name)
  IN IF symbol = NoSymbol THEN Report(t) ELSE Pushback(t, Command("Use", symbol.id))

(* What a path means: only a namespace is entered. *)
RECURSIVE InNamespaces(_, _)
InNamespaces(symbol, groups) ==
  LET name == Head(groups).simple.text
  IN CASE symbol = NoSymbol \/ groups = << >> -> symbol
       [] symbol.kind = "Namespace" /\ groups # << >> ->
            IF name \in DOMAIN Members[symbol.id]
              THEN InNamespaces(Members[symbol.id][name], Tail(groups)) ELSE NoSymbol
       [] OTHER -> InNamespaces(symbol, Tail(groups))

QualifiedName(t, groups) ==
  LET symbol == InNamespaces(FindSymbol(t, Head(groups).simple.text), Tail(groups))
  IN IF symbol = NoSymbol THEN Report(t) ELSE Pushback(t, Command("Use", symbol.id))

RECURSIVE AnalyzeAPST(_, _)
AnalyzeAll(t, groups) == FoldLeft(AnalyzeAPST, t, groups)

HandleSimple(t, node) ==
  CASE node.simple.type = "IDENTIFIER" -> UseName(t, node.simple.text)
    [] node.simple.type = "LITERAL" -> Pushback(t, Command("UseConstant", node.simple.text))
    [] OTHER -> Report(t)

ArrayLiteral(t, node) ==
  Pushback(AnalyzeAll(t, node.complex), Command("CreateArray", Len(node.complex)))

(* GetValueInfoFromType: the name must become one Use of a number that a   *)
(* type has; then it is taken back.                                        *)
TypeName(t, u) ==
  IF /\ Len(u.code) = Len(t.code) + 1
     /\ Last(u.code)[1] = "Use" /\ Last(u.code)[2] \in TypeIds
    THEN [u EXCEPT !.code = Front(@)] ELSE Report(u)

NamedType(t, group) ==
  TypeName(t, IF group.type = "QualifiedName" THEN QualifiedName(t, group.complex)
              ELSE HandleSimple(t, group))

TypeOfValue(t, group) ==
  LET markers == {group.complex[k].simple : k \in 1 .. Len(group.complex) - 1}
      pointer_and_reference == {"ptr", "ref"} \subseteq {m.text : m \in markers}
  IN CASE group.type \in {"Simple", "QualifiedName"} -> NamedType(t, group)
       [] group.type \notin {"Simple", "QualifiedName"} /\ group.complex = << >> ->
            [t EXCEPT !.undefined = TRUE]
       [] OTHER ->
            IF /\ \A m \in markers : m.type = "TYPE_MARKER"
               /\ IsName(Last(group.complex))
              THEN LET u == NamedType(t, Last(group.complex))
                   IN IF pointer_and_reference THEN Report(u) ELSE u
              ELSE Report(t)

(* Mutation: the names of the scope are not looked at. *)
DeclareVariable_Again(t, name) ==
  [Pushback(t, Command("DeclareVariable", t.next_id))
     EXCEPT !.frame = name :> [kind |-> "Variable", id |-> t.next_id] @@ @,
            !.next_id = @ + 1]

DeclareVariable(t, name) ==
  IF name \in DOMAIN t.frame THEN Report(t)
  ELSE [Pushback(t, Command("DeclareVariable", t.next_id))
          EXCEPT !.frame = name :> [kind |-> "Variable", id |-> t.next_id] @@ @,
                 !.next_id = @ + 1]

(* The right side first, in code of its own; then the left side, and the   *)
(* code of the right behind it.  A declaration at the end of the left one  *)
(* is used, an assignment at the end of both leaves a value; when they     *)
(* have no code, these are of a statement before.                          *)
Merged(left, code, op) ==
  LET used == IF Last(left.code)[1] = "DeclareVariable"
                THEN Pushback(left, Command("Use", Last(left.code)[2])) ELSE left
      both == [used EXCEPT !.code = @ \o code]
      value == IF Last(both.code)[1] = "Assign"
                 THEN [both EXCEPT !.code[Len(both.code)][1] = "AssignR"] ELSE both
  IN Pushback(value, Command("Assign", op))

Assignment(t, right, op, target) ==
  LET left == AnalyzeAPST([right EXCEPT !.code = t.code], target)
  IN IF left.code = << >> THEN [left EXCEPT !.undefined = TRUE]
     ELSE Merged(left, right.code, op)

OperationNode(t, node) ==
  LET op == node.simple.text
  IN CASE op \in Unaries ->
            Pushback(AnalyzeAPST(t, Head(node.complex)), Command("Unary", op))
       [] op \in Binaries ->
            Pushback(AnalyzeAll(t, node.complex), Command("Binary", op))
       [] op \in Assignments ->
            Assignment(t, AnalyzeAPST([t EXCEPT !.code = << >>], Last(node.complex)),
                       op, Head(node.complex))

(* Calls, casts and new have no code. *)
AnalyzeAPST(t, node) ==
  CASE node.type = "Simple" -> HandleSimple(t, node)
    [] node.type = "QualifiedName" -> QualifiedName(t, node.complex)
    [] node.type = "ArrayLiteral" -> ArrayLiteral(t, node)
    [] node.type \in {"Root", "DataAccessChain", "Argument"} -> AnalyzeAll(t, node.complex)
    [] node.type = "DataAccess" ->
         Pushback(AnalyzeAll(t, node.complex), Command("GetByArgument", 0))
    [] node.type = "Operation" -> OperationNode(t, node)
    [] node.type = "Declaration" ->
         DeclareVariable(TypeOfValue(t, node.complex[2]), node.complex[1].simple.text)
    [] OTHER -> t

Endings == {<< >>, << Command("DeclareVariable", 0) >>, << Command("Assign", "=") >>}

AnalyzeExpression ==
  LET frame == [n \in source.declared |-> Symbols[n]]
      t == AnalyzeAPST(Translation(earlier', frame, NextId), tree)
  IN /\ phase = "translate"
     /\ earlier' \in Endings
     /\ phase' = IF t.undefined THEN "undefined" ELSE "done"
     /\ pseudo_code' = t.code
     /\ reported' = (reported \/ t.message)
     /\ UNCHANGED <<source, at, tokens, postfix, tree>>

-----------------------------------------------------------------------------
Init ==
  /\ source \in Sources
  /\ phase = "lex" /\ at = 1 /\ tokens = << >>
  /\ postfix = Empty /\ tree = Empty
  /\ pseudo_code = << >> /\ earlier = << >> /\ reported = FALSE

Next == Lexeme \/ EndOfText \/ Build \/ BuildTree \/ AnalyzeExpression

Spec == Init /\ [][Next]_vars

-----------------------------------------------------------------------------
(* Properties. *)

Done == phase = "done"
Text == source.text
OperandTokens(ts) == SelectSeq(ts, LAMBDA t : t.type \in {"IDENTIFIER", "LITERAL"})
OperatorTokens(ts) == SelectSeq(ts, LAMBDA t : t.type = "OPERATOR" /\ t.text \in InTable \ {"::"})

RECURSIVE TokensOfGroup(_)
TokensOfGroup(group) ==
  (IF group.simple = NoToken THEN << >> ELSE << group.simple >>)
    \o FlattenSeq([k \in DOMAIN group.complex |-> TokensOfGroup(group.complex[k])])

(* What PostfixBuilder and the lexer do not handle the way a reader of the *)
(* text would:                                                             *)
(* - a call (its arguments pile up) and a bracket nothing closes;          *)
Calls == \E i \in 1 .. Len(Text) - 1 :
           TokenType(Text[i]) = "IDENTIFIER" /\ Text[i + 1] = "("
Unclosed == \E i \in DOMAIN Text : Depth([k \in DOMAIN Text |-> Simple(Token("", Text[k]))],
                                         i, << "[", "]" >>, Len(Text)) > 1

(* - an operator with a prefix form where something else than an operator  *)
(*   or an opening bracket is before the expression;                       *)
Misplaced ==
  \/ Text[1] \in DOMAIN PrefixForm /\ source.before.text \in {")", "}"}
  \/ Text[1] \in DOMAIN PostfixForm /\ source.before.type = "COMPILATION_LABEL"

(* - an operator after a postfix operator, which it takes for no operand;  *)
(* - a sign directly before a digit, after anything but a name or literal; *)
AfterPostfix ==
  \E i \in 1 .. Len(Text) - 1 : Text[i] \in DOMAIN PostfixForm
    /\ \/ Text[i + 1] \in DOMAIN PrefixForm
       \/ Text[i + 1] \in DOMAIN Glued
    /\ i > 1 /\ \/ TokenType(Text[i - 1]) \in {"IDENTIFIER", "LITERAL"}
                \/ Text[i - 1] \in {")", "]"}
SignOfDigit ==
  \E i \in 2 .. Len(Text) : Text[i] \in DOMAIN Glued /\ Text[i - 1] \in {")", "]"}

(* - the operator "~";                                                     *)
(* - an assignment that is an operand of something else than an assignment.*)
Complemented == \E i \in DOMAIN Text : Text[i] = "~"

RECURSIVE AssignsWithin(_)
AssignsWithin(e) ==
  LET Operand(o) == o.kind = "assign" \/ AssignsWithin(o)
  IN CASE e.kind \in {"prefix", "postfix"} -> Operand(e.of)
       [] e.kind = "at" -> Operand(e.of) \/ Operand(e.index)
       [] e.kind = "binary" -> Operand(e.left) \/ Operand(e.right)
       [] e.kind = "assign" -> Operand(e.left) \/ AssignsWithin(e.right)
       [] e.kind = "array" -> \E i \in DOMAIN e.items : Operand(e.items[i])
       [] OTHER -> FALSE

Misread ==
  \/ Misplaced \/ AfterPostfix \/ SignOfDigit \/ Complemented
  \/ AssignsWithin(source.tree) \/ source.tree.kind = "path"

Known == [n \in DOMAIN Symbols |-> Symbols[n].id]
                   @@ [n \in UNION {DOMAIN Members[m] : m \in DOMAIN Members} |->
                         (CHOOSE s \in {Members[m] : m \in DOMAIN Members} : n \in DOMAIN s)[n].id]

RECURSIVE DeclaresWrongly(_)
DeclaresWrongly(e) ==
  \/ e.kind = "assign" /\ (DeclaresWrongly(e.left) \/ DeclaresWrongly(e.right))
  \/ /\ e.kind = "declare"
     /\ \/ e.name \in source.declared
        \/ Symbols[Last(e.type)].id \notin TypeIds
        \/ {"ptr", "ref"} \subseteq {e.type[i] : i \in DOMAIN e.type}

(* Each expression but those named above is accepted and becomes the       *)
(* pseudo-code it means, however many parentheses it is written with: the  *)
(* priorities and associativity the table's comments state                 *)
(* (PseudoTranslationsInfo.hpp:181-247) are those the expression is parsed *)
(* with, and every operand is there before its operator.                   *)
MeansSource ==
  (Done \/ phase = "undefined") /\ source.tree # Nothing /\ ~Misread /\ ~DeclaresWrongly(source.tree) =>
    /\ Done /\ ~reported
    /\ pseudo_code = earlier \o Meaning(source.tree, Known, NextId, FALSE)

(* Whatever the text, the postfix form has its operands in their order,    *)
(* and its operators, each once: the groups made of brackets, types and    *)
(* paths lose and repeat none (PostfixBuilder.cpp:126-177, :236-261).      *)
KeepsTokens ==
  phase = "tree" /\ ~reported /\ ~Calls /\ ~Unclosed =>
    /\ OperandTokens(TokensOfGroup(postfix)) = OperandTokens(tokens)
    /\ ToBag(OperatorTokens(TokensOfGroup(postfix)))
         = ToBag(OperatorTokens(tokens))

(* What a tree leaves on the operand stack of the back end: nothing for    *)
(* what has no code or gives its value away.                               *)
RECURSIVE GivesValue(_)
GivesValue(node) ==
  CASE node.type \in {"FunctionCall", "TypeCast", "NewExpression", "Declaration", "Type"} -> FALSE
    [] node.type = "Argument" -> \E k \in DOMAIN node.complex : GivesValue(node.complex[k])
    [] node.type = "Operation" -> node.simple.text \notin Assignments
    [] OTHER -> TRUE

(* An operand that gives no value, other than what may be on either side   *)
(* of an assignment.                                                       *)
RECURSIVE MissesOperand(_)
MissesOperand(node) ==
  \/ \E k \in DOMAIN node.complex : MissesOperand(node.complex[k])
  \/ /\ node.type \in {"Operation", "DataAccess", "DataAccessChain", "ArrayLiteral"}
     /\ \E k \in DOMAIN node.complex :
          /\ ~GivesValue(node.complex[k])
          /\ ~(/\ node.simple.text \in Assignments
               /\ \/ k = 1 /\ node.complex[k].type = "Declaration"
                  \/ k = 2 /\ node.complex[k].type = "Operation")

(* How many operands a command takes and leaves. *)
Takes(c) ==
  CASE c[1] \in {"Use", "UseConstant", "DeclareVariable"} -> 0
    [] c[1] = "Unary" -> 1
    [] c[1] = "CreateArray" -> c[2]
    [] OTHER -> 2
Leaves(c) == IF c[1] \in {"DeclareVariable", "Assign"} THEN 0 ELSE 1

Balance(code) == FoldLeft(LAMBDA n, c : n - Takes(c) + Leaves(c), 0, code)

(* Whatever the text, each command of accepted pseudo-code finds its       *)
(* operands, unless the tree has an operand that gives no value: the back  *)
(* end takes them from its stack unasked (BCHUtils.cpp).                   *)
OperandsSuffice ==
  Done /\ ~reported /\ ~MissesOperand(tree) =>
    \A k \in Len(earlier) + 1 .. Len(pseudo_code) :
      Balance(SubSeq(pseudo_code, Len(earlier) + 1, k - 1)) >= Takes(pseudo_code[k])

(* No operand is lost on the way from the text to the code.                *)
OperandsKept == KeepsTokens /\ OperandsSuffice

(* A declaration of a name its scope has, of a pointer to a reference, or  *)
(* with a type that is none is refused wherever it stands                  *)
(* (ExpressionsTranslator.cpp:108-116, :242-334).  Types are looked up by  *)
(* number alone: a variable that has the number of a type passes for it.   *)
RefusesDeclarations ==
  (Done \/ phase = "undefined") /\ source.tree # Nothing /\ DeclaresWrongly(source.tree) => reported
=============================================================================
