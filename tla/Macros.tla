------------------------------- MODULE Macros -------------------------------
(***************************************************************************)
(* The preprocessor of the compiler: Preprocessor::Preprocess and          *)
(* Postprocess, HandleDefineConstant, HandleDefineInsertion and            *)
(* InsertMacro (Preprocessor.cpp), and the table of macros, which lasts    *)
(* from module to module (MacrosInfo.cpp).                                 *)
(*                                                                         *)
(* Tokens that the code types UNDEFINED are in the set "undefined".  A     *)
(* token of a body that stands for a parameter has its number, counted     *)
(* from 1; the others have 0.  When the code reads behind the tokens the   *)
(* compiler dies or goes on.                                               *)
(***************************************************************************)
EXTENDS Integers, Sequences, SequencesExt

CONSTANTS Texts, Identifiers, LiteralTokens, Paths, Calls

VARIABLES
  text,
  output,         (* the tokens of the modules before                      *)
  macros,         (* m_name_to_id and m_macros                             *)
  stage,          (* which loop runs: "preprocess", "insertion" (of        *)
                  (* HandleDefineInsertion), "postprocess", "call" (of     *)
                  (* InsertMacro); or "ended" or "died"                    *)
  current_index,
  undefined,
  definition,     (* the locals of HandleDefineInsertion                   *)
  tokens,         (* what Postprocess has put together                     *)
  call            (* the locals of InsertMacro                             *)

vars == <<text, output, macros, stage, current_index, undefined, definition,
          tokens, call>>

NoDefinition == [name |-> "", header |-> << >>, body |-> << >>,
                 header_f |-> FALSE, body_f |-> FALSE, depth |-> 0]
NoCall == [name |-> "", args |-> << >>, current |-> << >>]

OPERATION_END == ";"
source == text[Len(output) + 1]
Size == Len(source)
Here == source[current_index]

-----------------------------------------------------------------------------
(* Preprocess: one turn of its loop.                                       *)

Preprocessing == stage = "preprocess" /\ current_index <= Size

Define(name, macro) == macros' = (name :> macro) @@ macros

Constant(value) ==
  [type |-> "Constant", value |-> value, body |-> << >>, parameters |-> << >>]
FunctionLike(body, parameters) ==
  [type |-> "FunctionLike", value |-> "", body |-> body, parameters |-> parameters]

(* Up to the end of the line, which the loop then steps over.  More than   *)
(* three arguments are still to be done in the code.                       *)
HandleDefineConstant ==
  LET end == Min({i \in current_index + 1 .. Size : source[i] = OPERATION_END}
                   \cup {Size + 1})
      args == SubSeq(source, current_index + 1, end - 1)
      simple == Len(args) = 3 /\ args[1] \in Identifiers /\ args[2] = "="
  IN /\ Preprocessing /\ Here = "#define_const"
     /\ undefined' = undefined \cup current_index .. end - 1
     /\ current_index' = end + 1
     /\ IF simple /\ args[3] \in LiteralTokens \cup Paths
        THEN Define(args[1], Constant(args[3]))
        ELSE IF simple /\ args[3] \in Identifiers /\ args[3] \in DOMAIN macros
                  /\ macros[args[3]].type = "Constant"
        THEN Define(args[1], Constant(macros[args[3]].value))
        ELSE UNCHANGED macros
     /\ UNCHANGED <<text, output, stage, definition, tokens, call>>

(* Mutation: the first closing brace ends the body. *)
Deepens_NotNested(t) == FALSE

(* A brace opened in the body. *)
Deepens(t) == t = "{" /\ definition.depth > 0

(* The name; without one the compiler ends with an exception. *)
HandleDefineInsertion ==
  /\ Preprocessing /\ Here = "#define_insertion"
  /\ IF current_index = Size
     THEN /\ stage' = "died"
          /\ UNCHANGED <<undefined, current_index, definition>>
     ELSE /\ stage' = "insertion"
          /\ undefined' = undefined \cup {current_index, current_index + 1}
          /\ current_index' = current_index + 2
          /\ definition' = [NoDefinition EXCEPT !.name = source[current_index + 1]]
  /\ UNCHANGED <<text, output, macros, tokens, call>>

(* One turn of its loop. *)
ReadsToken ==
  /\ stage = "insertion" /\ current_index <= Size
  /\ undefined' = undefined \cup {current_index}
  /\ current_index' = current_index + 1
  /\ UNCHANGED <<text, output, tokens, call>>

Heads == Here = "(" /\ ~definition.header_f /\ ~definition.body_f

(* Parameters: every token but commas and the parenthesis that ends them.  *)
ReadHeader ==
  /\ ReadsToken /\ (Heads \/ definition.header_f)
  /\ definition' =
       CASE Heads -> [definition EXCEPT !.header_f = TRUE]
         [] Here = ")" /\ ~Heads -> [definition EXCEPT !.header_f = FALSE]
         [] Here = "," -> definition
         [] OTHER -> [definition EXCEPT !.header = Append(@, Here)]
  /\ UNCHANGED <<macros, stage>>

(* Mutation: a number one too high. *)
ParameterNumber_OneBehind(t) ==
  IF t \in ToSet(definition.header) THEN Len(definition.header) + 1 ELSE 0

(* The last parameter of the name. *)
ParameterNumber(t) ==
  LET header == definition.header
      numbers == {k \in DOMAIN header : t \in Identifiers /\ header[k] = t}
  IN Max(numbers \cup {0})

EndsDefinition == Here = "}" /\ definition.body_f /\ definition.depth = 1

(* The rest is the body, what comes before its brace too. *)
ReadBody ==
  LET opens == Here = "{" /\ definition.depth = 0
      closes == Here = "}" /\ definition.body_f
      copied == [token |-> Here, arg |-> ParameterNumber(Here)]
  IN /\ ReadsToken /\ ~Heads /\ ~definition.header_f /\ ~EndsDefinition
     /\ definition' =
          IF opens THEN [definition EXCEPT !.depth = 1, !.body_f = TRUE]
          ELSE [definition EXCEPT !.body = Append(@, copied),
                  !.depth = @ + (IF Deepens(Here) THEN 1 ELSE 0)
                              - (IF closes THEN 1 ELSE 0)]
     /\ UNCHANGED <<macros, stage>>

(* At the brace that closes the body, or at the end of the tokens. *)
DefineInsertion ==
  /\ \/ ReadsToken /\ ~definition.header_f /\ EndsDefinition
     \/ /\ stage = "insertion" /\ current_index > Size
        /\ current_index' = current_index + 1
        /\ UNCHANGED <<text, output, undefined, tokens, call>>
  /\ Define(definition.name, FunctionLike(definition.body, definition.header))
  /\ stage' = "preprocess" /\ definition' = NoDefinition

(* What comes behind #import is stepped over, a path or not. *)
HandleImport ==
  LET path == current_index < Size /\ source[current_index + 1] \in Paths
  IN /\ Preprocessing /\ Here = "#import"
     /\ undefined' = undefined \cup {current_index}
                       \cup (IF path THEN {current_index + 1} ELSE {})
     /\ current_index' = current_index + 2
     /\ UNCHANGED <<text, output, macros, stage, definition, tokens, call>>

(* Mutation: other tokens are left for the handlers to step over. *)
StepOver_OnlyCalls ==
  /\ Preprocessing
  /\ Here \in DOMAIN Calls
  /\ current_index' = current_index + 1
  /\ UNCHANGED <<text, output, macros, stage, undefined, definition, tokens, call>>

StepOver ==
  /\ Preprocessing
  /\ Here \notin {"#define_const", "#define_insertion", "#import"}
  /\ current_index' = current_index + 1
  /\ UNCHANGED <<text, output, macros, stage, undefined, definition, tokens, call>>

BeginPostprocess ==
  /\ stage = "preprocess" /\ current_index > Size
  /\ stage' = "postprocess" /\ current_index' = 1 /\ tokens' = << >>
  /\ UNCHANGED <<text, output, macros, undefined, definition, call>>

-----------------------------------------------------------------------------
(* Postprocess: one turn of its loop.                                      *)

Postprocessing == stage = "postprocess" /\ current_index <= Size
IsCall == current_index \notin undefined /\ Here \in DOMAIN Calls
Called == Calls[Here]
Puts(sequence, next) ==
  /\ tokens' = tokens \o sequence /\ current_index' = next
  /\ UNCHANGED <<text, output, macros, stage, undefined, definition, call>>

(* Tokens of directives are left out, the others kept. *)
Copy ==
  /\ Postprocessing /\ ~IsCall
  /\ Puts(IF current_index \in undefined THEN << >> ELSE <<Here>>, current_index + 1)

InsertConstant ==
  /\ Postprocessing /\ IsCall /\ Called \in DOMAIN macros
  /\ macros[Called].type = "Constant"
  /\ Puts(<<macros[Called].value>>, current_index + 1)

(* The module has the tokens so far, and the next module is read. *)
Ends ==
  /\ output' = Append(output, tokens)
  /\ stage' = IF Len(output) + 1 = Len(text) THEN "ended" ELSE "preprocess"
  /\ current_index' = 1 /\ undefined' = {} /\ tokens' = << >>
  /\ UNCHANGED <<text, macros, definition, call>>

(* A message, and the rest of the module is lost. *)
CallUndefined ==
  /\ Postprocessing /\ IsCall /\ Called \notin DOMAIN macros
  /\ Ends

EndModule ==
  /\ stage = "postprocess" /\ current_index > Size
  /\ Ends

(* The end of InsertMacro at place i: the body with the arguments, or only *)
(* a message.  The message, and the first look at the token behind the     *)
(* name, read source[i], which may lie behind the tokens.                  *)
Insert(macro, args, i, looked) ==
  LET fits == Len(args) = Len(macro.parameters)
      inserted == FlattenSeq([k \in DOMAIN macro.body |->
                    IF macro.body[k].arg > 0 THEN args[macro.body[k].arg]
                    ELSE <<macro.body[k].token>>])
  IN /\ \/ /\ tokens' = tokens \o (IF fits THEN inserted ELSE << >>)
           /\ current_index' = i + 1 /\ stage' = "postprocess"
        \/ /\ i > Size /\ (looked \/ ~fits) /\ stage' = "died"
           /\ UNCHANGED <<tokens, current_index>>
     /\ call' = NoCall
     /\ UNCHANGED <<text, output, macros, undefined, definition>>

(* A token of a directive is no delimiter any more. *)
Delimits(i, delimiter) == source[i] = delimiter /\ i \notin undefined

(* With no parenthesis behind the name the token there is lost. *)
InsertMacro ==
  /\ Postprocessing /\ IsCall /\ Called \in DOMAIN macros
  /\ macros[Called].type = "FunctionLike"
  /\ IF current_index < Size /\ Delimits(current_index + 1, "(")
     THEN /\ stage' = "call" /\ current_index' = current_index + 1
          /\ call' = [NoCall EXCEPT !.name = Called]
          /\ UNCHANGED <<text, output, macros, undefined, definition, tokens>>
     ELSE Insert(macros[Called], << >>, current_index + 1, TRUE)

Separated(c) == [c EXCEPT !.args = Append(@, c.current), !.current = << >>]

(* One turn of its loop.  Every "(" is stepped over where the depth is 0,  *)
(* and so it always is.                                                    *)
ReadArgument ==
  /\ stage = "call" /\ current_index <= Size /\ ~Delimits(current_index, ")")
  /\ call' = CASE Delimits(current_index, "(") -> call
               [] Delimits(current_index, ",") -> Separated(call)
               [] OTHER -> [call EXCEPT !.current = Append(@, Here)]
  /\ current_index' = current_index + 1
  /\ UNCHANGED <<text, output, macros, stage, undefined, definition, tokens>>

(* At the first closing parenthesis, or at the end of the tokens, where    *)
(* the argument that was being read is lost.                               *)
EndCall ==
  LET closed == current_index <= Size
      args == IF closed /\ call.current # << >>
              THEN Append(call.args, call.current) ELSE call.args
  IN /\ stage = "call" /\ (closed => Delimits(current_index, ")"))
     /\ Insert(macros[call.name], args, current_index, FALSE)

-----------------------------------------------------------------------------
Init ==
  /\ text \in Texts
  /\ output = << >> /\ macros = << >> /\ stage = "preprocess"
  /\ current_index = 1 /\ undefined = {} /\ tokens = << >>
  /\ definition = NoDefinition /\ call = NoCall

Next ==
  \/ HandleDefineConstant \/ HandleImport \/ StepOver
  \/ HandleDefineInsertion \/ ReadHeader \/ ReadBody \/ DefineInsertion
  \/ BeginPostprocess
  \/ Copy \/ InsertConstant \/ CallUndefined \/ EndModule
  \/ InsertMacro \/ ReadArgument \/ EndCall

Spec == Init /\ [][Next]_vars /\ WF_vars(Next)

-----------------------------------------------------------------------------
(* Properties.                                                             *)

TypeOK ==
  /\ Len(output) <= Len(text)
  /\ stage \in {"preprocess", "insertion", "postprocess", "call", "ended", "died"}
  /\ stage # "ended" =>
       current_index \in 1 .. Size + 3 /\ undefined \subseteq 1 .. Size
  /\ \A name \in DOMAIN macros :
       /\ macros[name].type \in {"Constant", "FunctionLike"}
       /\ \A k \in DOMAIN macros[name].body :
            macros[name].body[k].arg \in 0 .. Len(macros[name].parameters)

Promise == INSTANCE MacroPromise

(* A module of clean text comes out as MacroPromise says: directives gone, *)
(* each call the last definition of its name in all that was read, with    *)
(* the arguments in place of the parameters (Preprocess, Postprocess,      *)
(* InsertMacro, MacrosTable).                                              *)
KeepsMacroPromise == Promise!Spec

(* Both loops end, whatever the text: every handler moves the index, also  *)
(* when a directive or a call is cut off by the end of the file.           *)
PreprocessingEnds == <>(stage \in {"ended", "died"})
=============================================================================
