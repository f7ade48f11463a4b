---------------------------- MODULE MacroPromise ----------------------------
(***************************************************************************)
(* What the preprocessor of MSL makes of the modules of a program.         *)
(*                                                                         *)
(*   #define_const C = 1            #define_insertion F(x, y) { x + y }    *)
(*   #import "path"                 #C         #F(a, b)                    *)
(*                                                                         *)
(* Directives are taken out of the text.  A call stands for the last       *)
(* definition of its name in this module, above it or below it, or in one  *)
(* before; it is replaced by the constant or by the body, the parameters   *)
(* by the arguments.  A call in a body or in an argument is left as it is. *)
(* The text ends at a call of what nothing defines.  A call of a macro     *)
(* with parameters that has not as many arguments vanishes.                *)
(*                                                                         *)
(* Of texts that are not clean, see below, nothing is said.  Macros is     *)
(* shown to implement this.                                                *)
(***************************************************************************)
EXTENDS Integers, Sequences, SequencesExt

CONSTANTS
  Identifiers,
  LiteralTokens, (* that are no strings                                    *)
  Paths,         (* literals that are strings                              *)
  Calls          (* the name each call token calls                         *)

VARIABLES
  text,        (* the tokens of each module, in order; it may be any       *)
  output       (* of the modules so far                                    *)

vars == <<text, output>>

EndOfLine == ";"
Directives == {"#define_const", "#define_insertion", "#import"}

At(m, p) == text[m][p]
Size(m) == Len(text[m])
(* The first of the positions S, or the one behind the text. *)
First(m, S) == Min(S \cup {Size(m) + 1})

-----------------------------------------------------------------------------
(* Where a directive ends and what it says.                                *)

LineEnd(m, p) == First(m, {q \in p .. Size(m) : At(m, q) = EndOfLine})
Opening(m, p) == First(m, {q \in p .. Size(m) : At(m, q) = "{"})
Braces(m, p, q) ==
  Cardinality({k \in p .. q : At(m, k) = "{"})
    - Cardinality({k \in p .. q : At(m, k) = "}"})
Closing(m, p) ==
  First(m, {q \in Opening(m, p) .. Size(m) : Braces(m, p, q) = 0})
Parenthesis(m, p) == First(m, {q \in p .. Size(m) : At(m, q) = ")"})

(* What comes behind it; the end of its line belongs to no directive. *)
Behind(m, p) ==
  CASE At(m, p) = "#define_const" -> LineEnd(m, p)
    [] At(m, p) = "#define_insertion" -> Closing(m, p) + 1
    [] At(m, p) = "#import" -> p + 2
    [] OTHER -> p + 1

(* Whether a position is inside of no directive. *)
IsFree(m) ==
  LET free[p \in 1 .. Size(m)] ==
        \A q \in {k \in 1 .. p - 1 : At(m, k) \in Directives} :
          free[q] => Behind(m, q) <= p
  IN free
Free(m) == {p \in 1 .. Size(m) : IsFree(m)[p]}

(* The places of the definitions of module m, and of those before place d. *)
Defining(m) ==
  {m} \X {p \in Free(m) : At(m, p) \in {"#define_const", "#define_insertion"}}
Before(d) ==
  {e \in UNION {Defining(n) : n \in 1 .. d[1]} : e[1] < d[1] \/ e[2] < d[2]}
Latest(S) == CHOOSE d \in S : S \ {d} \subseteq Before(d)
Name(m, p) == At(m, p + 1)

(* A name has no meaning, or is a macro defined at a place, or a constant. *)
Nothing == [value |-> "nothing", place |-> << >>]
Macro(d) == [value |-> "macro", place |-> d]
Constant(v) == [value |-> v, place |-> << >>]
IsMacro(meaning) == meaning.place # << >>

RECURSIVE Given(_), Denotes(_, _)

(* What the definition at d gives its name. *)
Given(d) ==
  LET m == d[1]
      p == d[2]
      of == At(m, p + 3)
  IN IF At(m, p) = "#define_insertion" THEN Macro(d)
     ELSE IF LineEnd(m, p) # p + 4 \/ Name(m, p) \notin Identifiers
               \/ At(m, p + 2) # "=" THEN Nothing
     ELSE IF of \in LiteralTokens \cup Paths THEN Constant(of)
     ELSE IF IsMacro(Denotes(of, d)) THEN Nothing
     ELSE Denotes(of, d)

(* What a name means where the definitions before place d count. *)
Denotes(name, d) ==
  LET S == {e \in Before(d) :
              e[2] < Size(e[1]) /\ Name(e[1], e[2]) = name /\ Given(e) # Nothing}
  IN IF S = {} THEN Nothing ELSE Given(Latest(S))

(* What it means in the text of module m, above definitions too. *)
Means(name, m) == Denotes(name, <<m, Size(m) + 1>>)

-----------------------------------------------------------------------------
(* Calls.                                                                  *)

Cut(m, p, q) == SubSeq(text[m], p, q)

(* The parts between positions p and q that commas separate. *)
Parts(m, p, q) ==
  LET bounds == {k \in p .. q : At(m, k) = ","} \cup {p - 1, q + 1}
      Bound(n) == CHOOSE b \in bounds : Cardinality({c \in bounds : c < b}) = n
  IN IF p > q THEN << >>
     ELSE [n \in 1 .. Cardinality(bounds) - 1 |->
             Cut(m, Bound(n - 1) + 1, Bound(n) - 1)]

Parameters(d) ==
  LET parts == Parts(d[1], d[2] + 3, Parenthesis(d[1], d[2]) - 1)
  IN [k \in DOMAIN parts |-> parts[k][1]]
Body(d) == Cut(d[1], Opening(d[1], d[2]) + 1, Closing(d[1], d[2]) - 1)
Arguments(m, p) == Parts(m, p + 2, Parenthesis(m, p) - 1)

Substituted(body, parameters, arguments) ==
  FlattenSeq([k \in DOMAIN body |->
    IF body[k] \in ToSet(parameters)
    THEN arguments[CHOOSE n \in DOMAIN parameters : parameters[n] = body[k]]
    ELSE <<body[k]>>])

IsCall(m, p) == At(m, p) \in DOMAIN Calls
Meant(m, p) == Means(Calls[At(m, p)], m)
IsUndefined(m, p) == IsCall(m, p) /\ Meant(m, p) = Nothing
IsInsertion(m, p) == IsCall(m, p) /\ IsMacro(Meant(m, p))

Expansion(m, p, meaning) ==
  IF ~IsMacro(meaning) THEN <<meaning.value>>
  ELSE IF Len(Arguments(m, p)) # Len(Parameters(meaning.place)) THEN << >>
  ELSE Substituted(Body(meaning.place), Parameters(meaning.place), Arguments(m, p))

-----------------------------------------------------------------------------
(* Clean texts: a definition of an insertion has a name, a list of         *)
(* different parameters and a body that ends; an import has a path; no     *)
(* parenthesis is among the arguments of a call, and no argument is empty. *)
Flat(m, p) ==
  /\ p < Size(m) /\ At(m, p + 1) = "("
  /\ Parenthesis(m, p) <= Size(m)
  /\ p + 1 .. Parenthesis(m, p) \subseteq Free(m)
  /\ \A k \in p + 2 .. Parenthesis(m, p) - 1 : At(m, k) # "("
  /\ \A k \in DOMAIN Arguments(m, p) : Arguments(m, p)[k] # << >>

Proper(m, p) ==
  /\ p + 4 <= Size(m) /\ Name(m, p) \in Identifiers /\ At(m, p + 2) = "("
  /\ Opening(m, p) = Parenthesis(m, p) + 1 /\ Closing(m, p) <= Size(m)
  /\ LET names == Parts(m, p + 3, Parenthesis(m, p) - 1)
     IN /\ \A k \in DOMAIN names : Len(names[k]) = 1 /\ names[k][1] \in Identifiers
        /\ IsInjective(names)

Clean(m) ==
  \A n \in 1 .. m : \A p \in Free(n) :
    /\ At(n, p) = "#define_insertion" => Proper(n, p)
    /\ At(n, p) = "#import" => p < Size(n) /\ At(n, p + 1) \in Paths
    /\ IsInsertion(n, p) => Flat(n, p)

Meaning(m) ==
  LET free == Free(m)
      insertions == {p \in free : IsInsertion(m, p)}
      (* what is not part of a call before it *)
      standing == free \ UNION {p + 1 .. Parenthesis(m, p) : p \in insertions}
      last == First(m, {p \in standing : IsUndefined(m, p)}) - 1
  IN FlattenSeq([p \in 1 .. last |->
       IF p \notin standing \/ At(m, p) \in Directives THEN << >>
       ELSE IF IsCall(m, p) THEN Expansion(m, p, Meant(m, p))
       ELSE <<At(m, p)>>])

-----------------------------------------------------------------------------
Init == output = << >>

Preprocess ==
  /\ Len(output) < Len(text)
  /\ LET m == Len(output) + 1
     IN /\ Len(output') = m /\ SubSeq(output', 1, m - 1) = output
        /\ Clean(m) => output'[m] = Meaning(m)
  /\ UNCHANGED text

Spec == Init /\ [][Preprocess]_vars
=============================================================================
