-------------------------- MODULE ExpressionPromise -------------------------
(***************************************************************************)
(* What the pseudo-code of an expression means: a machine with a stack of  *)
(* operands, each a place in memory (read when it is used) or a value, and *)
(* a memory.  It knows nothing of registers.  The compiler's back end      *)
(* (the module ByteTranslator) must produce code that does the same, or    *)
(* print a message; after a message anything may happen.                   *)
(*                                                                         *)
(* A type is a depth of pointers and the type below them.                  *)
(***************************************************************************)
EXTENDS MSLValues, Sequences

CONSTANTS
  Size,        (* how many bytes all but a char have                       *)
  Types,       (* of variables                                             *)
  Numbers      (* constants, [prim, n, size]                               *)

VARIABLES
  op,          (* the operation that came last                             *)
  operands, memory,
  failed       (* a message was printed                                    *)

vars == <<op, operands, memory, failed>>

NoPlace == -1
Place(at, type) == [place |-> at, value |-> Unknown, type |-> type]
Value(v, type) == [place |-> NoPlace, value |-> v, type |-> type]

Plain(p) == [depth |-> 0, base |-> p]
Primitive(type) == IF type.depth > 0 THEN "UInt" ELSE Analog(type.base)
SizeOf(type) == IF type.depth = 0 /\ type.base = "Char" THEN 1 ELSE Size
Target(type) == [type EXCEPT !.depth = @ - 1]
ElementSize(type) == SizeOf(Target(type))
Numeric(o) == o.type.depth = 0

Count == Len(operands)
Right == operands[Count]
Left == operands[Count - 1]
Below(n) == SubSeq(operands, 1, Count - n)

ReadFrom(at, type) == BytesAt(memory, at, SizeOf(type))
Read(o) == IF o.place = NoPlace THEN o.value ELSE ReadFrom(o.place, o.type)

As(o, p) ==
  IF Primitive(o.type) = p THEN Read(o)
  ELSE Converted(Read(o), Primitive(o.type), p)

CommonType(l, r) == Common(Primitive(l.type), Primitive(r.type))

(* l o r: a pointer moves by whole elements, numbers meet in the type of  *)
(* the higher priority.                                                    *)
Apply(o, l, r) ==
  LET p == CommonType(l, r)
  IN CASE o = "Subtract" /\ ~Numeric(l) ->
            Value(Difference(As(l, "UInt"),
                             Product(As(r, "UInt"),
                                     Number("UInt", ElementSize(l.type)), "UInt"),
                             "UInt"),
                  l.type)
       [] o = "Subtract" /\ Numeric(l) ->
            Value(Difference(As(l, p), As(r, p), p), Plain(p))
       [] o = "Mod" -> Value(Remainder(As(l, p), As(r, p), p), Plain(p))
       [] o = "Less" -> Value(LessThan(As(l, p), As(r, p), p), Plain("UInt"))
       [] o = "And" -> Value(Both(Read(l), Read(r)), Plain("UInt"))
       [] o = "BitOffsetLeft" ->
            Value(ShiftedLeft(Read(l), Read(r)), Plain("UInt"))

ApplyTo(o, e) ==
  CASE o = "Negative" ->
         Value(Negated(Read(e), Primitive(e.type)), Plain(Primitive(e.type)))
    [] o = "BitNot" -> Value(Complement(Read(e)), Plain(Primitive(e.type)))
    [] o = "Not" ->
         Value(IF Read(e) = Unknown THEN Unknown ELSE Truth(Read(e).n = 0),
               Plain("UInt"))

(* What following a pointer gives: the place it points to, or, when that   *)
(* holds a pointer, that pointer.                                          *)
Follow(address, type) ==
  LET to == Target(type)
  IN IF to.depth > 0 THEN Value(ReadFrom(address, to), to) ELSE Place(address, to)

Binaries == {"Subtract", "Mod", "Less", "And", "BitOffsetLeft"}
Unaries == {"Negative", "BitNot", "Not"}

Init == op = "Nop" /\ operands = << >> /\ failed = FALSE

(* The operands become "to", and nothing else changes. *)
Becomes(to) == operands' = to /\ UNCHANGED <<memory, failed>>

Use ==
  /\ op' = "Use"
  /\ \E at \in DOMAIN memory, type \in Types :
       Becomes(Append(operands, Place(at, type)))

UseConstant ==
  /\ op' = "UseConstant"
  /\ \E c \in Numbers :
       Becomes(Append(operands, Value(Number(c.prim, c.n), Plain(c.prim))))

Binary ==
  /\ op' \in Binaries /\ Count >= 2
  /\ Becomes(Append(Below(2), Apply(op', Left, Right)))

Unary ==
  /\ op' \in Unaries /\ Count >= 1
  /\ Becomes(Append(Below(1), ApplyTo(op', Right)))

GetPointer ==
  /\ op' = "GetPointer" /\ Count >= 1 /\ Right.place # NoPlace
  /\ Becomes(Append(Below(1), Value(Number("UInt", Right.place),
                                    [Right.type EXCEPT !.depth = @ + 1])))

Dereference ==
  /\ op' = "Dereference" /\ Count >= 1 /\ ~Numeric(Right)
  /\ Becomes(Append(Below(1), Follow(Read(Right).n, Right.type)))

GetByArgument ==
  /\ op' = "GetByArgument" /\ Count >= 2 /\ ~Numeric(Left)
  /\ Becomes(Append(Below(2), Follow(Read(Left).n + Read(Right).n * ElementSize(Left.type),
                                   Left.type)))

(* x = e and x o= e; an assignment that is itself assigned keeps x. *)
Assign ==
  /\ \/ op' = "Assign" /\ operands' = Below(2)
     \/ op' = "AssignR" /\ operands' = Below(1)
  /\ Count >= 2 /\ Left.place # NoPlace
  /\ \E o \in Binaries \cup {"Nop", "BitNot"} :
       LET e == CASE o = "Nop" -> Right
                  [] o = "BitNot" -> ApplyTo(o, Right)
                  [] OTHER -> Apply(o, Left, Right)
       IN memory' = WithBytes(memory, Left.place, SizeOf(Left.type),
                              As(e, Primitive(Left.type)))
  /\ UNCHANGED failed

JumpIf == op' = "JumpIf" /\ Count >= 1 /\ Becomes(Below(1))

(* What is between expressions leaves operands and memory alone. *)
Between ==
  /\ op' \in {"EndExpression", "Jump", "DeclareVariable", "PushFrame",
              "PopFrame", "PushLLOpers", "End"}
  /\ Becomes(operands)

Fail == failed' = TRUE

Next ==
  \/ Use \/ UseConstant \/ Binary \/ Unary
  \/ GetPointer \/ Dereference \/ GetByArgument
  \/ Assign \/ JumpIf \/ Between \/ Fail

Spec == Init /\ [][Next]_vars
=============================================================================
