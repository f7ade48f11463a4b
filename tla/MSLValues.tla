------------------------------ MODULE MSLValues -----------------------------
(***************************************************************************)
(* The values a compiled MSL program computes with.  A value is a number   *)
(* in a representation: the bits of an integer, signed or not, or of a     *)
(* real; an address is an integer.  Nothing is known of a value read with  *)
(* the wrong representation.  Numbers stay far from the limits of 64 bits, *)
(* so a conversion between integers changes no bit, and one between an     *)
(* integer and a real keeps the number.                                    *)
(*                                                                         *)
(* Memory consists of bytes, each of some value and, among its bytes, in   *)
(* some place.  What is read is known when it is the lowest bytes of one   *)
(* value.                                                                  *)
(***************************************************************************)
EXTENDS Integers

(* PrimitiveAnalogs, in the order the source gives them. *)
Primitives == {"Int", "UInt", "Real"}
Priority == [Int |-> 0, UInt |-> 1, Real |-> 2]
Bases == Primitives \cup {"Char"}
Analog(base) == IF base = "Char" THEN "Int" ELSE base
Common(p, q) == IF Priority[p] > Priority[q] THEN p ELSE q

Representation(p) == IF p = "Real" THEN "Real" ELSE "Integer"

MSLValue == [rep : {"Integer", "Real", "Unknown"}, n : Int]
Number(p, n) == [rep |-> Representation(p), n |-> n]
Unknown == [rep |-> "Unknown", n |-> 0]

Is(v, p) == v.rep = Representation(p)

(* A conversion of what has the type "from". *)
Converted(v, from, to) == IF Is(v, from) THEN Number(to, v.n) ELSE Unknown

Difference(v, w, p) ==
  IF Is(v, p) /\ Is(w, p) THEN Number(p, v.n - w.n) ELSE Unknown

Addition(v, w, p) ==
  IF Is(v, p) /\ Is(w, p) THEN Number(p, v.n + w.n) ELSE Unknown

Product(v, w, p) ==
  IF Is(v, p) /\ Is(w, p) THEN Number(p, v.n * w.n) ELSE Unknown

Remainder(v, w, p) ==
  IF Is(v, p) /\ Is(w, p) /\ w.n > 0 THEN Number(p, v.n % w.n) ELSE Unknown

Truth(holds) == Number("UInt", IF holds THEN 1 ELSE 0)

LessThan(v, w, p) ==
  IF Is(v, p) /\ Is(w, p) THEN Truth(v.n < w.n) ELSE Unknown

Both(v, w) ==
  IF Unknown \in {v, w} THEN Unknown ELSE Truth(v.n # 0 /\ w.n # 0)

ShiftedLeft(v, w) ==
  IF Is(v, "UInt") /\ Is(w, "UInt") /\ w.n \in 0 .. 2
    THEN Number("UInt", v.n * 2 ^ w.n)
    ELSE Unknown

Negated(v, p) == IF Is(v, p) THEN Number(p, -v.n) ELSE Unknown
Complement(v) == IF Is(v, "UInt") THEN Number("UInt", -v.n - 1) ELSE Unknown

Byte(v, i) == [of |-> v, nth |-> i]

(* What one byte of a value, with zeros above it, says. *)
LowByte(v) == IF Is(v, "UInt") THEN Number("UInt", v.n % 256) ELSE Unknown

(* LOAD_BY_ADDRESS and STORE_BY_ADDRESS. *)
BytesAt(memory, at, size) ==
  IF \A i \in 0 .. size - 1 :
       at + i \in DOMAIN memory /\ memory[at + i] = Byte(memory[at].of, i)
    THEN IF size = 1 THEN LowByte(memory[at].of) ELSE memory[at].of
    ELSE Unknown

WithBytes(memory, at, size, v) ==
  [a \in DOMAIN memory |->
     IF a \in at .. at + size - 1 THEN Byte(v, a - at) ELSE memory[a]]
=============================================================================
