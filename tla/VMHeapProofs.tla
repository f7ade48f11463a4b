---------------------------- MODULE VMHeapProofs ----------------------------
(***************************************************************************)
(* Proofs about VMHeap, for every heap address, heap size, alignment, word *)
(* size and set of requested sizes, also those that round up to 0.  That   *)
(* all that scripts hold is theirs alone (NoOverlap, Conserved) is proved  *)
(* for requests that do not, RequestsRoundUp.                              *)
(***************************************************************************)
EXTENDS VMHeap, TLAPS

(* Rounding up never makes a request smaller. *)
LEMMA RoundUpBound ==
  ASSUME NEW n \in Nat
  PROVE  RoundUp(n) \in Nat /\ n <= RoundUp(n)
<1> DEFINE q == (n + Alignment - 1) \div Alignment
<1>1. q \in Nat
  BY HeapAssumption
<1>2. n + Alignment - 1 < (q + 1) * Alignment
  BY HeapAssumption, Z3
<1>3. (q + 1) * Alignment = q * Alignment + Alignment
  BY <1>1, HeapAssumption
<1>4. q * Alignment \in Nat
  BY <1>1, HeapAssumption
<1> HIDE DEF q
<1>5. n <= q * Alignment
  BY <1>2, <1>3, <1>4, HeapAssumption
<1> QED
  BY <1>4, <1>5 DEF RoundUp, q

(* Rounding up in a word gives the rounded size, or 0 when that is no word *)
(* any more.                                                               *)
LEMMA AlignUpCases ==
  ASSUME NEW n \in Requests
  PROVE  /\ n \in Nat
         /\ n + Alignment - 1 < Word => AlignUp(n) = RoundUp(n)
         /\ ~(n + Alignment - 1 < Word) => AlignUp(n) = 0
<1>1. n \in Nat /\ n < Word /\ Word \in Nat /\ Alignment \in Nat /\ 0 < Alignment /\ Alignment <= Word
  BY HeapAssumption
<1>2. CASE n + Alignment - 1 < Word
  <2>1. (n + Alignment - 1) % Word = n + Alignment - 1
    BY <1>1, <1>2
  <2> QED
    BY <1>1, <1>2, <2>1 DEF AlignUp, RoundUp
<1>3. CASE ~(n + Alignment - 1 < Word)
  <2>1. (n + Alignment - 1) % Word = n + Alignment - 1 - Word
    BY <1>1, <1>3, Z3
  <2>2. (n + Alignment - 1 - Word) \div Alignment = 0
    BY <1>1, <1>3, Z3
  <2> QED
    BY <1>1, <1>3, <2>1, <2>2 DEF AlignUp
<1> QED
  BY <1>1, <1>2, <1>3

LEMMA AlignedIsRounded ==
  ASSUME NEW n \in Requests, AlignUp(n) # 0
  PROVE  AlignUp(n) = RoundUp(n)
BY AlignUpCases

(* A size that does not round up in a word is larger than any heap.        *)
LEMMA LargeRoundsUp ==
  ASSUME NEW n \in Requests, ~(n + Alignment - 1 < Word)
  PROVE  RoundUp(n) \in Nat /\ Word <= RoundUp(n)
<1> DEFINE q == (n + Alignment - 1) \div Alignment
           k == Word \div Alignment
<1>1. n \in Nat /\ Word \in Nat /\ Alignment \in Nat /\ 0 < Alignment
  BY HeapAssumption
<1>2. Word = k * Alignment /\ k \in Nat
  BY <1>1, HeapAssumption, Z3
<1>3. q \in Nat /\ n + Alignment - 1 < (q + 1) * Alignment
  BY <1>1, Z3
<1> HIDE DEF q, k
<1>4. k * Alignment < (q + 1) * Alignment
  <2>1. (q + 1) * Alignment \in Nat
    BY <1>1, <1>3
  <2> QED
    BY <1>1, <1>2, <1>3, <2>1
<1>5. k <= q
  <2>1. SUFFICES ASSUME q + 1 <= k
                 PROVE  FALSE
    BY <1>2, <1>3
  <2>2. (q + 1) * Alignment <= k * Alignment
    BY <1>1, <1>2, <1>3, <2>1, Z3
  <2> QED
    BY <1>1, <1>2, <1>3, <1>4, <2>2
<1>6. k * Alignment <= q * Alignment
  BY <1>1, <1>2, <1>3, <1>5, Z3
<1> QED
  BY <1>1, <1>2, <1>6, RoundUpBound DEF RoundUp, q

LEMMA HeldType ==
  ASSUME TypeOK, NEW l \in live
  PROVE  /\ l.start \in Nat /\ l.size \in Nat
         /\ LastByte(l) \in Int /\ l.start + l.size - 1 <= LastByte(l)
<1>1. l.start \in Nat /\ l.size \in Nat
  <2>1. l.start \in Nat /\ l.size \in Requests
    BY DEF TypeOK, Block
  <2> QED
    BY <2>1, AlignUpCases
<1>2. RoundUp(l.size) \in Nat /\ l.size <= RoundUp(l.size)
  BY <1>1, RoundUpBound
<1> QED
  BY <1>1, <1>2 DEF LastByte

-----------------------------------------------------------------------------
(* What Coalesce does with a list of intervals that lie apart to which one *)
(* more, disjoint from all of them, has been added: it leaves intervals    *)
(* that lie apart and cover the same bytes.                                *)
Disjoint(S) == \A a, b \in S : a # b => a.end < b.start \/ b.end < a.start

LEMMA CoalesceType ==
  ASSUME NEW S, S \subseteq Interval
  PROVE  Coalesce(S) \subseteq Interval
<1> SUFFICES ASSUME NEW a \in S, NEW b \in S, IsRun(S, a, b)
             PROVE  [start |-> a.start, end |-> b.end] \in Interval
  BY DEF Coalesce
<1> QED
  BY DEF IsRun, Interval

LEMMA CoalesceApart ==
  ASSUME NEW S, S \subseteq Interval, Disjoint(S)
  PROVE  Apart(Coalesce(S))
<1> SUFFICES ASSUME NEW a \in S, NEW b \in S, IsRun(S, a, b),
                    NEW c \in S, NEW d \in S, IsRun(S, c, d),
                    ~(b.end + 1 < c.start), ~(d.end + 1 < a.start)
             PROVE  a = c /\ b = d
  BY DEF Apart, Coalesce
<1> USE DEF Interval
(* A run cannot begin strictly inside another. *)
<1>1. ASSUME NEW p \in S, NEW q \in S, IsRun(S, p, q),
             NEW r \in S, NEW s \in S, IsRun(S, r, s),
             p.start < r.start
      PROVE  q.end + 1 < r.start
  <2>1. SUFFICES ASSUME r.start <= q.end + 1
                 PROVE  FALSE
    BY <1>1
  <2>2. r.start - 1 \in p.start .. q.end
    BY <1>1, <2>1
  <2>3. PICK e \in S : e.start <= r.start - 1 /\ r.start - 1 <= e.end
    BY <1>1, <2>2 DEF IsRun, Covered
  <2>4. e # r
    BY <2>3
  <2>5. Touches(e, r)
    BY <2>3, <2>4 DEF Disjoint, Touches
  <2> QED
    BY <1>1, <2>5 DEF IsRun
<1>2. a.start = c.start
  BY <1>1
<1>3. a = c
  BY <1>2 DEF Disjoint
(* Nor can it end strictly inside another that begins where it begins. *)
<1>4. ASSUME NEW p \in S, NEW q \in S, IsRun(S, p, q),
             NEW s \in S, IsRun(S, p, s)
      PROVE  s.end <= q.end
  <2>1. SUFFICES ASSUME q.end < s.end
                 PROVE  FALSE
    BY <1>4
  <2>2. q.end + 1 \in p.start .. s.end
    BY <1>4, <2>1 DEF IsRun
  <2>3. PICK e \in S : e.start <= q.end + 1 /\ q.end + 1 <= e.end
    BY <1>4, <2>2 DEF IsRun, Covered
  <2>4. e # q
    BY <2>3
  <2>5. Touches(q, e)
    BY <2>3, <2>4 DEF Disjoint, Touches
  <2> QED
    BY <1>4, <2>5 DEF IsRun
<1>5. b.end = d.end
  BY <1>3, <1>4
<1>6. b = d
  BY <1>5 DEF Disjoint
<1> QED
  BY <1>3, <1>6

LEMMA CoalesceCovers ==
  ASSUME NEW S, S \subseteq Interval, Apart(S), NEW x \in Interval,
         \A c \in S : c.end < x.start \/ x.end < c.start,
         NEW y \in Int
  PROVE  Covered(Coalesce(S \cup {x}), y) <=> Covered(S \cup {x}, y)
<1> DEFINE T == S \cup {x}
<1> USE DEF Interval
<1>1. ASSUME Covered(Coalesce(T), y)
      PROVE  Covered(T, y)
  <2>0. PICK r \in Coalesce(T) : r.start <= y /\ y <= r.end
    BY <1>1 DEF Covered
  <2>1. PICK a \in T, b \in T : IsRun(T, a, b) /\ a.start <= y /\ y <= b.end
    BY <2>0 DEF Coalesce
  <2>2. y \in a.start .. b.end
    BY <2>1
  <2> QED
    BY <2>1, <2>2 DEF IsRun
<1>2. ASSUME NEW a \in T, NEW b \in T, IsRun(T, a, b), a.start <= y, y <= b.end
      PROVE  Covered(Coalesce(T), y)
  <2> DEFINE p == <<a, b>>
  <2>1. p \in T \X T /\ p[1] = a /\ p[2] = b
    OBVIOUS
  <2> HIDE DEF p, T
  <2>2. [start |-> p[1].start, end |-> p[2].end] \in Coalesce(T)
    BY <1>2, <2>1 DEF Coalesce
  <2>3. [start |-> a.start, end |-> b.end] \in Coalesce(T)
    BY <2>1, <2>2
  <2> QED
    BY <1>2, <2>3 DEF Covered
<1>3. ASSUME NEW c \in T, c.start <= y, y <= c.end
      PROVE  \E a \in T, b \in T : IsRun(T, a, b) /\ a.start <= y /\ y <= b.end
  <2>1. CASE c \in S /\ ~Touches(c, x) /\ ~Touches(x, c)
    <3>1. \A d \in T : ~Touches(d, c) /\ ~Touches(c, d)
      BY <2>1 DEF Touches, Apart
    <3>2. IsRun(T, c, c)
      BY <3>1 DEF IsRun, Covered
    <3> QED
      BY <1>3, <3>2
  <2>2. CASE c = x \/ Touches(c, x) \/ Touches(x, c)
    <3>1. PICK l \in T : \/ Touches(l, x)
                         \/ l = x /\ \A d \in T : ~Touches(d, x)
      OBVIOUS
    <3>2. PICK r \in T : \/ Touches(x, r)
                         \/ r = x /\ \A d \in T : ~Touches(x, d)
      OBVIOUS
    <3>3. l.start <= x.start /\ x.end <= r.end /\ l.start <= r.start
      BY <3>1, <3>2 DEF Touches
    <3>4. \A d \in T : ~Touches(d, l)
      BY <3>1 DEF Touches, Apart
    <3>5. \A d \in T : ~Touches(r, d)
      BY <3>2 DEF Touches, Apart
    <3>6. ASSUME NEW z \in l.start .. r.end
          PROVE  Covered(T, z)
      BY <3>1, <3>2, <3>6 DEF Touches, Covered
    <3>7. IsRun(T, l, r)
      BY <3>3, <3>4, <3>5, <3>6 DEF IsRun
    <3>8. l.start <= y /\ y <= r.end
      <4>1. Touches(c, x) => c = l
        BY <3>1 DEF Touches, Apart
      <4>2. Touches(x, c) => c = r
        BY <3>2 DEF Touches, Apart
      <4> QED
        BY <1>3, <2>2, <3>3, <4>1, <4>2 DEF Touches
    <3> QED
      BY <3>7, <3>8
  <2> QED
    BY <1>3, <2>1, <2>2
<1> QED
  BY <1>1, <1>2, <1>3 DEF Covered

-----------------------------------------------------------------------------
(* The inductive invariant.  That what is set aside is handed out once is  *)
(* not inductive alone: Free may merge a block into a neighbour only       *)
(* because neighbours lie apart, the search may trust by_size only because *)
(* it agrees with by_addr, and a merge stays inside the heap only because  *)
(* everything before it did.  Of the blocks handed out with nothing set    *)
(* aside it says where they start, so that Free is seen to refuse them.    *)
StartsInHeap == \A l \in live : HeapStart <= l.start /\ l.start <= HeapEnd

IInv ==
  /\ TypeOK /\ FreeApart /\ IndexesAgree /\ StartsInHeap
  /\ HandedOutOnce(SetAside) /\ NothingLost(SetAside)

LEMMA InitIInv == Init => IInv
<1> SUFFICES ASSUME Init
             PROVE  IInv
  OBVIOUS
<1> USE HeapAssumption DEF Init, WholeHeap, HeapEnd
<1>1. TypeOK
  BY DEF TypeOK, Interval, ErrorCode, Size
<1>2. FreeApart /\ HandedOutOnce(SetAside) /\ StartsInHeap
  BY DEF FreeApart, Apart, HandedOutOnce, SetAside, StartsInHeap
<1>3. NothingLost(SetAside)
  BY DEF NothingLost, Covered, SetAside
<1>4. IndexesAgree
  BY DEF IndexesAgree, Size
<1> QED
  BY <1>1, <1>2, <1>3, <1>4 DEF IInv

(* A request that rounds up to 0 changes nothing but what scripts hold.    *)
LEMMA AllocateNothingPreserves ==
  ASSUME IInv, NEW n \in Requests, AllocateMemory(n), AlignUp(n) = 0
  PROVE  IInv'
<1> USE HeapAssumption DEF IInv
<1>1. PICK b \in BestFits(0) :
         /\ by_addr' = (by_addr \ {b}) \cup Remainder(b, 0)
         /\ by_size' = (by_size \ {b}) \cup Remainder(b, 0)
         /\ live' = live \cup {[start |-> b.start, size |-> n]}
         /\ max_block_size' \in
              Maximum({max_block_size} \cup {Size(r) : r \in Remainder(b, 0)})
  BY DEF AllocateMemory
<1> DEFINE got == [start |-> b.start, size |-> n]
<1>2. b \in by_addr /\ b \in Interval /\ b.start \in Nat /\ b.end \in Nat /\ b.start <= b.end
  BY DEF BestFits, Fits, IndexesAgree, TypeOK, Interval
<1>3. Remainder(b, 0) = {b}
  <2>1. 0 < Size(b) /\ b.start + 0 = b.start
    BY <1>2 DEF Size
  <2>2. [start |-> b.start, end |-> b.end] = b
    BY <1>2 DEF Interval
  <2> QED
    BY <2>1, <2>2 DEF Remainder
<1>4. by_addr' = by_addr /\ by_size' = by_size
  BY <1>1, <1>2, <1>3 DEF IndexesAgree
<1>5. max_block_size' = max_block_size
  <2>1. Size(b) <= max_block_size /\ Size(b) \in Int /\ max_block_size \in Int
    BY <1>2 DEF IndexesAgree, Size, TypeOK
  <2>2. max_block_size' \in {max_block_size, Size(b)} /\ max_block_size <= max_block_size'
    BY <1>1, <1>3 DEF Maximum
  <2> QED
    BY <2>1, <2>2
<1>6. SetAside' = SetAside
  BY <1>1 DEF SetAside, AlignUp
<1>7. got \in Block /\ HeapStart <= got.start /\ got.start <= HeapEnd
  BY <1>2 DEF Block, NothingLost, HeapEnd
<1>8. live' = live \cup {got}
  BY <1>1
<1> HIDE DEF got
<1>9. TypeOK' /\ StartsInHeap'
  BY <1>4, <1>5, <1>7, <1>8 DEF TypeOK, StartsInHeap, HeapEnd, AllocateMemory, ErrorCode
<1>10. FreeApart' /\ IndexesAgree'
  BY <1>4, <1>5 DEF FreeApart, Apart, IndexesAgree, Size
<1>11. HandedOutOnce(SetAside)' /\ NothingLost(SetAside)'
  BY <1>4, <1>6 DEF HandedOutOnce, NothingLost, LastByte, RoundUp, Covered, HeapEnd
<1> QED
  BY <1>9, <1>10, <1>11

LEMMA AllocatePreserves ==
  ASSUME IInv, NEW n \in Requests, AllocateMemory(n), AlignUp(n) # 0
  PROVE  IInv'
<1> DEFINE need == AlignUp(n)
<1> USE HeapAssumption DEF IInv
<1>1. n \in Nat /\ n > 0 /\ need \in Nat /\ n <= need /\ need = RoundUp(n)
  <2>1. n \in Nat /\ n > 0
    BY DEF AllocateMemory
  <2> QED
    BY <2>1, AlignedIsRounded, RoundUpBound
<1>2. PICK b \in BestFits(need) :
         /\ by_addr' = (by_addr \ {b}) \cup Remainder(b, need)
         /\ by_size' = (by_size \ {b}) \cup Remainder(b, need)
         /\ live' = live \cup {[start |-> b.start, size |-> n]}
         /\ max_block_size' \in
              Maximum({max_block_size} \cup {Size(r) : r \in Remainder(b, need)})
  BY DEF AllocateMemory
<1> DEFINE rest == Remainder(b, need)
           got == [start |-> b.start, size |-> n]
<1>3. b \in by_addr /\ b \in Interval /\ b.start \in Nat /\ b.end \in Nat /\ b.start <= b.end
  BY DEF BestFits, Fits, IndexesAgree, TypeOK, Interval
<1>4. need <= Size(b)
  BY DEF BestFits, Fits
<1>5. /\ \A r \in rest : r \in Interval /\ r.start = b.start + need /\ r.end = b.end
      /\ \A r, s \in rest : r = s
  BY <1>1, <1>3 DEF Remainder, Interval, Size
<1>6. rest # {} \/ b.start + need - 1 = b.end
  <2>1. CASE need < Size(b)
    BY <2>1 DEF Remainder
  <2>2. CASE need = Size(b)
    BY <1>1, <1>3, <2>2 DEF Size
  <2> QED
    BY <1>1, <1>3, <1>4, <2>1, <2>2 DEF Size
<1>7. got.start = b.start /\ got.size = n /\ LastByte(got) = b.start + need - 1
  BY <1>1 DEF LastByte
<1>8. SetAside' = SetAside \cup {got} /\ by_addr' = (by_addr \ {b}) \cup rest
  BY <1>2, <1>7 DEF SetAside, AlignUp
<1>9. \A l \in SetAside : l.start \in Nat /\ LastByte(l) \in Int
  BY HeldType DEF SetAside
<1>10. \A c \in by_addr : c.start \in Nat /\ c.end \in Nat /\ c.start <= c.end
  BY DEF TypeOK, Interval
<1>11. LastByte(got) <= b.end
  BY <1>1, <1>3, <1>4, <1>7 DEF Size
<1>12. \A c \in by_addr : c # b => c.end + 1 < b.start \/ b.end + 1 < c.start
  BY <1>3 DEF FreeApart, Apart
<1>13. TypeOK'
  <2>1. by_addr' \subseteq Interval /\ by_size' \subseteq Interval
    BY <1>2, <1>5 DEF TypeOK
  <2>2. max_block_size' \in Nat
    <3>1. \A r \in rest : Size(r) \in Nat
      BY <1>5 DEF Size, Interval
    <3> QED
      BY <1>2, <3>1 DEF TypeOK, Maximum
  <2>3. got \in Block
    BY <1>3 DEF Block
  <2> QED
    BY <1>2, <2>1, <2>2, <2>3 DEF TypeOK, ErrorCode, AllocateMemory
<1> HIDE DEF need, got, rest
<1>14. FreeApart'
  BY <1>1, <1>3, <1>5, <1>8, <1>10, <1>12 DEF FreeApart, Apart
<1>15. HandedOutOnce(SetAside)'
  <2>1. \A l \in SetAside : LastByte(l) < b.start \/ b.end < l.start
    BY <1>3 DEF HandedOutOnce
  <2>2. \A l \in SetAside, c \in by_addr' : LastByte(l) < c.start \/ c.end < l.start
    BY <1>1, <1>3, <1>5, <1>8, <1>9, <2>1 DEF HandedOutOnce
  <2>3. \A c \in by_addr' : LastByte(got) < c.start \/ c.end < got.start
    BY <1>1, <1>3, <1>5, <1>7, <1>8, <1>10, <1>11, <1>12
  <2>4. \A l \in SetAside : LastByte(l) < got.start \/ LastByte(got) < l.start
    BY <1>1, <1>3, <1>7, <1>9, <1>11, <2>1
  <2>5. \A l, m \in SetAside' : l # m => LastByte(l) < m.start \/ LastByte(m) < l.start
    BY <1>8, <2>4 DEF HandedOutOnce
  <2> QED
    BY <1>8, <2>2, <2>3, <2>5 DEF HandedOutOnce, LastByte, RoundUp
<1>16. NothingLost(SetAside)'
  <2>1. ASSUME NEW x \in HeapStart .. HeapEnd
        PROVE  \/ \E c \in by_addr' : c.start <= x /\ x <= c.end
               \/ \E l \in SetAside' : l.start <= x /\ x <= LastByte(l)
    <3>1. CASE b.start <= x /\ x <= b.end
      <4>1. CASE x < b.start + need
        BY <1>1, <1>3, <1>7, <1>8, <3>1, <4>1 DEF HeapEnd
      <4>2. CASE b.start + need <= x
        <5>1. rest # {}
          BY <1>1, <1>3, <1>6, <3>1, <4>2 DEF HeapEnd
        <5> QED
          BY <1>5, <1>8, <3>1, <4>2, <5>1
      <4> QED
        BY <1>1, <1>3, <4>1, <4>2 DEF HeapEnd
    <3>2. CASE ~(b.start <= x /\ x <= b.end)
      BY <1>8, <3>2 DEF NothingLost, Covered
    <3> QED
      BY <3>1, <3>2
  <2>2. \A c \in by_addr' : HeapStart <= c.start /\ c.start <= c.end /\ c.end <= HeapEnd
    <3>1. \A c \in by_addr : HeapStart <= c.start /\ c.start <= c.end /\ c.end <= HeapEnd
      BY DEF NothingLost
    <3> QED
      BY <1>1, <1>3, <1>5, <1>8, <3>1 DEF Interval
  <2>3. HeapStart <= got.start /\ got.start <= LastByte(got) /\ LastByte(got) <= HeapEnd
    BY <1>1, <1>3, <1>7, <1>11 DEF NothingLost, HeapEnd
  <2>4. \A l \in SetAside' : HeapStart <= l.start /\ l.start <= LastByte(l) /\ LastByte(l) <= HeapEnd
    BY <1>8, <2>3 DEF NothingLost
  <2> QED
    BY <2>1, <2>2, <2>4 DEF NothingLost, Covered, LastByte, RoundUp, HeapEnd
<1>17. IndexesAgree'
  <2>1. by_size' = by_addr'
    BY <1>2, <1>8 DEF IndexesAgree, rest
  <2>2. \A r \in rest : Size(r) \in Int
    BY <1>5 DEF Size, Interval
  <2>3. \A c \in by_addr : Size(c) \in Int
    BY <1>10 DEF Size
  <2>4. /\ max_block_size <= max_block_size'
        /\ \A r \in rest : Size(r) <= max_block_size'
        /\ max_block_size \in Int /\ max_block_size' \in Int
    <3> DEFINE M == {max_block_size} \cup {Size(r) : r \in rest}
    <3>1. max_block_size' \in Maximum(M)
      BY <1>2 DEF rest
    <3>2. \A m \in M : m <= max_block_size'
      BY <3>1 DEF Maximum
    <3>3. max_block_size \in M /\ \A r \in rest : Size(r) \in M
      OBVIOUS
    <3>4. max_block_size \in Int /\ max_block_size' \in Int
      BY <1>13 DEF TypeOK
    <3> HIDE DEF M
    <3> QED
      BY <3>2, <3>3, <3>4
  <2>5. \A c \in by_addr' : Size(c) <= max_block_size'
    BY <1>8, <2>2, <2>3, <2>4 DEF IndexesAgree
  <2> QED
    BY <2>1, <2>5 DEF IndexesAgree, Size
<1>18. StartsInHeap'
  <2>1. HeapStart <= b.start /\ b.start <= HeapEnd
    BY <1>3 DEF NothingLost, HeapEnd
  <2> QED
    BY <1>2, <2>1 DEF StartsInHeap, HeapEnd
<1> QED
  BY <1>13, <1>14, <1>15, <1>16, <1>17, <1>18

(* Free takes back only what was set aside, with the end it was given.     *)
LEMMA FreedOnlySetAside ==
  ASSUME IInv, NEW l \in live, InRange(l)
  PROVE  l \in SetAside /\ FreedEnd(l) = LastByte(l)
<1> USE HeapAssumption
<1>1. /\ l.start \in Nat /\ 0 < l.start /\ l.start < Word /\ Word \in Nat
      /\ l.size \in Requests
  <2>1. l.start \in Nat /\ l.size \in Requests
    BY DEF IInv, TypeOK, Block
  <2>2. HeapStart <= l.start /\ l.start <= HeapEnd
    BY DEF IInv, StartsInHeap
  <2> QED
    BY <2>1, <2>2 DEF HeapEnd
<1>2. AlignUp(l.size) # 0
  <2>1. SUFFICES ASSUME AlignUp(l.size) = 0
                 PROVE  FALSE
    OBVIOUS
  <2>2. (l.start + 0 + Word - 1) % Word = l.start - 1
    BY <1>1, Z3
  <2>3. FreedEnd(l) = l.start - 1
    BY <2>1, <2>2 DEF FreedEnd
  <2> QED
    BY <1>1, <2>3 DEF InRange
<1>3. l \in SetAside
  BY <1>2 DEF SetAside
<1>4. AlignUp(l.size) = RoundUp(l.size) /\ RoundUp(l.size) \in Nat
  <2>1. l.size \in Nat
    BY <1>1, AlignUpCases
  <2> QED
    BY <1>1, <1>2, <2>1, AlignedIsRounded, RoundUpBound
<1>5. LastByte(l) <= HeapEnd /\ l.start <= LastByte(l)
  BY <1>3 DEF IInv, NothingLost
<1> DEFINE e == l.start + RoundUp(l.size) - 1
<1>6. e \in Nat /\ e < Word
  BY <1>1, <1>4, <1>5 DEF LastByte, HeapEnd
<1>7. l.start + RoundUp(l.size) + Word - 1 = e + Word
  BY <1>1, <1>4
<1> HIDE DEF e
<1>8. (e + Word) % Word = e
  BY <1>1, <1>6, Z3
<1> QED
  BY <1>3, <1>4, <1>7, <1>8 DEF FreedEnd, LastByte, e

LEMMA FreePreserves ==
  ASSUME IInv, NEW l \in live, FreeMemory(l)
  PROVE  IInv'
<1> DEFINE freed == [start |-> l.start, end |-> LastByte(l)]
           T == by_addr \cup {freed}
<1> USE HeapAssumption DEF IInv
<1>0. l \in SetAside /\ FreedEnd(l) = LastByte(l)
  BY FreedOnlySetAside DEF FreeMemory
<1>1. /\ by_addr' = Coalesce(T) /\ by_size' = by_addr'
      /\ live' = live \ {l} /\ SetAside' = SetAside \ {l}
  BY <1>0 DEF FreeMemory, SetAside, AlignUp
<1>2. freed \in Interval /\ freed.start = l.start /\ freed.end = LastByte(l)
  BY <1>0, HeldType DEF Interval, NothingLost
<1>3. \A m \in SetAside : m.start \in Nat /\ LastByte(m) \in Int /\ m.start <= LastByte(m)
  BY HeldType DEF NothingLost, SetAside
<1> HIDE DEF freed
<1>4. \A c \in by_addr : c.end < freed.start \/ freed.end < c.start
  BY <1>0, <1>2 DEF HandedOutOnce
<1>5. T \subseteq Interval
  BY <1>2 DEF TypeOK
<1>6. Disjoint(T)
  BY <1>2, <1>4, <1>5 DEF Disjoint, FreeApart, Apart, Interval
<1>7. by_addr' \subseteq Interval
  BY <1>1, <1>5, CoalesceType
<1>8. Apart(by_addr')
  BY <1>1, <1>5, <1>6, CoalesceApart
<1>9. \A y \in Int : Covered(by_addr', y) <=> Covered(T, y)
  BY <1>1, <1>2, <1>4, CoalesceCovers DEF TypeOK, FreeApart
<1> HIDE DEF T
<1>10. \A y \in Int : Covered(T, y) <=> Covered(by_addr, y) \/ (l.start <= y /\ y <= LastByte(l))
  BY <1>2 DEF Covered, T
<1>11. TypeOK'
  <2>1. \A c \in by_addr' : Size(c) \in Nat
    BY <1>7 DEF Interval, Size
  <2>2. max_block_size' \in Nat
    <3> DEFINE M == {0} \cup {Size(b) : b \in by_addr'}
    <3>1. max_block_size' \in M
      BY DEF FreeMemory, Maximum
    <3>2. M \subseteq Nat
      BY <2>1
    <3> QED
      BY <3>1, <3>2
  <2> QED
    BY <1>1, <1>7, <2>2 DEF TypeOK, FreeMemory, ErrorCode
<1>12. FreeApart'
  BY <1>8 DEF FreeApart, Apart
<1>13. HandedOutOnce(SetAside)'
  <2>1. ASSUME NEW m \in SetAside, m # l, NEW c \in by_addr',
               m.start <= c.end, c.start <= LastByte(m)
        PROVE  FALSE
    <3>1. c.start \in Nat /\ c.end \in Nat /\ c.start <= c.end
      BY <1>7 DEF Interval
    <3>2. PICK y \in Int : /\ c.start <= y /\ y <= c.end
                           /\ m.start <= y /\ y <= LastByte(m)
      <4>1. CASE c.start <= m.start
        BY <1>3, <2>1, <3>1, <4>1
      <4>2. CASE m.start <= c.start
        BY <1>3, <2>1, <3>1, <4>2
      <4> QED
        BY <1>3, <3>1, <4>1, <4>2
    <3>3. Covered(by_addr', y)
      BY <3>2 DEF Covered
    <3>4. CASE Covered(by_addr, y)
      <4>1. PICK d \in by_addr : d.start <= y /\ y <= d.end
        BY <3>4 DEF Covered
      <4>2. LastByte(m) < d.start \/ d.end < m.start
        BY DEF HandedOutOnce
      <4>3. d.start \in Nat /\ d.end \in Nat
        BY DEF TypeOK, Interval
      <4> QED
        BY <1>3, <3>2, <4>1, <4>2, <4>3
    <3>5. CASE l.start <= y /\ y <= LastByte(l)
      <4>1. LastByte(m) < l.start \/ LastByte(l) < m.start
        BY <1>0, <2>1 DEF HandedOutOnce
      <4> QED
        BY <1>0, <1>3, <3>2, <3>5, <4>1
    <3> QED
      BY <1>9, <1>10, <3>3, <3>4, <3>5
  <2>2. \A m \in SetAside', c \in by_addr' : LastByte(m) < c.start \/ c.end < m.start
    <3>1. \A c \in by_addr' : c.start \in Nat /\ c.end \in Nat
      BY <1>7 DEF Interval
    <3> QED
      BY <1>1, <1>3, <2>1, <3>1
  <2> QED
    BY <1>1, <2>2 DEF HandedOutOnce, LastByte, RoundUp
<1>14. NothingLost(SetAside)'
  <2>1. ASSUME NEW x \in HeapStart .. HeapEnd
        PROVE  \/ Covered(by_addr', x)
               \/ \E m \in SetAside' : m.start <= x /\ x <= LastByte(m)
    <3>1. Covered(by_addr, x) \/ \E m \in SetAside : m.start <= x /\ x <= LastByte(m)
      BY DEF NothingLost
    <3>2. x \in Int
      BY DEF HeapEnd
    <3> QED
      BY <1>1, <1>9, <1>10, <3>1, <3>2
  <2>2. ASSUME NEW c \in by_addr'
        PROVE  HeapStart <= c.start /\ c.start <= c.end /\ c.end <= HeapEnd
    <3>1. c.start \in Nat /\ c.end \in Nat /\ c.start <= c.end
      BY <1>7 DEF Interval
    <3>2. ASSUME NEW y \in Int, Covered(by_addr', y)
          PROVE  HeapStart <= y /\ y <= HeapEnd
      <4>1. CASE Covered(by_addr, y)
        <5>1. PICK d \in by_addr : d.start <= y /\ y <= d.end
          BY <4>1 DEF Covered
        <5>2. HeapStart <= d.start /\ d.end <= HeapEnd
          BY DEF NothingLost
        <5>3. d.start \in Nat /\ d.end \in Nat
          BY DEF TypeOK, Interval
        <5> QED
          BY <5>1, <5>2, <5>3 DEF HeapEnd
      <4>2. CASE l.start <= y /\ y <= LastByte(l)
        <5>1. HeapStart <= l.start /\ LastByte(l) <= HeapEnd
          BY <1>0 DEF NothingLost
        <5> QED
          BY <1>0, <1>3, <4>2, <5>1 DEF HeapEnd
      <4> QED
        BY <1>9, <1>10, <3>2, <4>1, <4>2
    <3>3. Covered(by_addr', c.start) /\ Covered(by_addr', c.end)
      BY <3>1 DEF Covered
    <3> QED
      BY <3>1, <3>2, <3>3
  <2> QED
    BY <1>1, <2>1, <2>2 DEF NothingLost, Covered, LastByte, RoundUp, HeapEnd
<1>15. IndexesAgree'
  <2>1. \A c \in by_addr' : Size(c) <= max_block_size'
    BY DEF FreeMemory, Maximum
  <2> QED
    BY <1>1, <2>1 DEF IndexesAgree, Size
<1>16. StartsInHeap'
  BY <1>1 DEF StartsInHeap, HeapEnd
<1> QED
  BY <1>11, <1>12, <1>13, <1>14, <1>15, <1>16

LEMMA NextIInv == IInv /\ [Next]_vars => IInv'
<1> SUFFICES ASSUME IInv, [Next]_vars
             PROVE  IInv'
  OBVIOUS
<1>1. ASSUME NEW n \in Requests, AllocateMemory(n)
      PROVE  IInv'
  BY <1>1, AllocatePreserves, AllocateNothingPreserves
<1>2. ASSUME NEW l \in live, FreeMemory(l)
      PROVE  IInv'
  BY <1>2, FreePreserves
<1>3. ASSUME UNCHANGED <<by_addr, by_size, max_block_size, live>>, raised' \in ErrorCode
      PROVE  IInv'
  BY <1>3 DEF IInv, TypeOK, FreeApart, Apart, HandedOutOnce, NothingLost, Covered,
              SetAside, StartsInHeap, IndexesAgree, LastByte, RoundUp, AlignUp, HeapEnd, Size
<1>4. ASSUME NEW n \in Requests, AllocateFails(n)
      PROVE  IInv'
  BY <1>3, <1>4 DEF AllocateFails, Raise, ErrorCode
<1>5. ASSUME NEW l \in live, FreeFails(l)
      PROVE  IInv'
  BY <1>3, <1>5 DEF FreeFails, Raise, ErrorCode
<1>6. CASE UNCHANGED vars
  BY <1>3, <1>6 DEF vars, IInv, TypeOK
<1> QED
  BY <1>1, <1>2, <1>4, <1>5, <1>6 DEF Next

LEMMA Inductive == Spec => []IInv
BY InitIInv, NextIInv, PTL DEF Spec

(* The variables keep their types: in particular no free interval ever     *)
(* becomes empty or negative, whatever is split off and given back.        *)
THEOREM TypeCorrect == Spec => []TypeOK
BY Inductive, PTL DEF IInv

(* Free intervals never touch, so a hole between held blocks is always     *)
(* available as one interval.                                              *)
THEOREM HeapFreeApart == Spec => []FreeApart
BY Inductive, PTL DEF IInv

(* Whatever sizes scripts ask for, the heap is divided up between the free *)
(* list and the blocks for which Allocate set something aside: Free, Split *)
(* and Coalesce neither lose a byte nor set one aside twice.               *)
THEOREM HeapSetAsideOnce == Spec => []SetAsideOnce
BY Inductive, PTL DEF IInv, SetAsideOnce

(* When requests round up, something was set aside for every held block.   *)
LEMMA AllSetAside ==
  ASSUME RequestsRoundUp, TypeOK
  PROVE  \A l \in live : l.size # 0 => l \in SetAside
<1> SUFFICES ASSUME NEW l \in live, l.size # 0
             PROVE  AlignUp(l.size) # 0
  BY DEF SetAside
<1>1. l.size \in Requests
  BY DEF TypeOK, Block
<1>2. l.size \in Nat /\ AlignUp(l.size) = RoundUp(l.size)
  BY <1>1, AlignUpCases DEF RequestsRoundUp
<1>3. l.size <= RoundUp(l.size) /\ RoundUp(l.size) \in Nat
  BY <1>2, RoundUpBound
<1> QED
  BY <1>2, <1>3

(* A block of no bytes is never handed out. *)
NothingEmpty == \A l \in live : l.size # 0

LEMMA NonEmpty == Spec => []NothingEmpty
<1>1. Init => NothingEmpty
  BY DEF Init, NothingEmpty
<1>2. NothingEmpty /\ [Next]_vars => NothingEmpty'
  <2> SUFFICES ASSUME NothingEmpty, [Next]_vars
               PROVE  NothingEmpty'
    OBVIOUS
  <2>1. ASSUME NEW n \in Requests, AllocateMemory(n)
        PROVE  NothingEmpty'
    <3>1. n # 0
      BY <2>1, AlignUpCases DEF AllocateMemory
    <3>2. PICK b \in BestFits(AlignUp(n)) : live' = live \cup {[start |-> b.start, size |-> n]}
      BY <2>1 DEF AllocateMemory
    <3> QED
      BY <3>1, <3>2 DEF NothingEmpty
  <2>2. CASE \/ \E n \in Requests : AllocateFails(n)
             \/ \E l \in live : FreeMemory(l) \/ FreeFails(l)
             \/ UNCHANGED vars
    BY <2>2 DEF NothingEmpty, vars, AllocateFails, FreeMemory, FreeFails, Raise
  <2> QED
    BY <2>1, <2>2 DEF Next
<1> QED
  BY <1>1, <1>2, PTL DEF Spec

LEMMA HeldIsSetAside ==
  ASSUME RequestsRoundUp, IInv, NothingEmpty
  PROVE  live = SetAside /\ NoOverlap /\ Conserved
<1>1. live = SetAside
  BY AllSetAside DEF NothingEmpty, SetAside, IInv
<1> QED
  BY <1>1 DEF NoOverlap, Conserved, IInv

(* When every request rounds up, no byte is ever held twice, or held and   *)
(* free at once: what a script takes for its own is its own.               *)
THEOREM HeapNoOverlap == RequestsRoundUp => (Spec => []NoOverlap)
<1> SUFFICES ASSUME RequestsRoundUp
             PROVE  Spec => []NoOverlap
  OBVIOUS
<1>1. IInv /\ NothingEmpty => NoOverlap
  BY HeldIsSetAside
<1> QED
  BY <1>1, Inductive, NonEmpty, PTL

(* Nor is a byte of the heap ever lost: it is free or held.                *)
THEOREM HeapConserved == RequestsRoundUp => (Spec => []Conserved)
<1> SUFFICES ASSUME RequestsRoundUp
             PROVE  Spec => []Conserved
  OBVIOUS
<1>1. IInv /\ NothingEmpty => Conserved
  BY HeldIsSetAside
<1> QED
  BY <1>1, Inductive, NonEmpty, PTL

(* The best-fit search sees every free interval.                           *)
THEOREM HeapIndexesAgree == Spec => []IndexesAgree
BY Inductive, PTL DEF IInv

-----------------------------------------------------------------------------
LEMMA FullWhenNothingFits == IInv => NoFitMeansFull
<1> SUFFICES ASSUME IInv, NEW n \in Requests \ {0}, Fits(AlignUp(n)) = {},
                    NEW x \in HeapStart .. HeapEnd, RunFrom(x, RoundUp(n))
             PROVE  FALSE
  BY DEF NoFitMeansFull
<1> DEFINE need == RoundUp(n)
<1> USE HeapAssumption DEF IInv
<1>1. need \in Nat /\ need > 0 /\ x \in Nat /\ HeapEnd \in Nat
  <2>1. n \in Nat /\ n > 0
    OBVIOUS
  <2> QED
    BY <2>1, RoundUpBound DEF HeapEnd
(* A size that does not fit a word fits no heap. *)
<1>0. need = AlignUp(n)
  <2>1. SUFFICES ASSUME ~(n + Alignment - 1 < Word)
                 PROVE  FALSE
    BY AlignUpCases
  <2>2. Word <= need
    BY <2>1, LargeRoundsUp
  <2>3. x + need - 1 <= HeapEnd
    BY DEF RunFrom
  <2> HIDE DEF need
  <2> QED
    BY <1>1, <2>2, <2>3 DEF HeapEnd
<1>2. /\ x + need - 1 <= HeapEnd
      /\ \A y \in x .. (x + need - 1), l \in SetAside : y < l.start \/ LastByte(l) < y
  BY DEF RunFrom
<1> HIDE DEF need
<1>3. \A l \in SetAside : l.start \in Nat /\ LastByte(l) \in Int
  BY HeldType DEF SetAside
<1>4. \A y \in x .. (x + need - 1) : Covered(by_addr, y)
  BY <1>1, <1>2, <1>3 DEF NothingLost
<1>5. PICK b \in by_addr : b.start <= x /\ x <= b.end
  BY <1>1, <1>4 DEF Covered
<1>6. b.start \in Nat /\ b.end \in Nat
  BY DEF TypeOK, Interval
(* The run does not leave the interval its first byte is in. *)
<1>7. x + need - 1 <= b.end
  <2>1. SUFFICES ASSUME b.end < x + need - 1
                 PROVE  FALSE
    BY <1>1, <1>6
  <2>2. PICK c \in by_addr : c.start <= b.end + 1 /\ b.end + 1 <= c.end
    BY <1>1, <1>4, <1>5, <1>6, <2>1 DEF Covered
  <2>3. c.start \in Nat /\ c.end \in Nat
    BY DEF TypeOK, Interval
  <2> QED
    BY <1>5, <1>6, <2>2, <2>3 DEF FreeApart, Apart
<1>8. need <= Size(b) /\ Size(b) <= max_block_size
  BY <1>1, <1>5, <1>6, <1>7 DEF Size, IndexesAgree
<1>9. b \in Fits(need)
  BY <1>8 DEF Fits, IndexesAgree
<1> QED
  BY <1>0, <1>9

LEMMA WholeWhenNothingHeld == IInv => FreedHeapIsWhole
<1> SUFFICES ASSUME IInv, SetAside = {}
             PROVE  by_addr = {WholeHeap}
  BY DEF FreedHeapIsWhole
<1> USE HeapAssumption DEF IInv
<1>1. HeapStart \in Nat /\ HeapEnd \in Nat /\ HeapStart < HeapEnd
  BY DEF HeapEnd
<1>2. \A c \in by_addr : /\ c.start \in Nat /\ c.end \in Nat /\ c.start <= c.end
                         /\ HeapStart <= c.start /\ c.end <= HeapEnd
  BY DEF TypeOK, Interval, NothingLost
<1>3. \A x \in HeapStart .. HeapEnd : \E c \in by_addr : c.start <= x /\ x <= c.end
  BY DEF NothingLost, Covered
<1>4. PICK b \in by_addr : b.start <= HeapStart /\ HeapStart <= b.end
  BY <1>1, <1>3
<1>5. b.end = HeapEnd
  <2>1. SUFFICES ASSUME b.end < HeapEnd
                 PROVE  FALSE
    BY <1>1, <1>2
  <2>2. PICK c \in by_addr : c.start <= b.end + 1 /\ b.end + 1 <= c.end
    BY <1>1, <1>2, <1>3, <1>4, <2>1
  <2> QED
    BY <1>2, <1>4, <2>2 DEF FreeApart, Apart
<1>6. b = WholeHeap
  <2>1. b \in [start : Nat, end : Nat]
    BY DEF TypeOK, Interval
  <2>2. b.start = HeapStart
    BY <1>1, <1>2, <1>4
  <2> QED
    BY <1>5, <2>1, <2>2 DEF WholeHeap
<1>7. \A c \in by_addr : c = b
  BY <1>1, <1>2, <1>4, <1>5 DEF FreeApart, Apart
<1> QED
  BY <1>6, <1>7

(* A request is turned down only when no run of unheld bytes is long       *)
(* enough: the free lists never hide or split one.                         *)
THEOREM HeapNoFitMeansFull == Spec => []NoFitMeansFull
BY Inductive, FullWhenNothingFits, PTL

(* FindFitBlock sees every free interval, and turns a request down only if *)
(* no bytes in a row would serve it.                                       *)
THEOREM HeapSearchSees == Spec => []SearchSees
BY HeapIndexesAgree, HeapNoFitMeansFull, PTL DEF SearchSees

(* A script that gives everything back has the whole heap again.           *)
THEOREM HeapFreedIsWhole == Spec => []FreedHeapIsWhole
BY Inductive, WholeWhenNothingHeld, PTL

-----------------------------------------------------------------------------
(* Refinement: every step of the interval lists is a step of the abstract  *)
(* heap, or leaves it unchanged.                                           *)
LEMMA GrantStep ==
  ASSUME IInv, NEW n \in Requests, AllocateMemory(n)
  PROVE  Promise!Next
<1> USE HeapAssumption DEF IInv
<1>0. HandedOutOnce(SetAside) /\ NothingLost(SetAside) /\ SetAside \subseteq live
  BY DEF SetAside
<1>a. n \in Nat /\ n > 0 /\ Word \in Nat /\ Alignment \in Nat
  BY AlignUpCases DEF AllocateMemory
<1>b. Promise!TooLarge(n) <=> ~(n + Alignment - 1 < Word)
  BY <1>a DEF Promise!TooLarge
<1>c. PICK b \in BestFits(AlignUp(n)) :
         live' = live \cup {[start |-> b.start, size |-> n]} /\ raised' = "NoError"
  BY DEF AllocateMemory
<1>d. CASE Promise!TooLarge(n)
  <2>1. AlignUp(n) = 0
    BY <1>b, <1>d, AlignUpCases
  <2>2. SetAside' = SetAside
    BY <1>c, <2>1 DEF SetAside
  <2> QED
    BY <1>c, <1>d, <2>2 DEF Promise!Next, Promise!GrantNothing
<1>e. CASE ~Promise!TooLarge(n)
  <2> DEFINE need == AlignUp(n)
  <2>1. need \in Nat /\ n <= need /\ need = RoundUp(n)
    BY <1>a, <1>b, <1>e, AlignUpCases, RoundUpBound
  <2>2. SetAside' = SetAside \cup {[start |-> b.start, size |-> n]}
    <3>1. AlignUp(n) # 0
      BY <1>a, <2>1
    <3> QED
      BY <1>c, <3>1 DEF SetAside
  <2>3. b \in by_addr /\ need <= Size(b)
    BY DEF BestFits, Fits, IndexesAgree
  <2>4. /\ b.start \in Nat /\ b.end \in Nat /\ b.start <= b.end
        /\ HeapStart <= b.start /\ b.end <= HeapEnd
    BY <1>0, <2>3 DEF TypeOK, Interval, NothingLost
  <2>5. need = Promise!RoundUp(n) /\ HeapEnd = Promise!HeapEnd /\ HeapEnd \in Nat
    BY <2>1 DEF RoundUp, Promise!RoundUp, HeapEnd, Promise!HeapEnd
  <2> HIDE DEF need
  <2>6. ASSUME NEW x \in b.start .. (b.start + need - 1)
        PROVE  Promise!Unheld(x)
    <3>1. b.start <= x /\ x <= b.end /\ x \in HeapStart .. HeapEnd
      BY <2>1, <2>3, <2>4, <2>5 DEF Size
    <3>2. \A l \in SetAside : LastByte(l) < b.start \/ b.end < l.start
      BY <1>0, <2>3 DEF HandedOutOnce
    <3>3. \A l \in SetAside : x < l.start \/ LastByte(l) < x
      BY <1>0, <2>4, <3>1, <3>2, HeldType
    <3>4. \A l \in SetAside : LastByte(l) = Promise!LastByte(l)
      BY DEF LastByte, Promise!LastByte, RoundUp, Promise!RoundUp
    <3> QED
      BY <2>5, <3>1, <3>3, <3>4 DEF Promise!Unheld
  <2>7. Promise!Grant(n, b.start)
    BY <1>a, <1>c, <1>e, <2>2, <2>5, <2>6 DEF Promise!Grant, Promise!Available
  <2>8. b.start \in HeapStart .. HeapEnd
    BY <2>4, <2>5
  <2> QED
    BY <2>5, <2>7, <2>8 DEF Promise!Next
<1> QED
  BY <1>d, <1>e

LEMMA DenyStep ==
  ASSUME IInv, NEW n \in Requests, AllocateFails(n)
  PROVE  Promise!Deny(n)
<1> USE HeapAssumption
<1>0. SetAside' = SetAside
  BY DEF AllocateFails, Raise, SetAside
<1>1. CASE n = 0
  BY <1>0, <1>1 DEF AllocateFails, Raise, Promise!Deny
<1>2. CASE n # 0
  <2> DEFINE need == RoundUp(n)
  <2>1. Fits(AlignUp(n)) = {}
    BY <1>2 DEF AllocateFails
  <2>2. \A x \in HeapStart .. HeapEnd : ~RunFrom(x, need)
    BY <1>2, <2>1, FullWhenNothingFits DEF NoFitMeansFull
  <2>3. need \in Nat /\ need > 0 /\ HeapEnd \in Nat
    <3>1. n \in Nat /\ n > 0
      BY <1>2
    <3> QED
      BY <3>1, RoundUpBound DEF HeapEnd
  <2>4. need = Promise!RoundUp(n) /\ HeapEnd = Promise!HeapEnd
    BY DEF RoundUp, Promise!RoundUp, HeapEnd, Promise!HeapEnd
  <2> HIDE DEF need
  <2>5. ASSUME NEW x \in HeapStart .. HeapEnd, Promise!Available(x, n)
        PROVE  FALSE
    <3>1. \A y \in x .. (x + need - 1) : Promise!Unheld(y)
      BY <2>4, <2>5 DEF Promise!Available
    <3>2. Promise!Unheld(x + need - 1)
      BY <2>3, <3>1
    <3>3. x + need - 1 <= HeapEnd
      BY <2>3, <2>4, <3>2 DEF Promise!Unheld
    <3>4. \A l \in SetAside : LastByte(l) = Promise!LastByte(l)
      BY DEF LastByte, Promise!LastByte, RoundUp, Promise!RoundUp
    <3>5. RunFrom(x, need)
      BY <3>1, <3>3, <3>4 DEF RunFrom, Promise!Unheld
    <3> QED
      BY <2>2, <3>5
  <2> QED
    BY <1>0, <2>4, <2>5 DEF Promise!Deny, AllocateFails, Raise
<1> QED
  BY <1>1, <1>2

(* A block that was set aside is refused only when it reaches to the       *)
(* heap's last byte.                                                       *)
LEMMA RefusedIsOutside ==
  ASSUME IInv, NEW l \in SetAside, ~InRange(l)
  PROVE  l.start + l.size > Promise!HeapEnd
<1> USE HeapAssumption
<1>1. l \in live /\ AlignUp(l.size) # 0
  BY DEF SetAside
<1>2. /\ l.start \in Nat /\ l.size \in Requests /\ l.size \in Nat
      /\ l.start + l.size - 1 <= LastByte(l) /\ LastByte(l) \in Int
  BY <1>1, HeldType DEF IInv, TypeOK, Block
<1>3. /\ HeapStart <= l.start /\ l.start <= LastByte(l)
      /\ LastByte(l) <= HeapEnd /\ HeapEnd + 1 < Word
  BY DEF IInv, NothingLost, HeapEnd
<1>4. (l.start + l.size) % Word = l.start + l.size
  <2>1. l.start + l.size \in Nat /\ l.start + l.size < Word
    BY <1>2, <1>3 DEF HeapEnd
  <2> QED
    BY <2>1
<1>5. FreedEnd(l) = LastByte(l)
  <2>1. AlignUp(l.size) = RoundUp(l.size) /\ RoundUp(l.size) \in Nat
    BY <1>1, <1>2, AlignUpCases, RoundUpBound
  <2> DEFINE e == LastByte(l)
  <2>2. l.start + RoundUp(l.size) + Word - 1 = e + Word
    BY <1>2, <2>1 DEF LastByte
  <2>3. e \in Nat /\ e < Word
    BY <1>2, <1>3 DEF HeapEnd
  <2> HIDE DEF e
  <2>4. (e + Word) % Word = e
    BY <2>3, Z3
  <2> QED
    BY <2>1, <2>2, <2>4 DEF FreedEnd, e
<1> QED
  BY <1>2, <1>3, <1>4, <1>5 DEF InRange, HeapEnd, Promise!HeapEnd

(* Only what was set aside is given back.                                  *)
LEMMA TakeBackStep ==
  ASSUME IInv, NEW l \in live, FreeMemory(l)
  PROVE  Promise!Next
<1>1. l \in SetAside
  BY FreedOnlySetAside DEF FreeMemory
<1>2. SetAside' = SetAside \ {l} /\ raised' = "NoError"
  BY DEF FreeMemory, SetAside
<1> QED
  BY <1>1, <1>2 DEF Promise!Next, Promise!TakeBack

LEMMA RefuseStep ==
  ASSUME IInv, NothingEmpty, NEW l \in live, FreeFails(l)
  PROVE  Promise!Next
<1>1. SetAside' = SetAside /\ raised' = "FailedMemoryFreeing" /\ ~InRange(l)
  BY DEF FreeFails, Raise, SetAside
<1>2. CASE l \in SetAside
  <2>1. l.start + l.size > Promise!HeapEnd
    BY <1>1, <1>2, RefusedIsOutside
  <2> QED
    BY <1>1, <1>2, <2>1 DEF Promise!Next, Promise!Refuse
<1>3. CASE l \notin SetAside
  <2>1. l.size \in Requests /\ AlignUp(l.size) = 0
    BY <1>3 DEF SetAside, IInv, TypeOK, Block
  <2>2. CASE l.size = 0
    <3>1. l.size # 0
      BY DEF NothingEmpty
    <3> QED
      BY <2>2, <3>1
  <2>3. CASE l.size # 0
    <3>1. ~(l.size + Alignment - 1 < Word)
      <4>1. PICK n \in Requests : n = l.size
        BY <2>1
      <4>2. n \in Nat /\ n # 0 /\ AlignUp(n) = 0
        BY <2>1, <2>3, <4>1, AlignUpCases
      <4>3. RoundUp(n) # 0
        BY <4>2, RoundUpBound
      <4> QED
        BY <4>1, <4>2, <4>3, AlignUpCases
    <3>2. Promise!TooLarge(l.size)
      <4>1. PICK n \in Requests : n = l.size
        BY <2>1
      <4>2. n \in Nat /\ Alignment \in Nat /\ Word \in Nat
        BY AlignUpCases, HeapAssumption
      <4> QED
        BY <3>1, <4>1, <4>2 DEF Promise!TooLarge
    <3> QED
      BY <1>1, <2>1, <3>2 DEF Promise!Next, Promise!RefuseNothing
  <2> QED
    BY <2>2, <2>3
<1> QED
  BY <1>2, <1>3

(* VMHeap implements HeapPromise, for requests of every size.              *)
THEOREM HeapKeepsPromise == Spec => KeepsPromise
<1>1. Init => Promise!Init
  BY DEF Init, Promise!Init, SetAside
<1>2. IInv /\ NothingEmpty /\ [Next]_vars => [Promise!Next]_(Promise!vars)
  <2> SUFFICES ASSUME IInv, NothingEmpty, [Next]_vars
               PROVE  [Promise!Next]_(Promise!vars)
    OBVIOUS
  <2>1. ASSUME NEW n \in Requests, AllocateMemory(n)
        PROVE  Promise!Next
    BY <2>1, GrantStep
  <2>2. ASSUME NEW n \in Requests, AllocateFails(n)
        PROVE  Promise!Next
    BY <2>2, DenyStep DEF Promise!Next
  <2>3. ASSUME NEW l \in live, FreeMemory(l)
        PROVE  Promise!Next
    BY <2>3, TakeBackStep
  <2>4. ASSUME NEW l \in live, FreeFails(l)
        PROVE  Promise!Next
    BY <2>4, RefuseStep
  <2>5. CASE UNCHANGED vars
    BY <2>5 DEF vars, Promise!vars, SetAside
  <2> QED
    BY <2>1, <2>2, <2>3, <2>4, <2>5 DEF Next
<1> QED
  BY <1>1, <1>2, Inductive, NonEmpty, PTL DEF Spec, KeepsPromise, Promise!Spec

-----------------------------------------------------------------------------
(* Alignment.  The held blocks' addresses come from the free intervals'    *)
(* start addresses, so those are what the invariant must speak of.         *)
Aligned(x) == (x - HeapStart) % Alignment = 0

AInv == StartsAligned /\ \A b \in by_addr : Aligned(b.start)

LEMMA AddUnits ==
  ASSUME NEW a \in Int, a % Alignment = 0, NEW k \in Int
  PROVE  (a + k * Alignment) % Alignment = 0
<1> DEFINE q == a \div Alignment
<1>1. a = q * Alignment /\ q \in Int
  <2>1. a = q * Alignment
    BY HeapAssumption, Z3
  <2> QED
    BY <2>1, HeapAssumption
<1> HIDE DEF q
<1>2. a + k * Alignment = (q + k) * Alignment
  BY <1>1, HeapAssumption
<1>3. \A z \in Int : (z * Alignment) % Alignment = 0
  BY HeapAssumption, Z3
<1>4. q + k \in Int
  BY <1>1
<1> QED
  BY <1>2, <1>3, <1>4

LEMMA NextAInv == IInv /\ AInv /\ [Next]_vars => AInv'
<1> SUFFICES ASSUME IInv, AInv, [Next]_vars
             PROVE  AInv'
  OBVIOUS
<1> USE HeapAssumption
<1>1. ASSUME NEW n \in Requests, AllocateMemory(n)
      PROVE  AInv'
  <2>1. PICK b \in BestFits(AlignUp(n)) :
           /\ by_addr' = (by_addr \ {b}) \cup Remainder(b, AlignUp(n))
           /\ live' = live \cup {[start |-> b.start, size |-> n]}
    BY <1>1 DEF AllocateMemory
  <2>2. b \in by_addr /\ b.start \in Nat /\ Aligned(b.start)
    BY DEF BestFits, Fits, IInv, IndexesAgree, TypeOK, Interval, AInv
  <2>3. Aligned(b.start + AlignUp(n))
    <3> DEFINE q == ((n + Alignment - 1) % Word) \div Alignment
    <3>1. AlignUp(n) = q * Alignment /\ q \in Int
      BY DEF AlignUp
    <3>2. (b.start + AlignUp(n)) - HeapStart = (b.start - HeapStart) + AlignUp(n)
      BY <2>2, <3>1
    <3> HIDE DEF q
    <3>3. b.start - HeapStart \in Int /\ (b.start - HeapStart) % Alignment = 0
      BY <2>2 DEF Aligned
    <3>4. ((b.start - HeapStart) + q * Alignment) % Alignment = 0
      BY <3>1, <3>3, AddUnits
    <3>5. (b.start + AlignUp(n)) - HeapStart = (b.start - HeapStart) + q * Alignment
      BY <3>1, <3>2
    <3> QED
      BY <3>4, <3>5, Zenon DEF Aligned
  <2>4. \A r \in Remainder(b, AlignUp(n)) : r.start = b.start + AlignUp(n)
    BY DEF Remainder
  <2> QED
    BY <2>1, <2>2, <2>3, <2>4 DEF AInv, StartsAligned, Aligned
<1>2. ASSUME NEW l \in live, FreeMemory(l)
      PROVE  AInv'
  <2> DEFINE freed == [start |-> l.start, end |-> FreedEnd(l)]
  <2>1. \A c \in Coalesce(by_addr \cup {freed}) :
           \E a \in by_addr \cup {freed} : c.start = a.start
    BY DEF Coalesce
  <2>2. \A a \in by_addr \cup {freed} : Aligned(a.start)
    BY DEF AInv, StartsAligned, Aligned
  <2> QED
    BY <1>2, <2>1, <2>2 DEF FreeMemory, AInv, StartsAligned, Aligned
<1>3. CASE \/ \E n \in Requests : AllocateFails(n)
           \/ \E l \in live : FreeFails(l)
           \/ UNCHANGED vars
  BY <1>3 DEF AllocateFails, FreeFails, Raise, vars, AInv, StartsAligned, Aligned
<1> QED
  BY <1>1, <1>2, <1>3 DEF Next

(* Every held block starts a whole number of units from the heap's start.  *)
THEOREM HeapStartsAligned == Spec => []StartsAligned
<1>1. Init => AInv
  BY HeapAssumption DEF Init, WholeHeap, AInv, StartsAligned, Aligned
<1> QED
  BY <1>1, NextAInv, Inductive, PTL DEF Spec, AInv
=============================================================================
