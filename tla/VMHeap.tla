------------------------------- MODULE VMHeap -------------------------------
(***************************************************************************)
(* HeapFreeIntervals (MSLVM/include/mslvm/vm_memory.hpp and                *)
(* MSLVM/source/memory/vm_memory.cpp) driven by the VM instructions        *)
(* ALLOCATE_MEMORY and FREE_MEMORY (vm_execution.cpp).                     *)
(*                                                                         *)
(* The free bytes are kept in intervals, in two indexes: by_addr, the list *)
(* sorted by address that coalescing walks, and by_size, the map from a    *)
(* size to the blocks of that size that the best-fit search walks.         *)
(* Intervals of one index are distinct here, so a list is abstracted to    *)
(* its set of elements (its order is the order of the start addresses) and *)
(* the choice among blocks of the same size is left open.                  *)
(*                                                                         *)
(* The script is taken to free only what it holds, with the size it asked  *)
(* for: the VM keeps no record of held blocks and cannot tell otherwise.   *)
(*                                                                         *)
(* Addresses and sizes are words of the machine, uint64_t: their sums are  *)
(* taken modulo Word, so that a request close to the largest word rounds   *)
(* up to 0 and is answered with a block of which nothing is taken.         *)
(***************************************************************************)
EXTENDS Integers, FiniteSets

CONSTANTS
  HeapStart, HeapSize, Alignment,
  Word,      (* how many values a word takes, 2^64 in the build            *)
  Requests   (* the values a script may leave in the size register         *)

ASSUME HeapAssumption ==
  /\ HeapStart \in Nat \ {0}
  /\ HeapSize \in Nat \ {0}
  /\ Word \in Nat /\ HeapStart + HeapSize + 1 < Word
  /\ Alignment \in 1 .. Word /\ Word % Alignment = 0
  /\ Requests \subseteq 0 .. (Word - 1)

VARIABLES
  by_addr,         (* free_intervals_by_addr                               *)
  by_size,         (* free_intervals_by_size, each block under its size    *)
  max_block_size,  (* upper limit of the best-fit search                   *)
  live,            (* history: blocks handed out and not taken back        *)
  raised           (* the error the last heap instruction raised           *)

vars == <<by_addr, by_size, max_block_size, live, raised>>

HeapEnd == HeapStart + HeapSize

AlignUp(n) == (((n + Alignment - 1) % Word) \div Alignment) * Alignment

Interval == {b \in [start : Nat, end : Nat] : b.start <= b.end}
Block == [start : Nat, size : Requests]
ErrorCode == {"NoError", "FailedMemoryAllocation", "FailedMemoryFreeing"}

(* HeapFreeInterval: both ends belong to the interval. *)
Size(b) == b.end - b.start + 1

(* The end Free computes for a block that is given back.                   *)
FreedEnd(l) == (l.start + AlignUp(l.size) + Word - 1) % Word

-----------------------------------------------------------------------------
(* Mutation of Split: an empty rest is kept. *)
Remainder_Empty(b, n) == {[start |-> b.start + n, end |-> b.end]}

(* Split: what is left of block b when its first n bytes are taken.        *)
Remainder(b, n) ==
  IF n < Size(b) THEN {[start |-> b.start + n, end |-> b.end]} ELSE {}

(* CanMergeWith, for the neighbours of a list sorted by address.           *)
Touches(a, b) == a.end + 1 = b.start

Covered(S, x) == \E c \in S : c.start <= x /\ x <= c.end

(* Mutation of Coalesce: neighbours are never merged. *)
Coalesce_Nothing(S) == S

(* Walking the sorted list and merging neighbours that touch leaves one    *)
(* interval per maximal run of touching ones.                              *)
IsRun(S, a, b) ==
  /\ a.start <= b.start
  /\ \A c \in S : ~Touches(c, a) /\ ~Touches(b, c)
  /\ \A x \in a.start .. b.end : Covered(S, x)

Coalesce(S) ==
  {[start |-> r[1].start, end |-> r[2].end] :
     r \in {p \in S \X S : IsRun(S, p[1], p[2])}}

(* FindFitBlock: the smallest sizes are tried first, no size beyond        *)
(* max_block_size is tried.                                                *)
Fits(n) == {b \in by_size : n <= Size(b) /\ Size(b) <= max_block_size}
BestFits(n) == {b \in Fits(n) : \A c \in Fits(n) : Size(b) <= Size(c)}

Maximum(M) == {m \in M : \A k \in M : k <= m}

-----------------------------------------------------------------------------
WholeHeap == [start |-> HeapStart, end |-> HeapEnd]

(* The state clear_vm_state leaves: HFI.Set(heap start, heap end).         *)
Init ==
  /\ by_addr = {WholeHeap}
  /\ by_size = {WholeHeap}
  /\ max_block_size = Size(WholeHeap)
  /\ live = {}
  /\ raised = "NoError"

Raise(e) ==
  /\ raised' = e
  /\ UNCHANGED <<by_addr, by_size, max_block_size, live>>

(* Mutation of AllocateMemory: RemoveInterval is forgotten. *)
AllocateMemory_KeepsBlock(n) ==
  /\ n > 0
  /\ \E b \in BestFits(AlignUp(n)) :
       LET rest == Remainder(b, AlignUp(n))
       IN  /\ by_addr' = by_addr \cup rest
           /\ by_size' = by_size \cup rest
           /\ live' = live \cup {[start |-> b.start, size |-> n]}
           /\ UNCHANGED max_block_size
  /\ raised' = "NoError"

(* ALLOCATE_MEMORY with n in the size register; the script receives the    *)
(* start of the block.  When n rounds up to 0 the block stays listed.      *)
AllocateMemory(n) ==
  /\ n > 0
  /\ \E b \in BestFits(AlignUp(n)) :
       LET rest == Remainder(b, AlignUp(n))
       IN  /\ by_addr' = (by_addr \ {b}) \cup rest
           /\ by_size' = (by_size \ {b}) \cup rest
           /\ live' = live \cup {[start |-> b.start, size |-> n]}
           /\ max_block_size' \in
                Maximum({max_block_size} \cup {Size(r) : r \in rest})
  /\ raised' = "NoError"

AllocateFails(n) ==
  /\ n = 0 \/ Fits(AlignUp(n)) = {}
  /\ Raise("FailedMemoryAllocation")

(* Mutation of Free: the size index is not rebuilt after coalescing. *)
FreeMemory_NoRebuild(l) ==
  LET freed == [start |-> l.start, end |-> FreedEnd(l)]
  IN  /\ HeapStart <= l.start /\ (l.start + l.size) % Word <= HeapEnd
      /\ l.start <= FreedEnd(l)
      /\ by_addr' = Coalesce(by_addr \cup {freed})
      /\ by_size' = by_size \cup {freed}
      /\ max_block_size' \in Maximum({max_block_size, Size(freed)})
      /\ live' = live \ {l}
      /\ raised' = "NoError"

(* Mutation of InRange: Free does not look for an end before the start. *)
InRange_NoOverflow(l) ==
  /\ HeapStart <= l.start
  /\ (l.start + l.size) % Word <= HeapEnd

(* FREE_MEMORY of a held block.  The guard is the instruction's own range  *)
(* check, made with the unrounded size, and Free's own, that the end does  *)
(* not lie before the start; a size of 0 never was granted.                *)
InRange(l) ==
  /\ HeapStart <= l.start
  /\ (l.start + l.size) % Word <= HeapEnd
  /\ l.start <= FreedEnd(l)

FreeMemory(l) ==
  /\ InRange(l)
  /\ by_addr' = Coalesce(by_addr \cup {[start |-> l.start, end |-> FreedEnd(l)]})
  /\ by_size' = by_addr'
  /\ max_block_size' \in Maximum({0} \cup {Size(b) : b \in by_addr'})
  /\ live' = live \ {l}
  /\ raised' = "NoError"

FreeFails(l) ==
  /\ ~InRange(l)
  /\ Raise("FailedMemoryFreeing")

Next ==
  \/ \E n \in Requests : AllocateMemory(n) \/ AllocateFails(n)
  \/ \E l \in live : FreeMemory(l) \/ FreeFails(l)

Spec == Init /\ [][Next]_vars

-----------------------------------------------------------------------------
(* The types of the variables. *)
TypeOK ==
  /\ by_addr \subseteq Interval
  /\ by_size \subseteq Interval
  /\ max_block_size \in Nat
  /\ live \subseteq Block
  /\ raised \in ErrorCode

(* Any two free intervals lie apart with at least one held byte between    *)
(* them: none overlap, and Free has merged every pair that touched.        *)
Apart(S) ==
  \A a, b \in S : a # b => a.end + 1 < b.start \/ b.end + 1 < a.start

FreeApart == Apart(by_addr)

(* What the holder of a block may take for its own: the bytes it asked     *)
(* for, rounded up to whole units.                                         *)
RoundUp(n) == ((n + Alignment - 1) \div Alignment) * Alignment
LastByte(l) == l.start + RoundUp(l.size) - 1

(* The held blocks for which the allocator set something aside.            *)
SetAside == {l \in live : AlignUp(l.size) # 0}

(* No request is so large that it does not round up to itself or more.     *)
RequestsRoundUp == \A n \in Requests : n + Alignment - 1 < Word

(* The blocks of B share no byte, and the allocator keeps none of their    *)
(* bytes as free.                                                          *)
HandedOutOnce(B) ==
  /\ \A l \in B, b \in by_addr : LastByte(l) < b.start \/ b.end < l.start
  /\ \A l, m \in B : l # m => LastByte(l) < m.start \/ LastByte(m) < l.start

(* Every byte of the range Set received is free or in a block of B, and    *)
(* nothing outside it is.                                                  *)
NothingLost(B) ==
  /\ \A x \in HeapStart .. HeapEnd :
       \/ Covered(by_addr, x)
       \/ \E l \in B : l.start <= x /\ x <= LastByte(l)
  /\ \A b \in by_addr : HeapStart <= b.start /\ b.start <= b.end /\ b.end <= HeapEnd
  /\ \A l \in B : HeapStart <= l.start /\ l.start <= LastByte(l) /\ LastByte(l) <= HeapEnd

(* The two indexes list the same blocks, and the stale limit that removing *)
(* a block leaves behind never hides one from the best-fit search.         *)
IndexesAgree ==
  /\ by_size = by_addr
  /\ \A b \in by_addr : Size(b) <= max_block_size

(* Each byte of the heap is free or set aside for a held block, and none   *)
(* is both or set aside twice.  That is so for every request: one that     *)
(* rounds up to 0, and the refused free of what it got, takes and gives    *)
(* back nothing.                                                           *)
SetAsideOnce == HandedOutOnce(SetAside) /\ NothingLost(SetAside)

(* When no request rounds up to 0, that is all that is held: no byte is    *)
(* handed out twice.                                                       *)
NoOverlap == HandedOutOnce(live)
Conserved == NothingLost(live)

(* Every block handed out starts a whole number of alignment units from    *)
(* the start of the heap, whatever was requested and freed before.         *)
StartsAligned == \A l \in live : (l.start - HeapStart) % Alignment = 0

(* Once everything is given back the heap is one interval again.           *)
FreedHeapIsWhole == SetAside = {} => by_addr = {WholeHeap}

(* A request finds no block only when no run of bytes outside the blocks   *)
(* set aside is long enough: neither bytes scattered over intervals that   *)
(* were not merged nor a search limit out of date turns a request down.    *)
RunFrom(x, n) ==
  /\ x + n - 1 <= HeapEnd
  /\ \A y \in x .. (x + n - 1), l \in SetAside : y < l.start \/ LastByte(l) < y

NoFitMeansFull ==
  \A n \in Requests \ {0} :
    Fits(AlignUp(n)) = {} => \A x \in HeapStart .. HeapEnd : ~RunFrom(x, RoundUp(n))

(* The search sees every free interval, and what it does not find is not   *)
(* there.                                                                  *)
SearchSees == IndexesAgree /\ NoFitMeansFull

(* The abstract specification is about the blocks that were set aside.     *)
Promise == INSTANCE HeapPromise WITH live <- SetAside
KeepsPromise == Promise!Spec

=============================================================================
