-------------------------- MODULE ObjectFilesProofs -------------------------
(***************************************************************************)
(* Proofs about ObjectFiles, for every set of compilations, all sizes a    *)
(* file may be cut to and any number of failures.                          *)
(*                                                                         *)
(* Whatever lies in the directory is a file some program wrote, or the     *)
(* beginning of one.  Each place a reader looks at is that of one field,   *)
(* so it finds what was written there or notices that the file has ended;  *)
(* what it has read so far is a beginning of what was packed.              *)
(***************************************************************************)
EXTENDS ObjectFiles, TLAPS, SequenceTheorems, NaturalsInduction, WellFoundedInduction

-----------------------------------------------------------------------------
(* The inductive invariant.                                                *)

ConstantsRead == [id : Nat, size : Nat, data : Data]
SymbolsRead == [id : Nat, offset : Nat, module : Nat, type : {Variable}]
Pools == [stack_size : Nat, commands : Seq([1 .. 9 -> Nat])]

Typed ==
  /\ compilation \in Compilations /\ compilations \in 0 .. MaxCompilations
  /\ failures \in 0 .. MaxFailures /\ intact \in BOOLEAN
  /\ stage \in {"nothing", "compiler", "sections", "modules"}
  /\ outcome \in {"none", "refused", "astray", "unsaved", "linked"}
  /\ next \in Nat \ {0} /\ offset \in Nat /\ end \in Nat
  /\ state.linking_order \in Seq(Nat) /\ state.constants \in Seq(ConstantsRead)
  /\ state.symbols \in Seq(SymbolsRead) /\ state.pools \in Seq(Pools)
  /\ state = [linking_order |-> state.linking_order, constants |-> state.constants,
              symbols |-> state.symbols, pools |-> state.pools]
  /\ stage # "nothing" => outcome = "none" /\ loaded = << >>
  /\ stage = "compiler" => next <= Len(compilation.order) + 1

(* A file of the directory is what was written under its name, or the      *)
(* beginning of it.                                                        *)
CutOf(file, whole) ==
  file.fields = whole.fields /\ file.size \in Nat /\ file.size <= whole.size

IsCodeOf(id, c, k) ==
  /\ k \in DOMAIN c.order /\ c.order[k] = id
  /\ CutOf(directory[Module(id)], CodeObject(c, k))

FilesMade ==
  /\ \A name \in DOMAIN directory :
       name = Main \/ name = Executable \/ \E id \in Nat : name = Module(id)
  /\ Main \in DOMAIN directory =>
       \E c \in Compilations : CutOf(directory[Main], MainObject(c))
  /\ \A id \in Nat : Module(id) \in DOMAIN directory =>
       \E c \in Compilations : \E k \in DOMAIN c.order : IsCodeOf(id, c, k)

ExecutableFields(rod_size, code_size, rod, code) ==
  LET header == << <<4, "MSLI">>, <<4, "version">>, <<2, "flags">>, <<1, "MSLVM_1">>,
                   <<8, msli_header_size>>, <<8, rod_size>>,
                   <<8, msli_header_size + rod_size>>, <<8, code_size>> >>
  IN Laid(<<header>>, 0)
       \cup Laid(<< << <<rod_size, rod>>, <<code_size, code>> >> >>, msli_header_size)

IsExecutable(rod_size, code_size, rod, code) ==
  LET file == directory[Executable]
      whole == msli_header_size + rod_size + code_size
  IN /\ file.fields = ExecutableFields(rod_size, code_size, rod, code)
     /\ file.size \in Nat /\ file.size <= whole
     /\ file.size = whole => written = <<rod, code>>

ExecutableMade ==
  Executable \in DOMAIN directory =>
    \E rod_size \in Nat, code_size \in Nat \ {0} : \E rod, code :
      IsExecutable(rod_size, code_size, rod, code)

(* What an intact compilation has saved is whole, also while it is linked. *)
CodeSaved(k) ==
  LET name == Module(compilation.order[k])
  IN name \in DOMAIN directory /\ directory[name] = CodeObject(compilation, k)
AllSaved ==
  intact =>
    IF stage = "compiler" THEN \A k \in 1 .. next - 1 : CodeSaved(k)
    ELSE /\ \A k \in DOMAIN compilation.order : CodeSaved(k)
         /\ Main \in DOMAIN directory /\ directory[Main] = MainObject(compilation)

(* What is read of the main object is a beginning of what was packed.      *)
Begins(got, all) ==
  Len(got) <= Len(all) /\ \A i \in 1 .. Len(got) : got[i] = all[i]

ConstantSizes(c) == [k \in DOMAIN c.constants |-> 8 + 8 + c.constants[k].size]
OrderAt(n) == mo_header_reserved_size + 2 * n
ConstantAt(c, n) == OrderAt(Len(c.order)) + SumOfFirst(ConstantSizes(c), n)
SymbolAt(c, n) == ConstantAt(c, Len(c.constants)) + 19 * n

Reading(c) ==
  /\ Begins(state.linking_order, c.order)
  /\ Begins(state.constants, MainOf(c).constants)
  /\ Begins(state.symbols, MainOf(c).symbols)
  /\ state.pools = << >>
  /\ \/ section = "header" /\ next = 1 /\ state = NothingRead
     \/ /\ section = "LINKING_ORDER" /\ next = 2
        /\ state.constants = << >> /\ state.symbols = << >>
        /\ offset = OrderAt(Len(state.linking_order)) /\ end = OrderAt(Len(c.order))
     \/ /\ section = "CONSTANTS" /\ next = 3
        /\ Len(state.linking_order) = Len(c.order) /\ state.symbols = << >>
        /\ offset = ConstantAt(c, Len(state.constants))
        /\ end = ConstantAt(c, Len(c.constants))
     \/ /\ section = "SYMBOLS" /\ next = 4
        /\ Len(state.linking_order) = Len(c.order)
        /\ Len(state.constants) = Len(c.constants)
        /\ offset = SymbolAt(c, Len(state.symbols)) /\ end = SymbolAt(c, Len(c.symbols))
     \/ section = "DEBUG" /\ next = 5 /\ MainRead = MainOf(c)

MainIsRead ==
  stage = "sections" =>
    /\ opened = Main /\ Main \in DOMAIN directory
    /\ \E c \in Compilations :
         /\ intact => c = compilation
         /\ CutOf(directory[Main], MainObject(c)) /\ Reading(c)

(* Then modules are read, one after the other.                             *)
PoolRead(n) ==
  \E c \in Compilations : \E k \in DOMAIN c.order :
    /\ c.order[k] = state.linking_order[n] /\ state.pools[n] = PoolOf(c, k)
    /\ intact => c = compilation /\ k = n

ReadingCode(c, k) ==
  /\ IsCodeOf(state.linking_order[next], c, k)
  /\ intact => c = compilation /\ k = next
  /\ state.pools[next].stack_size = c.stack_size[k]
  /\ Begins(state.pools[next].commands, c.code[k])
  /\ offset = co_header_reserved_size + 36 * Len(state.pools[next].commands)
  /\ end = co_header_reserved_size + 36 * Len(c.code[k])

MainWasRead ==
  \E c \in Compilations : MainRead = MainOf(c) /\ (intact => c = compilation)

CodeIsRead ==
  stage = "modules" =>
    /\ MainWasRead /\ opened \in DOMAIN directory
    /\ next <= Len(state.linking_order) + 1
    /\ \A n \in 1 .. next - 1 : PoolRead(n)
    /\ \/ section = "none" /\ Len(state.pools) = next - 1
       \/ /\ section = "commands" /\ Len(state.pools) = next
          /\ next <= Len(state.linking_order)
          /\ opened = Module(state.linking_order[next])
          /\ \E c \in Compilations : \E k \in DOMAIN c.order : ReadingCode(c, k)

IInv ==
  /\ Typed /\ FilesMade /\ ExecutableMade /\ AllSaved /\ MainIsRead /\ CodeIsRead
  /\ WholeCompilationLinks /\ LinksWholeFiles /\ LoadsWhatWasLinked

-----------------------------------------------------------------------------
(* Sums.                                                                   *)

(* Every set of natural numbers has a least one. *)
LEMMA LeastNatural ==
  ASSUME NEW T, T \subseteq Nat, T # {}
  PROVE  \E n \in T : \A m \in T : n <= m
<1> DEFINE R == OpToRel(<, Nat)
<1>1. IsWellFoundedOn(R, Nat)
  BY NatLessThanWellFounded
<1>2. \A m \in Nat, n \in Nat : m < n => <<m, n>> \in R
  BY DEF OpToRel
<1> HIDE DEF R
<1>3. PICK n \in T : \A m \in T : ~(<<m, n>> \in R)
  BY <1>1, WFMin
<1>4. \A m \in T : ~(m < n)
  BY <1>2, <1>3
<1> QED
  BY <1>4

(* What the definition of SumOfFirst says of a sum, given those before it. *)
NextSum(numbers, sums, k) == IF k = 0 THEN 0 ELSE sums[k - 1] + numbers[k]
IsTable(numbers, h, n) == h = [k \in 0 .. n |-> NextSum(numbers, h, k)]
SumsOf(numbers) == CHOOSE s : s = [k \in Nat |-> NextSum(numbers, s, k)]

(* Numbers can be added up as far as one likes.                            *)
LEMMA TablesExist ==
  ASSUME NEW numbers
  PROVE  \A n \in Nat : \E h : IsTable(numbers, h, n)
<1> DEFINE T == {n \in Nat : ~\E h : IsTable(numbers, h, n)}
<1> SUFFICES ASSUME T # {}
             PROVE  FALSE
  OBVIOUS
<1>1. PICK n \in T : \A m \in T : n <= m
  BY LeastNatural
<1>2. CASE n = 0
  <2> DEFINE h == [k \in 0 .. 0 |-> 0]
  <2>1. IsTable(numbers, h, 0)
    BY DEF IsTable, NextSum
  <2> QED
    BY <1>2, <2>1
<1>3. CASE n # 0
  <2>1. n \in Nat /\ n - 1 \in Nat /\ n - 1 \notin T
    BY <1>1, <1>3
  <2>2. PICK h : IsTable(numbers, h, n - 1)
    BY <2>1
  <2> DEFINE g == [k \in 0 .. n |-> IF k = n THEN NextSum(numbers, h, n) ELSE h[k]]
  <2>3. ASSUME NEW k \in 0 .. n
        PROVE  g[k] = NextSum(numbers, g, k)
    <3>1. CASE k = 0
      <4>1. k \in 0 .. n - 1 /\ k # n
        BY <1>3, <2>1, <3>1
      <4>2. g[k] = h[k] /\ h[k] = NextSum(numbers, h, k)
        BY <2>2, <4>1 DEF IsTable
      <4> QED
        BY <3>1, <4>2, Zenon DEF NextSum
    <3>2. CASE k # 0
      <4>1. k - 1 \in 0 .. n - 1 /\ k - 1 # n /\ k - 1 \in 0 .. n
        BY <2>1, <3>2
      <4>2. g[k - 1] = h[k - 1]
        BY <4>1
      <4>3. g[k] = NextSum(numbers, h, k)
        <5>1. CASE k = n
          BY <5>1
        <5>2. CASE k # n
          <6>1. k \in 0 .. n - 1
            BY <2>1, <5>2
          <6>2. h[k] = NextSum(numbers, h, k)
            BY <2>2, <6>1 DEF IsTable
          <6> QED
            BY <5>2, <6>2
        <5> QED
          BY <5>1, <5>2
      <4> QED
        BY <3>2, <4>2, <4>3, Zenon DEF NextSum
    <3> QED
      BY <3>1, <3>2
  <2> DEFINE l == [k \in 0 .. n |-> NextSum(numbers, g, k)]
  <2>4. g = l
    <3>1. DOMAIN g = 0 .. n /\ DOMAIN l = 0 .. n /\ \A k \in 0 .. n : g[k] = l[k]
      BY <2>3
    <3> QED
      BY <3>1, Zenon
  <2>5. IsTable(numbers, g, n)
    BY <2>4 DEF IsTable
  <2> QED
    BY <2>1, <2>5
<1> QED
  BY <1>2, <1>3

(* Two tables say the same of the sums both have. *)
LEMMA TablesAgree ==
  ASSUME NEW numbers, NEW m \in Nat, NEW n \in Nat, NEW h, NEW g,
         IsTable(numbers, h, m), IsTable(numbers, g, n)
  PROVE  \A i \in Nat : i <= m /\ i <= n => h[i] = g[i]
<1> DEFINE T == {i \in Nat : i <= m /\ i <= n /\ h[i] # g[i]}
<1> SUFFICES ASSUME T # {}
             PROVE  FALSE
  OBVIOUS
<1>1. PICK i \in T : \A j \in T : i <= j
  BY LeastNatural
<1>2. i \in 0 .. m /\ i \in 0 .. n
  BY <1>1
<1>3. h[i] = NextSum(numbers, h, i) /\ g[i] = NextSum(numbers, g, i)
  BY <1>2 DEF IsTable
<1>4. CASE i = 0
  BY <1>1, <1>3, <1>4 DEF NextSum
<1>5. CASE i # 0
  <2>1. i - 1 \in Nat /\ i - 1 \notin T /\ i - 1 <= m /\ i - 1 <= n
    BY <1>1, <1>5
  <2>2. h[i - 1] = g[i - 1]
    BY <2>1
  <2>3. NextSum(numbers, h, i) = NextSum(numbers, g, i)
    BY <2>2, Zenon DEF NextSum
  <2> QED
    BY <1>1, <1>3, <2>3
<1> QED
  BY <1>4, <1>5

(* So the definition of SumOfFirst defines a sum. *)
LEMMA SumsAre ==
  ASSUME NEW numbers
  PROVE  SumsOf(numbers) = [k \in Nat |-> NextSum(numbers, SumsOf(numbers), k)]
<1> DEFINE Table(n) == CHOOSE h : IsTable(numbers, h, n)
           g == [n \in Nat |-> Table(n)[n]]
<1>1. \A n \in Nat : IsTable(numbers, Table(n), n)
  BY TablesExist
<1> HIDE DEF Table
<1>2. ASSUME NEW n \in Nat
      PROVE  g[n] = NextSum(numbers, g, n)
  <2>1. g[n] = NextSum(numbers, Table(n), n)
    BY <1>1 DEF IsTable
  <2>2. CASE n = 0
    BY <2>1, <2>2 DEF NextSum
  <2>3. CASE n # 0
    <3>1. n - 1 \in Nat /\ n - 1 <= n
      BY <2>3
    <3>2. Table(n)[n - 1] = Table(n - 1)[n - 1]
      BY <1>1, <3>1, TablesAgree
    <3>3. g[n - 1] = Table(n)[n - 1]
      BY <3>1, <3>2
    <3> QED
      BY <2>1, <3>3, Zenon DEF NextSum
  <2> QED
    BY <2>2, <2>3
<1>3. g = [n \in Nat |-> NextSum(numbers, g, n)]
  BY <1>2
<1>4. \E f : f = [n \in Nat |-> NextSum(numbers, f, n)]
  BY <1>3
<1> QED
  BY <1>4, Zenon DEF SumsOf

(* A sum is the one before it and one number more. *)
LEMMA SumStep ==
  ASSUME NEW numbers
  PROVE  /\ SumOfFirst(numbers, 0) = 0
         /\ \A n \in Nat : SumOfFirst(numbers, n + 1) =
                             SumOfFirst(numbers, n) + numbers[n + 1]
<1>1. \A n : SumOfFirst(numbers, n) = SumsOf(numbers)[n]
  BY DEF SumOfFirst, SumsOf, NextSum
<1>2. \A n \in Nat : SumsOf(numbers)[n] = NextSum(numbers, SumsOf(numbers), n)
  BY SumsAre
<1>3. SumsOf(numbers)[0] = 0
  BY <1>2 DEF NextSum
<1>4. ASSUME NEW n \in Nat
      PROVE  SumsOf(numbers)[n + 1] = SumsOf(numbers)[n] + numbers[n + 1]
  <2>1. n + 1 \in Nat /\ n + 1 # 0 /\ n + 1 - 1 = n
    OBVIOUS
  <2>2. SumsOf(numbers)[n + 1] = NextSum(numbers, SumsOf(numbers), n + 1)
    BY <1>2, <2>1
  <2>3. SumsOf(numbers)[n + 1] = SumsOf(numbers)[n + 1 - 1] + numbers[n + 1]
    BY <2>1, <2>2 DEF NextSum
  <2> QED
    BY <2>1, <2>3
<1> QED
  BY <1>1, <1>3, <1>4

(* Sums of natural numbers, which grow. *)
LEMMA SumsGrow ==
  ASSUME NEW numbers, NEW n \in Nat, \A k \in 1 .. n : numbers[k] \in Nat
  PROVE  /\ \A k \in 0 .. n : SumOfFirst(numbers, k) \in Nat
         /\ \A j, k \in 0 .. n : j <= k => SumOfFirst(numbers, j) <= SumOfFirst(numbers, k)
<1> DEFINE S(k) == SumOfFirst(numbers, k)
<1>1. /\ S(0) = 0
      /\ \A k \in Nat : S(k + 1) = S(k) + numbers[k + 1]
  BY SumStep
<1> HIDE DEF S
<1>2. \A k \in 1 .. n : k - 1 \in Nat /\ S(k) = S(k - 1) + numbers[k]
  <2> TAKE k \in 1 .. n
  <2>1. k - 1 \in Nat /\ k - 1 + 1 = k
    OBVIOUS
  <2> QED
    BY <1>1, <2>1
<1>3. \A k \in 0 .. n : S(k) \in Nat
  <2> DEFINE T == {k \in 0 .. n : S(k) \notin Nat}
  <2> SUFFICES ASSUME T # {}
               PROVE  FALSE
    OBVIOUS
  <2>1. PICK k \in T : \A m \in T : k <= m
    <3>1. T \subseteq Nat
      OBVIOUS
    <3> QED
      BY <3>1, LeastNatural
  <2>2. k # 0
    BY <1>1, <2>1
  <2>3. k \in 1 .. n /\ k - 1 \in 0 .. n /\ ~(k <= k - 1)
    BY <2>1, <2>2
  <2>4. S(k - 1) \in Nat
    BY <2>1, <2>3
  <2>5. S(k) = S(k - 1) + numbers[k] /\ numbers[k] \in Nat
    BY <1>2, <2>3
  <2> QED
    BY <2>1, <2>4, <2>5
<1>4. \A j, k \in 0 .. n : j <= k => S(j) <= S(k)
  <2> SUFFICES ASSUME NEW j \in 0 .. n
               PROVE  \A k \in 0 .. n : j <= k => S(j) <= S(k)
    OBVIOUS
  <2> DEFINE T == {k \in 0 .. n : j <= k /\ ~(S(j) <= S(k))}
  <2> SUFFICES ASSUME T # {}
               PROVE  FALSE
    OBVIOUS
  <2>1. PICK k \in T : \A m \in T : k <= m
    <3>1. T \subseteq Nat
      OBVIOUS
    <3> QED
      BY <3>1, LeastNatural
  <2>2. S(j) \in Nat /\ S(k) \in Nat
    BY <1>3, <2>1
  <2>3. k # j
    BY <2>1, <2>2
  <2>4. k \in 1 .. n /\ k - 1 \in 0 .. n /\ ~(k <= k - 1) /\ j <= k - 1
    BY <2>1, <2>3
  <2>5. S(j) <= S(k - 1) /\ S(k - 1) \in Nat
    BY <1>3, <2>1, <2>4
  <2>6. S(k) = S(k - 1) + numbers[k] /\ numbers[k] \in Nat
    BY <1>2, <2>4
  <2> QED
    BY <2>1, <2>2, <2>5, <2>6
<1> QED
  BY <1>3, <1>4 DEF S

(* Equal numbers have equal sums. *)
LEMMA SameSums ==
  ASSUME NEW numbers, NEW others, NEW n \in Nat,
         \A k \in 1 .. n : numbers[k] = others[k]
  PROVE  \A k \in 0 .. n : SumOfFirst(numbers, k) = SumOfFirst(others, k)
<1> DEFINE S(k) == SumOfFirst(numbers, k)
           O(k) == SumOfFirst(others, k)
<1>1. /\ S(0) = O(0)
      /\ \A k \in Nat : S(k + 1) = S(k) + numbers[k + 1]
      /\ \A k \in Nat : O(k + 1) = O(k) + others[k + 1]
  BY SumStep
<1> HIDE DEF S, O
<1> DEFINE T == {k \in 0 .. n : S(k) # O(k)}
<1> SUFFICES T = {}
  BY DEF S, O
<1> SUFFICES ASSUME T # {}
             PROVE  FALSE
  OBVIOUS
<1>2. PICK k \in T : \A m \in T : k <= m
  <2>1. T \subseteq Nat
    OBVIOUS
  <2> QED
    BY <2>1, LeastNatural
<1>3. k # 0
  BY <1>1, <1>2
<1>4. k \in 1 .. n /\ k - 1 \in 0 .. n /\ ~(k <= k - 1) /\ k - 1 \in Nat /\ k - 1 + 1 = k
  BY <1>2, <1>3
<1>5. S(k - 1) = O(k - 1)
  BY <1>2, <1>4
<1>6. S(k) = S(k - 1) + numbers[k] /\ O(k) = O(k - 1) + others[k]
  BY <1>1, <1>4
<1> QED
  BY <1>2, <1>4, <1>5, <1>6

(* The sum of the same number, again and again. *)
LEMMA SumOfEqual ==
  ASSUME NEW numbers, NEW n \in Nat, NEW number \in Nat,
         \A k \in 1 .. n : numbers[k] = number
  PROVE  \A k \in 0 .. n : SumOfFirst(numbers, k) = number * k
<1> DEFINE S(k) == SumOfFirst(numbers, k)
<1>1. /\ S(0) = 0
      /\ \A k \in Nat : S(k + 1) = S(k) + numbers[k + 1]
  BY SumStep
<1> HIDE DEF S
<1> DEFINE T == {k \in 0 .. n : S(k) # number * k}
<1> SUFFICES T = {}
  BY DEF S
<1> SUFFICES ASSUME T # {}
             PROVE  FALSE
  OBVIOUS
<1>2. PICK k \in T : \A m \in T : k <= m
  <2>1. T \subseteq Nat
    OBVIOUS
  <2> QED
    BY <2>1, LeastNatural
<1>3. k # 0
  BY <1>1, <1>2
<1>4. k \in 1 .. n /\ k - 1 \in 0 .. n /\ ~(k <= k - 1) /\ k - 1 \in Nat /\ k - 1 + 1 = k
  BY <1>2, <1>3
<1>5. S(k - 1) = number * (k - 1)
  BY <1>2, <1>4
<1>6. S(k) = S(k - 1) + number
  BY <1>1, <1>4
<1>7. number * (k - 1) + number = number * k
  BY <1>4
<1> QED
  BY <1>2, <1>5, <1>6, <1>7

(* Only zeros have the sum zero. *)
LEMMA SumOfZeros ==
  ASSUME NEW numbers, NEW n \in Nat, \A k \in 1 .. n : numbers[k] \in Nat,
         SumOfFirst(numbers, n) = 0
  PROVE  \A k \in 1 .. n : numbers[k] = 0
<1> TAKE k \in 1 .. n
<1> DEFINE S(i) == SumOfFirst(numbers, i)
<1>1. k - 1 \in Nat /\ k - 1 + 1 = k /\ k - 1 \in 0 .. n /\ k \in 0 .. n /\ n \in 0 .. n
  OBVIOUS
<1>2. S(k) = S(k - 1) + numbers[k]
  BY <1>1, SumStep
<1>3. S(k) <= S(n) /\ S(k) \in Nat /\ S(k - 1) \in Nat
  BY <1>1, SumsGrow
<1>4. S(n) = 0
  OBVIOUS
<1>5. numbers[k] \in Nat
  OBVIOUS
<1> HIDE DEF S
<1> QED
  BY <1>2, <1>3, <1>4, <1>5

-----------------------------------------------------------------------------
(* Fields.                                                                 *)

(* The length of a sequence is what it says. *)
LEMMA LenIs ==
  ASSUME NEW n \in Nat, NEW f, f = [k \in 1 .. n |-> f[k]]
  PROVE  Len(f) = n /\ DOMAIN f = 1 .. n
<1> DEFINE S == {f[k] : k \in 1 .. n}
<1>1. f \in [1 .. n -> S]
  <2>1. \A k \in 1 .. n : f[k] \in S
    OBVIOUS
  <2> HIDE DEF S
  <2> QED
    BY <2>1
<1> HIDE DEF S
<1>2. f \in Seq(S)
  BY <1>1, SeqDef
<1>3. DOMAIN f = 1 .. n
  BY <1>1
<1> QED
  BY <1>2, <1>3, LenProperties

(* Entries that have something in each field, but perhaps not in the last. *)
Rows(entries, n) ==
  /\ n \in Nat /\ entries = [e \in 1 .. n |-> entries[e]]
  /\ \A e \in 1 .. n :
       LET row == entries[e] IN
       /\ Len(row) \in Nat \ {0} /\ row = [j \in 1 .. Len(row) |-> row[j]]
       /\ \A j \in 1 .. Len(row) :
            row[j][1] \in Nat /\ (j = 1 \/ j < Len(row) => row[j][1] > 0)

(* Where field j of entry e lies. *)
At(entries, from, e, j) ==
  from + SumOfFirst(EntrySizes(entries), e - 1) + SumOfFirst(Widths(entries[e]), j - 1)

(* The sizes of entries and fields add up. *)
LEMMA RowSums ==
  ASSUME NEW n \in Nat, NEW entries, Rows(entries, n)
  PROVE  /\ DOMAIN entries = 1 .. n
         /\ Extent(entries) = SumOfFirst(EntrySizes(entries), n) /\ Extent(entries) \in Nat
         /\ \A e \in 0 .. n : SumOfFirst(EntrySizes(entries), e) \in Nat
         /\ \A d, e \in 0 .. n :
              d <= e => SumOfFirst(EntrySizes(entries), d) <= SumOfFirst(EntrySizes(entries), e)
         /\ \A e \in 1 .. n :
              /\ DOMAIN entries[e] = 1 .. Len(entries[e])
              /\ EntrySizes(entries)[e] = SumOfFirst(Widths(entries[e]), Len(entries[e]))
              /\ SumOfFirst(EntrySizes(entries), e) =
                   SumOfFirst(EntrySizes(entries), e - 1)
                     + SumOfFirst(Widths(entries[e]), Len(entries[e]))
              /\ SumOfFirst(Widths(entries[e]), 0) = 0
              /\ \A j \in 0 .. Len(entries[e]) : SumOfFirst(Widths(entries[e]), j) \in Nat
              /\ \A i, j \in 0 .. Len(entries[e]) :
                   i <= j => SumOfFirst(Widths(entries[e]), i)
                               <= SumOfFirst(Widths(entries[e]), j)
              /\ \A j \in 1 .. Len(entries[e]) :
                   SumOfFirst(Widths(entries[e]), j) =
                     SumOfFirst(Widths(entries[e]), j - 1) + entries[e][j][1]
<1>1. DOMAIN entries = 1 .. n /\ entries = [e \in 1 .. n |-> entries[e]]
  BY DEF Rows
<1> DEFINE row(e) == entries[e]
           L(e) == Len(row(e))
           W(e) == Widths(row(e))
           S == EntrySizes(entries)
<1>2. \A e \in 1 .. n :
        /\ L(e) \in Nat \ {0} /\ row(e) = [j \in 1 .. L(e) |-> row(e)[j]]
        /\ \A j \in 1 .. L(e) : row(e)[j][1] \in Nat
  BY DEF Rows
<1>3. ASSUME NEW e \in 1 .. n
      PROVE  /\ DOMAIN row(e) = 1 .. L(e) /\ Len(W(e)) = L(e)
             /\ \A j \in 1 .. L(e) : W(e)[j] = row(e)[j][1]
             /\ W(e) = [j \in 1 .. L(e) |-> W(e)[j]]
  <2> DEFINE l == L(e)
             r == row(e)
  <2>1. l \in Nat /\ r = [j \in 1 .. l |-> r[j]]
    BY <1>2
  <2> HIDE DEF l, r
  <2>2. DOMAIN r = 1 .. l
    BY <2>1
  <2>3. Widths(r) = [j \in 1 .. l |-> r[j][1]]
    BY <2>2 DEF Widths
  <2>4. /\ \A j \in 1 .. l : Widths(r)[j] = r[j][1]
        /\ Widths(r) = [j \in 1 .. l |-> Widths(r)[j]]
    BY <2>3
  <2>5. Len(Widths(r)) = l
    BY <2>1, <2>4, LenIs
  <2> QED
    BY <2>2, <2>4, <2>5 DEF l, r
<1>4. ASSUME NEW e \in 1 .. n
      PROVE  /\ SumOfFirst(W(e), 0) = 0
             /\ \A j \in 0 .. L(e) : SumOfFirst(W(e), j) \in Nat
             /\ \A i, j \in 0 .. L(e) :
                   i <= j => SumOfFirst(W(e), i) <= SumOfFirst(W(e), j)
             /\ \A j \in 1 .. L(e) :
                  SumOfFirst(W(e), j) = SumOfFirst(W(e), j - 1) + row(e)[j][1]
  <2>1. L(e) \in Nat /\ \A j \in 1 .. L(e) : W(e)[j] \in Nat
    BY <1>2, <1>3
  <2>2. /\ \A j \in 0 .. L(e) : SumOfFirst(W(e), j) \in Nat
        /\ \A i, j \in 0 .. L(e) :
              i <= j => SumOfFirst(W(e), i) <= SumOfFirst(W(e), j)
    <3> DEFINE l == L(e)
               w == W(e)
    <3>1. l \in Nat /\ \A j \in 1 .. l : w[j] \in Nat
      BY <2>1
    <3> HIDE DEF l, w
    <3>2. /\ \A j \in 0 .. l : SumOfFirst(w, j) \in Nat
          /\ \A i, j \in 0 .. l : i <= j => SumOfFirst(w, i) <= SumOfFirst(w, j)
      BY <3>1, SumsGrow
    <3> QED
      BY <3>2 DEF l, w
  <2>3. ASSUME NEW j \in 1 .. L(e)
        PROVE  SumOfFirst(W(e), j) = SumOfFirst(W(e), j - 1) + row(e)[j][1]
    <3> DEFINE w == W(e)
    <3>1. j - 1 \in Nat /\ j - 1 + 1 = j
      BY <2>1
    <3>2. w[j] = row(e)[j][1]
      BY <1>3
    <3> HIDE DEF w
    <3>3. SumOfFirst(w, j) = SumOfFirst(w, j - 1) + w[j]
      BY <3>1, SumStep
    <3> QED
      BY <3>2, <3>3 DEF w
  <2>4. SumOfFirst(W(e), 0) = 0
    BY SumStep
  <2> QED
    BY <2>2, <2>3, <2>4
<1>5. /\ Len(S) = n
      /\ \A e \in 1 .. n : S[e] = SumOfFirst(W(e), L(e)) /\ S[e] \in Nat
  <2>1. S = [e \in 1 .. n |-> Sum(W(e))]
    BY <1>1 DEF EntrySizes
  <2>2. \A e \in 1 .. n : Sum(W(e)) = SumOfFirst(W(e), L(e))
    BY <1>3 DEF Sum
  <2>3. \A e \in 1 .. n : S[e] = SumOfFirst(W(e), L(e))
    BY <2>1, <2>2
  <2>4. \A e \in 1 .. n : SumOfFirst(W(e), L(e)) \in Nat
    BY <1>2, <1>4
  <2>5. S = [e \in 1 .. n |-> S[e]]
    BY <2>1
  <2> HIDE DEF S
  <2>6. Len(S) = n
    BY <2>5, LenIs
  <2> QED
    BY <2>3, <2>4, <2>6
<1>6. /\ \A e \in 0 .. n : SumOfFirst(S, e) \in Nat
      /\ \A d, e \in 0 .. n : d <= e => SumOfFirst(S, d) <= SumOfFirst(S, e)
  <2> HIDE DEF S
  <2> QED
    BY <1>5, SumsGrow
<1>7. \A e \in 1 .. n : SumOfFirst(S, e) = SumOfFirst(S, e - 1) + SumOfFirst(W(e), L(e))
  <2> TAKE e \in 1 .. n
  <2>1. e - 1 \in Nat /\ e - 1 + 1 = e
    OBVIOUS
  <2>2. SumOfFirst(S, e) = SumOfFirst(S, e - 1) + S[e]
    <3> HIDE DEF S
    <3> QED
      BY <2>1, SumStep
  <2> QED
    BY <1>5, <2>2
<1>8. Extent(entries) = SumOfFirst(S, n) /\ n \in 0 .. n
  BY <1>5 DEF Extent, Sum
<1> QED
  BY <1>1, <1>3, <1>4, <1>5, <1>6, <1>7, <1>8

(* The places in an entry. *)
LEMMA RowOf ==
  ASSUME NEW n \in Nat, NEW entries, Rows(entries, n), NEW e \in 1 .. n
  PROVE  /\ EntrySizes(entries)[e] = SumOfFirst(Widths(entries[e]), Len(entries[e]))
         /\ SumOfFirst(Widths(entries[e]), 0) = 0
         /\ \A j \in 1 .. Len(entries[e]) :
              SumOfFirst(Widths(entries[e]), j) =
                SumOfFirst(Widths(entries[e]), j - 1) + entries[e][j][1]
BY RowSums

(* Rows are made of their fields. *)
LEMMA RowsIf ==
  ASSUME NEW n \in Nat, NEW entries, entries = [e \in 1 .. n |-> entries[e]],
         NEW l \in Nat \ {0},
         \A e \in 1 .. n : Len(entries[e]) = l /\ entries[e] = [j \in 1 .. l |-> entries[e][j]],
         \A e \in 1 .. n : \A j \in 1 .. l :
           entries[e][j][1] \in Nat /\ (j = 1 \/ j < l => entries[e][j][1] > 0)
  PROVE  Rows(entries, n)
BY DEF Rows

(* The fields of entries that are laid behind one another. *)
LEMMA LaidIs ==
  ASSUME NEW n \in Nat, NEW entries, Rows(entries, n), NEW from
  PROVE  \A field : field \in Laid(entries, from) <=>
           \E e \in 1 .. n : \E j \in 1 .. Len(entries[e]) :
             field = <<At(entries, from, e, j), entries[e][j][1], entries[e][j][2]>>
<1>1. /\ DOMAIN entries = 1 .. n
      /\ \A e \in 1 .. n : DOMAIN entries[e] = 1 .. Len(entries[e])
  BY RowSums
<1>2. Laid(entries, from) =
        UNION {{<<At(entries, from, e, j), entries[e][j][1], entries[e][j][2]>> :
                  j \in DOMAIN entries[e]} : e \in DOMAIN entries}
  BY DEF Laid, At
<1> HIDE DEF At
<1>3. \A field : field \in Laid(entries, from) <=>
           \E e \in DOMAIN entries : \E j \in DOMAIN entries[e] :
             field = <<At(entries, from, e, j), entries[e][j][1], entries[e][j][2]>>
  <2> DEFINE Row(e) ==
               {<<At(entries, from, e, j), entries[e][j][1], entries[e][j][2]>> :
                  j \in DOMAIN entries[e]}
  <2>1. Laid(entries, from) = UNION {Row(e) : e \in DOMAIN entries}
    BY <1>2
  <2>2. \A field, e : field \in Row(e) <=>
          \E j \in DOMAIN entries[e] :
            field = <<At(entries, from, e, j), entries[e][j][1], entries[e][j][2]>>
    OBVIOUS
  <2> HIDE DEF Row
  <2>3. \A field : field \in Laid(entries, from) <=> \E e \in DOMAIN entries : field \in Row(e)
    BY <2>1
  <2> QED
    BY <2>2, <2>3
<1> QED
  BY <1>1, <1>3

(* They follow one another. *)
LEMMA PlacesInOrder ==
  ASSUME NEW n \in Nat, NEW entries, Rows(entries, n), NEW from \in Nat
  PROVE  /\ Extent(entries) \in Nat
         /\ \A e \in 1 .. n : Len(entries[e]) \in Nat \ {0}
         /\ \A e \in 1 .. n : \A j \in 1 .. Len(entries[e]) :
              /\ At(entries, from, e, j) \in Nat /\ entries[e][j][1] \in Nat
              /\ from <= At(entries, from, e, j)
              /\ At(entries, from, e, j) + entries[e][j][1] <= from + Extent(entries)
         /\ \A e \in 1 .. n : \A i, j \in 1 .. Len(entries[e]) :
              i < j => At(entries, from, e, i) + entries[e][i][1] <= At(entries, from, e, j)
         /\ \A d, e \in 1 .. n :
              d < e => \A i \in 1 .. Len(entries[d]), j \in 1 .. Len(entries[e]) :
                At(entries, from, d, i) + entries[d][i][1]
                  + (IF j > 1 THEN entries[e][1][1] ELSE 0) <= At(entries, from, e, j)
<1> DEFINE S(e) == SumOfFirst(EntrySizes(entries), e)
           W(e, j) == SumOfFirst(Widths(entries[e]), j)
           L(e) == Len(entries[e])
           w(e, j) == entries[e][j][1]
           P(e, j) == At(entries, from, e, j)
<1>1. /\ Extent(entries) = S(n) /\ Extent(entries) \in Nat
      /\ \A e \in 0 .. n : S(e) \in Nat
      /\ \A d, e \in 0 .. n : d <= e => S(d) <= S(e)
      /\ \A e \in 1 .. n :
           /\ S(e) = S(e - 1) + W(e, L(e)) /\ W(e, 0) = 0
           /\ \A j \in 0 .. L(e) : W(e, j) \in Nat
           /\ \A i, j \in 0 .. L(e) : i <= j => W(e, i) <= W(e, j)
           /\ \A j \in 1 .. L(e) : W(e, j) = W(e, j - 1) + w(e, j)
  BY RowSums
<1>2. \A e \in 1 .. n : L(e) \in Nat \ {0} /\ \A j \in 1 .. L(e) : w(e, j) \in Nat
  BY DEF Rows
<1>3. \A e, j : P(e, j) = from + S(e - 1) + W(e, j - 1)
  BY DEF At
<1> HIDE DEF S, W, L, w, P
<1>4. ASSUME NEW e \in 1 .. n, NEW j \in 1 .. L(e)
      PROVE  /\ P(e, j) \in Nat /\ w(e, j) \in Nat
             /\ from + S(e - 1) <= P(e, j)
             /\ P(e, j) + w(e, j) = from + S(e - 1) + W(e, j)
             /\ P(e, j) + w(e, j) <= from + S(e)
             /\ S(e - 1) \in Nat /\ S(e) \in Nat /\ S(e) <= S(n)
             /\ (j > 1 => from + S(e - 1) + w(e, 1) <= P(e, j))
  <2>1. /\ j \in 0 .. L(e) /\ j - 1 \in 0 .. L(e) /\ e - 1 \in 0 .. n /\ e \in 0 .. n
        /\ L(e) \in 0 .. L(e) /\ L(e) \in Nat /\ n \in 0 .. n
        /\ 1 \in 1 .. L(e) /\ 1 \in 0 .. L(e) /\ 0 \in 0 .. L(e) /\ 1 - 1 = 0
    BY <1>2
  <2>2. /\ W(e, j) \in Nat /\ W(e, j - 1) \in Nat /\ W(e, L(e)) \in Nat
        /\ S(e - 1) \in Nat /\ S(e) \in Nat /\ w(e, j) \in Nat
        /\ W(e, j) <= W(e, L(e)) /\ S(e) <= S(n)
    BY <1>1, <1>2, <2>1
  <2>3. /\ W(e, j) = W(e, j - 1) + w(e, j) /\ S(e) = S(e - 1) + W(e, L(e))
        /\ W(e, 1) = W(e, 0) + w(e, 1) /\ W(e, 0) = 0
    BY <1>1, <2>1
  <2>4. j > 1 => w(e, 1) <= W(e, j - 1) /\ w(e, 1) \in Nat
    <3> HAVE j > 1
    <3>1. 1 <= j - 1
      BY <2>1
    <3>2. W(e, 1) <= W(e, j - 1)
      BY <1>1, <2>1, <3>1
    <3>3. w(e, 1) \in Nat
      BY <1>2, <2>1
    <3> QED
      BY <2>3, <3>2, <3>3
  <2>5. P(e, j) = from + S(e - 1) + W(e, j - 1)
    BY <1>3
  <2> QED
    BY <2>2, <2>3, <2>4, <2>5
<1>5. ASSUME NEW e \in 1 .. n, NEW i \in 1 .. L(e), NEW j \in 1 .. L(e), i < j
      PROVE  P(e, i) + w(e, i) <= P(e, j)
  <2>1. i \in 0 .. L(e) /\ j - 1 \in 0 .. L(e) /\ i <= j - 1 /\ e - 1 \in 0 .. n
    BY <1>2, <1>5
  <2>2. W(e, i) <= W(e, j - 1) /\ W(e, i) \in Nat /\ W(e, j - 1) \in Nat
    BY <1>1, <2>1
  <2>3. P(e, i) + w(e, i) = from + S(e - 1) + W(e, i) /\ S(e - 1) \in Nat
    BY <1>4
  <2>4. P(e, j) = from + S(e - 1) + W(e, j - 1)
    BY <1>3
  <2> QED
    BY <2>2, <2>3, <2>4
<1>6. ASSUME NEW d \in 1 .. n, NEW e \in 1 .. n, d < e,
             NEW i \in 1 .. L(d), NEW j \in 1 .. L(e)
      PROVE  P(d, i) + w(d, i) + (IF j > 1 THEN w(e, 1) ELSE 0) <= P(e, j)
  <2>1. d \in 0 .. n /\ e - 1 \in 0 .. n /\ d <= e - 1
    BY <1>6
  <2>2. S(d) <= S(e - 1) /\ S(d) \in Nat /\ S(e - 1) \in Nat
    BY <1>1, <2>1
  <2>3. P(d, i) + w(d, i) <= from + S(d) /\ P(d, i) \in Nat /\ w(d, i) \in Nat
    BY <1>4
  <2>4. from + S(e - 1) <= P(e, j) /\ P(e, j) \in Nat
        /\ (j > 1 => from + S(e - 1) + w(e, 1) <= P(e, j))
    BY <1>4
  <2>5. w(e, 1) \in Nat
    BY <1>2
  <2>6. CASE j > 1
    BY <2>2, <2>3, <2>4, <2>5, <2>6
  <2>7. CASE ~(j > 1)
    BY <2>2, <2>3, <2>4, <2>7
  <2> QED
    BY <2>6, <2>7
<1>7. ASSUME NEW e \in 1 .. n, NEW j \in 1 .. L(e)
      PROVE  /\ P(e, j) \in Nat /\ w(e, j) \in Nat
             /\ from <= P(e, j) /\ P(e, j) + w(e, j) <= from + Extent(entries)
  BY <1>1, <1>4
<1>8. /\ Extent(entries) \in Nat
      /\ \A e \in 1 .. n : L(e) \in Nat \ {0}
      /\ \A e \in 1 .. n : \A j \in 1 .. L(e) :
           /\ P(e, j) \in Nat /\ w(e, j) \in Nat
           /\ from <= P(e, j)
           /\ P(e, j) + w(e, j) <= from + Extent(entries)
      /\ \A e \in 1 .. n : \A i, j \in 1 .. L(e) :
           i < j => P(e, i) + w(e, i) <= P(e, j)
      /\ \A d, e \in 1 .. n :
           d < e => \A i \in 1 .. L(d), j \in 1 .. L(e) :
             P(d, i) + w(d, i) + (IF j > 1 THEN w(e, 1) ELSE 0) <= P(e, j)
  BY <1>1, <1>2, <1>5, <1>6, <1>7
<1> QED
  BY <1>8 DEF P, w, L

(* What is found at a place in a width is one value. *)
Has(fields, at, width, value) ==
  /\ <<at, width, value>> \in fields
  /\ \A field \in fields : field[1] = at /\ field[2] = width => field[3] = value

(* Rows that are laid have each of their fields at its place. *)
LEMMA LaidHas ==
  ASSUME NEW n \in Nat, NEW entries, Rows(entries, n), NEW from \in Nat,
         NEW e \in 1 .. n, NEW j \in 1 .. Len(entries[e])
  PROVE  Has(Laid(entries, from), At(entries, from, e, j),
             entries[e][j][1], entries[e][j][2])
<1>0. \A field : field \in Laid(entries, from) <=>
        \E d \in 1 .. n : \E i \in 1 .. Len(entries[d]) :
          field = <<At(entries, from, d, i), entries[d][i][1], entries[d][i][2]>>
  BY LaidIs, SMTT(30)
<1> DEFINE L(d) == Len(entries[d])
           w(d, i) == entries[d][i][1]
           P(d, i) == At(entries, from, d, i)
           V(d, i) == entries[d][i][2]
<1>1. \A field : field \in Laid(entries, from) <=>
        \E d \in 1 .. n : \E i \in 1 .. L(d) : field = <<P(d, i), w(d, i), V(d, i)>>
  BY <1>0
<1>2. \A d \in 1 .. n : L(d) \in Nat \ {0} /\ \A i \in 1 .. L(d) :
        w(d, i) \in Nat /\ (i = 1 \/ i < L(d) => w(d, i) > 0)
  BY DEF Rows
<1>3. /\ \A d \in 1 .. n : \A i \in 1 .. L(d) : P(d, i) \in Nat
      /\ \A d \in 1 .. n : \A i, k \in 1 .. L(d) :
           i < k => P(d, i) + w(d, i) <= P(d, k)
      /\ \A c, d \in 1 .. n :
           c < d => \A i \in 1 .. L(c), k \in 1 .. L(d) :
             P(c, i) + w(c, i) + (IF k > 1 THEN w(d, 1) ELSE 0) <= P(d, k)
  BY PlacesInOrder
<1> HIDE DEF L, w, P, V
<1>4. ASSUME NEW d \in 1 .. n, NEW i \in 1 .. L(d), NEW k \in 1 .. L(d), i < k,
             P(d, i) = P(d, k), w(d, i) = w(d, k)
      PROVE  FALSE
  <2>1. w(d, i) \in Nat /\ w(d, i) > 0
    BY <1>2, <1>4
  <2>2. P(d, i) + w(d, i) <= P(d, k) /\ P(d, i) \in Nat
    BY <1>3, <1>4
  <2> QED
    BY <1>4, <2>1, <2>2
<1>5. ASSUME NEW c \in 1 .. n, NEW d \in 1 .. n, c < d, NEW i \in 1 .. L(c),
             NEW k \in 1 .. L(d), P(c, i) = P(d, k), w(c, i) = w(d, k)
      PROVE  FALSE
  <2>1. P(c, i) + w(c, i) + (IF k > 1 THEN w(d, 1) ELSE 0) <= P(d, k) /\ P(c, i) \in Nat
    BY <1>3, <1>5
  <2>2. w(c, i) \in Nat /\ L(d) \in Nat \ {0} /\ w(d, k) \in Nat
    BY <1>2
  <2>3. w(d, 1) > 0 /\ w(d, 1) \in Nat
    <3>1. 1 \in 1 .. L(d)
      BY <2>2
    <3> QED
      BY <1>2, <3>1
  <2>4. CASE k > 1
    BY <1>5, <2>1, <2>2, <2>3, <2>4
  <2>5. CASE ~(k > 1)
    <3>1. k = 1
      BY <2>2, <2>5
    <3>2. w(c, i) > 0
      BY <1>5, <2>3, <3>1
    <3> QED
      BY <1>5, <2>1, <2>2, <2>5, <3>2
  <2> QED
    BY <2>4, <2>5
<1>6. j \in 1 .. L(e)
  BY DEF L
<1>7. ASSUME NEW d \in 1 .. n, NEW i \in 1 .. L(d), P(d, i) = P(e, j), w(d, i) = w(e, j)
      PROVE  d = e /\ i = j
  <2>1. d = e
    <3>1. ~(d < e)
      BY <1>5, <1>6, <1>7
    <3>2. ~(e < d)
      BY <1>5, <1>6, <1>7
    <3> QED
      BY <3>1, <3>2
  <2>2. ~(i < j) /\ ~(j < i)
    BY <1>4, <1>6, <1>7, <2>1
  <2>3. L(d) \in Nat
    BY <1>2
  <2> QED
    BY <1>6, <2>1, <2>2, <2>3
<1>8. ASSUME NEW field \in Laid(entries, from), field[1] = P(e, j), field[2] = w(e, j)
      PROVE  field[3] = V(e, j)
  <2>1. PICK d \in 1 .. n : \E i \in 1 .. L(d) : field = <<P(d, i), w(d, i), V(d, i)>>
    BY <1>1
  <2>2. PICK i \in 1 .. L(d) : field = <<P(d, i), w(d, i), V(d, i)>>
    BY <2>1
  <2>3. field[1] = P(d, i) /\ field[2] = w(d, i) /\ field[3] = V(d, i)
    BY <2>2
  <2>4. d = e /\ i = j
    BY <1>7, <1>8, <2>3
  <2> QED
    BY <2>3, <2>4
<1>9. <<P(e, j), w(e, j), V(e, j)>> \in Laid(entries, from)
  BY <1>1, <1>6
<1> QED
  BY <1>8, <1>9 DEF Has, P, w, V

(* Fields lie between two places. *)
Within(fields, from, to) ==
  \A field \in fields :
    /\ field[1] \in Nat /\ field[2] \in Nat
    /\ from <= field[1] /\ field[1] + field[2] <= to
Filled(fields) == \A field \in fields : field[2] # 0

(* They fill their extent and nothing else. *)
LEMMA LaidWithin ==
  ASSUME NEW n \in Nat, NEW entries, Rows(entries, n), NEW from \in Nat
  PROVE  /\ Within(Laid(entries, from), from, from + Extent(entries))
         /\ (\A e \in 1 .. n : \A j \in 1 .. Len(entries[e]) : entries[e][j][1] # 0)
              => Filled(Laid(entries, from))
<1>0. \A field : field \in Laid(entries, from) <=>
        \E d \in 1 .. n : \E i \in 1 .. Len(entries[d]) :
          field = <<At(entries, from, d, i), entries[d][i][1], entries[d][i][2]>>
  BY LaidIs
<1> DEFINE L(d) == Len(entries[d])
           w(d, i) == entries[d][i][1]
           P(d, i) == At(entries, from, d, i)
           V(d, i) == entries[d][i][2]
<1>1. \A field : field \in Laid(entries, from) <=>
        \E d \in 1 .. n : \E i \in 1 .. L(d) : field = <<P(d, i), w(d, i), V(d, i)>>
  BY <1>0
<1>2. \A d \in 1 .. n : \A i \in 1 .. L(d) :
        /\ P(d, i) \in Nat /\ w(d, i) \in Nat
        /\ from <= P(d, i) /\ P(d, i) + w(d, i) <= from + Extent(entries)
  BY PlacesInOrder
<1> HIDE DEF L, w, P, V
<1>3. ASSUME NEW field \in Laid(entries, from)
      PROVE  /\ field[1] \in Nat /\ field[2] \in Nat
             /\ from <= field[1] /\ field[1] + field[2] <= from + Extent(entries)
             /\ \E d \in 1 .. n : \E i \in 1 .. L(d) : field[2] = w(d, i)
  <2>1. PICK d \in 1 .. n : \E i \in 1 .. L(d) : field = <<P(d, i), w(d, i), V(d, i)>>
    BY <1>1
  <2>2. PICK i \in 1 .. L(d) : field = <<P(d, i), w(d, i), V(d, i)>>
    BY <2>1
  <2>3. field[1] = P(d, i) /\ field[2] = w(d, i)
    BY <2>2
  <2> QED
    BY <1>2, <2>3
<1>4. Within(Laid(entries, from), from, from + Extent(entries))
  BY <1>3 DEF Within
<1>5. (\A e \in 1 .. n : \A j \in 1 .. L(e) : w(e, j) # 0) => Filled(Laid(entries, from))
  BY <1>3 DEF Filled
<1> QED
  BY <1>4, <1>5 DEF L, w

(* Fields elsewhere do not matter. *)
LEMMA HasAmong ==
  ASSUME NEW fields, NEW others, NEW at \in Nat, NEW width \in Nat, NEW value,
         Has(fields, at, width, value), NEW from \in Nat, NEW to \in Nat,
         Within(others, from, to), to <= at \/ at + width <= from,
         width # 0 \/ Filled(others)
  PROVE  Has(fields \cup others, at, width, value)
<1>1. \A field \in others : ~(field[1] = at /\ field[2] = width)
  <2> SUFFICES ASSUME NEW field \in others, field[1] = at, field[2] = width
               PROVE  FALSE
    OBVIOUS
  <2>1. from <= at /\ at + width <= to
    BY DEF Within
  <2>2. width # 0
    BY DEF Filled
  <2> QED
    BY <2>1, <2>2
<1> QED
  BY <1>1 DEF Has

-----------------------------------------------------------------------------
(* Where the fields of a main object lie.                                  *)

Sizes(c) ==
  <<2 * Len(c.order), Sum(ConstantSizes(c)), Len(c.symbols) * size_of_symbol_field, debug_size>>
SectionAt(c, i) == mo_header_reserved_size + SumOfFirst(Sizes(c), i - 1)
SectionRow(c, i) == << <<1, SectionTypes[i]>>, <<8, SectionAt(c, i)>>, <<8, Sizes(c)[i]>> >>
HeaderRows(c) ==
  << << <<5, "MSLMO">>, <<4, "version">>, <<2, "flags">>,
        <<32, module_prefix>>, <<10, module_extension>> >>,
     SectionRow(c, 1), SectionRow(c, 2), SectionRow(c, 3), SectionRow(c, 4) >>
OrderRows(c) == [k \in DOMAIN c.order |-> << <<2, c.order[k]>> >>]
ConstantRows(c) ==
  [k \in DOMAIN c.constants |->
     << <<8, k - 1>>, <<8, c.constants[k].size>>,
        <<c.constants[k].size, c.constants[k].data>> >>]
SymbolRows(c) ==
  [k \in DOMAIN c.symbols |->
     << <<8, k - 1>>, <<8, c.symbols[k].offset>>,
        <<2, c.symbols[k].module>>, <<1, Variable>> >>]

(* MainObject packs these. *)
LEMMA MainObjectIs ==
  ASSUME NEW c
  PROVE  /\ MainObject(c).size = SectionAt(c, 5)
         /\ MainObject(c).fields =
              Laid(HeaderRows(c), 0) \cup Laid(OrderRows(c), mo_header_reserved_size)
                \cup Laid(ConstantRows(c), mo_header_reserved_size + Extent(OrderRows(c)))
                \cup Laid(SymbolRows(c), mo_header_reserved_size + Extent(OrderRows(c))
                                           + Extent(ConstantRows(c)))
BY DEF MainObject, SectionAt, Sizes, ConstantSizes, SectionRow, HeaderRows, OrderRows,
       ConstantRows, SymbolRows

(* What a compilation consists of. *)
LEMMA CompilationIs ==
  ASSUME NEW c \in Compilations
  PROVE  /\ Len(c.order) \in Nat /\ DOMAIN c.order = 1 .. Len(c.order)
         /\ \A k \in 1 .. Len(c.order) : c.order[k] \in Nat
         /\ \A i, k \in 1 .. Len(c.order) : c.order[i] = c.order[k] => i = k
         /\ Len(c.constants) \in Nat /\ DOMAIN c.constants = 1 .. Len(c.constants)
         /\ \A k \in 1 .. Len(c.constants) :
              c.constants[k].size \in Nat /\ c.constants[k].data \in Data
         /\ Len(c.symbols) \in Nat /\ DOMAIN c.symbols = 1 .. Len(c.symbols)
         /\ \A k \in 1 .. Len(c.symbols) :
              c.symbols[k].offset \in Nat /\ c.symbols[k].module \in Nat
         /\ Len(c.code) = Len(c.order) /\ DOMAIN c.code = 1 .. Len(c.order)
         /\ c.code = [k \in 1 .. Len(c.order) |-> c.code[k]]
         /\ \A k \in 1 .. Len(c.order) : c.code[k] \in Seq([1 .. 9 -> Nat])
         /\ \A k \in 1 .. Len(c.order) : c.stack_size[k] \in Nat
<1>1. /\ c.order \in Seq(Nat) /\ IsInjective(c.order)
      /\ c.constants \in Seq([size : Nat, data : Data])
      /\ c.symbols \in Seq([offset : Nat, module : Nat])
      /\ c.code \in Seq(Seq([1 .. 9 -> Nat])) /\ Len(c.code) = Len(c.order)
      /\ c.stack_size \in Seq(Nat) /\ Len(c.stack_size) = Len(c.order)
  BY ObjectFilesAssumption
<1> DEFINE n == Len(c.order)
           Cs == [size : Nat, data : Data]
           Ss == [offset : Nat, module : Nat]
           Bs == Seq([1 .. 9 -> Nat])
<1>2. n \in Nat /\ DOMAIN c.order = 1 .. n /\ \A k \in 1 .. n : c.order[k] \in Nat
  BY <1>1, SMTT(30)
<1>3. \A i, k \in 1 .. n : c.order[i] = c.order[k] => i = k
  BY <1>1, <1>2 DEF IsInjective
<1>4. /\ Len(c.constants) \in Nat /\ DOMAIN c.constants = 1 .. Len(c.constants)
      /\ \A k \in 1 .. Len(c.constants) : c.constants[k] \in Cs
  <2> HIDE DEF Cs
  <2>1. c.constants \in Seq(Cs)
    BY <1>1 DEF Cs
  <2> QED
    BY <2>1
<1>5. /\ Len(c.symbols) \in Nat /\ DOMAIN c.symbols = 1 .. Len(c.symbols)
      /\ \A k \in 1 .. Len(c.symbols) : c.symbols[k] \in Ss
  <2> HIDE DEF Ss
  <2>1. c.symbols \in Seq(Ss)
    BY <1>1 DEF Ss
  <2> QED
    BY <2>1
<1>6. /\ Len(c.code) = n /\ DOMAIN c.code = 1 .. n
      /\ c.code = [k \in 1 .. n |-> c.code[k]]
      /\ \A k \in 1 .. n : c.code[k] \in Bs
  <2> HIDE DEF Bs
  <2>1. c.code \in Seq(Bs) /\ Len(c.code) = n
    BY <1>1 DEF Bs
  <2>2. c.code \in [1 .. n -> Bs]
    BY <1>2, <2>1, LenProperties
  <2> QED
    BY <2>1, <2>2
<1>7. \A k \in 1 .. n : c.stack_size[k] \in Nat
  BY <1>1, <1>2, SMTT(30)
<1>8. \A k \in 1 .. Len(c.constants) : c.constants[k].size \in Nat /\ c.constants[k].data \in Data
  BY <1>4
<1>9. \A k \in 1 .. Len(c.symbols) : c.symbols[k].offset \in Nat /\ c.symbols[k].module \in Nat
  BY <1>5
<1> HIDE DEF Bs
<1> QED
  BY <1>2, <1>3, <1>4, <1>5, <1>6, <1>7, <1>8, <1>9 DEF Bs

(* The order of the modules. *)
LEMMA OrderLaid ==
  ASSUME NEW c \in Compilations
  PROVE  /\ Rows(OrderRows(c), Len(c.order))
         /\ Extent(OrderRows(c)) = 2 * Len(c.order)
         /\ \A e \in 1 .. Len(c.order) :
              /\ Len(OrderRows(c)[e]) = 1 /\ OrderRows(c)[e][1] = <<2, c.order[e]>>
              /\ At(OrderRows(c), mo_header_reserved_size, e, 1) = OrderAt(e - 1)
<1> DEFINE n == Len(c.order)
           R == OrderRows(c)
<1>1. n \in Nat /\ DOMAIN c.order = 1 .. n
  BY CompilationIs
<1>2. R = [k \in 1 .. n |-> << <<2, c.order[k]>> >>]
  BY <1>1 DEF OrderRows
<1> HIDE DEF n, R
<1>3. ASSUME NEW e \in 1 .. n
      PROVE  /\ R[e] = << <<2, c.order[e]>> >> /\ Len(R[e]) = 1
             /\ R[e] = [j \in 1 .. 1 |-> R[e][j]]
             /\ R[e][1] = <<2, c.order[e]>> /\ R[e][1][1] = 2
  BY <1>2
<1>4. Rows(R, n)
  BY <1>1, <1>2, <1>3 DEF Rows
<1>5. \A e \in 1 .. n : EntrySizes(R)[e] = 2
  <2> TAKE e \in 1 .. n
  <2> DEFINE W(j) == SumOfFirst(Widths(R[e]), j)
  <2>1. 1 = Len(R[e]) /\ R[e][1][1] = 2
    BY <1>3
  <2>2. /\ EntrySizes(R)[e] = W(1) /\ W(0) = 0
        /\ \A j \in 1 .. 1 : W(j) = W(j - 1) + R[e][j][1]
    <3>1. /\ EntrySizes(R)[e] = SumOfFirst(Widths(R[e]), Len(R[e]))
          /\ SumOfFirst(Widths(R[e]), 0) = 0
          /\ \A j \in 1 .. Len(R[e]) :
               SumOfFirst(Widths(R[e]), j) =
                 SumOfFirst(Widths(R[e]), j - 1) + R[e][j][1]
      BY <1>1, <1>4, RowOf
    <3>2. Len(R[e]) = 1
      BY <2>1
    <3> QED
      BY <3>1, <3>2, Zenon
  <2>3. W(1) = W(1 - 1) + 2 /\ W(1 - 1) = W(0)
    <3>1. 1 \in 1 .. 1
      OBVIOUS
    <3> QED
      BY <2>1, <2>2, <3>1
  <2> HIDE DEF W
  <2> QED
    BY <2>2, <2>3
<1>6. \A e \in 0 .. n : SumOfFirst(EntrySizes(R), e) = 2 * e
  BY <1>1, <1>5, SumOfEqual
<1>7. Extent(R) = 2 * n
  BY <1>1, <1>4, <1>6, RowSums
<1>8. ASSUME NEW e \in 1 .. n
      PROVE  At(R, mo_header_reserved_size, e, 1) = OrderAt(e - 1)
  <2>1. e - 1 \in 0 .. n /\ 1 - 1 = 0
    BY <1>1
  <2>2. SumOfFirst(EntrySizes(R), e - 1) = 2 * (e - 1)
    BY <1>6, <2>1
  <2>3. SumOfFirst(Widths(R[e]), 0) = 0
    BY <1>1, <1>4, RowSums
  <2> QED
    BY <2>1, <2>2, <2>3 DEF At, OrderAt, mo_header_reserved_size
<1> QED
  BY <1>3, <1>4, <1>7, <1>8 DEF n, R

(* The constants. *)
LEMMA ConstantsLaid ==
  ASSUME NEW c \in Compilations
  PROVE  /\ Rows(ConstantRows(c), Len(c.constants))
         /\ \A n \in 0 .. Len(c.constants) : SumOfFirst(ConstantSizes(c), n) \in Nat
         /\ Extent(ConstantRows(c)) = SumOfFirst(ConstantSizes(c), Len(c.constants))
         /\ Sum(ConstantSizes(c)) = SumOfFirst(ConstantSizes(c), Len(c.constants))
         /\ \A e \in 1 .. Len(c.constants) :
              /\ Len(ConstantRows(c)[e]) = 3
              /\ ConstantRows(c)[e] = << <<8, e - 1>>, <<8, c.constants[e].size>>,
                                         <<c.constants[e].size, c.constants[e].data>> >>
              /\ At(ConstantRows(c), OrderAt(Len(c.order)), e, 1) = ConstantAt(c, e - 1)
              /\ At(ConstantRows(c), OrderAt(Len(c.order)), e, 2) = ConstantAt(c, e - 1) + 8
              /\ At(ConstantRows(c), OrderAt(Len(c.order)), e, 3) = ConstantAt(c, e - 1) + 16
              /\ ConstantAt(c, e) = ConstantAt(c, e - 1) + 16 + c.constants[e].size
<1> DEFINE n == Len(c.constants)
           R == ConstantRows(c)
           s(e) == c.constants[e].size
           Z == ConstantSizes(c)
           from == OrderAt(Len(c.order))
<1>1. n \in Nat /\ DOMAIN c.constants = 1 .. n /\ \A e \in 1 .. n : s(e) \in Nat
  BY CompilationIs
<1>2. R = [k \in 1 .. n |-> << <<8, k - 1>>, <<8, s(k)>>, <<s(k), c.constants[k].data>> >>]
  BY <1>1 DEF ConstantRows
<1>3. Z = [k \in 1 .. n |-> 8 + 8 + s(k)]
  BY <1>1 DEF ConstantSizes
<1>4. from \in Nat
  <2>1. Len(c.order) \in Nat
    BY CompilationIs
  <2> QED
    BY <2>1 DEF OrderAt, mo_header_reserved_size
<1> HIDE DEF n, R, s, Z, from
<1>5. ASSUME NEW e \in 1 .. n
      PROVE  /\ R[e] = << <<8, e - 1>>, <<8, s(e)>>, <<s(e), c.constants[e].data>> >>
             /\ Len(R[e]) = 3 /\ R[e] = [j \in 1 .. 3 |-> R[e][j]]
             /\ R[e][1][1] = 8 /\ R[e][2][1] = 8 /\ R[e][3][1] = s(e)
  BY <1>2
<1>6. Rows(R, n)
  <2>1. ASSUME NEW e \in 1 .. n, NEW j \in 1 .. 3
        PROVE  R[e][j][1] \in Nat /\ (j = 1 \/ j < 3 => R[e][j][1] > 0)
    <3>1. R[e][1][1] = 8 /\ R[e][2][1] = 8 /\ R[e][3][1] = s(e) /\ s(e) \in Nat
      BY <1>1, <1>5
    <3>2. j = 1 \/ j = 2 \/ j = 3
      OBVIOUS
    <3>3. CASE j = 1
      BY <3>1, <3>3
    <3>4. CASE j = 2
      BY <3>1, <3>4
    <3>5. CASE j = 3
      BY <3>1, <3>5
    <3> QED
      BY <3>2, <3>3, <3>4, <3>5
  <2>2. R = [e \in 1 .. n |-> R[e]]
    BY <1>2
  <2>3. \A e \in 1 .. n : Len(R[e]) = 3 /\ R[e] = [j \in 1 .. 3 |-> R[e][j]]
    BY <1>5
  <2>4. 3 \in Nat \ {0}
    OBVIOUS
  <2> QED
    BY <1>1, <2>1, <2>2, <2>3, <2>4, RowsIf
<1>7. ASSUME NEW e \in 1 .. n
      PROVE  /\ SumOfFirst(Widths(R[e]), 0) = 0 /\ SumOfFirst(Widths(R[e]), 1) = 8
             /\ SumOfFirst(Widths(R[e]), 2) = 16 /\ SumOfFirst(Widths(R[e]), 3) = 16 + s(e)
             /\ EntrySizes(R)[e] = 16 + s(e)
  <2> DEFINE W(j) == SumOfFirst(Widths(R[e]), j)
  <2>0. 3 = Len(R[e])
    BY <1>5
  <2>1. /\ W(0) = 0 /\ EntrySizes(R)[e] = W(3)
        /\ \A j \in 1 .. 3 : W(j) = W(j - 1) + R[e][j][1]
    <3>1. /\ EntrySizes(R)[e] = SumOfFirst(Widths(R[e]), Len(R[e]))
          /\ SumOfFirst(Widths(R[e]), 0) = 0
          /\ \A j \in 1 .. Len(R[e]) :
               SumOfFirst(Widths(R[e]), j) =
                 SumOfFirst(Widths(R[e]), j - 1) + R[e][j][1]
      BY <1>1, <1>6, RowOf
    <3>2. Len(R[e]) = 3
      BY <2>0
    <3> QED
      BY <3>1, <3>2, Zenon
  <2>2. W(1) = W(1 - 1) + 8 /\ W(2) = W(2 - 1) + 8 /\ W(3) = W(3 - 1) + s(e)
    <3>1. 1 \in 1 .. 3 /\ 2 \in 1 .. 3 /\ 3 \in 1 .. 3
      OBVIOUS
    <3> QED
      BY <1>5, <2>1, <3>1
  <2>3. W(1 - 1) = W(0) /\ W(2 - 1) = W(1) /\ W(3 - 1) = W(2)
    OBVIOUS
  <2> HIDE DEF W
  <2>4. W(1) = 8 /\ W(2) = 16 /\ W(3) = 16 + s(e)
    BY <1>1, <2>1, <2>2, <2>3
  <2> QED
    BY <2>1, <2>4 DEF W
<1>8. \A e \in 0 .. n : SumOfFirst(EntrySizes(R), e) = SumOfFirst(Z, e)
  <2>1. \A e \in 1 .. n : EntrySizes(R)[e] = Z[e]
    BY <1>1, <1>3, <1>7
  <2> QED
    BY <1>1, <2>1, SameSums
<1>9. n \in 0 .. n /\ \A e \in 0 .. n : SumOfFirst(Z, e) \in Nat
  BY <1>1, <1>6, <1>8, RowSums
<1>10. Extent(R) = SumOfFirst(Z, n)
  BY <1>1, <1>6, <1>8, <1>9, RowSums
<1>11. Sum(Z) = SumOfFirst(Z, n)
  <2>1. Z = [k \in 1 .. n |-> Z[k]]
    BY <1>3
  <2>2. Len(Z) = n
    BY <1>1, <2>1, LenIs
  <2> QED
    BY <2>2 DEF Sum
<1>12. ASSUME NEW e \in 1 .. n
       PROVE  /\ At(R, from, e, 1) = ConstantAt(c, e - 1)
              /\ At(R, from, e, 2) = ConstantAt(c, e - 1) + 8
              /\ At(R, from, e, 3) = ConstantAt(c, e - 1) + 16
              /\ ConstantAt(c, e) = ConstantAt(c, e - 1) + 16 + s(e)
  <2>1. e - 1 \in 0 .. n /\ e - 1 \in Nat /\ e - 1 + 1 = e /\ e \in 0 .. n
        /\ 1 - 1 = 0 /\ 2 - 1 = 1 /\ 3 - 1 = 2
    BY <1>1
  <2>2. SumOfFirst(EntrySizes(R), e - 1) = SumOfFirst(Z, e - 1) /\ SumOfFirst(Z, e - 1) \in Nat
    BY <1>8, <1>9, <2>1
  <2>3. SumOfFirst(Z, e) = SumOfFirst(Z, e - 1) + Z[e]
    BY <2>1, SumStep
  <2>4. Z[e] = 16 + s(e) /\ s(e) \in Nat
    BY <1>1, <1>3
  <2>5. \A i : ConstantAt(c, i) = from + SumOfFirst(Z, i)
    BY DEF ConstantAt, from, Z
  <2>6. \A j : At(R, from, e, j) = from + SumOfFirst(EntrySizes(R), e - 1) + SumOfFirst(Widths(R[e]), j - 1)
    BY DEF At
  <2>7. At(R, from, e, 1) = ConstantAt(c, e - 1)
    BY <1>4, <1>7, <2>1, <2>2, <2>5, <2>6
  <2>8. At(R, from, e, 2) = ConstantAt(c, e - 1) + 8
    BY <1>4, <1>7, <2>1, <2>2, <2>5, <2>6
  <2>9. At(R, from, e, 3) = ConstantAt(c, e - 1) + 16
    BY <1>4, <1>7, <2>1, <2>2, <2>5, <2>6
  <2> QED
    BY <1>4, <2>2, <2>3, <2>4, <2>5, <2>7, <2>8, <2>9
<1> QED
  BY <1>5, <1>6, <1>9, <1>10, <1>11, <1>12 DEF n, R, s, Z, from

(* The symbols. *)
LEMMA SymbolsLaid ==
  ASSUME NEW c \in Compilations, NEW from \in Nat
  PROVE  /\ Rows(SymbolRows(c), Len(c.symbols))
         /\ Extent(SymbolRows(c)) = 19 * Len(c.symbols)
         /\ \A e \in 1 .. Len(c.symbols) :
              /\ Len(SymbolRows(c)[e]) = 4
              /\ SymbolRows(c)[e] = << <<8, e - 1>>, <<8, c.symbols[e].offset>>,
                                       <<2, c.symbols[e].module>>, <<1, Variable>> >>
              /\ At(SymbolRows(c), from, e, 1) = from + 19 * (e - 1)
              /\ At(SymbolRows(c), from, e, 2) = from + 19 * (e - 1) + 8
              /\ At(SymbolRows(c), from, e, 3) = from + 19 * (e - 1) + 16
              /\ At(SymbolRows(c), from, e, 4) = from + 19 * (e - 1) + 18
<1> DEFINE n == Len(c.symbols)
           R == SymbolRows(c)
           o(e) == c.symbols[e].offset
           m(e) == c.symbols[e].module
<1>1. n \in Nat /\ DOMAIN c.symbols = 1 .. n
  BY CompilationIs
<1>2. R = [k \in 1 .. n |-> << <<8, k - 1>>, <<8, o(k)>>, <<2, m(k)>>, <<1, Variable>> >>]
  BY <1>1 DEF SymbolRows
<1> HIDE DEF n, R, o, m
<1>5. ASSUME NEW e \in 1 .. n
      PROVE  /\ R[e] = << <<8, e - 1>>, <<8, o(e)>>, <<2, m(e)>>, <<1, Variable>> >>
             /\ Len(R[e]) = 4 /\ R[e] = [j \in 1 .. 4 |-> R[e][j]]
             /\ R[e][1][1] = 8 /\ R[e][2][1] = 8 /\ R[e][3][1] = 2 /\ R[e][4][1] = 1
  BY <1>2
<1>6. Rows(R, n)
  <2>1. ASSUME NEW e \in 1 .. n, NEW j \in 1 .. 4
        PROVE  R[e][j][1] \in Nat /\ (j = 1 \/ j < 4 => R[e][j][1] > 0)
    <3>1. R[e][1][1] = 8 /\ R[e][2][1] = 8 /\ R[e][3][1] = 2 /\ R[e][4][1] = 1
      BY <1>5
    <3>2. j = 1 \/ j = 2 \/ j = 3 \/ j = 4
      OBVIOUS
    <3>3. CASE j = 1
      BY <3>1, <3>3
    <3>4. CASE j = 2
      BY <3>1, <3>4
    <3>5. CASE j = 3
      BY <3>1, <3>5
    <3>6. CASE j = 4
      BY <3>1, <3>6
    <3> QED
      BY <3>2, <3>3, <3>4, <3>5, <3>6
  <2>2. R = [e \in 1 .. n |-> R[e]]
    BY <1>2
  <2>3. \A e \in 1 .. n : Len(R[e]) = 4 /\ R[e] = [j \in 1 .. 4 |-> R[e][j]]
    BY <1>5
  <2>4. 4 \in Nat \ {0}
    OBVIOUS
  <2> QED
    BY <1>1, <2>1, <2>2, <2>3, <2>4, RowsIf
<1>7. ASSUME NEW e \in 1 .. n
      PROVE  /\ SumOfFirst(Widths(R[e]), 0) = 0 /\ SumOfFirst(Widths(R[e]), 1) = 8
             /\ SumOfFirst(Widths(R[e]), 2) = 16 /\ SumOfFirst(Widths(R[e]), 3) = 18
             /\ EntrySizes(R)[e] = 19
  <2> DEFINE W(j) == SumOfFirst(Widths(R[e]), j)
  <2>0. 4 = Len(R[e])
    BY <1>5
  <2>1. /\ W(0) = 0 /\ EntrySizes(R)[e] = W(4)
        /\ \A j \in 1 .. 4 : W(j) = W(j - 1) + R[e][j][1]
    <3>1. /\ EntrySizes(R)[e] = SumOfFirst(Widths(R[e]), Len(R[e]))
          /\ SumOfFirst(Widths(R[e]), 0) = 0
          /\ \A j \in 1 .. Len(R[e]) :
               SumOfFirst(Widths(R[e]), j) =
                 SumOfFirst(Widths(R[e]), j - 1) + R[e][j][1]
      BY <1>1, <1>6, RowOf
    <3>2. Len(R[e]) = 4
      BY <2>0
    <3> QED
      BY <3>1, <3>2, Zenon
  <2>2. W(1) = W(1 - 1) + 8 /\ W(2) = W(2 - 1) + 8 /\ W(3) = W(3 - 1) + 2 /\ W(4) = W(4 - 1) + 1
    <3>1. 1 \in 1 .. 4 /\ 2 \in 1 .. 4 /\ 3 \in 1 .. 4 /\ 4 \in 1 .. 4
      OBVIOUS
    <3> QED
      BY <1>5, <2>1, <3>1
  <2>3. W(1 - 1) = W(0) /\ W(2 - 1) = W(1) /\ W(3 - 1) = W(2) /\ W(4 - 1) = W(3)
    OBVIOUS
  <2> HIDE DEF W
  <2>4. W(1) = 8 /\ W(2) = 16 /\ W(3) = 18 /\ W(4) = 19
    BY <2>1, <2>2, <2>3
  <2> QED
    BY <2>1, <2>4 DEF W
<1>8. \A e \in 0 .. n : SumOfFirst(EntrySizes(R), e) = 19 * e
  <2>1. \A e \in 1 .. n : EntrySizes(R)[e] = 19
    BY <1>7
  <2> QED
    BY <1>1, <2>1, SumOfEqual, SMTT(30)
<1>9. Extent(R) = 19 * n
  BY <1>1, <1>6, <1>8, RowSums
<1>10. ASSUME NEW e \in 1 .. n
       PROVE  /\ At(R, from, e, 1) = from + 19 * (e - 1)
              /\ At(R, from, e, 2) = from + 19 * (e - 1) + 8
              /\ At(R, from, e, 3) = from + 19 * (e - 1) + 16
              /\ At(R, from, e, 4) = from + 19 * (e - 1) + 18
  <2>1. e - 1 \in 0 .. n /\ 1 - 1 = 0 /\ 2 - 1 = 1 /\ 3 - 1 = 2 /\ 4 - 1 = 3
    BY <1>1
  <2>2. SumOfFirst(EntrySizes(R), e - 1) = 19 * (e - 1)
    BY <1>8, <2>1
  <2>3. \A j : At(R, from, e, j) = from + SumOfFirst(EntrySizes(R), e - 1) + SumOfFirst(Widths(R[e]), j - 1)
    BY DEF At
  <2>4. At(R, from, e, 1) = from + 19 * (e - 1) + SumOfFirst(Widths(R[e]), 0)
    BY <2>1, <2>2, <2>3
  <2>5. At(R, from, e, 2) = from + 19 * (e - 1) + SumOfFirst(Widths(R[e]), 1)
    BY <2>1, <2>2, <2>3
  <2>6. At(R, from, e, 3) = from + 19 * (e - 1) + SumOfFirst(Widths(R[e]), 2)
    BY <2>1, <2>2, <2>3
  <2>7. At(R, from, e, 4) = from + 19 * (e - 1) + SumOfFirst(Widths(R[e]), 3)
    BY <2>1, <2>2, <2>3
  <2>8. e - 1 \in Nat
    BY <1>1
  <2> QED
    BY <1>7, <2>4, <2>5, <2>6, <2>7, <2>8
<1> QED
  BY <1>5, <1>6, <1>9, <1>10 DEF n, R, o, m

(* A row of three fields, as each section has one in the header. *)
LEMMA SectionRowIs ==
  ASSUME NEW c, NEW i
  PROVE  /\ Len(SectionRow(c, i)) = 3
         /\ SectionRow(c, i) = [j \in 1 .. 3 |-> SectionRow(c, i)[j]]
         /\ SectionRow(c, i)[1] = <<1, SectionTypes[i]>>
         /\ SectionRow(c, i)[2] = <<8, SectionAt(c, i)>>
         /\ SectionRow(c, i)[3] = <<8, Sizes(c)[i]>>
<1> DEFINE t == SectionTypes[i]
           a == SectionAt(c, i)
           s == Sizes(c)[i]
<1>1. SectionRow(c, i) = << <<1, t>>, <<8, a>>, <<8, s>> >>
  BY DEF SectionRow
<1> HIDE DEF t, a, s
<1>2. /\ Len(SectionRow(c, i)) = 3
      /\ SectionRow(c, i) = [j \in 1 .. 3 |-> SectionRow(c, i)[j]]
      /\ SectionRow(c, i)[1] = <<1, t>> /\ SectionRow(c, i)[2] = <<8, a>>
      /\ SectionRow(c, i)[3] = <<8, s>>
  BY <1>1
<1> QED
  BY <1>2 DEF t, a, s

(* The header of a main object. *)
LEMMA HeaderLaid ==
  ASSUME NEW c
  PROVE  /\ Rows(HeaderRows(c), 5) /\ Extent(HeaderRows(c)) = 121
         /\ Filled(Laid(HeaderRows(c), 0))
         /\ Len(HeaderRows(c)[1]) = 5 /\ HeaderRows(c)[1][1] = <<5, "MSLMO">>
         /\ At(HeaderRows(c), 0, 1, 1) = 0
         /\ \A i \in 1 .. 4 :
              /\ Len(HeaderRows(c)[i + 1]) = 3 /\ HeaderRows(c)[i + 1] = SectionRow(c, i)
              /\ At(HeaderRows(c), 0, i + 1, 1) = 53 + 17 * (i - 1)
              /\ At(HeaderRows(c), 0, i + 1, 2) = 53 + 17 * (i - 1) + 1
              /\ At(HeaderRows(c), 0, i + 1, 3) = 53 + 17 * (i - 1) + 9
<1> DEFINE R == HeaderRows(c)
           first == << <<5, "MSLMO">>, <<4, "version">>, <<2, "flags">>,
                       <<32, module_prefix>>, <<10, module_extension>> >>
           Q(i) == SectionRow(c, i)
<1>1. R = << first, Q(1), Q(2), Q(3), Q(4) >>
  BY DEF HeaderRows
<1>2. /\ Len(first) = 5 /\ first = [j \in 1 .. 5 |-> first[j]]
      /\ first[1] = <<5, "MSLMO">> /\ first[1][1] = 5 /\ first[2][1] = 4 /\ first[3][1] = 2
      /\ first[4][1] = 32 /\ first[5][1] = 10
  OBVIOUS
<1>3. \A i : /\ Len(Q(i)) = 3 /\ Q(i) = [j \in 1 .. 3 |-> Q(i)[j]]
             /\ Q(i)[1][1] = 1 /\ Q(i)[2][1] = 8 /\ Q(i)[3][1] = 8
  BY SectionRowIs
<1> HIDE DEF R, first, Q
<1>4. /\ R = [e \in 1 .. 5 |-> R[e]] /\ R[1] = first
      /\ \A i \in 1 .. 4 : i + 1 \in 1 .. 5 /\ R[i + 1] = Q(i)
  BY <1>1
<1>5. \A e \in 1 .. 5 : e = 1 \/ \E i \in 1 .. 4 : e = i + 1
  <2> TAKE e \in 1 .. 5
  <2>1. e = 1 \/ e - 1 \in 1 .. 4
    OBVIOUS
  <2> QED
    BY <2>1
<1>6. ASSUME NEW e \in 1 .. 5
      PROVE  /\ Len(R[e]) \in Nat \ {0} /\ R[e] = [j \in 1 .. Len(R[e]) |-> R[e][j]]
             /\ \A j \in 1 .. Len(R[e]) :
                  R[e][j][1] \in Nat /\ R[e][j][1] > 0 /\ R[e][j][1] # 0
  <2>1. CASE e = 1
    <3>1. \A j \in 1 .. 5 : j = 1 \/ j = 2 \/ j = 3 \/ j = 4 \/ j = 5
      OBVIOUS
    <3>2. \A j \in 1 .. 5 : first[j][1] \in Nat /\ first[j][1] > 0 /\ first[j][1] # 0
      BY <1>2, <3>1
    <3>3. R[e] = first
      BY <1>4, <2>1
    <3> QED
      BY <1>2, <3>2, <3>3
  <2>2. CASE \E i \in 1 .. 4 : e = i + 1
    <3>1. PICK i \in 1 .. 4 : e = i + 1
      BY <2>2
    <3>2. \A j \in 1 .. 3 : j = 1 \/ j = 2 \/ j = 3
      OBVIOUS
    <3>3. \A j \in 1 .. 3 : Q(i)[j][1] \in Nat /\ Q(i)[j][1] > 0 /\ Q(i)[j][1] # 0
      BY <1>3, <3>2
    <3>4. R[e] = Q(i)
      BY <1>4, <3>1
    <3> QED
      BY <1>3, <3>3, <3>4
  <2> QED
    BY <1>5, <2>1, <2>2
<1>7. Rows(R, 5)
  BY <1>4, <1>6 DEF Rows
<1> DEFINE W(e, j) == SumOfFirst(Widths(R[e]), j)
           S(e) == SumOfFirst(EntrySizes(R), e)
<1>8. /\ Extent(R) = S(5)
      /\ \A e \in 1 .. 5 :
           /\ S(e) = S(e - 1) + W(e, Len(R[e])) /\ W(e, 0) = 0
           /\ \A j \in 1 .. Len(R[e]) : W(e, j) = W(e, j - 1) + R[e][j][1]
  BY <1>7, RowSums, SMTT(30)
<1>9. S(0) = 0
  BY SumStep
<1>10. \A e, j : At(R, 0, e, j) = 0 + S(e - 1) + W(e, j - 1)
  BY DEF At
<1> HIDE DEF S, W
<1>11. W(1, 0) = 0 /\ W(1, 5) = 53
  <2>1. 1 \in 1 .. 5 /\ 2 \in 1 .. 5 /\ 3 \in 1 .. 5 /\ 4 \in 1 .. 5 /\ 5 \in 1 .. 5
    OBVIOUS
  <2>2. W(1, 0) = 0 /\ \A j \in 1 .. 5 : W(1, j) = W(1, j - 1) + first[j][1]
    BY <1>2, <1>4, <1>8, <2>1
  <2>3. /\ W(1, 1) = W(1, 1 - 1) + 5 /\ W(1, 2) = W(1, 2 - 1) + 4
        /\ W(1, 3) = W(1, 3 - 1) + 2
        /\ W(1, 4) = W(1, 4 - 1) + 32 /\ W(1, 5) = W(1, 5 - 1) + 10
    BY <1>2, <2>1, <2>2
  <2>4. /\ W(1, 1) = W(1, 0) + 5 /\ W(1, 2) = W(1, 1) + 4 /\ W(1, 3) = W(1, 2) + 2
        /\ W(1, 4) = W(1, 3) + 32 /\ W(1, 5) = W(1, 4) + 10
    BY <2>3
  <2> QED
    BY <2>2, <2>4
<1>12. \A e \in 2 .. 5 : W(e, 0) = 0 /\ W(e, 1) = 1 /\ W(e, 2) = 9 /\ W(e, 3) = 17
  <2> TAKE e \in 2 .. 5
  <2>1. PICK i \in 1 .. 4 : e = i + 1
    BY <1>5
  <2>2. R[e] = Q(i) /\ e \in 1 .. 5
    BY <1>4, <2>1
  <2>3. 1 \in 1 .. 3 /\ 2 \in 1 .. 3 /\ 3 \in 1 .. 3
    OBVIOUS
  <2>4. W(e, 0) = 0 /\ \A j \in 1 .. 3 : W(e, j) = W(e, j - 1) + Q(i)[j][1]
    <3>1. W(e, 0) = 0 /\ \A j \in 1 .. Len(R[e]) : W(e, j) = W(e, j - 1) + R[e][j][1]
      BY <1>8, <2>2
    <3>2. R[e] = Q(i) /\ Len(R[e]) = 3
      BY <1>3, <2>2
    <3> QED
      BY <3>1, <3>2, Zenon
  <2>5. /\ W(e, 1) = W(e, 1 - 1) + 1 /\ W(e, 2) = W(e, 2 - 1) + 8
        /\ W(e, 3) = W(e, 3 - 1) + 8
    BY <1>3, <2>3, <2>4
  <2>6. W(e, 1) = W(e, 0) + 1 /\ W(e, 2) = W(e, 1) + 8 /\ W(e, 3) = W(e, 2) + 8
    BY <2>5
  <2> QED
    BY <2>4, <2>6
<1>13. S(1) = 53 /\ S(2) = 70 /\ S(3) = 87 /\ S(4) = 104 /\ S(5) = 121
  <2>1. /\ S(1) = S(1 - 1) + W(1, Len(R[1])) /\ S(2) = S(2 - 1) + W(2, Len(R[2]))
        /\ S(3) = S(3 - 1) + W(3, Len(R[3])) /\ S(4) = S(4 - 1) + W(4, Len(R[4]))
        /\ S(5) = S(5 - 1) + W(5, Len(R[5]))
    <3>1. 1 \in 1 .. 5 /\ 2 \in 1 .. 5 /\ 3 \in 1 .. 5 /\ 4 \in 1 .. 5 /\ 5 \in 1 .. 5
      OBVIOUS
    <3> QED
      BY <1>8, <3>1
  <2>2. Len(R[1]) = 5 /\ Len(R[2]) = 3 /\ Len(R[3]) = 3 /\ Len(R[4]) = 3 /\ Len(R[5]) = 3
    <3>1. R[1] = first /\ R[2] = Q(1) /\ R[3] = Q(2) /\ R[4] = Q(3) /\ R[5] = Q(4)
      BY <1>1
    <3> QED
      BY <1>2, <1>3, <3>1
  <2>3. S(1) = S(0) + W(1, 5) /\ S(2) = S(1) + W(2, 3) /\ S(3) = S(2) + W(3, 3)
        /\ S(4) = S(3) + W(4, 3) /\ S(5) = S(4) + W(5, 3)
    BY <2>1, <2>2
  <2>4. W(2, 3) = 17 /\ W(3, 3) = 17 /\ W(4, 3) = 17 /\ W(5, 3) = 17
    BY <1>12
  <2> QED
    BY <1>9, <1>11, <2>3, <2>4
<1>14. ASSUME NEW i \in 1 .. 4
       PROVE  /\ At(R, 0, i + 1, 1) = 53 + 17 * (i - 1)
              /\ At(R, 0, i + 1, 2) = 53 + 17 * (i - 1) + 1
              /\ At(R, 0, i + 1, 3) = 53 + 17 * (i - 1) + 9
  <2>1. S(i) = 53 + 17 * (i - 1)
    <3>1. i = 1 \/ i = 2 \/ i = 3 \/ i = 4
      OBVIOUS
    <3> QED
      BY <1>13, <3>1
  <2>2. i + 1 - 1 = i /\ 1 - 1 = 0 /\ 2 - 1 = 1 /\ 3 - 1 = 2 /\ i + 1 \in 2 .. 5
    OBVIOUS
  <2>3. /\ At(R, 0, i + 1, 1) = 0 + S(i) + W(i + 1, 0)
        /\ At(R, 0, i + 1, 2) = 0 + S(i) + W(i + 1, 1)
        /\ At(R, 0, i + 1, 3) = 0 + S(i) + W(i + 1, 2)
    BY <1>10, <2>2
  <2>4. W(i + 1, 0) = 0 /\ W(i + 1, 1) = 1 /\ W(i + 1, 2) = 9
    BY <1>12, <2>2
  <2> QED
    BY <2>1, <2>3, <2>4
<1>15. At(R, 0, 1, 1) = 0
  <2>1. At(R, 0, 1, 1) = 0 + S(0) + W(1, 0)
    <3>1. 1 - 1 = 0
      OBVIOUS
    <3> QED
      BY <1>10, <3>1
  <2> QED
    BY <1>9, <1>11, <2>1
<1>16. \A i \in 1 .. 4 : Len(R[i + 1]) = 3 /\ R[i + 1] = SectionRow(c, i)
  BY <1>3, <1>4 DEF Q
<1>17. Len(R[1]) = 5 /\ R[1][1] = <<5, "MSLMO">>
  BY <1>2, <1>4
<1>18. Filled(Laid(R, 0))
  <2> DEFINE n == 5
  <2>1. n \in Nat /\ 0 \in Nat
    OBVIOUS
  <2>2. Rows(R, n) /\ \A e \in 1 .. n : \A j \in 1 .. Len(R[e]) : R[e][j][1] # 0
    BY <1>6, <1>7
  <2> HIDE DEF n
  <2> QED
    BY <2>1, <2>2, LaidWithin
<1> QED
  BY <1>7, <1>8, <1>13, <1>14, <1>15, <1>16, <1>17, <1>18 DEF R

(* What lies within a part. *)
LEMMA HasWithin ==
  ASSUME NEW fields, NEW from \in Nat, NEW to \in Nat, Within(fields, from, to),
         NEW at, NEW width, NEW value, Has(fields, at, width, value)
  PROVE  /\ at \in Nat /\ width \in Nat /\ from <= at /\ at + width <= to
         /\ Filled(fields) => width # 0
<1> DEFINE field == <<at, width, value>>
<1>1. field \in fields
  BY DEF Has
<1>2. field[1] = at /\ field[2] = width
  OBVIOUS
<1> HIDE DEF field
<1>3. field[1] \in Nat /\ field[2] \in Nat /\ from <= field[1] /\ field[1] + field[2] <= to
  BY <1>1 DEF Within
<1>4. Filled(fields) => field[2] # 0
  BY <1>1 DEF Filled
<1> QED
  BY <1>2, <1>3, <1>4

(* Of four parts that follow one another and of which at most the third    *)
(* has empty fields, each can be read.                                     *)
LEMMA PartsHas ==
  ASSUME NEW H, NEW O, NEW C, NEW Y,
         NEW h \in Nat, NEW o \in Nat, NEW k \in Nat, NEW y \in Nat, NEW z \in Nat, h <= o,
         Within(H, 0, h), Within(O, o, k), Within(C, k, y), Within(Y, y, z),
         o <= k, k <= y, y <= z,
         Filled(H), Filled(O), Filled(Y),
         NEW at, NEW width, NEW value,
         \/ Has(H, at, width, value) \/ Has(O, at, width, value)
         \/ Has(C, at, width, value) \/ Has(Y, at, width, value)
  PROVE  Has(H \cup O \cup C \cup Y, at, width, value)
<1> DEFINE Is(F) == Has(F, at, width, value)
<1>0. 0 \in Nat
  OBVIOUS
<1>1. CASE Is(H)
  <2>1. at \in Nat /\ width \in Nat /\ at + width <= h /\ width # 0
    BY <1>0, <1>1, HasWithin
  <2>2. at + width <= o /\ at + width <= k /\ at + width <= y
    BY <2>1
  <2>3. Is(H \cup O)
    BY <1>1, <2>1, <2>2, HasAmong
  <2>4. Is(H \cup O \cup C)
    BY <2>1, <2>2, <2>3, HasAmong
  <2> QED
    BY <2>1, <2>2, <2>4, HasAmong
<1>2. CASE Is(O)
  <2>1. at \in Nat /\ width \in Nat /\ o <= at /\ at + width <= k /\ width # 0
    BY <1>2, HasWithin
  <2>2. h <= at /\ at + width <= k /\ at + width <= y
    BY <2>1
  <2>3. Is(O \cup H)
    BY <1>0, <1>2, <2>1, <2>2, HasAmong
  <2>4. O \cup H = H \cup O
    OBVIOUS
  <2>5. Is(H \cup O)
    BY <2>3, <2>4
  <2>6. Is(H \cup O \cup C)
    BY <2>1, <2>2, <2>5, HasAmong
  <2> QED
    BY <2>1, <2>2, <2>6, HasAmong
<1>3. CASE Is(C)
  <2>1. at \in Nat /\ width \in Nat /\ k <= at /\ at + width <= y
    BY <1>3, HasWithin
  <2>2. h <= at /\ k <= at /\ at + width <= y
    BY <2>1
  <2>3. Is(C \cup O)
    BY <1>3, <2>1, <2>2, HasAmong
  <2>4. Is((C \cup O) \cup H)
    BY <1>0, <2>1, <2>2, <2>3, HasAmong
  <2>5. (C \cup O) \cup H = H \cup O \cup C
    OBVIOUS
  <2>6. Is(H \cup O \cup C)
    BY <2>4, <2>5
  <2> QED
    BY <2>1, <2>2, <2>6, HasAmong
<1>4. CASE Is(Y)
  <2>1. at \in Nat /\ width \in Nat /\ y <= at /\ width # 0
    BY <1>4, HasWithin
  <2>2. h <= at /\ k <= at
    BY <2>1
  <2>3. Is(Y \cup C)
    BY <1>4, <2>1, <2>2, HasAmong
  <2>4. Is((Y \cup C) \cup O)
    BY <2>1, <2>2, <2>3, HasAmong
  <2>5. Is(((Y \cup C) \cup O) \cup H)
    BY <1>0, <2>1, <2>2, <2>4, HasAmong
  <2>6. ((Y \cup C) \cup O) \cup H = H \cup O \cup C \cup Y
    OBVIOUS
  <2> QED
    BY <2>5, <2>6
<1> QED
  BY <1>1, <1>2, <1>3, <1>4

(* The sections of a main object follow one another. *)
LEMMA SectionsLaid ==
  ASSUME NEW c \in Compilations
  PROVE  /\ \A n \in 0 .. Len(c.order) : OrderAt(n) \in Nat /\ 500 <= OrderAt(n)
         /\ \A n \in 0 .. Len(c.constants) :
              ConstantAt(c, n) \in Nat /\ OrderAt(Len(c.order)) <= ConstantAt(c, n)
         /\ \A n \in 0 .. Len(c.symbols) :
              SymbolAt(c, n) \in Nat /\ ConstantAt(c, Len(c.constants)) <= SymbolAt(c, n)
         /\ SectionAt(c, 1) = OrderAt(0) /\ OrderAt(0) + Sizes(c)[1] = OrderAt(Len(c.order))
         /\ SectionAt(c, 2) = ConstantAt(c, 0) /\ ConstantAt(c, 0) = OrderAt(Len(c.order))
         /\ ConstantAt(c, 0) + Sizes(c)[2] = ConstantAt(c, Len(c.constants))
         /\ SectionAt(c, 3) = SymbolAt(c, 0) /\ SymbolAt(c, 0) = ConstantAt(c, Len(c.constants))
         /\ SymbolAt(c, 0) + Sizes(c)[3] = SymbolAt(c, Len(c.symbols))
         /\ SectionAt(c, 4) = SymbolAt(c, Len(c.symbols)) /\ Sizes(c)[4] = 100
         /\ SectionAt(c, 5) = SymbolAt(c, Len(c.symbols)) + 100
         /\ \A i \in 1 .. 4 : Sizes(c)[i] \in Nat /\ SectionAt(c, i) \in Nat
<1> DEFINE n == Len(c.order)
           k == Len(c.constants)
           m == Len(c.symbols)
           Z(i) == SumOfFirst(ConstantSizes(c), i)
           T == Sizes(c)
           S(i) == SumOfFirst(T, i)
<1>1. n \in Nat /\ k \in Nat /\ m \in Nat
  BY CompilationIs
<1>2. Z(0) = 0 /\ Sum(ConstantSizes(c)) = Z(k) /\ \A i \in 0 .. k : Z(i) \in Nat
  BY ConstantsLaid, SumStep
<1>3. T[1] = 2 * n /\ T[2] = Z(k) /\ T[3] = m * 19 /\ T[4] = 100
  <2>1. T[1] = 2 * n /\ T[2] = Sum(ConstantSizes(c))
        /\ T[3] = m * size_of_symbol_field /\ T[4] = debug_size
    BY DEF Sizes
  <2> QED
    BY <1>2, <2>1 DEF size_of_symbol_field, debug_size
<1>4. /\ \A i : SectionAt(c, i) = 500 + S(i - 1)
      /\ \A i : OrderAt(i) = 500 + 2 * i
      /\ \A i : ConstantAt(c, i) = OrderAt(n) + Z(i)
      /\ \A i : SymbolAt(c, i) = ConstantAt(c, k) + 19 * i
  BY DEF SectionAt, OrderAt, ConstantAt, SymbolAt, mo_header_reserved_size
<1>5. S(0) = 0 /\ S(1) = S(0) + T[1] /\ S(2) = S(1) + T[2] /\ S(3) = S(2) + T[3]
      /\ S(4) = S(3) + T[4]
  <2>1. S(0) = 0 /\ \A i \in Nat : S(i + 1) = S(i) + T[i + 1]
    BY SumStep
  <2>2. /\ S(0 + 1) = S(0) + T[0 + 1] /\ S(1 + 1) = S(1) + T[1 + 1]
        /\ S(2 + 1) = S(2) + T[2 + 1] /\ S(3 + 1) = S(3) + T[3 + 1]
    <3>1. 0 \in Nat /\ 1 \in Nat /\ 2 \in Nat /\ 3 \in Nat
      OBVIOUS
    <3> HIDE DEF S, T
    <3> QED
      BY <2>1, <3>1
  <2>3. 0 + 1 = 1 /\ 1 + 1 = 2 /\ 2 + 1 = 3 /\ 3 + 1 = 4
    OBVIOUS
  <2> QED
    BY <2>1, <2>2, <2>3
<1> HIDE DEF n, k, m, Z, T, S
<1>6. /\ SectionAt(c, 1) = 500 + S(0) /\ SectionAt(c, 2) = 500 + S(1)
      /\ SectionAt(c, 3) = 500 + S(2) /\ SectionAt(c, 4) = 500 + S(3)
      /\ SectionAt(c, 5) = 500 + S(4)
  <2>1. 1 - 1 = 0 /\ 2 - 1 = 1 /\ 3 - 1 = 2 /\ 4 - 1 = 3 /\ 5 - 1 = 4
    OBVIOUS
  <2> QED
    BY <1>4, <2>1
<1>7. Z(k) \in Nat /\ 0 \in 0 .. k /\ k \in 0 .. k
  BY <1>1, <1>2
<1>8. /\ OrderAt(n) = 500 + 2 * n /\ OrderAt(0) = 500
      /\ ConstantAt(c, 0) = 500 + 2 * n /\ ConstantAt(c, k) = 500 + 2 * n + Z(k)
      /\ SymbolAt(c, 0) = 500 + 2 * n + Z(k) /\ SymbolAt(c, m) = 500 + 2 * n + Z(k) + 19 * m
  BY <1>1, <1>2, <1>4, <1>7
<1>9. /\ S(1) = 2 * n /\ S(2) = 2 * n + Z(k) /\ S(3) = 2 * n + Z(k) + 19 * m
      /\ S(4) = 2 * n + Z(k) + 19 * m + 100
  BY <1>1, <1>3, <1>5, <1>7
<1>10. \A i \in 0 .. n : OrderAt(i) \in Nat /\ 500 <= OrderAt(i)
  BY <1>1, <1>4
<1>11. \A i \in 0 .. k : ConstantAt(c, i) \in Nat /\ OrderAt(n) <= ConstantAt(c, i)
  <2> TAKE i \in 0 .. k
  <2>1. ConstantAt(c, i) = OrderAt(n) + Z(i)
    BY <1>4
  <2>2. Z(i) \in Nat
    BY <1>2
  <2> QED
    BY <1>1, <1>8, <2>1, <2>2
<1>12. \A i \in 0 .. m : SymbolAt(c, i) \in Nat /\ ConstantAt(c, k) <= SymbolAt(c, i)
  <2> TAKE i \in 0 .. m
  <2>1. SymbolAt(c, i) = ConstantAt(c, k) + 19 * i
    BY <1>4
  <2> QED
    BY <1>1, <1>7, <1>8, <2>1
<1>13. \A i \in 1 .. 4 : T[i] \in Nat /\ SectionAt(c, i) \in Nat
  <2>1. \A i \in 1 .. 4 : i = 1 \/ i = 2 \/ i = 3 \/ i = 4
    OBVIOUS
  <2>2. T[1] \in Nat /\ T[2] \in Nat /\ T[3] \in Nat /\ T[4] \in Nat
    BY <1>1, <1>3, <1>7
  <2>3. /\ SectionAt(c, 1) \in Nat /\ SectionAt(c, 2) \in Nat /\ SectionAt(c, 3) \in Nat
        /\ SectionAt(c, 4) \in Nat
    BY <1>1, <1>5, <1>6, <1>7, <1>9
  <2> QED
    BY <2>1, <2>2, <2>3
<1>14. /\ SectionAt(c, 1) = OrderAt(0) /\ OrderAt(0) + T[1] = OrderAt(n)
       /\ SectionAt(c, 2) = ConstantAt(c, 0) /\ ConstantAt(c, 0) = OrderAt(n)
       /\ ConstantAt(c, 0) + T[2] = ConstantAt(c, k)
       /\ SectionAt(c, 3) = SymbolAt(c, 0) /\ SymbolAt(c, 0) = ConstantAt(c, k)
       /\ SymbolAt(c, 0) + T[3] = SymbolAt(c, m)
       /\ SectionAt(c, 4) = SymbolAt(c, m) /\ T[4] = 100
       /\ SectionAt(c, 5) = SymbolAt(c, m) + 100
  BY <1>1, <1>3, <1>5, <1>6, <1>7, <1>8, <1>9
<1> QED
  BY <1>10, <1>11, <1>12, <1>13, <1>14 DEF n, k, m, T

(* The table of sections has numbers. *)
LEMMA SectionNumbers ==
  ASSUME NEW c \in Compilations, NEW i \in 1 .. 4
  PROVE  Sizes(c)[i] \in Nat /\ SectionAt(c, i) \in Nat
<1>1. \A k \in 1 .. 4 : Sizes(c)[k] \in Nat /\ SectionAt(c, k) \in Nat
  BY SectionsLaid, SMTT(30)
<1> QED
  BY <1>1, Zenon

(* Each section ends behind the one before. *)
LEMMA SectionEnds ==
  ASSUME NEW c \in Compilations
  PROVE  /\ OrderAt(Len(c.order)) \in Nat /\ 500 <= OrderAt(Len(c.order))
         /\ ConstantAt(c, Len(c.constants)) \in Nat
         /\ OrderAt(Len(c.order)) <= ConstantAt(c, Len(c.constants))
         /\ SymbolAt(c, Len(c.symbols)) \in Nat
         /\ ConstantAt(c, Len(c.constants)) <= SymbolAt(c, Len(c.symbols))
<1>1. /\ Len(c.order) \in 0 .. Len(c.order) /\ Len(c.constants) \in 0 .. Len(c.constants)
      /\ Len(c.symbols) \in 0 .. Len(c.symbols)
  BY CompilationIs
<1>2. \A n \in 0 .. Len(c.order) : OrderAt(n) \in Nat /\ 500 <= OrderAt(n)
  BY SectionsLaid
<1>3. \A n \in 0 .. Len(c.constants) :
        ConstantAt(c, n) \in Nat /\ OrderAt(Len(c.order)) <= ConstantAt(c, n)
  BY SectionsLaid
<1>4. \A n \in 0 .. Len(c.symbols) :
        SymbolAt(c, n) \in Nat /\ ConstantAt(c, Len(c.constants)) <= SymbolAt(c, n)
  BY SectionsLaid
<1>5. OrderAt(Len(c.order)) \in Nat /\ 500 <= OrderAt(Len(c.order))
  BY <1>1, <1>2, Zenon
<1>6. /\ ConstantAt(c, Len(c.constants)) \in Nat
      /\ OrderAt(Len(c.order)) <= ConstantAt(c, Len(c.constants))
  BY <1>1, <1>3, Zenon
<1>7. /\ SymbolAt(c, Len(c.symbols)) \in Nat
      /\ ConstantAt(c, Len(c.constants)) <= SymbolAt(c, Len(c.symbols))
  BY <1>1, <1>4, Zenon
<1> QED
  BY <1>5, <1>6, <1>7

(* Whatever a reader of a main object looks at is found. *)
MainHas(c, at, width, value) == Has(MainObject(c).fields, at, width, value)

(* The main object has every field where ObjectsReader looks for it. *)
LEMMA MainPacked ==
  ASSUME NEW c \in Compilations
  PROVE  /\ MainHas(c, 0, 5, "MSLMO")
         /\ \A i \in 1 .. 4 :
              /\ MainHas(c, 53 + 17 * (i - 1), 1, SectionTypes[i])
              /\ MainHas(c, 53 + 17 * (i - 1) + 1, 8, SectionAt(c, i))
              /\ MainHas(c, 53 + 17 * (i - 1) + 9, 8, Sizes(c)[i])
         /\ \A e \in 1 .. Len(c.order) : MainHas(c, OrderAt(e - 1), 2, c.order[e])
         /\ \A e \in 1 .. Len(c.constants) :
              /\ MainHas(c, ConstantAt(c, e - 1), 8, e - 1)
              /\ MainHas(c, ConstantAt(c, e - 1) + 8, 8, c.constants[e].size)
              /\ MainHas(c, ConstantAt(c, e - 1) + 16, c.constants[e].size,
                         c.constants[e].data)
         /\ \A e \in 1 .. Len(c.symbols) :
              /\ MainHas(c, SymbolAt(c, e - 1), 8, e - 1)
              /\ MainHas(c, SymbolAt(c, e - 1) + 8, 8, c.symbols[e].offset)
              /\ MainHas(c, SymbolAt(c, e - 1) + 16, 2, c.symbols[e].module)
              /\ MainHas(c, SymbolAt(c, e - 1) + 18, 1, Variable)
<1> DEFINE n == Len(c.order)
           k == Len(c.constants)
           m == Len(c.symbols)
           H == Laid(HeaderRows(c), 0)
           O == Laid(OrderRows(c), 500)
           C == Laid(ConstantRows(c), OrderAt(n))
           Y == Laid(SymbolRows(c), SymbolAt(c, 0))
           Is(F, at, width, value) == Has(F, at, width, value)
<1>1. n \in Nat /\ k \in Nat /\ m \in Nat
  BY CompilationIs
<1>2. /\ OrderAt(n) \in Nat /\ 500 <= OrderAt(n)
      /\ SymbolAt(c, 0) \in Nat /\ OrderAt(n) <= SymbolAt(c, 0)
      /\ SymbolAt(c, m) \in Nat /\ SymbolAt(c, 0) <= SymbolAt(c, m)
      /\ SymbolAt(c, 0) = ConstantAt(c, k) /\ ConstantAt(c, k) = OrderAt(n) + SumOfFirst(ConstantSizes(c), k)
      /\ SymbolAt(c, m) = SymbolAt(c, 0) + 19 * m
  <2>1. n \in 0 .. n /\ k \in 0 .. k /\ m \in 0 .. m /\ 0 \in 0 .. m
    BY <1>1
  <2>2. OrderAt(n) \in Nat /\ 500 <= OrderAt(n)
    BY <2>1, SectionsLaid
  <2>3. SymbolAt(c, 0) \in Nat /\ SymbolAt(c, m) \in Nat /\ ConstantAt(c, k) <= SymbolAt(c, m)
    BY <2>1, SectionsLaid
  <2>4. SymbolAt(c, 0) = ConstantAt(c, k) /\ OrderAt(n) <= ConstantAt(c, k)
    BY <2>1, SectionsLaid
  <2>5. ConstantAt(c, k) = OrderAt(n) + SumOfFirst(ConstantSizes(c), k)
    BY DEF ConstantAt
  <2>6. SymbolAt(c, m) = ConstantAt(c, k) + 19 * m
    BY DEF SymbolAt
  <2> QED
    BY <2>2, <2>3, <2>4, <2>5, <2>6
<1>3. /\ Extent(OrderRows(c)) = 2 * n
      /\ Extent(ConstantRows(c)) = SumOfFirst(ConstantSizes(c), k)
  BY OrderLaid, ConstantsLaid
<1>4. MainObject(c).fields = H \cup O \cup C \cup Y
  <2>1. mo_header_reserved_size = 500 /\ mo_header_reserved_size + Extent(OrderRows(c)) = OrderAt(n)
    BY <1>3 DEF mo_header_reserved_size, OrderAt
  <2>2. OrderAt(n) + Extent(ConstantRows(c)) = SymbolAt(c, 0)
    BY <1>2, <1>3
  <2> QED
    BY <2>1, <2>2, MainObjectIs
<1>5. Within(H, 0, 121) /\ Filled(H)
  <2>1. 5 \in Nat /\ 0 \in Nat /\ 0 + 121 = 121
    OBVIOUS
  <2> DEFINE R == HeaderRows(c)
  <2>2. Rows(R, 5) /\ Extent(R) = 121
    BY HeaderLaid
  <2>4. Filled(Laid(R, 0))
    BY HeaderLaid
  <2> HIDE DEF R
  <2>3. Within(Laid(R, 0), 0, 0 + Extent(R))
    BY <2>1, <2>2, LaidWithin
  <2> QED
    BY <2>1, <2>2, <2>3, <2>4 DEF R
<1>6. Within(O, 500, OrderAt(n)) /\ Filled(O)
  <2>1. Rows(OrderRows(c), n) /\ 500 \in Nat /\ 500 + Extent(OrderRows(c)) = OrderAt(n)
    BY <1>3, OrderLaid DEF OrderAt, mo_header_reserved_size
  <2>2. ASSUME NEW e \in 1 .. n, NEW j \in 1 .. Len(OrderRows(c)[e])
        PROVE  OrderRows(c)[e][j][1] # 0
    <3>1. Len(OrderRows(c)[e]) = 1 /\ OrderRows(c)[e][1] = <<2, c.order[e]>>
      BY OrderLaid
    <3>2. j = 1
      BY <2>2, <3>1
    <3> QED
      BY <3>1, <3>2
  <2> QED
    BY <1>1, <2>1, <2>2, LaidWithin
<1>7. Within(C, OrderAt(n), SymbolAt(c, 0))
  <2>1. Rows(ConstantRows(c), k) /\ OrderAt(n) + Extent(ConstantRows(c)) = SymbolAt(c, 0)
    BY <1>2, <1>3, ConstantsLaid
  <2> QED
    BY <1>1, <1>2, <2>1, LaidWithin
<1>8. Within(Y, SymbolAt(c, 0), SymbolAt(c, m)) /\ Filled(Y)
  <2>1. Rows(SymbolRows(c), m) /\ SymbolAt(c, 0) + Extent(SymbolRows(c)) = SymbolAt(c, m)
    BY <1>2, SymbolsLaid
  <2>2. ASSUME NEW e \in 1 .. m, NEW j \in 1 .. Len(SymbolRows(c)[e])
        PROVE  SymbolRows(c)[e][j][1] # 0
    <3> DEFINE r == SymbolRows(c)[e]
               o == c.symbols[e].offset
               d == c.symbols[e].module
    <3>1. Len(r) = 4 /\ r = << <<8, e - 1>>, <<8, o>>, <<2, d>>, <<1, Variable>> >>
      BY <1>2, SymbolsLaid
    <3> HIDE DEF r, o, d
    <3>2. j \in 1 .. 4
      BY <2>2, <3>1 DEF r
    <3>3. j = 1 \/ j = 2 \/ j = 3 \/ j = 4
      BY <3>2
    <3>4. r[1][1] = 8 /\ r[2][1] = 8 /\ r[3][1] = 2 /\ r[4][1] = 1
      BY <3>1
    <3>5. r[j][1] # 0
      BY <3>3, <3>4
    <3> QED
      BY <3>5 DEF r
  <2> QED
    BY <1>1, <1>2, <2>1, <2>2, LaidWithin
<1>9. ASSUME NEW at, NEW width, NEW value,
             \/ Is(H, at, width, value) \/ Is(O, at, width, value)
             \/ Is(C, at, width, value) \/ Is(Y, at, width, value)
      PROVE  MainHas(c, at, width, value)
  <2> HIDE DEF H, O, C, Y
  <2>1. 121 \in Nat /\ 500 \in Nat /\ 121 <= 500
    OBVIOUS
  <2>2. Has(H \cup O \cup C \cup Y, at, width, value)
    <3>1. \/ Has(H, at, width, value) \/ Has(O, at, width, value)
          \/ Has(C, at, width, value) \/ Has(Y, at, width, value)
      BY <1>9
    <3> DEFINE h == 121
               o == 500
               x == OrderAt(n)
               y == SymbolAt(c, 0)
               z == SymbolAt(c, m)
    <3>2. /\ h \in Nat /\ o \in Nat /\ x \in Nat /\ y \in Nat /\ z \in Nat
          /\ h <= o /\ o <= x /\ x <= y /\ y <= z
      BY <1>2, <2>1
    <3>3. /\ Within(H, 0, h) /\ Within(O, o, x) /\ Within(C, x, y) /\ Within(Y, y, z)
          /\ Filled(H) /\ Filled(O) /\ Filled(Y)
      BY <1>5, <1>6, <1>7, <1>8
    <3> HIDE DEF h, o, x, y, z
    <3> QED
      BY <3>1, <3>2, <3>3, PartsHas
  <2> QED
    BY <1>4, <2>2 DEF MainHas
<1>10. MainHas(c, 0, 5, "MSLMO")
  <2>1. /\ Rows(HeaderRows(c), 5) /\ Len(HeaderRows(c)[1]) = 5
        /\ HeaderRows(c)[1][1] = <<5, "MSLMO">> /\ At(HeaderRows(c), 0, 1, 1) = 0
    BY HeaderLaid
  <2>2. 5 \in Nat /\ 0 \in Nat /\ 1 \in 1 .. 5 /\ 1 \in 1 .. Len(HeaderRows(c)[1])
    BY <2>1
  <2>3. Has(H, At(HeaderRows(c), 0, 1, 1), HeaderRows(c)[1][1][1], HeaderRows(c)[1][1][2])
    BY <2>1, <2>2, LaidHas
  <2>4. HeaderRows(c)[1][1][1] = 5 /\ HeaderRows(c)[1][1][2] = "MSLMO"
    BY <2>1
  <2>5. Is(H, 0, 5, "MSLMO")
    BY <2>1, <2>3, <2>4
  <2> QED
    BY <1>9, <2>5
<1>11. ASSUME NEW i \in 1 .. 4
       PROVE  /\ MainHas(c, 53 + 17 * (i - 1), 1, SectionTypes[i])
              /\ MainHas(c, 53 + 17 * (i - 1) + 1, 8, SectionAt(c, i))
              /\ MainHas(c, 53 + 17 * (i - 1) + 9, 8, Sizes(c)[i])
  <2> DEFINE R == HeaderRows(c)
             t == SectionTypes[i]
             a == SectionAt(c, i)
             s == Sizes(c)[i]
  <2>1. /\ Rows(R, 5) /\ Len(R[i + 1]) = 3 /\ R[i + 1] = SectionRow(c, i)
        /\ At(R, 0, i + 1, 1) = 53 + 17 * (i - 1)
        /\ At(R, 0, i + 1, 2) = 53 + 17 * (i - 1) + 1
        /\ At(R, 0, i + 1, 3) = 53 + 17 * (i - 1) + 9
    BY HeaderLaid
  <2>2. R[i + 1][1] = <<1, t>> /\ R[i + 1][2] = <<8, a>> /\ R[i + 1][3] = <<8, s>>
    BY <2>1, SectionRowIs
  <2> HIDE DEF t, a, s, R
  <2>3. /\ R[i + 1][1][1] = 1 /\ R[i + 1][1][2] = t /\ R[i + 1][2][1] = 8
        /\ R[i + 1][2][2] = a /\ R[i + 1][3][1] = 8 /\ R[i + 1][3][2] = s
    BY <2>2
  <2>4. 5 \in Nat /\ 0 \in Nat /\ i + 1 \in 1 .. 5
    OBVIOUS
  <2>5. 1 \in 1 .. Len(R[i + 1]) /\ 2 \in 1 .. Len(R[i + 1]) /\ 3 \in 1 .. Len(R[i + 1])
    BY <2>1
  <2>6. \A j \in 1 .. Len(R[i + 1]) :
          Has(Laid(R, 0), At(R, 0, i + 1, j), R[i + 1][j][1], R[i + 1][j][2])
    BY <2>1, <2>4, LaidHas
  <2>7. /\ Has(H, At(R, 0, i + 1, 1), 1, t) /\ Has(H, At(R, 0, i + 1, 2), 8, a)
        /\ Has(H, At(R, 0, i + 1, 3), 8, s)
    BY <2>3, <2>5, <2>6 DEF R
  <2>8. /\ Is(H, 53 + 17 * (i - 1), 1, t) /\ Is(H, 53 + 17 * (i - 1) + 1, 8, a)
        /\ Is(H, 53 + 17 * (i - 1) + 9, 8, s)
    BY <2>1, <2>7
  <2> HIDE DEF Is
  <2>9. /\ MainHas(c, 53 + 17 * (i - 1), 1, t) /\ MainHas(c, 53 + 17 * (i - 1) + 1, 8, a)
        /\ MainHas(c, 53 + 17 * (i - 1) + 9, 8, s)
    BY <1>9, <2>8
  <2> QED
    BY <2>9 DEF t, a, s
<1>12. ASSUME NEW e \in 1 .. n
       PROVE  MainHas(c, OrderAt(e - 1), 2, c.order[e])
  <2> DEFINE R == OrderRows(c)
             v == c.order[e]
  <2>1. Rows(R, n) /\ Len(R[e]) = 1 /\ R[e][1] = <<2, v>>
        /\ At(R, 500, e, 1) = OrderAt(e - 1)
    BY OrderLaid DEF mo_header_reserved_size
  <2> HIDE DEF R, v
  <2>2. R[e][1][1] = 2 /\ R[e][1][2] = v /\ 1 \in 1 .. Len(R[e]) /\ 500 \in Nat
    BY <2>1
  <2>3. Has(Laid(R, 500), At(R, 500, e, 1), R[e][1][1], R[e][1][2])
    BY <1>1, <2>1, <2>2, LaidHas
  <2>4. Is(O, OrderAt(e - 1), 2, v)
    BY <2>1, <2>2, <2>3 DEF R
  <2> QED
    BY <1>9, <2>4 DEF v
<1>13. ASSUME NEW e \in 1 .. k
       PROVE  /\ MainHas(c, ConstantAt(c, e - 1), 8, e - 1)
              /\ MainHas(c, ConstantAt(c, e - 1) + 8, 8, c.constants[e].size)
              /\ MainHas(c, ConstantAt(c, e - 1) + 16, c.constants[e].size,
                         c.constants[e].data)
  <2> DEFINE R == ConstantRows(c)
             s == c.constants[e].size
             d == c.constants[e].data
             P == ConstantAt(c, e - 1)
             from == OrderAt(n)
  <2>1. /\ Rows(R, k) /\ Len(R[e]) = 3
        /\ R[e] = << <<8, e - 1>>, <<8, s>>, <<s, d>> >>
        /\ At(R, from, e, 1) = P /\ At(R, from, e, 2) = P + 8 /\ At(R, from, e, 3) = P + 16
    BY ConstantsLaid
  <2>2. from \in Nat
    BY <1>2
  <2> HIDE DEF R, s, d, P, from
  <2>3. /\ R[e][1][1] = 8 /\ R[e][1][2] = e - 1 /\ R[e][2][1] = 8 /\ R[e][2][2] = s
        /\ R[e][3][1] = s /\ R[e][3][2] = d
    BY <2>1
  <2>4. 1 \in 1 .. Len(R[e]) /\ 2 \in 1 .. Len(R[e]) /\ 3 \in 1 .. Len(R[e])
    BY <2>1
  <2>5. \A j \in 1 .. Len(R[e]) :
          Has(Laid(R, from), At(R, from, e, j), R[e][j][1], R[e][j][2])
    BY <1>1, <2>1, <2>2, LaidHas
  <2>6. /\ Has(C, At(R, from, e, 1), 8, e - 1) /\ Has(C, At(R, from, e, 2), 8, s)
        /\ Has(C, At(R, from, e, 3), s, d)
    BY <2>3, <2>4, <2>5 DEF R, from
  <2>7. Is(C, P, 8, e - 1) /\ Is(C, P + 8, 8, s) /\ Is(C, P + 16, s, d)
    BY <2>1, <2>6
  <2> HIDE DEF Is
  <2>8. MainHas(c, P, 8, e - 1) /\ MainHas(c, P + 8, 8, s) /\ MainHas(c, P + 16, s, d)
    BY <1>9, <2>7
  <2> QED
    BY <2>8 DEF P, s, d
<1>14. ASSUME NEW e \in 1 .. m
       PROVE  /\ MainHas(c, SymbolAt(c, e - 1), 8, e - 1)
              /\ MainHas(c, SymbolAt(c, e - 1) + 8, 8, c.symbols[e].offset)
              /\ MainHas(c, SymbolAt(c, e - 1) + 16, 2, c.symbols[e].module)
              /\ MainHas(c, SymbolAt(c, e - 1) + 18, 1, Variable)
  <2> DEFINE R == SymbolRows(c)
             o == c.symbols[e].offset
             d == c.symbols[e].module
             P == SymbolAt(c, e - 1)
             from == SymbolAt(c, 0)
  <2>0. from \in Nat
    BY <1>2
  <2>1. P = from + 19 * (e - 1)
    <3>1. P = ConstantAt(c, k) + 19 * (e - 1)
      BY DEF SymbolAt
    <3> QED
      BY <1>2, <3>1
  <2>2. /\ Rows(R, m) /\ Len(R[e]) = 4
        /\ R[e] = << <<8, e - 1>>, <<8, o>>, <<2, d>>, <<1, Variable>> >>
        /\ At(R, from, e, 1) = from + 19 * (e - 1)
        /\ At(R, from, e, 2) = from + 19 * (e - 1) + 8
        /\ At(R, from, e, 3) = from + 19 * (e - 1) + 16
        /\ At(R, from, e, 4) = from + 19 * (e - 1) + 18
    BY <2>0, SymbolsLaid
  <2> HIDE DEF R, o, d, P, from
  <2>3. /\ R[e][1][1] = 8 /\ R[e][1][2] = e - 1 /\ R[e][2][1] = 8 /\ R[e][2][2] = o
        /\ R[e][3][1] = 2 /\ R[e][3][2] = d /\ R[e][4][1] = 1 /\ R[e][4][2] = Variable
    BY <2>2
  <2>4. 1 \in 1 .. Len(R[e]) /\ 2 \in 1 .. Len(R[e]) /\ 3 \in 1 .. Len(R[e])
        /\ 4 \in 1 .. Len(R[e])
    BY <2>2
  <2>5. \A j \in 1 .. Len(R[e]) :
          Has(Laid(R, from), At(R, from, e, j), R[e][j][1], R[e][j][2])
    BY <1>1, <2>0, <2>2, LaidHas
  <2>6. /\ Has(Y, At(R, from, e, 1), 8, e - 1) /\ Has(Y, At(R, from, e, 2), 8, o)
        /\ Has(Y, At(R, from, e, 3), 2, d) /\ Has(Y, At(R, from, e, 4), 1, Variable)
    BY <2>3, <2>4, <2>5 DEF R, from
  <2>7. /\ Is(Y, P, 8, e - 1) /\ Is(Y, P + 8, 8, o) /\ Is(Y, P + 16, 2, d)
        /\ Is(Y, P + 18, 1, Variable)
    BY <2>1, <2>2, <2>6
  <2> HIDE DEF Is
  <2>8. /\ MainHas(c, P, 8, e - 1) /\ MainHas(c, P + 8, 8, o) /\ MainHas(c, P + 16, 2, d)
        /\ MainHas(c, P + 18, 1, Variable)
    BY <1>9, <2>7
  <2> QED
    BY <2>8 DEF P, o, d
<1> QED
  BY <1>10, <1>11, <1>12, <1>13, <1>14

-----------------------------------------------------------------------------
(* Where the fields of a code object and of the executable lie.            *)

(* A header is one row. *)
LEMMA OneRow ==
  ASSUME NEW l \in Nat \ {0}, NEW row, Len(row) = l, row = [j \in 1 .. l |-> row[j]],
         \A j \in 1 .. l : row[j][1] \in Nat /\ row[j][1] > 0, NEW from \in Nat
  PROVE  /\ SumOfFirst(Widths(row), 0) = 0
         /\ \A j \in 1 .. l : SumOfFirst(Widths(row), j) =
                                SumOfFirst(Widths(row), j - 1) + row[j][1]
         /\ \A j \in 1 .. l : Has(Laid(<<row>>, from), from + SumOfFirst(Widths(row), j - 1),
                                  row[j][1], row[j][2])
         /\ Within(Laid(<<row>>, from), from, from + SumOfFirst(Widths(row), l))
         /\ Filled(Laid(<<row>>, from))
<1> DEFINE R == <<row>>
           n == 1
<1>1. n \in Nat /\ R = [e \in 1 .. n |-> R[e]] /\ n \in 1 .. n /\ n - 1 = 0
      /\ \A e \in 1 .. n : e = n /\ R[e] = row
  OBVIOUS
<1> HIDE DEF R, n
<1>2. Rows(R, n)
  BY <1>1 DEF Rows
<1> DEFINE W(j) == SumOfFirst(Widths(row), j)
           S(e) == SumOfFirst(EntrySizes(R), e)
<1>3. /\ Extent(R) = S(n) /\ S(n) = S(n - 1) + W(l) /\ W(0) = 0
      /\ \A j \in 1 .. l : W(j) = W(j - 1) + row[j][1]
  <2>1. /\ Extent(R) = S(n) /\ S(n) = S(n - 1) + SumOfFirst(Widths(R[n]), Len(R[n]))
        /\ SumOfFirst(Widths(R[n]), 0) = 0
        /\ \A j \in 1 .. Len(R[n]) : SumOfFirst(Widths(R[n]), j) =
             SumOfFirst(Widths(R[n]), j - 1) + R[n][j][1]
    BY <1>1, <1>2, RowSums
  <2>2. R[n] = row /\ Len(R[n]) = l
    BY <1>1
  <2> QED
    BY <2>1, <2>2, Zenon
<1>4. S(0) = 0
  BY SumStep
<1>5. \A j \in 1 .. l : At(R, from, n, j) = from + W(j - 1)
  <2> TAKE j \in 1 .. l
  <2>1. At(R, from, n, j) = from + S(n - 1) + W(j - 1)
    BY <1>1 DEF At
  <2> HIDE DEF S, W
  <2>2. At(R, from, n, j) = from + 0 + W(j - 1)
    BY <1>1, <1>4, <2>1
  <2>3. from + 0 = from
    OBVIOUS
  <2> QED
    BY <2>2, <2>3
<1>6. ASSUME NEW j \in 1 .. l
      PROVE  Has(Laid(R, from), from + W(j - 1), row[j][1], row[j][2])
  <2>1. R[n] = row /\ j \in 1 .. Len(R[n])
    BY <1>1
  <2>2. Has(Laid(R, from), At(R, from, n, j), R[n][j][1], R[n][j][2])
    BY <1>1, <1>2, <2>1, LaidHas
  <2>3. At(R, from, n, j) = from + W(j - 1)
    BY <1>5
  <2> QED
    BY <2>1, <2>2, <2>3
<1>7. Within(Laid(R, from), from, from + W(l))
  <2>1. Within(Laid(R, from), from, from + Extent(R))
    BY <1>1, <1>2, LaidWithin
  <2>2. Extent(R) = 0 + W(l) /\ W(l) \in Nat
    <3>1. Extent(R) \in Nat
      BY <1>1, <1>2, RowSums
    <3>0. Len(R[n]) = l /\ l \in 0 .. l
      <4>1. R[n] = row
        BY <1>1
      <4>2. l \in 0 .. l
        OBVIOUS
      <4> QED
        BY <4>1, <4>2
    <3>2. l \in 0 .. Len(R[n])
      BY <3>0
    <3>3. SumOfFirst(Widths(R[n]), l) \in Nat
      BY <1>1, <1>2, <3>2, RowSums
    <3> QED
      BY <1>1, <1>3, <1>4, <3>3
  <2>3. 0 + W(l) = W(l)
    BY <2>2
  <2> QED
    BY <2>1, <2>2, <2>3
<1>8. Filled(Laid(R, from))
  <2>1. \A e \in 1 .. n : \A j \in 1 .. Len(R[e]) : R[e][j][1] # 0
    BY <1>1
  <2> QED
    BY <1>1, <1>2, <2>1, LaidWithin
<1> QED
  BY <1>3, <1>6, <1>7, <1>8 DEF R, W

(* The sizes of the parts of a command. *)
LEMMA CommandWidthsAre ==
  /\ Sum(CommandWidths) = 36 /\ SumOfFirst(CommandWidths, 0) = 0
  /\ \A j \in 1 .. 9 : CommandWidths[j] \in Nat \ {0}
  /\ \A j \in 1 .. 9 : SumOfFirst(CommandWidths, j) = SumOfFirst(CommandWidths, j - 1) + CommandWidths[j]
  /\ \A j \in 1 .. 9 : /\ SumOfFirst(CommandWidths, j - 1) \in Nat
                       /\ SumOfFirst(CommandWidths, j - 1) + CommandWidths[j] <= 36
<1> DEFINE C == CommandWidths
           S(j) == SumOfFirst(C, j)
<1>1. /\ Len(C) = 9 /\ C[1] = 1 /\ C[2] = 1 /\ C[3] = 8 /\ C[4] = 1 /\ C[5] = 8 /\ C[6] = 1
      /\ C[7] = 8 /\ C[8] = 4 /\ C[9] = 4
  BY DEF CommandWidths
<1> HIDE DEF C
<1>2. S(0) = 0 /\ \A j \in Nat : S(j + 1) = S(j) + C[j + 1]
  BY SumStep
<1>3. \A j \in 1 .. 9 : S(j) = S(j - 1) + C[j]
  <2> TAKE j \in 1 .. 9
  <2>1. j - 1 \in Nat /\ j - 1 + 1 = j
    OBVIOUS
  <2> HIDE DEF S
  <2> QED
    BY <1>2, <2>1
<1>4. /\ S(1) = S(1 - 1) + 1 /\ S(2) = S(2 - 1) + 1 /\ S(3) = S(3 - 1) + 8
      /\ S(4) = S(4 - 1) + 1 /\ S(5) = S(5 - 1) + 8 /\ S(6) = S(6 - 1) + 1
      /\ S(7) = S(7 - 1) + 8 /\ S(8) = S(8 - 1) + 4 /\ S(9) = S(9 - 1) + 4
  <2>1. 1 \in 1 .. 9 /\ 2 \in 1 .. 9 /\ 3 \in 1 .. 9 /\ 4 \in 1 .. 9 /\ 5 \in 1 .. 9
        /\ 6 \in 1 .. 9 /\ 7 \in 1 .. 9 /\ 8 \in 1 .. 9 /\ 9 \in 1 .. 9
    OBVIOUS
  <2> HIDE DEF S
  <2> QED
    BY <1>1, <1>3, <2>1
<1>5. /\ S(1) = S(0) + 1 /\ S(2) = S(1) + 1 /\ S(3) = S(2) + 8
      /\ S(4) = S(3) + 1 /\ S(5) = S(4) + 8 /\ S(6) = S(5) + 1
      /\ S(7) = S(6) + 8 /\ S(8) = S(7) + 4 /\ S(9) = S(8) + 4
  BY <1>4
<1> HIDE DEF S
<1>6. /\ S(0) = 0 /\ S(1) = 1 /\ S(2) = 2 /\ S(3) = 10 /\ S(4) = 11 /\ S(5) = 19 /\ S(6) = 20
      /\ S(7) = 28 /\ S(8) = 32 /\ S(9) = 36
  BY <1>2, <1>5
<1>7. \A j \in 1 .. 9 : j = 1 \/ j = 2 \/ j = 3 \/ j = 4 \/ j = 5 \/ j = 6 \/ j = 7 \/ j = 8 \/ j = 9
  OBVIOUS
<1>8. \A j \in 1 .. 9 : C[j] \in Nat \ {0}
  BY <1>1, <1>7
<1>9. \A j \in 1 .. 9 : S(j) \in Nat /\ S(j) <= 36
  BY <1>6, <1>7
<1>10. \A j \in 0 .. 8 : j = 0 \/ j \in 1 .. 9
  OBVIOUS
<1>11. \A j \in 1 .. 9 : S(j - 1) \in Nat
  <2> TAKE j \in 1 .. 9
  <2>1. j - 1 \in 0 .. 8
    OBVIOUS
  <2>2. j - 1 = 0 \/ j - 1 \in 1 .. 9
    BY <1>10, <2>1
  <2> QED
    BY <1>6, <1>9, <2>2
<1>12. \A j \in 1 .. 9 : S(j - 1) + C[j] <= 36
  BY <1>3, <1>9
<1>13. Sum(C) = S(9)
  BY <1>1 DEF Sum, S
<1> QED
  BY <1>3, <1>6, <1>8, <1>11, <1>12, <1>13 DEF C, S

CommandRows(commands) ==
  [i \in DOMAIN commands |-> [j \in 1 .. 9 |-> <<CommandWidths[j], commands[i][j]>>]]

(* The commands of a code object. *)
LEMMA CommandsLaid ==
  ASSUME NEW n \in Nat, NEW commands, DOMAIN commands = 1 .. n, NEW from \in Nat
  PROVE  /\ Within(Laid(CommandRows(commands), from), from, from + 36 * n)
         /\ Filled(Laid(CommandRows(commands), from))
         /\ \A i \in 1 .. n : \A j \in 1 .. 9 :
              Has(Laid(CommandRows(commands), from),
                  from + 36 * (i - 1) + SumOfFirst(CommandWidths, j - 1),
                  CommandWidths[j], commands[i][j])
<1> DEFINE R == CommandRows(commands)
           K(j) == CommandWidths[j]
           l == 9
<1>1. R = [i \in 1 .. n |-> [j \in 1 .. l |-> <<K(j), commands[i][j]>>]]
  BY DEF CommandRows
<1>2. l \in Nat \ {0} /\ \A j \in 1 .. l : K(j) \in Nat \ {0}
  BY CommandWidthsAre
<1>3. SumOfFirst(CommandWidths, l) = 36
  <2>1. Len(CommandWidths) = 9
    BY DEF CommandWidths
  <2> QED
    BY <2>1, CommandWidthsAre DEF Sum
<1> HIDE DEF R, K, l
<1>4. ASSUME NEW i \in 1 .. n
      PROVE  /\ R[i] = [j \in 1 .. l |-> R[i][j]] /\ Len(R[i]) = l
             /\ \A j \in 1 .. l : R[i][j] = <<K(j), commands[i][j]>>
             /\ \A j \in 1 .. l : R[i][j][1] = K(j) /\ R[i][j][2] = commands[i][j]
  <2>1. R[i] = [j \in 1 .. l |-> <<K(j), commands[i][j]>>]
    BY <1>1
  <2>2. R[i] = [j \in 1 .. l |-> R[i][j]]
    BY <2>1
  <2>3. Len(R[i]) = l
    BY <1>2, <2>2, LenIs
  <2>4. \A j \in 1 .. l : R[i][j] = <<K(j), commands[i][j]>>
    BY <2>1
  <2>5. \A j \in 1 .. l : R[i][j][1] = K(j)
    BY <2>4
  <2>6. \A j \in 1 .. l : R[i][j][2] = commands[i][j]
    BY <2>4
  <2> QED
    BY <2>2, <2>3, <2>4, <2>5, <2>6
<1>5. Rows(R, n)
  <2>1. R = [i \in 1 .. n |-> R[i]]
    BY <1>1
  <2>2. \A i \in 1 .. n : Len(R[i]) = l /\ R[i] = [j \in 1 .. l |-> R[i][j]]
    BY <1>4
  <2>3. \A i \in 1 .. n : \A j \in 1 .. l :
          R[i][j][1] \in Nat /\ (j = 1 \/ j < l => R[i][j][1] > 0)
    <3> TAKE i \in 1 .. n
    <3> TAKE j \in 1 .. l
    <3>1. R[i][j][1] = K(j) /\ K(j) \in Nat \ {0}
      BY <1>2, <1>4
    <3> QED
      BY <3>1
  <2> QED
    BY <1>2, <2>1, <2>2, <2>3, RowsIf
<1>6. \A i \in 1 .. n : \A j \in 0 .. l :
        SumOfFirst(Widths(R[i]), j) = SumOfFirst(CommandWidths, j)
  <2> TAKE i \in 1 .. n
  <2>1. DOMAIN R[i] = 1 .. l
    BY <1>4
  <2>2. \A j \in 1 .. l : Widths(R[i])[j] = CommandWidths[j]
    BY <1>4, <2>1 DEF Widths, K
  <2>3. l \in Nat
    BY <1>2
  <2> QED
    BY <2>2, <2>3, SameSums
<1>7. \A i \in 1 .. n : EntrySizes(R)[i] = 36
  <2> TAKE i \in 1 .. n
  <2>1. EntrySizes(R)[i] = SumOfFirst(Widths(R[i]), Len(R[i]))
    BY <1>5, RowOf
  <2>2. Len(R[i]) = l
    BY <1>4
  <2>3. l \in 0 .. l
    BY <1>2
  <2> QED
    BY <1>3, <1>6, <2>1, <2>2, <2>3
<1>8. \A i \in 0 .. n : SumOfFirst(EntrySizes(R), i) = 36 * i
  BY <1>7, SumOfEqual
<1>9. Extent(R) = 36 * n
  BY <1>5, <1>8, RowSums
<1>10. Within(Laid(R, from), from, from + 36 * n) /\ Filled(Laid(R, from))
  <2>1. Within(Laid(R, from), from, from + Extent(R))
    BY <1>5, LaidWithin
  <2>2. \A i \in 1 .. n : \A j \in 1 .. Len(R[i]) : R[i][j][1] # 0
    BY <1>2, <1>4, ZenonT(30)
  <2>3. Filled(Laid(R, from))
    BY <1>5, <2>2, LaidWithin
  <2> QED
    BY <1>9, <2>1, <2>3
<1>11. ASSUME NEW i \in 1 .. n, NEW j \in 1 .. l
       PROVE  Has(Laid(R, from), from + 36 * (i - 1) + SumOfFirst(CommandWidths, j - 1),
                  K(j), commands[i][j])
  <2>1. j \in 1 .. Len(R[i])
    BY <1>4
  <2>2. Has(Laid(R, from), At(R, from, i, j), R[i][j][1], R[i][j][2])
    BY <1>5, <2>1, LaidHas
  <2>3. R[i][j][1] = K(j) /\ R[i][j][2] = commands[i][j]
    BY <1>4
  <2>4. i - 1 \in 0 .. n /\ j - 1 \in 0 .. l
    BY <1>2
  <2>5. /\ SumOfFirst(EntrySizes(R), i - 1) = 36 * (i - 1)
        /\ SumOfFirst(Widths(R[i]), j - 1) = SumOfFirst(CommandWidths, j - 1)
    BY <1>6, <1>8, <2>4
  <2>6. At(R, from, i, j) = from + 36 * (i - 1) + SumOfFirst(CommandWidths, j - 1)
    BY <2>5 DEF At
  <2> QED
    BY <2>2, <2>3, <2>6
<1> QED
  BY <1>10, <1>11 DEF R, K, l

(* Of a filled part and one behind it, each can be read. *)
LEMMA TwoHas ==
  ASSUME NEW A, NEW B, NEW a \in Nat, NEW b \in Nat, NEW d \in Nat, a <= b,
         Within(A, 0, a), Filled(A), Within(B, b, d),
         NEW at, NEW width, NEW value, Has(A, at, width, value) \/ Has(B, at, width, value)
  PROVE  Has(A \cup B, at, width, value)
<1>0. 0 \in Nat
  OBVIOUS
<1>1. CASE Has(A, at, width, value)
  <2>1. at \in Nat /\ width \in Nat /\ at + width <= a /\ width # 0
    BY <1>0, <1>1, HasWithin
  <2>2. at + width <= b
    BY <2>1
  <2> QED
    BY <1>1, <2>1, <2>2, HasAmong
<1>2. CASE Has(B, at, width, value)
  <2>1. at \in Nat /\ width \in Nat /\ b <= at
    BY <1>2, HasWithin
  <2>2. a <= at
    BY <2>1
  <2>3. Has(B \cup A, at, width, value)
    BY <1>0, <1>2, <2>1, <2>2, HasAmong
  <2>4. B \cup A = A \cup B
    OBVIOUS
  <2> QED
    BY <2>3, <2>4
<1> QED
  BY <1>1, <1>2

(* Whatever a reader of a code object looks at is found. *)
CodeHas(c, k, at, width, value) == Has(CodeObject(c, k).fields, at, width, value)

(* A code object has every field where DeserializeCO looks for it. *)
LEMMA CodePacked ==
  ASSUME NEW c \in Compilations, NEW k \in 1 .. Len(c.order)
  PROVE  /\ CodeObject(c, k).size = 100 + 36 * Len(c.code[k]) /\ Len(c.code[k]) \in Nat
         /\ CodeHas(c, k, 0, 5, "MSLCO")
         /\ CodeHas(c, k, 11, 8, 36 * Len(c.code[k]))
         /\ CodeHas(c, k, 19, 8, c.stack_size[k])
         /\ \A i \in 1 .. Len(c.code[k]) : \A j \in 1 .. 9 :
              CodeHas(c, k, 100 + 36 * (i - 1) + SumOfFirst(CommandWidths, j - 1),
                      CommandWidths[j], c.code[k][i][j])
<1> DEFINE commands == c.code[k]
           n == Len(commands)
           z == n * command_size
           s == c.stack_size[k]
           row == << <<5, "MSLCO">>, <<4, "version">>, <<2, "flags">>, <<8, z>>, <<8, s>> >>
           A == Laid(<<row>>, 0)
           B == Laid(CommandRows(commands), 100)
<1>1. n \in Nat /\ DOMAIN commands = 1 .. n
  <2>1. commands \in Seq([1 .. 9 -> Nat])
    BY CompilationIs
  <2> HIDE DEF commands
  <2> QED
    BY <2>1
<1>2. z = 36 * n
  BY <1>1 DEF command_size
<1>3. CodeObject(c, k) = [size |-> 100 + z, fields |-> A \cup B]
  BY DEF CodeObject, co_header_reserved_size, CommandRows
<1> HIDE DEF n, commands
<1>4. Within(B, 100, 100 + 36 * n)
  BY <1>1, CommandsLaid
<1>5. \A i \in 1 .. n : \A j \in 1 .. 9 :
        Has(B, 100 + 36 * (i - 1) + SumOfFirst(CommandWidths, j - 1),
            CommandWidths[j], commands[i][j])
  BY <1>1, CommandsLaid
<1> HIDE DEF z, s
<1> DEFINE l == 5
<1>6. /\ Len(row) = l /\ row = [j \in 1 .. l |-> row[j]] /\ l \in Nat \ {0}
      /\ row[1][1] = 5 /\ row[2][1] = 4 /\ row[3][1] = 2 /\ row[4][1] = 8 /\ row[5][1] = 8
      /\ row[1][2] = "MSLCO" /\ row[4][2] = z /\ row[5][2] = s
      /\ 1 \in 1 .. l /\ 2 \in 1 .. l /\ 3 \in 1 .. l /\ 4 \in 1 .. l /\ 5 \in 1 .. l
      /\ \A j \in 1 .. l : j = 1 \/ j = 2 \/ j = 3 \/ j = 4 \/ j = 5
  OBVIOUS
<1> HIDE DEF row, l
<1>7. \A j \in 1 .. l : row[j][1] \in Nat /\ row[j][1] > 0
  BY <1>6
<1> DEFINE W(j) == SumOfFirst(Widths(row), j)
<1>8. /\ W(0) = 0 /\ \A j \in 1 .. l : W(j) = W(j - 1) + row[j][1]
      /\ \A j \in 1 .. l : Has(A, 0 + W(j - 1), row[j][1], row[j][2])
      /\ Within(A, 0, 0 + W(l)) /\ Filled(A)
  <2>1. 0 \in Nat
    OBVIOUS
  <2> QED
    BY <1>6, <1>7, <2>1, OneRow, ZenonT(30)
<1> HIDE DEF W, A, B
<1>9. /\ W(1) = W(1 - 1) + 5 /\ W(2) = W(2 - 1) + 4 /\ W(3) = W(3 - 1) + 2
      /\ W(4) = W(4 - 1) + 8 /\ W(5) = W(5 - 1) + 8
  BY <1>6, <1>8
<1>10. W(0) = 0 /\ W(3) = 11 /\ W(4) = 19 /\ W(5) = 27
  <2>1. /\ W(1) = W(0) + 5 /\ W(2) = W(1) + 4 /\ W(3) = W(2) + 2
        /\ W(4) = W(3) + 8 /\ W(5) = W(4) + 8
    BY <1>9
  <2> QED
    BY <1>8, <2>1
<1>11. /\ Has(A, 0 + W(1 - 1), 5, "MSLCO") /\ Has(A, 0 + W(4 - 1), 8, z)
       /\ Has(A, 0 + W(5 - 1), 8, s)
  BY <1>6, <1>8
<1>12. /\ Has(A, 0, 5, "MSLCO") /\ Has(A, 11, 8, z) /\ Has(A, 19, 8, s)
  <2>1. 0 + W(1 - 1) = 0 /\ 0 + W(4 - 1) = 11 /\ 0 + W(5 - 1) = 19
    BY <1>10
  <2> QED
    BY <1>11, <2>1
<1>13. Within(A, 0, 27)
  <2>1. 0 + W(l) = 27
    BY <1>10 DEF l
  <2> QED
    BY <1>8, <2>1
<1>14. ASSUME NEW at, NEW width, NEW value, Has(A, at, width, value) \/ Has(B, at, width, value)
       PROVE  CodeHas(c, k, at, width, value)
  <2> DEFINE a == 27
             b == 100
             d == 100 + 36 * n
  <2>1. a \in Nat /\ b \in Nat /\ d \in Nat /\ a <= b /\ Within(A, 0, a) /\ Within(B, b, d)
    BY <1>1, <1>4, <1>13
  <2> HIDE DEF a, b, d
  <2>2. Has(A \cup B, at, width, value)
    BY <1>8, <1>14, <2>1, TwoHas
  <2>3. CodeObject(c, k).fields = A \cup B
    BY <1>3
  <2> QED
    BY <2>2, <2>3 DEF CodeHas
<1>15. CodeObject(c, k).size = 100 + 36 * n
  BY <1>2, <1>3
<1>16. /\ CodeHas(c, k, 0, 5, "MSLCO") /\ CodeHas(c, k, 11, 8, z) /\ CodeHas(c, k, 19, 8, s)
       /\ \A i \in 1 .. n : \A j \in 1 .. 9 :
            CodeHas(c, k, 100 + 36 * (i - 1) + SumOfFirst(CommandWidths, j - 1),
                    CommandWidths[j], commands[i][j])
  BY <1>5, <1>12, <1>14
<1> QED
  BY <1>1, <1>2, <1>15, <1>16 DEF n, commands, s

(* Whatever the machine looks at is found.  No code is empty.               *)
LEMMA ExecutablePacked ==
  ASSUME NEW rod_size \in Nat, NEW code_size \in Nat \ {0}, NEW rod, NEW code,
         NEW F, F = ExecutableFields(rod_size, code_size, rod, code)
  PROVE  /\ Has(F, 0, 4, "MSLI") /\ Has(F, 10, 1, "MSLVM_1")
         /\ Has(F, 11, 8, 100) /\ Has(F, 19, 8, rod_size)
         /\ Has(F, 27, 8, 100 + rod_size) /\ Has(F, 35, 8, code_size)
         /\ Has(F, 100, rod_size, rod) /\ Has(F, 100 + rod_size, code_size, code)
<1> DEFINE o == 100 + rod_size
           row == << <<4, "MSLI">>, <<4, "version">>, <<2, "flags">>, <<1, "MSLVM_1">>,
                     <<8, 100>>, <<8, rod_size>>, <<8, o>>, <<8, code_size>> >>
           data == << <<rod_size, rod>>, <<code_size, code>> >>
           A == Laid(<<row>>, 0)
           B == Laid(<<data>>, 100)
           l == 8
<1>1. F = A \cup B
  BY DEF ExecutableFields, msli_header_size
<1>2. B = {<<100, rod_size, rod>>, <<o, code_size, code>>}
  <2> DEFINE R == <<data>>
  <2>1. /\ DOMAIN R = {1} /\ R[1] = data /\ 1 - 1 = 0
        /\ DOMAIN data = {1, 2} /\ 2 - 1 = 1
        /\ data[1][1] = rod_size /\ data[1][2] = rod
        /\ data[2][1] = code_size /\ data[2][2] = code
    OBVIOUS
  <2>2. Widths(data)[1] = rod_size
    <3> HIDE DEF data
    <3>1. 1 \in DOMAIN data
      BY <2>1
    <3> QED
      BY <2>1, <3>1 DEF Widths
  <2> HIDE DEF R, data
  <2>3. SumOfFirst(EntrySizes(R), 0) = 0 /\ SumOfFirst(Widths(data), 0) = 0
    BY SumStep
  <2>4. SumOfFirst(Widths(data), 1) = rod_size
    <3>1. 0 \in Nat /\ 0 + 1 = 1
      OBVIOUS
    <3>2. SumOfFirst(Widths(data), 1) = SumOfFirst(Widths(data), 0) + Widths(data)[1]
      BY <3>1, SumStep
    <3> QED
      BY <2>2, <2>3, <3>2
  <2> DEFINE Field(e, j) == <<100 + SumOfFirst(EntrySizes(R), e - 1)
                                + SumOfFirst(Widths(R[e]), j - 1), R[e][j][1], R[e][j][2]>>
  <2>5. Laid(R, 100) = UNION {{Field(e, j) : j \in DOMAIN R[e]} : e \in DOMAIN R}
    BY DEF Laid
  <2>6. Field(1, 1) = <<100, rod_size, rod>>
    <3>1. Field(1, 1) = <<100 + 0 + 0, rod_size, rod>>
      BY <2>1, <2>3
    <3> QED
      BY <3>1
  <2>7. Field(1, 2) = <<o, code_size, code>>
    <3>1. Field(1, 2) = <<100 + 0 + rod_size, code_size, code>>
      BY <2>1, <2>3, <2>4
    <3>2. 100 + 0 + rod_size = o
      OBVIOUS
    <3> QED
      BY <3>1, <3>2
  <2> HIDE DEF Field, o
  <2>8. UNION {{Field(e, j) : j \in DOMAIN R[e]} : e \in DOMAIN R} = {Field(1, 1), Field(1, 2)}
    <3>1. {{Field(e, j) : j \in DOMAIN R[e]} : e \in {1}} = {{Field(1, j) : j \in DOMAIN R[1]}}
      OBVIOUS
    <3>2. {Field(1, j) : j \in {1, 2}} = {Field(1, 1), Field(1, 2)}
      OBVIOUS
    <3> QED
      BY <2>1, <3>1, <3>2
  <2> QED
    BY <2>5, <2>6, <2>7, <2>8 DEF R
<1>3. /\ Has(B, 100, rod_size, rod) /\ Has(B, o, code_size, code)
      /\ Within(B, 100, 100 + rod_size + code_size)
  <2> DEFINE f == <<100, rod_size, rod>>
             g == <<o, code_size, code>>
  <2>1. /\ f[1] = 100 /\ f[2] = rod_size /\ f[3] = rod
        /\ g[1] = o /\ g[2] = code_size /\ g[3] = code
    OBVIOUS
  <2>2. B = {f, g}
    BY <1>2
  <2> HIDE DEF f, g, B
  <2>3. ~(g[1] = 100 /\ g[2] = rod_size)
    BY <2>1
  <2>4. ~(f[1] = o /\ f[2] = code_size)
    BY <2>1
  <2>5. Has(B, 100, rod_size, rod)
    BY <2>1, <2>2, <2>3 DEF Has, f
  <2>6. Has(B, o, code_size, code)
    BY <2>1, <2>2, <2>4 DEF Has, g
  <2>7. Within(B, 100, 100 + rod_size + code_size)
    BY <2>1, <2>2 DEF Within
  <2> QED
    BY <2>5, <2>6, <2>7
<1> HIDE DEF o, data, B
<1>4. /\ Len(row) = l /\ row = [j \in 1 .. l |-> row[j]] /\ l \in Nat \ {0}
      /\ row[1][1] = 4 /\ row[2][1] = 4 /\ row[3][1] = 2 /\ row[4][1] = 1 /\ row[5][1] = 8
      /\ row[6][1] = 8 /\ row[7][1] = 8 /\ row[8][1] = 8
      /\ row[1][2] = "MSLI" /\ row[4][2] = "MSLVM_1" /\ row[5][2] = 100
      /\ row[6][2] = rod_size /\ row[7][2] = o /\ row[8][2] = code_size
      /\ 1 \in 1 .. l /\ 2 \in 1 .. l /\ 3 \in 1 .. l /\ 4 \in 1 .. l /\ 5 \in 1 .. l
      /\ 6 \in 1 .. l /\ 7 \in 1 .. l /\ 8 \in 1 .. l
      /\ \A j \in 1 .. l : j = 1 \/ j = 2 \/ j = 3 \/ j = 4 \/ j = 5 \/ j = 6 \/ j = 7 \/ j = 8
  OBVIOUS
<1> HIDE DEF row
<1>5. \A j \in 1 .. l : row[j][1] \in Nat /\ row[j][1] > 0
  BY <1>4
<1> HIDE DEF l
<1> DEFINE W(j) == SumOfFirst(Widths(row), j)
<1>6. /\ W(0) = 0 /\ \A j \in 1 .. l : W(j) = W(j - 1) + row[j][1]
      /\ \A j \in 1 .. l : Has(A, 0 + W(j - 1), row[j][1], row[j][2])
      /\ Within(A, 0, 0 + W(l)) /\ Filled(A)
  <2>1. 0 \in Nat
    OBVIOUS
  <2>2. Len(row) = l /\ row = [j \in 1 .. l |-> row[j]] /\ l \in Nat \ {0}
    BY <1>4
  <2> QED
    BY <1>5, <2>1, <2>2, OneRow
<1> HIDE DEF W, A
<1>7. /\ W(1) = W(1 - 1) + 4 /\ W(2) = W(2 - 1) + 4 /\ W(3) = W(3 - 1) + 2
      /\ W(4) = W(4 - 1) + 1 /\ W(5) = W(5 - 1) + 8 /\ W(6) = W(6 - 1) + 8
      /\ W(7) = W(7 - 1) + 8 /\ W(8) = W(8 - 1) + 8
  BY <1>4, <1>6, SMTT(30)
<1>8. W(0) = 0 /\ W(3) = 10 /\ W(4) = 11 /\ W(5) = 19 /\ W(6) = 27 /\ W(7) = 35 /\ W(8) = 43
  <2>1. /\ W(1) = W(0) + 4 /\ W(2) = W(1) + 4 /\ W(3) = W(2) + 2 /\ W(4) = W(3) + 1
        /\ W(5) = W(4) + 8 /\ W(6) = W(5) + 8 /\ W(7) = W(6) + 8 /\ W(8) = W(7) + 8
    BY <1>7
  <2> QED
    BY <1>6, <2>1
<1>9. /\ Has(A, 0 + W(1 - 1), 4, "MSLI") /\ Has(A, 0 + W(4 - 1), 1, "MSLVM_1")
      /\ Has(A, 0 + W(5 - 1), 8, 100) /\ Has(A, 0 + W(6 - 1), 8, rod_size)
      /\ Has(A, 0 + W(7 - 1), 8, o) /\ Has(A, 0 + W(8 - 1), 8, code_size)
  BY <1>4, <1>6
<1>10. /\ Has(A, 0, 4, "MSLI") /\ Has(A, 10, 1, "MSLVM_1") /\ Has(A, 11, 8, 100)
       /\ Has(A, 19, 8, rod_size) /\ Has(A, 27, 8, o) /\ Has(A, 35, 8, code_size)
  <2>1. /\ 0 + W(1 - 1) = 0 /\ 0 + W(4 - 1) = 10 /\ 0 + W(5 - 1) = 11 /\ 0 + W(6 - 1) = 19
        /\ 0 + W(7 - 1) = 27 /\ 0 + W(8 - 1) = 35
    BY <1>8
  <2> QED
    BY <1>9, <2>1
<1>11. Within(A, 0, 43)
  <2>1. 0 + W(l) = 43
    BY <1>8 DEF l
  <2> QED
    BY <1>6, <2>1
<1>12. ASSUME NEW at, NEW width, NEW value, Has(A, at, width, value) \/ Has(B, at, width, value)
       PROVE  Has(F, at, width, value)
  <2> DEFINE a == 43
             b == 100
             d == 100 + rod_size + code_size
  <2>1. a \in Nat /\ b \in Nat /\ d \in Nat /\ a <= b /\ Within(A, 0, a) /\ Within(B, b, d)
    BY <1>3, <1>11
  <2> HIDE DEF a, b, d
  <2>2. Has(A \cup B, at, width, value)
    BY <1>6, <1>12, <2>1, TwoHas
  <2> QED
    BY <1>1, <2>2
<1>13. /\ Has(F, 0, 4, "MSLI") /\ Has(F, 10, 1, "MSLVM_1") /\ Has(F, 11, 8, 100)
       /\ Has(F, 19, 8, rod_size) /\ Has(F, 27, 8, o) /\ Has(F, 35, 8, code_size)
       /\ Has(F, 100, rod_size, rod) /\ Has(F, o, code_size, code)
  BY <1>3, <1>10, <1>12
<1> QED
  BY <1>13 DEF o

-----------------------------------------------------------------------------
(* Reading and writing files.                                              *)

(* A reader finds the value that lies there, or that the file has ended.   *)
LEMMA ValuesAre ==
  ASSUME NEW file, NEW at, NEW width, NEW value, Has(file.fields, at, width, value)
  PROVE  Values(file, at, width) = IF at + width > file.size THEN {} ELSE {value}
<1> DEFINE there == {field \in file.fields : field[1] = at /\ field[2] = width}
           f == <<at, width, value>>
           V == {field[3] : field \in there}
<1>1. f \in there /\ f[3] = value
  <2>1. f \in file.fields
    BY DEF Has
  <2>2. f[1] = at /\ f[2] = width /\ f[3] = value
    OBVIOUS
  <2> HIDE DEF f
  <2> QED
    BY <2>1, <2>2
<1>2. \A field \in there : field[3] = value
  BY DEF Has
<1> HIDE DEF there, f
<1>3. there # {}
  BY <1>1
<1>4. V = {value}
  BY <1>1, <1>2
<1>5. Values(file, at, width) =
        IF at + width > file.size THEN {}
        ELSE IF there = {} /\ ~\E field \in file.fields : Covers(field, at, width) THEN {0}
        ELSE V
  BY DEF Values, there
<1> HIDE DEF V
<1> QED
  BY <1>3, <1>4, <1>5

(* What is found in a main object is what was packed, or nothing. *)
LEMMA MainValues ==
  ASSUME NEW c, NEW file, CutOf(file, MainObject(c)),
         NEW at, NEW width, NEW value, MainHas(c, at, width, value)
  PROVE  Values(file, at, width) = IF at + width > file.size THEN {} ELSE {value}
BY ValuesAre DEF CutOf, MainHas

(* The same of a code object. *)
LEMMA CodeValues ==
  ASSUME NEW c, NEW k, NEW file, CutOf(file, CodeObject(c, k)),
         NEW at, NEW width, NEW value, CodeHas(c, k, at, width, value)
  PROVE  Values(file, at, width) = IF at + width > file.size THEN {} ELSE {value}
BY ValuesAre DEF CutOf, CodeHas

(* What is packed is a file. *)
LEMMA ObjectsAre ==
  ASSUME NEW c \in Compilations
  PROVE  /\ MainObject(c) = [size |-> MainObject(c).size, fields |-> MainObject(c).fields]
         /\ MainObject(c).size = SymbolAt(c, Len(c.symbols)) + 100
         /\ MainObject(c).size \in Nat /\ 500 <= MainObject(c).size
         /\ MainObjects[c] = MainObject(c)
         /\ \A k \in 1 .. Len(c.order) :
              /\ CodeObject(c, k) = [size |-> CodeObject(c, k).size, fields |-> CodeObject(c, k).fields]
              /\ CodeObject(c, k).size \in Nat /\ 100 <= CodeObject(c, k).size
              /\ CodeObjects[c][k] = CodeObject(c, k)
<1>1. MainObject(c) = [size |-> MainObject(c).size, fields |-> MainObject(c).fields]
  BY DEF MainObject
<1>2. MainObject(c).size = SymbolAt(c, Len(c.symbols)) + 100
  BY MainObjectIs, SectionsLaid
<1>3. MainObject(c).size \in Nat /\ 500 <= MainObject(c).size
  <2>1. /\ OrderAt(Len(c.order)) \in Nat /\ 500 <= OrderAt(Len(c.order))
        /\ ConstantAt(c, Len(c.constants)) \in Nat
        /\ OrderAt(Len(c.order)) <= ConstantAt(c, Len(c.constants))
        /\ SymbolAt(c, Len(c.symbols)) \in Nat
        /\ ConstantAt(c, Len(c.constants)) <= SymbolAt(c, Len(c.symbols))
    BY SectionEnds
  <2> QED
    BY <1>2, <2>1
<1>4. MainObjects[c] = MainObject(c)
  BY DEF MainObjects
<1>5. \A k \in DOMAIN c.order : CodeObjects[c][k] = CodeObject(c, k)
  BY DEF CodeObjects
<1>6. ASSUME NEW k \in 1 .. Len(c.order)
      PROVE  /\ CodeObject(c, k) = [size |-> CodeObject(c, k).size, fields |-> CodeObject(c, k).fields]
             /\ CodeObject(c, k).size \in Nat /\ 100 <= CodeObject(c, k).size
             /\ CodeObjects[c][k] = CodeObject(c, k)
  <2>1. CodeObject(c, k) = [size |-> CodeObject(c, k).size, fields |-> CodeObject(c, k).fields]
    BY DEF CodeObject
  <2>2. CodeObject(c, k).size = 100 + 36 * Len(c.code[k]) /\ Len(c.code[k]) \in Nat
    BY CodePacked
  <2>3. k \in DOMAIN c.order
    BY CompilationIs
  <2>4. CodeObjects[c][k] = CodeObject(c, k)
    BY <1>5, <2>3
  <2>5. CodeObject(c, k).size \in Nat /\ 100 <= CodeObject(c, k).size
    BY <2>2
  <2> QED
    BY <2>1, <2>4, <2>5
<1> QED
  BY <1>1, <1>2, <1>3, <1>4, <1>6

(* A file is put in its place and the others stay. *)
Replaced(name, file) ==
  /\ DOMAIN directory' = DOMAIN directory \cup {name} /\ directory'[name] = file
  /\ \A n \in DOMAIN directory : n # name => directory'[n] = directory[n]

(* What is written of a file is the file, or its beginning. *)
LEMMA WrittenIs ==
  ASSUME NEW name, NEW whole, whole = [size |-> whole.size, fields |-> whole.fields],
         whole.size \in Nat
  PROVE  /\ Written(name, whole) => Replaced(name, whole) /\ CutOf(whole, whole)
         /\ Spoiled(name, whole) =>
              \/ UNCHANGED directory
              \/ \E file : /\ Replaced(name, file) /\ CutOf(file, whole)
                           /\ file.size < whole.size
<1>1. \A file : Written(name, file) => Replaced(name, file)
  <2> SUFFICES ASSUME NEW file, Written(name, file)
               PROVE  Replaced(name, file)
    OBVIOUS
  <2>1. directory' = [n \in DOMAIN directory \cup {name} |->
                        IF n = name THEN file ELSE directory[n]]
    BY DEF Written
  <2> QED
    BY <2>1 DEF Replaced
<1>2. CutOf(whole, whole)
  BY DEF CutOf
<1>3. ASSUME Spoiled(name, whole), ~UNCHANGED directory
      PROVE  \E file : Replaced(name, file) /\ CutOf(file, whole) /\ file.size < whole.size
  <2>1. PICK size \in CutSizes : size < whole.size /\ Written(name, [whole EXCEPT !.size = size])
    BY <1>3 DEF Spoiled
  <2>2. size \in Nat
    BY ObjectFilesAssumption
  <2> DEFINE file == [whole EXCEPT !.size = size]
  <2>3. file = [size |-> size, fields |-> whole.fields]
    <3> DEFINE s == whole.size
               f == whole.fields
    <3>1. whole = [size |-> s, fields |-> f]
      OBVIOUS
    <3> HIDE DEF s, f
    <3>2. [whole EXCEPT !.size = size] = [size |-> size, fields |-> f]
      BY <3>1
    <3> QED
      BY <3>2 DEF f
  <2>4. file.size = size /\ file.fields = whole.fields
    BY <2>3
  <2>5. Replaced(name, file)
    BY <1>1, <2>1
  <2> HIDE DEF file
  <2>6. CutOf(file, whole) /\ file.size < whole.size
    BY <2>1, <2>2, <2>4 DEF CutOf
  <2> QED
    BY <2>5, <2>6
<1> QED
  BY <1>1, <1>2, <1>3

(* No file has the name of another. *)
LEMMA NamesDiffer ==
  /\ Main # Executable
  /\ \A id : Main # Module(id) /\ Executable # Module(id)
  /\ \A i, j : Module(i) = Module(j) => i = j
BY DEF Main, Executable, Module

-----------------------------------------------------------------------------
(* What stays as it is.                                                    *)

(* Without a write the files stay what they are.                           *)
LEMMA FilesStay ==
  ASSUME FilesMade, UNCHANGED directory
  PROVE  FilesMade'
BY DEF FilesMade, IsCodeOf, CutOf

(* The executable stays what it is. *)
LEMMA ExecutableStays ==
  ASSUME ExecutableMade, UNCHANGED <<directory, written>>
  PROVE  ExecutableMade'
BY DEF ExecutableMade, IsExecutable

(* What was saved stays saved. *)
LEMMA AllStaysSaved ==
  ASSUME AllSaved, UNCHANGED <<directory, compilation>>, intact' => intact,
         stage # "compiler", stage' # "compiler"
  PROVE  AllSaved'
BY DEF AllSaved, CodeSaved

(* Nothing is said of the linker before it ends. *)
LEMMA NoOutcome ==
  ASSUME outcome' = "none"
  PROVE  WholeCompilationLinks' /\ LinksWholeFiles'
BY DEF WholeCompilationLinks, LinksWholeFiles

(* An object file is written. *)
LEMMA ModuleReplaced ==
  ASSUME FilesMade, NEW c \in Compilations, NEW k \in 1 .. Len(c.order), NEW file,
         CutOf(file, CodeObject(c, k)), Replaced(Module(c.order[k]), file)
  PROVE  FilesMade'
<1> DEFINE name == Module(c.order[k])
<1>1. k \in DOMAIN c.order /\ c.order[k] \in Nat
  BY CompilationIs
<1>2. /\ DOMAIN directory' = DOMAIN directory \cup {name} /\ directory'[name] = file
      /\ \A n \in DOMAIN directory : n # name => directory'[n] = directory[n]
  BY DEF Replaced
<1>3. \A n \in DOMAIN directory' :
        n = Main \/ n = Executable \/ \E id \in Nat : n = Module(id)
  BY <1>1, <1>2 DEF FilesMade
<1>4. Main \in DOMAIN directory' =>
        \E d \in Compilations : CutOf(directory'[Main], MainObject(d))
  BY <1>2, NamesDiffer DEF FilesMade
<1>5. ASSUME NEW id \in Nat, Module(id) \in DOMAIN directory'
      PROVE  \E d \in Compilations : \E i \in DOMAIN d.order :
               /\ i \in DOMAIN d.order /\ d.order[i] = id
               /\ CutOf(directory'[Module(id)], CodeObject(d, i))
  <2>1. CASE id = c.order[k]
    BY <1>1, <1>2, <2>1
  <2>2. CASE id # c.order[k]
    <3>1. Module(id) \in DOMAIN directory /\ directory'[Module(id)] = directory[Module(id)]
      BY <1>2, <1>5, <2>2, NamesDiffer
    <3> QED
      BY <3>1 DEF FilesMade, IsCodeOf
  <2> QED
    BY <2>1, <2>2
<1> QED
  BY <1>3, <1>4, <1>5 DEF FilesMade, IsCodeOf, CutOf

(* A main object is written. *)
LEMMA MainReplaced ==
  ASSUME FilesMade, NEW c \in Compilations, NEW file,
         CutOf(file, MainObject(c)), Replaced(Main, file)
  PROVE  FilesMade'
<1>2. /\ DOMAIN directory' = DOMAIN directory \cup {Main} /\ directory'[Main] = file
      /\ \A n \in DOMAIN directory : n # Main => directory'[n] = directory[n]
  BY DEF Replaced
<1>3. \A n \in DOMAIN directory' :
        n = Main \/ n = Executable \/ \E id \in Nat : n = Module(id)
  BY <1>2 DEF FilesMade
<1>4. Main \in DOMAIN directory' =>
        \E d \in Compilations : CutOf(directory'[Main], MainObject(d))
  BY <1>2
<1>5. ASSUME NEW id \in Nat, Module(id) \in DOMAIN directory'
      PROVE  \E d \in Compilations : \E i \in DOMAIN d.order :
               /\ i \in DOMAIN d.order /\ d.order[i] = id
               /\ CutOf(directory'[Module(id)], CodeObject(d, i))
  <2>1. Module(id) \in DOMAIN directory /\ directory'[Module(id)] = directory[Module(id)]
    BY <1>2, <1>5, NamesDiffer
  <2> QED
    BY <2>1 DEF FilesMade, IsCodeOf
<1> QED
  BY <1>3, <1>4, <1>5 DEF FilesMade, IsCodeOf, CutOf

(* The executable is written. *)
LEMMA ExecutableReplaced ==
  ASSUME FilesMade, NEW file, Replaced(Executable, file)
  PROVE  FilesMade'
<1>2. /\ DOMAIN directory' = DOMAIN directory \cup {Executable}
      /\ \A n \in DOMAIN directory : n # Executable => directory'[n] = directory[n]
  BY DEF Replaced
<1>3. \A n \in DOMAIN directory' :
        n = Main \/ n = Executable \/ \E id \in Nat : n = Module(id)
  BY <1>2 DEF FilesMade
<1>4. Main \in DOMAIN directory' =>
        \E d \in Compilations : CutOf(directory'[Main], MainObject(d))
  BY <1>2, NamesDiffer DEF FilesMade
<1>5. ASSUME NEW id \in Nat, Module(id) \in DOMAIN directory'
      PROVE  \E d \in Compilations : \E i \in DOMAIN d.order :
               /\ i \in DOMAIN d.order /\ d.order[i] = id
               /\ CutOf(directory'[Module(id)], CodeObject(d, i))
  <2>1. Module(id) \in DOMAIN directory /\ directory'[Module(id)] = directory[Module(id)]
    BY <1>2, <1>5, NamesDiffer
  <2> QED
    BY <2>1 DEF FilesMade, IsCodeOf
<1> QED
  BY <1>3, <1>4, <1>5 DEF FilesMade, IsCodeOf, CutOf

(* Another file than the executable is written. *)
LEMMA ExecutableSpared ==
  ASSUME ExecutableMade, NEW name, NEW file, Replaced(name, file), name # Executable,
         UNCHANGED written
  PROVE  ExecutableMade'
<1>1. /\ Executable \in DOMAIN directory' <=> Executable \in DOMAIN directory
      /\ Executable \in DOMAIN directory => directory'[Executable] = directory[Executable]
  BY DEF Replaced
<1> QED
  BY <1>1 DEF ExecutableMade, IsExecutable

-----------------------------------------------------------------------------
(* The compiler.                                                           *)

(* Begin. *)
LEMMA TestCompileKeeps ==
  ASSUME IInv, NEW c \in Compilations, TestCompile(c)
  PROVE  IInv'
<1>1. /\ stage = "nothing" /\ compilations < MaxCompilations
      /\ compilation' = c /\ compilations' = compilations + 1
      /\ intact' = TRUE /\ stage' = "compiler" /\ next' = 1
      /\ outcome' = "none" /\ loaded' = << >>
      /\ directory' = directory /\ failures' = failures /\ written' = written
      /\ section' = section /\ opened' = opened /\ offset' = offset /\ end' = end
      /\ state' = state
  BY DEF TestCompile, reader
<1>2. /\ Typed /\ FilesMade /\ ExecutableMade
  BY DEF IInv
<1>3. Typed'
  <2>1. Len(c.order) \in Nat
    BY CompilationIs
  <2>2. MaxCompilations \in Nat
    BY ObjectFilesAssumption
  <2> QED
    BY <1>1, <1>2, <2>1, <2>2 DEF Typed
<1>4. FilesMade' /\ ExecutableMade'
  BY <1>1, <1>2, FilesStay, ExecutableStays
<1>5. AllSaved'
  BY <1>1 DEF AllSaved
<1>6. MainIsRead' /\ CodeIsRead'
  BY <1>1 DEF MainIsRead, CodeIsRead
<1>7. WholeCompilationLinks' /\ LinksWholeFiles'
  BY <1>1, NoOutcome
<1>8. LoadsWhatWasLinked'
  BY <1>1 DEF LoadsWhatWasLinked
<1> QED
  BY <1>3, <1>4, <1>5, <1>6, <1>7, <1>8 DEF IInv

(* A file is saved, or is not and the compilation is no longer intact.     *)
LEMMA SavesIs ==
  ASSUME Typed, NEW name, NEW whole, whole = [size |-> whole.size, fields |-> whole.fields],
         whole.size \in Nat, Saves(name, whole)
  PROVE  /\ \/ UNCHANGED directory
            \/ \E file : Replaced(name, file) /\ CutOf(file, whole)
         /\ intact' => intact /\ Replaced(name, whole)
         /\ intact' \in BOOLEAN /\ failures' \in 0 .. MaxFailures
<1>1. MaxFailures \in Nat /\ intact \in BOOLEAN /\ failures \in 0 .. MaxFailures
  BY ObjectFilesAssumption DEF Typed
<1>2. CASE Written(name, whole) /\ UNCHANGED <<intact, failures>>
  BY <1>1, <1>2, WrittenIs
<1>3. CASE Spoiled(name, whole) /\ intact' = FALSE
  <2>1. failures < MaxFailures /\ failures' = failures + 1
    BY <1>3 DEF Spoiled, Fails
  <2>2. failures' \in 0 .. MaxFailures
    BY <1>1, <2>1
  <2> QED
    BY <1>3, <2>2, WrittenIs
<1> QED
  BY <1>2, <1>3 DEF Saves

(* A code object is saved. *)
LEMMA SaveAsMSLCOKeeps ==
  ASSUME IInv, SaveAsMSLCO
  PROVE  IInv'
<1> DEFINE c == compilation
           k == next
           name == Module(c.order[k])
           whole == CodeObject(c, k)
<1>1. /\ stage = "compiler" /\ stage' = "compiler" /\ next <= Len(c.order)
      /\ Saves(name, CodeObjects[c][k]) /\ next' = next + 1
      /\ compilation' = compilation /\ compilations' = compilations
      /\ outcome' = outcome /\ written' = written /\ loaded' = loaded
      /\ section' = section /\ opened' = opened /\ offset' = offset /\ end' = end
      /\ state' = state
  BY DEF SaveAsMSLCO, Compiling, reader
<1>2. /\ Typed /\ FilesMade /\ ExecutableMade /\ AllSaved
  BY DEF IInv
<1>3. /\ c \in Compilations /\ k \in 1 .. Len(c.order) /\ Len(c.order) \in Nat
      /\ outcome = "none" /\ loaded = << >>
  <2>1. c \in Compilations /\ next \in Nat \ {0} /\ outcome = "none" /\ loaded = << >>
    BY <1>1, <1>2 DEF Typed
  <2>2. Len(c.order) \in Nat
    BY <2>1, CompilationIs
  <2> QED
    BY <1>1, <2>1, <2>2
<1>4. /\ whole = [size |-> whole.size, fields |-> whole.fields] /\ whole.size \in Nat
      /\ CodeObjects[c][k] = whole
  BY <1>3, ObjectsAre
<1>5. /\ \/ UNCHANGED directory
         \/ \E file : Replaced(name, file) /\ CutOf(file, whole)
      /\ intact' => intact /\ Replaced(name, whole)
      /\ intact' \in BOOLEAN /\ failures' \in 0 .. MaxFailures
  <2> HIDE DEF whole, name
  <2> QED
    BY <1>1, <1>2, <1>4, SavesIs
<1>6. Typed'
  BY <1>1, <1>2, <1>3, <1>5, SMTT(30) DEF Typed
<1>7. FilesMade'
  <2>1. CASE UNCHANGED directory
    BY <1>2, <2>1, FilesStay
  <2>2. ASSUME NEW file, Replaced(name, file), CutOf(file, whole)
        PROVE  FilesMade'
    BY <1>2, <1>3, <2>2, ModuleReplaced
  <2> QED
    BY <1>5, <2>1, <2>2
<1>8. ExecutableMade'
  <2>1. CASE UNCHANGED directory
    BY <1>1, <1>2, <2>1, ExecutableStays
  <2>2. ASSUME NEW file, Replaced(name, file)
        PROVE  ExecutableMade'
    <3>1. name # Executable
      BY NamesDiffer
    <3> QED
      BY <1>1, <1>2, <2>2, <3>1, ExecutableSpared
  <2> QED
    BY <1>5, <2>1, <2>2
<1>9. AllSaved'
  <2> SUFFICES ASSUME intact'
               PROVE  \A i \in 1 .. next' - 1 : CodeSaved(i)'
    BY <1>1 DEF AllSaved
  <2>1. intact /\ Replaced(name, whole)
    BY <1>5
  <2>2. \A i \in 1 .. next - 1 : CodeSaved(i)
    BY <1>1, <1>2, <2>1 DEF AllSaved
  <2> TAKE i \in 1 .. next' - 1
  <2>3. i \in 1 .. next
    BY <1>1, <1>3
  <2>4. CASE i = next
    <3>1. name \in DOMAIN directory' /\ directory'[name] = CodeObject(c, k)
      BY <2>1 DEF Replaced
    <3> QED
      BY <1>1, <2>4, <3>1 DEF CodeSaved
  <2>5. CASE i # next
    <3>1. i \in 1 .. next - 1 /\ i \in 1 .. Len(c.order)
      BY <1>3, <2>3, <2>5
    <3> DEFINE other == Module(c.order[i])
    <3>2. other \in DOMAIN directory /\ directory[other] = CodeObject(c, i)
      BY <2>2, <3>1 DEF CodeSaved
    <3>3. c.order[i] # c.order[k]
      BY <1>3, <2>5, <3>1, CompilationIs
    <3>4. other # name
      BY <3>3, NamesDiffer
    <3>5. other \in DOMAIN directory' /\ directory'[other] = CodeObject(c, i)
      BY <2>1, <3>2, <3>4 DEF Replaced
    <3> QED
      BY <1>1, <3>5 DEF CodeSaved
  <2> QED
    BY <2>4, <2>5
<1>10. MainIsRead' /\ CodeIsRead'
  BY <1>1 DEF MainIsRead, CodeIsRead
<1>11. WholeCompilationLinks' /\ LinksWholeFiles' /\ LoadsWhatWasLinked'
  BY <1>1, <1>3, NoOutcome DEF LoadsWhatWasLinked
<1> QED
  BY <1>6, <1>7, <1>8, <1>9, <1>10, <1>11 DEF IInv

(* The main object is saved. *)
LEMMA SaveAsMSLMOKeeps ==
  ASSUME IInv, SaveAsMSLMO
  PROVE  IInv'
<1> DEFINE c == compilation
           whole == MainObject(c)
<1>1. /\ stage = "compiler" /\ stage' = "nothing" /\ next > Len(c.order)
      /\ Saves(Main, MainObjects[c]) /\ next' = next
      /\ compilation' = compilation /\ compilations' = compilations
      /\ outcome' = outcome /\ written' = written /\ loaded' = loaded
      /\ section' = section /\ opened' = opened /\ offset' = offset /\ end' = end
      /\ state' = state
  BY DEF SaveAsMSLMO, Compiling, reader
<1>2. /\ Typed /\ FilesMade /\ ExecutableMade /\ AllSaved
  BY DEF IInv
<1>3. /\ c \in Compilations /\ next - 1 = Len(c.order) /\ Len(c.order) \in Nat
      /\ outcome = "none" /\ loaded = << >>
  <2>1. c \in Compilations /\ next \in Nat \ {0} /\ outcome = "none" /\ loaded = << >>
        /\ next <= Len(c.order) + 1
    BY <1>1, <1>2 DEF Typed
  <2>2. Len(c.order) \in Nat
    BY <2>1, CompilationIs
  <2> QED
    BY <1>1, <2>1, <2>2
<1>4. /\ whole = [size |-> whole.size, fields |-> whole.fields] /\ whole.size \in Nat
      /\ MainObjects[c] = whole
  BY <1>3, ObjectsAre
<1>5. /\ \/ UNCHANGED directory
         \/ \E file : Replaced(Main, file) /\ CutOf(file, whole)
      /\ intact' => intact /\ Replaced(Main, whole)
      /\ intact' \in BOOLEAN /\ failures' \in 0 .. MaxFailures
  <2> HIDE DEF whole
  <2> QED
    BY <1>1, <1>2, <1>4, SavesIs
<1>6. Typed'
  BY <1>1, <1>2, <1>3, <1>5 DEF Typed
<1>7. FilesMade'
  <2>1. CASE UNCHANGED directory
    BY <1>2, <2>1, FilesStay
  <2>2. ASSUME NEW file, Replaced(Main, file), CutOf(file, whole)
        PROVE  FilesMade'
    BY <1>2, <1>3, <2>2, MainReplaced
  <2> QED
    BY <1>5, <2>1, <2>2
<1>8. ExecutableMade'
  <2>1. CASE UNCHANGED directory
    BY <1>1, <1>2, <2>1, ExecutableStays
  <2>2. ASSUME NEW file, Replaced(Main, file)
        PROVE  ExecutableMade'
    BY <1>1, <1>2, <2>2, NamesDiffer, ExecutableSpared
  <2> QED
    BY <1>5, <2>1, <2>2
<1>9. AllSaved'
  <2> SUFFICES ASSUME intact'
               PROVE  /\ \A k \in DOMAIN c.order : CodeSaved(k)'
                      /\ Main \in DOMAIN directory' /\ directory'[Main] = MainObject(c)
    BY <1>1 DEF AllSaved
  <2>1. intact /\ Replaced(Main, whole)
    BY <1>5
  <2>2. \A i \in 1 .. next - 1 : CodeSaved(i)
    BY <1>1, <1>2, <2>1 DEF AllSaved
  <2>3. Main \in DOMAIN directory' /\ directory'[Main] = MainObject(c)
    BY <2>1 DEF Replaced
  <2>4. ASSUME NEW i \in DOMAIN c.order
        PROVE  CodeSaved(i)'
    <3>1. i \in 1 .. next - 1
      BY <1>3, CompilationIs
    <3> DEFINE other == Module(c.order[i])
    <3>2. other \in DOMAIN directory /\ directory[other] = CodeObject(c, i)
      BY <2>2, <3>1 DEF CodeSaved
    <3>3. other # Main
      BY NamesDiffer
    <3>4. other \in DOMAIN directory' /\ directory'[other] = CodeObject(c, i)
      BY <2>1, <3>2, <3>3 DEF Replaced
    <3> QED
      BY <1>1, <3>4 DEF CodeSaved
  <2> QED
    BY <2>3, <2>4
<1>10. MainIsRead' /\ CodeIsRead'
  BY <1>1 DEF MainIsRead, CodeIsRead
<1>11. WholeCompilationLinks' /\ LinksWholeFiles' /\ LoadsWhatWasLinked'
  BY <1>1, <1>3, NoOutcome DEF LoadsWhatWasLinked
<1> QED
  BY <1>6, <1>7, <1>8, <1>9, <1>10, <1>11 DEF IInv

(* The compiler ends between two files. *)
LEMMA CompilerEndsKeeps ==
  ASSUME IInv, CompilerEnds
  PROVE  IInv'
<1>1. /\ stage = "compiler" /\ stage' = "nothing" /\ intact' = FALSE
      /\ failures < MaxFailures /\ failures' = failures + 1 /\ next' = next
      /\ directory' = directory /\ written' = written
      /\ compilation' = compilation /\ compilations' = compilations
      /\ outcome' = outcome /\ loaded' = loaded
      /\ section' = section /\ opened' = opened /\ offset' = offset /\ end' = end
      /\ state' = state
  BY DEF CompilerEnds, Compiling, Fails, reader
<1>2. /\ Typed /\ FilesMade /\ ExecutableMade
  BY DEF IInv
<1>3. outcome = "none" /\ loaded = << >>
  BY <1>1, <1>2 DEF Typed
<1>4. Typed'
  <2>1. failures' \in 0 .. MaxFailures
    BY <1>1, <1>2, ObjectFilesAssumption DEF Typed
  <2> QED
    BY <1>1, <1>2, <2>1 DEF Typed
<1>5. FilesMade' /\ ExecutableMade'
  BY <1>1, <1>2, FilesStay, ExecutableStays
<1>6. AllSaved'
  BY <1>1 DEF AllSaved
<1>7. MainIsRead' /\ CodeIsRead'
  BY <1>1 DEF MainIsRead, CodeIsRead
<1>8. WholeCompilationLinks' /\ LinksWholeFiles' /\ LoadsWhatWasLinked'
  BY <1>1, <1>3, NoOutcome DEF LoadsWhatWasLinked
<1> QED
  BY <1>4, <1>5, <1>6, <1>7, <1>8 DEF IInv

-----------------------------------------------------------------------------
(* The linker reads the main object.                                       *)

(* Nothing is a beginning of everything. *)
LEMMA NothingBegins ==
  ASSUME NEW all, Len(all) \in Nat
  PROVE  Begins(<< >>, all)
BY DEF Begins

(* One entry more has been read. *)
LEMMA OneMoreBegins ==
  ASSUME NEW S, NEW got \in Seq(S), NEW all, Len(all) \in Nat, Begins(got, all),
         Len(got) < Len(all), NEW entry \in S, entry = all[Len(got) + 1]
  PROVE  /\ Begins(Append(got, entry), all) /\ Append(got, entry) \in Seq(S)
         /\ Len(Append(got, entry)) = Len(got) + 1 /\ Len(got) \in Nat
<1>1. Len(got) \in Nat
  OBVIOUS
<1>2. /\ Append(got, entry) \in Seq(S) /\ Len(Append(got, entry)) = Len(got) + 1
      /\ \A i \in 1 .. Len(got) : Append(got, entry)[i] = got[i]
      /\ Append(got, entry)[Len(got) + 1] = entry
  BY AppendProperties
<1>3. \A i \in 1 .. Len(got) + 1 : i \in 1 .. Len(got) \/ i = Len(got) + 1
  BY <1>1
<1> QED
  BY <1>1, <1>2, <1>3 DEF Begins

(* A beginning as long as the whole is the whole. *)
LEMMA AllBegins ==
  ASSUME NEW S, NEW got \in Seq(S), NEW n \in Nat, NEW all,
         all = [i \in 1 .. n |-> all[i]], Begins(got, all), ~(Len(got) < n)
  PROVE  got = all /\ Len(got) = n
<1>1. Len(all) = n
  BY LenIs
<1>2. Len(got) = n
  BY <1>1, LenProperties DEF Begins
<1>3. got = [i \in 1 .. n |-> got[i]]
  BY <1>2, LenProperties
<1>4. \A i \in 1 .. n : got[i] = all[i]
  BY <1>2 DEF Begins
<1>5. [i \in 1 .. n |-> got[i]] = [i \in 1 .. n |-> all[i]]
  BY <1>4
<1> QED
  BY <1>2, <1>3, <1>5

(* What is to be read of a main object. *)
LEMMA MainOfIs ==
  ASSUME NEW c \in Compilations
  PROVE  /\ MainOf(c).linking_order = c.order
         /\ c.order = [k \in 1 .. Len(c.order) |-> c.order[k]]
         /\ Len(MainOf(c).constants) = Len(c.constants)
         /\ MainOf(c).constants = [k \in 1 .. Len(c.constants) |-> MainOf(c).constants[k]]
         /\ \A k \in 1 .. Len(c.constants) :
              /\ MainOf(c).constants[k] = [id |-> k - 1, size |-> c.constants[k].size,
                                           data |-> c.constants[k].data]
              /\ MainOf(c).constants[k] \in ConstantsRead
         /\ Len(MainOf(c).symbols) = Len(c.symbols)
         /\ MainOf(c).symbols = [k \in 1 .. Len(c.symbols) |-> MainOf(c).symbols[k]]
         /\ \A k \in 1 .. Len(c.symbols) :
              /\ MainOf(c).symbols[k] = [id |-> k - 1, offset |-> c.symbols[k].offset,
                                         module |-> c.symbols[k].module, type |-> Variable]
              /\ MainOf(c).symbols[k] \in SymbolsRead
<1> DEFINE n == Len(c.order)
           k == Len(c.constants)
           m == Len(c.symbols)
           C == MainOf(c).constants
           Y == MainOf(c).symbols
<1>1. /\ k \in Nat /\ DOMAIN c.constants = 1 .. k
      /\ \A i \in 1 .. k : c.constants[i].size \in Nat /\ c.constants[i].data \in Data
      /\ m \in Nat /\ DOMAIN c.symbols = 1 .. m
      /\ \A i \in 1 .. m : c.symbols[i].offset \in Nat /\ c.symbols[i].module \in Nat
  BY CompilationIs
<1>2. MainOf(c).linking_order = c.order
  BY DEF MainOf
<1>3. c.order = [i \in 1 .. n |-> c.order[i]]
  <2>1. c.order \in Seq(Nat)
    BY ObjectFilesAssumption
  <2> QED
    BY <2>1, LenProperties
<1>4. C = [i \in 1 .. k |-> [id |-> i - 1, size |-> c.constants[i].size,
                              data |-> c.constants[i].data]]
  BY <1>1 DEF MainOf
<1>5. Y = [i \in 1 .. m |-> [id |-> i - 1, offset |-> c.symbols[i].offset,
                              module |-> c.symbols[i].module, type |-> Variable]]
  BY <1>1 DEF MainOf
<1> HIDE DEF C, Y, k, m
<1>6. C = [i \in 1 .. k |-> C[i]] /\ Y = [i \in 1 .. m |-> Y[i]]
  BY <1>4, <1>5
<1>7. Len(C) = k /\ Len(Y) = m
  BY <1>1, <1>6, LenIs
<1>8. ASSUME NEW i \in 1 .. k
      PROVE  /\ C[i] = [id |-> i - 1, size |-> c.constants[i].size, data |-> c.constants[i].data]
             /\ C[i] \in ConstantsRead
  <2>1. C[i] = [id |-> i - 1, size |-> c.constants[i].size, data |-> c.constants[i].data]
    BY <1>4
  <2>2. i - 1 \in Nat /\ c.constants[i].size \in Nat /\ c.constants[i].data \in Data
    BY <1>1
  <2> QED
    BY <2>1, <2>2 DEF ConstantsRead
<1>9. ASSUME NEW i \in 1 .. m
      PROVE  /\ Y[i] = [id |-> i - 1, offset |-> c.symbols[i].offset,
                        module |-> c.symbols[i].module, type |-> Variable]
             /\ Y[i] \in SymbolsRead
  <2>1. Y[i] = [id |-> i - 1, offset |-> c.symbols[i].offset,
                module |-> c.symbols[i].module, type |-> Variable]
    BY <1>5
  <2>2. i - 1 \in Nat /\ c.symbols[i].offset \in Nat /\ c.symbols[i].module \in Nat
    BY <1>1
  <2> QED
    BY <2>1, <2>2 DEF SymbolsRead
<1> QED
  BY <1>2, <1>3, <1>6, <1>7, <1>8, <1>9 DEF C, Y, k, m

(* The main object is opened. *)
LEMMA LinkKeeps ==
  ASSUME IInv, Link
  PROVE  IInv'
<1> DEFINE refused == \/ Main \notin DOMAIN directory
                      \/ directory[Main].size < 500
                      \/ Values(directory[Main], 0, 5) # {"MSLMO"}
<1>1. /\ stage = "nothing" /\ outcome = "none"
      /\ IF refused THEN outcome' = "refused" /\ stage' = stage
         ELSE stage' = "sections" /\ outcome' = outcome
      /\ next' = 1 /\ section' = "header"
      /\ opened' = Main /\ offset' = 0 /\ end' = 0
      /\ state' = NothingRead /\ loaded' = << >>
      /\ directory' = directory /\ written' = written
      /\ compilation' = compilation /\ compilations' = compilations
      /\ intact' = intact /\ failures' = failures
  BY DEF Link, compiler, mo_header_reserved_size
<1> HIDE DEF refused
<1>2. Typed /\ FilesMade /\ ExecutableMade /\ AllSaved
  BY DEF IInv
<1>3. /\ state'.linking_order = << >> /\ state'.constants = << >> /\ state'.symbols = << >>
      /\ state'.pools = << >>
      /\ state' = [linking_order |-> << >>, constants |-> << >>, symbols |-> << >>, pools |-> << >>]
  BY <1>1 DEF NothingRead
<1>4. Typed'
  <2>1. << >> \in Seq(Nat) /\ << >> \in Seq(ConstantsRead) /\ << >> \in Seq(SymbolsRead)
        /\ << >> \in Seq(Pools)
    OBVIOUS
  <2>2. /\ stage' \in {"nothing", "sections"} /\ outcome' \in {"none", "refused"}
        /\ stage' # "nothing" => outcome' = "none"
    BY <1>1
  <2> QED
    BY <1>1, <1>2, <1>3, <2>1, <2>2 DEF Typed
<1>5. FilesMade' /\ ExecutableMade'
  BY <1>1, <1>2, FilesStay, ExecutableStays
<1>6. AllSaved'
  <2>1. stage # "compiler" /\ stage' # "compiler"
    BY <1>1
  <2> QED
    BY <1>1, <1>2, <2>1, AllStaysSaved
<1>7. CodeIsRead'
  BY <1>1 DEF CodeIsRead
<1>8. MainIsRead'
  <2> SUFFICES ASSUME stage' = "sections"
               PROVE  /\ Main \in DOMAIN directory
                      /\ \E c \in Compilations :
                           /\ intact => c = compilation
                           /\ CutOf(directory[Main], MainObject(c)) /\ Reading(c)'
    BY <1>1 DEF MainIsRead, CutOf
  <2>1. Main \in DOMAIN directory
    BY <1>1 DEF refused
  <2>2. ASSUME NEW c \in Compilations
        PROVE  Reading(c)'
    <3>1. Len(c.order) \in Nat /\ Len(MainOf(c).constants) \in Nat /\ Len(MainOf(c).symbols) \in Nat
      BY CompilationIs, MainOfIs
    <3>2. /\ Begins(<< >>, c.order) /\ Begins(<< >>, MainOf(c).constants)
          /\ Begins(<< >>, MainOf(c).symbols)
      BY <3>1, NothingBegins
    <3>3. /\ Begins(state.linking_order, c.order)'
          /\ Begins(state.constants, MainOf(c).constants)'
          /\ Begins(state.symbols, MainOf(c).symbols)'
      BY <1>3, <3>2 DEF Begins, MainOf
    <3> QED
      BY <1>1, <1>3, <3>3 DEF Reading
  <2>3. CASE intact
    <3>1. directory[Main] = MainObject(compilation) /\ compilation \in Compilations
      BY <1>1, <1>2, <2>3 DEF AllSaved, Typed
    <3>2. CutOf(directory[Main], MainObject(compilation))
      BY <3>1, ObjectsAre DEF CutOf
    <3> QED
      BY <2>1, <2>2, <3>1, <3>2
  <2>4. CASE ~intact
    BY <1>2, <2>1, <2>2, <2>4 DEF FilesMade
  <2> QED
    BY <2>3, <2>4
<1>9. WholeCompilationLinks' /\ LinksWholeFiles'
  <2>1. CASE ~refused
    <3>1. outcome' = "none"
      BY <1>1, <2>1
    <3> QED
      BY <3>1, NoOutcome
  <2>2. CASE refused
    <3>1. ~intact
      <4> SUFFICES ASSUME intact
                   PROVE  FALSE
        OBVIOUS
      <4>1. /\ Main \in DOMAIN directory /\ directory[Main] = MainObject(compilation)
            /\ compilation \in Compilations
        BY <1>1, <1>2 DEF AllSaved, Typed
      <4>2. /\ CutOf(directory[Main], MainObject(compilation)) /\ 500 <= directory[Main].size
            /\ directory[Main].size \in Nat
        BY <4>1, ObjectsAre DEF CutOf
      <4>3. MainHas(compilation, 0, 5, "MSLMO")
        BY <4>1, MainPacked
      <4>4. Values(directory[Main], 0, 5) = {"MSLMO"}
        <5>1. ~(0 + 5 > directory[Main].size)
          BY <4>2
        <5> QED
          BY <4>2, <4>3, <5>1, MainValues
      <4> QED
        BY <2>2, <4>1, <4>2, <4>4 DEF refused
    <3>2. outcome' = "refused"
      BY <1>1, <2>2
    <3> QED
      BY <1>1, <3>1, <3>2 DEF WholeCompilationLinks, LinksWholeFiles
  <2> QED
    BY <2>1, <2>2
<1>10. LoadsWhatWasLinked'
  BY <1>1 DEF LoadsWhatWasLinked
<1> QED
  BY <1>4, <1>5, <1>6, <1>7, <1>8, <1>9, <1>10 DEF IInv

(* What is found of a main object is what was packed. *)
LEMMA FoundInMain ==
  ASSUME NEW c, NEW file, CutOf(file, MainObject(c)),
         NEW at \in Nat, NEW width \in Nat, NEW value, MainHas(c, at, width, value)
  PROVE  /\ \A v \in Values(file, at, width) : v = value
         /\ Values(file, at, width) = {} => at + width > file.size
<1>1. Values(file, at, width) = IF at + width > file.size THEN {} ELSE {value}
  BY MainValues
<1> QED
  BY <1>1

(* The linker goes on. *)
LEMMA LinkerGoesOn ==
  ASSUME IInv, stage \in {"sections", "modules"}, stage' \in {"sections", "modules"},
         UNCHANGED <<directory, compiler, outcome, written, loaded>>,
         Typed', MainIsRead', CodeIsRead'
  PROVE  IInv'
<1>1. /\ directory' = directory /\ written' = written /\ compilation' = compilation
      /\ intact' = intact /\ outcome' = outcome /\ loaded' = loaded
  BY DEF compiler
<1>2. Typed /\ FilesMade /\ ExecutableMade /\ AllSaved
  BY DEF IInv
<1>3. stage # "compiler" /\ stage' # "compiler" /\ outcome = "none" /\ loaded = << >>
  BY <1>2 DEF Typed
<1>4. FilesMade' /\ ExecutableMade' /\ AllSaved'
  BY <1>1, <1>2, <1>3, FilesStay, ExecutableStays, AllStaysSaved
<1>5. WholeCompilationLinks' /\ LinksWholeFiles' /\ LoadsWhatWasLinked'
  BY <1>1, <1>3, NoOutcome DEF LoadsWhatWasLinked
<1> QED
  BY <1>4, <1>5 DEF IInv

(* The linker ends without a result, which only happens when a file was    *)
(* not saved.                                                              *)
LEMMA LinkerEnds ==
  ASSUME IInv, stage \in {"sections", "modules"}, ~intact,
         NEW result \in {"refused", "astray"}, Ends(result)
  PROVE  IInv'
<1>1. /\ stage' = "nothing" /\ outcome' = result
      /\ directory' = directory /\ written' = written
      /\ compilation' = compilation /\ compilations' = compilations
      /\ intact' = intact /\ failures' = failures
      /\ loaded' = loaded /\ next' = next
      /\ section' = section /\ opened' = opened /\ offset' = offset /\ end' = end
      /\ state' = state
  BY DEF Ends, compiler, reader
<1>2. Typed /\ FilesMade /\ ExecutableMade /\ AllSaved
  BY DEF IInv
<1>3. stage # "compiler" /\ stage' # "compiler" /\ loaded = << >>
  BY <1>1, <1>2 DEF Typed
<1>4. Typed'
  BY <1>1, <1>2 DEF Typed
<1>5. FilesMade' /\ ExecutableMade' /\ AllSaved'
  BY <1>1, <1>2, <1>3, FilesStay, ExecutableStays, AllStaysSaved
<1>6. MainIsRead' /\ CodeIsRead'
  BY <1>1 DEF MainIsRead, CodeIsRead
<1>7. WholeCompilationLinks' /\ LinksWholeFiles' /\ LoadsWhatWasLinked'
  BY <1>1, <1>3 DEF WholeCompilationLinks, LinksWholeFiles, LoadsWhatWasLinked
<1> QED
  BY <1>4, <1>5, <1>6, <1>7 DEF IInv

(* The main object that is read, of an intact compilation as a whole.      *)
LEMMA MainOpened ==
  ASSUME IInv, stage = "sections"
  PROVE  /\ opened = Main
         /\ \E c \in Compilations :
              /\ CutOf(directory[Main], MainObject(c)) /\ Reading(c)
              /\ intact => c = compilation /\ directory[Main] = MainObject(c)
<1>1. /\ opened = Main
      /\ \E c \in Compilations : /\ intact => c = compilation
                                 /\ CutOf(directory[Main], MainObject(c)) /\ Reading(c)
  BY DEF IInv, MainIsRead
<1>2. intact => directory[Main] = MainObject(compilation)
  BY DEF IInv, AllSaved
<1> QED
  BY <1>1, <1>2

(* Each section fits into the file. *)
LEMMA SectionsFit ==
  ASSUME NEW c \in Compilations, NEW i \in 1 .. 4
  PROVE  53 + 17 * (i - 1) + 17 + Sizes(c)[i] <= MainObject(c).size
<1>1. /\ Len(c.order) \in 0 .. Len(c.order) /\ 0 \in 0 .. Len(c.order)
      /\ Len(c.constants) \in 0 .. Len(c.constants) /\ 0 \in 0 .. Len(c.constants)
      /\ Len(c.symbols) \in 0 .. Len(c.symbols) /\ 0 \in 0 .. Len(c.symbols)
  BY CompilationIs
<1> DEFINE o == OrderAt(0)
           a == OrderAt(Len(c.order))
           b == ConstantAt(c, 0)
           d == ConstantAt(c, Len(c.constants))
           e == SymbolAt(c, 0)
           f == SymbolAt(c, Len(c.symbols))
           S(j) == Sizes(c)[j]
<1>2. /\ o \in Nat /\ a \in Nat /\ b \in Nat /\ d \in Nat /\ e \in Nat /\ f \in Nat
      /\ 500 <= o /\ o + S(1) = a /\ b = a /\ b + S(2) = d /\ e = d /\ e + S(3) = f /\ S(4) = 100
      /\ \A j \in 1 .. 4 : S(j) \in Nat
  BY <1>1, SectionsLaid
<1>3. MainObject(c).size = f + 100
  BY ObjectsAre
<1> HIDE DEF o, a, b, d, e, f, S
<1>4. S(1) \in Nat /\ S(2) \in Nat /\ S(3) \in Nat
  BY <1>2
<1>5. \A j \in 1 .. 4 : j = 1 \/ j = 2 \/ j = 3 \/ j = 4
  OBVIOUS
<1>6. \A j \in 1 .. 4 : 500 + S(j) <= f + 100
  BY <1>2, <1>4, <1>5
<1>7. 500 + S(i) <= f + 100 /\ S(i) \in Nat /\ f \in Nat
  BY <1>2, <1>6
<1>8. 53 + 17 * (i - 1) + 17 <= 500
  OBVIOUS
<1>9. 53 + 17 * (i - 1) + 17 + S(i) <= f + 100
  BY <1>7, <1>8
<1> QED
  BY <1>3, <1>9 DEF S

(* The places of constants grow. *)
LEMMA ConstantPlacesGrow ==
  ASSUME NEW c \in Compilations, NEW n \in 0 .. Len(c.constants),
         ConstantAt(c, n) >= ConstantAt(c, Len(c.constants))
  PROVE  n = Len(c.constants)
<1> DEFINE k == Len(c.constants)
           Z == ConstantSizes(c)
           S(i) == SumOfFirst(Z, i)
<1>1. k \in Nat /\ DOMAIN c.constants = 1 .. k /\ \A i \in 1 .. k : c.constants[i].size \in Nat
  BY CompilationIs
<1>2. \A i \in 1 .. k : Z[i] = 16 + c.constants[i].size
  BY <1>1 DEF ConstantSizes
<1>3. \A i \in 1 .. k : Z[i] \in Nat /\ Z[i] > 0
  BY <1>1, <1>2
<1> HIDE DEF Z
<1>4. /\ \A i \in 0 .. k : S(i) \in Nat
      /\ \A i, j \in 0 .. k : i <= j => S(i) <= S(j)
  BY <1>1, <1>3, SumsGrow
<1>5. OrderAt(Len(c.order)) \in Nat
  <2>1. Len(c.order) \in 0 .. Len(c.order)
    BY CompilationIs
  <2> QED
    BY <2>1, SectionsLaid
<1>6. \A i : ConstantAt(c, i) = OrderAt(Len(c.order)) + S(i)
  BY DEF ConstantAt, Z
<1> SUFFICES ASSUME n # k
             PROVE  FALSE
  OBVIOUS
<1>7. n \in Nat /\ n + 1 \in 1 .. k /\ n + 1 \in 0 .. k /\ n \in 0 .. k /\ k \in 0 .. k /\ n + 1 <= k
  BY <1>1
<1>8. S(n + 1) = S(n) + Z[n + 1]
  BY <1>7, SumStep
<1>9. S(n) \in Nat /\ S(n + 1) \in Nat /\ S(k) \in Nat /\ S(n + 1) <= S(k)
      /\ Z[n + 1] \in Nat /\ Z[n + 1] > 0
  BY <1>3, <1>4, <1>7
<1> HIDE DEF S, k
<1>10. OrderAt(Len(c.order)) + S(n) >= OrderAt(Len(c.order)) + S(k)
  BY <1>6 DEF k
<1> QED
  BY <1>5, <1>8, <1>9, <1>10

(* The next section begins. *)
LEMMA ReadSectionInfoKeeps ==
  ASSUME IInv, ReadSectionInfo
  PROVE  IInv'
<1>1. stage = "sections" /\ AtSectionEnd /\ next <= 4
  BY DEF ReadSectionInfo
<1>2. Typed /\ next \in 1 .. 4
  BY <1>1, SMTT(30) DEF IInv, Typed
<1>3. opened = Main
  BY <1>1, MainOpened
<1>4. PICK c \in Compilations :
        /\ CutOf(directory[Main], MainObject(c)) /\ Reading(c)
        /\ intact => c = compilation /\ directory[Main] = MainObject(c)
  BY <1>1, MainOpened
<1> DEFINE h == 53 + 17 * (next - 1)
           file == directory[Main]
<1>5. h \in Nat /\ h + 1 \in Nat /\ h + 9 \in Nat /\ HeaderOffset = h /\ 1 \in Nat /\ 8 \in Nat
  BY <1>2 DEF HeaderOffset
<1> HIDE DEF h
<1> HIDE DEF file
<1>6. /\ Read(HeaderOffset, 1) = Values(file, h, 1)
      /\ Read(HeaderOffset + 1, 8) = Values(file, h + 1, 8)
      /\ Read(HeaderOffset + 9, 8) = Values(file, h + 9, 8)
      /\ HeaderOffset = h /\ Buffer = file
  BY <1>3, <1>5 DEF Read, Buffer, file
<1>7. PICK type \in Read(HeaderOffset, 1), section_offset \in Read(HeaderOffset + 1, 8),
           section_size \in Read(HeaderOffset + 9, 8) :
        IF HeaderOffset + 17 + section_size > Buffer.size THEN Ends("refused")
        ELSE /\ Linking("sections")
             /\ section' = type /\ offset' = section_offset
             /\ end' = section_offset + section_size
             /\ next' = next + 1 /\ UNCHANGED <<stage, state>>
  BY Zenon DEF ReadSectionInfo
<1>8. /\ type \in Values(file, h, 1) /\ section_offset \in Values(file, h + 1, 8)
      /\ section_size \in Values(file, h + 9, 8)
      /\ IF h + 17 + section_size > file.size THEN Ends("refused")
         ELSE /\ Linking("sections")
              /\ section' = type /\ offset' = section_offset
              /\ end' = section_offset + section_size
              /\ next' = next + 1 /\ UNCHANGED <<stage, state>>
  BY <1>6, <1>7
<1>9. /\ MainHas(c, h, 1, SectionTypes[next]) /\ MainHas(c, h + 1, 8, SectionAt(c, next))
      /\ MainHas(c, h + 9, 8, Sizes(c)[next])
  BY <1>2, MainPacked DEF h
<1>10. /\ type = SectionTypes[next] /\ section_offset = SectionAt(c, next)
       /\ section_size = Sizes(c)[next]
  <2>1. type = SectionTypes[next]
    BY <1>4, <1>5, <1>8, <1>9, FoundInMain DEF file
  <2>2. section_offset = SectionAt(c, next)
    BY <1>4, <1>5, <1>8, <1>9, FoundInMain DEF file
  <2>3. section_size = Sizes(c)[next]
    BY <1>4, <1>5, <1>8, <1>9, FoundInMain DEF file
  <2> QED
    BY <2>1, <2>2, <2>3
<1>11. CASE h + 17 + section_size > file.size
  <2>1. Ends("refused")
    BY <1>8, <1>11
  <2>2. ~intact
    <3> SUFFICES ASSUME intact
                 PROVE  FALSE
      OBVIOUS
    <3>1. file = MainObject(c)
      BY <1>4 DEF file
    <3>2. h + 17 + section_size <= MainObject(c).size
      BY <1>2, <1>10, SectionsFit DEF h
    <3>3. MainObject(c).size \in Nat
      BY ObjectsAre
    <3>4. section_size \in Nat
      BY <1>2, <1>10, SectionNumbers
    <3> QED
      BY <1>5, <1>11, <3>1, <3>2, <3>3, <3>4
  <2> QED
    BY <1>1, <2>1, <2>2, LinkerEnds
<1>12. CASE ~(h + 17 + section_size > file.size)
  <2>1. /\ section' = SectionTypes[next] /\ offset' = SectionAt(c, next)
        /\ end' = SectionAt(c, next) + Sizes(c)[next]
        /\ next' = next + 1 /\ stage' = stage /\ state' = state
        /\ UNCHANGED <<directory, compiler, opened, outcome, written, loaded>>
    BY <1>8, <1>10, <1>12 DEF Linking
  <2>2. /\ directory' = directory /\ opened' = opened /\ outcome' = outcome
        /\ loaded' = loaded
        /\ compilation' = compilation /\ compilations' = compilations
        /\ intact' = intact /\ failures' = failures
    BY <2>1 DEF compiler
  <2>3. Typed'
    <3>1. SectionAt(c, next) \in Nat /\ Sizes(c)[next] \in Nat
      BY <1>2, SectionNumbers
    <3>2. offset' \in Nat /\ end' \in Nat /\ next' \in Nat \ {0}
      BY <1>2, <2>1, <3>1
    <3>3. stage' # "compiler"
      BY <1>1, <2>1
    <3> QED
      BY <1>2, <2>1, <2>2, <3>2, <3>3 DEF Typed
  <2>4. CodeIsRead'
    BY <1>1, <2>1 DEF CodeIsRead
  <2>5. /\ Len(state.linking_order) \in Nat /\ Len(state.constants) \in Nat
        /\ Len(state.symbols) \in Nat
        /\ state.linking_order \in Seq(Nat) /\ state.constants \in Seq(ConstantsRead)
        /\ state.symbols \in Seq(SymbolsRead)
    BY <1>2, LenProperties DEF Typed
  <2>6. Len(c.order) \in Nat /\ Len(c.constants) \in Nat /\ Len(c.symbols) \in Nat
    BY CompilationIs
  <2>7. /\ Begins(state.linking_order, c.order)
        /\ Begins(state.constants, MainOf(c).constants)
        /\ Begins(state.symbols, MainOf(c).symbols) /\ state.pools = << >>
    BY <1>4 DEF Reading
  <2>8. /\ Begins(state.linking_order, c.order)'
        /\ Begins(state.constants, MainOf(c).constants)'
        /\ Begins(state.symbols, MainOf(c).symbols)' /\ state'.pools = << >>
    BY <2>1, <2>7 DEF Begins, MainOf
  <2>9. Reading(c)'
    <3>1. CASE next = 1
      <4>1. state.linking_order = << >> /\ state.constants = << >> /\ state.symbols = << >>
        BY <1>4, <3>1 DEF Reading, NothingRead
      <4>2. section' = "LINKING_ORDER" /\ next' = 2
        BY <2>1, <3>1 DEF SectionTypes
      <4>3. offset' = OrderAt(0) /\ end' = OrderAt(Len(c.order))
        BY <2>1, <3>1, SectionsLaid
      <4>4. Len(state.linking_order) = 0
        BY <4>1
      <4> QED
        BY <2>1, <2>8, <4>1, <4>2, <4>3, <4>4 DEF Reading
    <3>2. CASE next = 2
      <4>1. /\ section = "LINKING_ORDER" /\ state.constants = << >> /\ state.symbols = << >>
            /\ offset = OrderAt(Len(state.linking_order)) /\ end = OrderAt(Len(c.order))
        BY <1>4, <3>2 DEF Reading
      <4>2. section' = "CONSTANTS" /\ next' = 3
        BY <2>1, <3>2 DEF SectionTypes
      <4>3. offset' = ConstantAt(c, 0) /\ end' = ConstantAt(c, Len(c.constants))
        BY <2>1, <3>2, SectionsLaid
      <4>4. Len(state.linking_order) = Len(c.order)
        <5>1. offset >= end
          BY <1>1, <4>1 DEF AtSectionEnd, AtEnd
        <5>2. Len(state.linking_order) >= Len(c.order)
          BY <2>5, <2>6, <4>1, <5>1 DEF OrderAt, mo_header_reserved_size
        <5> QED
          BY <2>5, <2>6, <2>7, <5>2 DEF Begins
      <4>5. Len(state.constants) = 0
        BY <4>1
      <4> QED
        BY <2>1, <2>8, <4>1, <4>2, <4>3, <4>4, <4>5 DEF Reading
    <3>3. CASE next = 3
      <4>1. /\ section = "CONSTANTS" /\ state.symbols = << >>
            /\ Len(state.linking_order) = Len(c.order)
            /\ offset = ConstantAt(c, Len(state.constants))
            /\ end = ConstantAt(c, Len(c.constants))
        BY <1>4, <3>3 DEF Reading
      <4>2. section' = "SYMBOLS" /\ next' = 4
        BY <2>1, <3>3 DEF SectionTypes
      <4>3. offset' = SymbolAt(c, 0) /\ end' = SymbolAt(c, Len(c.symbols))
        BY <2>1, <3>3, SectionsLaid
      <4>4. Len(state.constants) = Len(c.constants)
        <5>1. offset >= end
          BY <1>1, <4>1 DEF AtSectionEnd, AtEnd
        <5>2. Len(state.constants) \in 0 .. Len(c.constants)
          <6>1. Len(MainOf(c).constants) = Len(c.constants)
            BY MainOfIs
          <6>2. Len(state.constants) <= Len(c.constants)
            BY <2>7, <6>1 DEF Begins
          <6> QED
            BY <2>5, <2>6, <6>2
        <5> QED
          BY <4>1, <5>1, <5>2, ConstantPlacesGrow
      <4>5. Len(state.symbols) = 0
        BY <4>1
      <4> QED
        BY <2>1, <2>8, <4>1, <4>2, <4>3, <4>4, <4>5 DEF Reading
    <3>4. CASE next = 4
      <4>1. /\ section = "SYMBOLS"
            /\ Len(state.linking_order) = Len(c.order)
            /\ Len(state.constants) = Len(c.constants)
            /\ offset = SymbolAt(c, Len(state.symbols)) /\ end = SymbolAt(c, Len(c.symbols))
        BY <1>4, <3>4 DEF Reading
      <4>2. section' = "DEBUG" /\ next' = 5
        BY <2>1, <3>4 DEF SectionTypes
      <4>3. Len(state.symbols) = Len(c.symbols)
        <5>1. offset >= end
          BY <1>1, <4>1 DEF AtSectionEnd, AtEnd
        <5> DEFINE x == ConstantAt(c, Len(c.constants))
        <5>2. x \in Nat
          <6>1. Len(c.constants) \in 0 .. Len(c.constants)
            BY <2>6
          <6> QED
            BY <6>1, SectionsLaid
        <5>3. offset = x + 19 * Len(state.symbols) /\ end = x + 19 * Len(c.symbols)
          BY <4>1 DEF SymbolAt
        <5> HIDE DEF x
        <5>4. ~(Len(state.symbols) < Len(c.symbols))
          BY <2>5, <2>6, <5>1, <5>2, <5>3
        <5>5. Len(state.symbols) <= Len(c.symbols)
          BY <2>7, MainOfIs DEF Begins
        <5> QED
          BY <2>5, <2>6, <5>4, <5>5
      <4>4. /\ state.linking_order = c.order /\ state.constants = MainOf(c).constants
            /\ state.symbols = MainOf(c).symbols
        <5>1. state.linking_order = c.order
          <6>1. c.order = [k \in 1 .. Len(c.order) |-> c.order[k]]
            BY MainOfIs
          <6>2. ~(Len(state.linking_order) < Len(c.order))
            BY <2>6, <4>1
          <6> QED
            BY <2>5, <2>6, <2>7, <6>1, <6>2, AllBegins
        <5>2. state.constants = MainOf(c).constants
          <6>1. MainOf(c).constants = [k \in 1 .. Len(c.constants) |-> MainOf(c).constants[k]]
            BY MainOfIs
          <6>2. ~(Len(state.constants) < Len(c.constants))
            BY <2>6, <4>1
          <6> QED
            BY <2>5, <2>6, <2>7, <6>1, <6>2, AllBegins
        <5>3. state.symbols = MainOf(c).symbols
          <6>1. MainOf(c).symbols = [k \in 1 .. Len(c.symbols) |-> MainOf(c).symbols[k]]
            BY MainOfIs
          <6>2. ~(Len(state.symbols) < Len(c.symbols))
            BY <2>6, <4>3
          <6> QED
            BY <2>5, <2>6, <2>7, <6>1, <6>2, AllBegins
        <5> QED
          BY <5>1, <5>2, <5>3
      <4>5. MainRead' = MainOf(c)
        BY <2>1, <4>4 DEF MainRead, MainOf
      <4> QED
        BY <2>8, <4>2, <4>5 DEF Reading
    <3> QED
      BY <1>2, <3>1, <3>2, <3>3, <3>4
  <2>10. MainIsRead'
    <3>1. Main \in DOMAIN directory
      BY <1>1 DEF IInv, MainIsRead
    <3> QED
      BY <1>3, <1>4, <2>2, <2>9, <3>1 DEF MainIsRead, CutOf
  <2> QED
    BY <1>1, <2>1, <2>3, <2>4, <2>10, LinkerGoesOn
<1> QED
  BY <1>11, <1>12

(* The parts of the linking state. *)
LEMMA StateIs ==
  ASSUME Typed, NEW x
  PROVE  /\ [state EXCEPT !.linking_order = x] =
              [linking_order |-> x, constants |-> state.constants,
               symbols |-> state.symbols, pools |-> state.pools]
         /\ [state EXCEPT !.constants = x] =
              [linking_order |-> state.linking_order, constants |-> x,
               symbols |-> state.symbols, pools |-> state.pools]
         /\ [state EXCEPT !.symbols = x] =
              [linking_order |-> state.linking_order, constants |-> state.constants,
               symbols |-> x, pools |-> state.pools]
         /\ [state EXCEPT !.pools = x] =
              [linking_order |-> state.linking_order, constants |-> state.constants,
               symbols |-> state.symbols, pools |-> x]
<1> DEFINE o == state.linking_order
           k == state.constants
           y == state.symbols
           p == state.pools
<1>1. state = [linking_order |-> o, constants |-> k, symbols |-> y, pools |-> p]
  BY DEF Typed
<1> HIDE DEF o, k, y, p
<1>2. /\ [state EXCEPT !.linking_order = x] =
           [linking_order |-> x, constants |-> k, symbols |-> y, pools |-> p]
      /\ [state EXCEPT !.constants = x] =
           [linking_order |-> o, constants |-> x, symbols |-> y, pools |-> p]
      /\ [state EXCEPT !.symbols = x] =
           [linking_order |-> o, constants |-> k, symbols |-> x, pools |-> p]
      /\ [state EXCEPT !.pools = x] =
           [linking_order |-> o, constants |-> k, symbols |-> y, pools |-> x]
  BY <1>1
<1> QED
  BY <1>2 DEF o, k, y, p

(* The linker goes on with the main object. *)
LEMMA SectionGoesOn ==
  ASSUME IInv, stage = "sections", stage' = stage,
         UNCHANGED <<directory, compiler, opened, outcome, written, loaded>>, Typed',
         NEW c \in Compilations, CutOf(directory[Main], MainObject(c)),
         intact => c = compilation, Reading(c)'
  PROVE  IInv'
<1>1. directory' = directory /\ intact' = intact /\ compilation' = compilation /\ opened' = opened
  BY DEF compiler
<1>2. opened = Main /\ Main \in DOMAIN directory
  BY DEF IInv, MainIsRead
<1>3. MainIsRead'
  BY <1>1, <1>2 DEF MainIsRead, CutOf
<1>4. CodeIsRead'
  BY DEF CodeIsRead
<1> QED
  BY <1>3, <1>4, LinkerGoesOn

(* An entry of the main object is read in its section. *)
LEMMA EntriesAre ==
  ASSUME IInv, NEW s \in {"LINKING_ORDER", "CONSTANTS", "SYMBOLS"}, Entries(s)
  PROVE  stage = "sections" /\ section = s /\ offset < end
<1>1. stage \in {"sections", "modules"} /\ section = s /\ ~(offset >= end)
  BY DEF Entries, AtEnd
<1>2. stage # "modules"
  BY <1>1 DEF IInv, CodeIsRead
<1>3. offset \in Nat /\ end \in Nat
  BY DEF IInv, Typed
<1> QED
  BY <1>1, <1>2, <1>3

(* Reading leaves the rest alone. *)
LEMMA ReadsIs ==
  ASSUME Typed, NEW size \in Nat, Reads(size)
  PROVE  /\ UNCHANGED <<directory, compiler, opened, outcome, written, loaded>>
         /\ stage' = stage /\ next' = next /\ section' = section /\ end' = end
         /\ offset' = offset + size /\ offset' \in Nat
         /\ compilation' = compilation /\ compilations' = compilations
         /\ intact' = intact /\ failures' = failures
         /\ outcome' = outcome /\ loaded' = loaded
<1>1. offset \in Nat
  BY DEF Typed
<1> QED
  BY <1>1 DEF Reads, Linking, compiler

(* What is read of the main object at the place of a field is its value,   *)
(* and it is there when the file is whole.                                 *)
LEMMA WhatIsRead ==
  ASSUME IInv, stage = "sections",
         NEW c \in Compilations, CutOf(directory[Main], MainObject(c)),
         NEW at \in Nat, NEW width \in Nat, NEW value, MainHas(c, at, width, value)
  PROVE  /\ \A v \in Read(at, width) : v = value
         /\ directory[Main] = MainObject(c) /\ at + width <= MainObject(c).size =>
              value \in Read(at, width)
<1>1. opened = Main
  BY MainOpened
<1>2. Read(at, width) = Values(directory[Main], at, width)
  BY <1>1 DEF Read, Buffer
<1>3. Values(directory[Main], at, width) =
        IF at + width > directory[Main].size THEN {} ELSE {value}
  BY MainValues
<1>4. MainObject(c).size \in Nat
  BY ObjectsAre
<1>5. at + width <= MainObject(c).size => ~(at + width > MainObject(c).size)
  BY <1>4
<1> QED
  BY <1>2, <1>3, <1>5

(* The next module of the linking order. *)
LEMMA NextModuleId ==
  ASSUME IInv, Entries("LINKING_ORDER"),
         NEW c \in Compilations, CutOf(directory[Main], MainObject(c)), Reading(c),
         NEW n, n = Len(state.linking_order)
  PROVE  /\ n \in Nat /\ n < Len(c.order) /\ offset = OrderAt(n)
         /\ \A m_id \in ModuleIds : m_id = c.order[n + 1]
         /\ directory[Main] = MainObject(c) => ModuleIds # {}
<1>1. stage = "sections" /\ section = "LINKING_ORDER" /\ offset < end
  BY EntriesAre
<1>2. n \in Nat
  BY LenProperties DEF IInv, Typed
<1>3. Len(c.order) \in Nat
  BY CompilationIs
<1>4. offset = OrderAt(n) /\ end = OrderAt(Len(c.order))
  BY <1>1 DEF Reading
<1>5. n < Len(c.order)
  BY <1>1, <1>2, <1>3, <1>4 DEF OrderAt, mo_header_reserved_size
<1>6. \A e \in 1 .. Len(c.order) : MainHas(c, OrderAt(e - 1), 2, c.order[e])
  BY MainPacked
<1>7. PICK e \in 1 .. Len(c.order) : e = n + 1 /\ e - 1 = n
  BY <1>2, <1>3, <1>5
<1>8. MainHas(c, OrderAt(n), 2, c.order[e])
  BY <1>6, <1>7
<1>9. OrderAt(n) \in Nat /\ 2 \in Nat /\ OrderAt(n) + 2 <= MainObject(c).size
  <2>1. OrderAt(n) \in Nat
    <3>1. n \in 0 .. Len(c.order)
      BY <1>2, <1>3, <1>5
    <3> QED
      BY <3>1, SectionsLaid, Zenon
  <2>2. /\ OrderAt(Len(c.order)) \in Nat
        /\ ConstantAt(c, Len(c.constants)) \in Nat
        /\ OrderAt(Len(c.order)) <= ConstantAt(c, Len(c.constants))
        /\ SymbolAt(c, Len(c.symbols)) \in Nat
        /\ ConstantAt(c, Len(c.constants)) <= SymbolAt(c, Len(c.symbols))
    BY SectionEnds
  <2>3. MainObject(c).size = SymbolAt(c, Len(c.symbols)) + 100
    BY ObjectsAre
  <2>4. OrderAt(n) < OrderAt(Len(c.order))
    BY <1>1, <1>4
  <2> QED
    BY <2>1, <2>2, <2>3, <2>4
<1>10. /\ \A v \in Read(OrderAt(n), 2) : v = c.order[e]
       /\ directory[Main] = MainObject(c) => c.order[e] \in Read(OrderAt(n), 2)
  BY <1>1, <1>8, <1>9, WhatIsRead
<1>11. ModuleIds = Read(OrderAt(n), 2)
  BY <1>4 DEF ModuleIds
<1> QED
  BY <1>2, <1>4, <1>5, <1>7, <1>10, <1>11

(* HandleLOSection. *)
LEMMA ReadModuleIdKeeps ==
  ASSUME IInv, ReadModuleId
  PROVE  IInv'
<1>1. stage = "sections" /\ section = "LINKING_ORDER" /\ offset < end
  BY EntriesAre DEF ReadModuleId
<1>2. PICK m_id \in ModuleIds :
        Reads(2) /\ state' = [state EXCEPT !.linking_order = Append(@, m_id)]
  BY DEF ReadModuleId
<1>3. PICK c \in Compilations :
        /\ CutOf(directory[Main], MainObject(c)) /\ Reading(c)
        /\ intact => c = compilation /\ directory[Main] = MainObject(c)
  BY <1>1, MainOpened
<1> DEFINE got == state.linking_order
           n == Len(got)
           v == c.order[n + 1]
<1>4. Typed
  BY DEF IInv
<1>5. got \in Seq(Nat) /\ n \in Nat
  BY <1>4, LenProperties DEF Typed
<1>6. Len(c.order) \in Nat /\ \A k \in 1 .. Len(c.order) : c.order[k] \in Nat
  BY CompilationIs
<1>7. /\ next = 2 /\ state.constants = << >> /\ state.symbols = << >> /\ state.pools = << >>
      /\ offset = OrderAt(n) /\ end = OrderAt(Len(c.order)) /\ Begins(got, c.order)
      /\ Begins(state.constants, MainOf(c).constants)
      /\ Begins(state.symbols, MainOf(c).symbols)
  BY <1>1, <1>3 DEF Reading
<1>8. /\ n < Len(c.order) /\ m_id = v
  BY <1>2, <1>3, NextModuleId DEF ReadModuleId
<1>9. v \in Nat
  <2>1. n + 1 \in 1 .. Len(c.order)
    BY <1>5, <1>6, <1>8
  <2> QED
    BY <1>6, <2>1
<1> HIDE DEF v
<1>10. /\ Begins(Append(got, m_id), c.order) /\ Append(got, m_id) \in Seq(Nat)
       /\ Len(Append(got, m_id)) = n + 1
  <2>1. m_id \in Nat /\ Begins(got, c.order) /\ Len(got) < Len(c.order)
    BY <1>7, <1>8, <1>9
  <2>2. m_id = c.order[Len(got) + 1]
    BY <1>8 DEF v
  <2> HIDE DEF got
  <2> QED
    BY <1>5, <1>6, <2>1, <2>2, OneMoreBegins DEF n
<1>11. state' = [linking_order |-> Append(got, m_id), constants |-> state.constants,
                 symbols |-> state.symbols, pools |-> state.pools]
  BY <1>2, <1>4, StateIs
<1> DEFINE more == Append(got, m_id)
<1> HIDE DEF more
<1>12. /\ state' = [linking_order |-> state'.linking_order, constants |-> state'.constants,
                    symbols |-> state'.symbols, pools |-> state'.pools]
       /\ state'.linking_order = more /\ state'.constants = state.constants
       /\ state'.symbols = state.symbols /\ state'.pools = state.pools
  BY <1>11 DEF more
<1>13. /\ UNCHANGED <<directory, compiler, opened, outcome, written, loaded>>
       /\ stage' = stage /\ next' = next /\ section' = section /\ end' = end
       /\ offset' = offset + 2 /\ offset' \in Nat
       /\ compilation' = compilation /\ compilations' = compilations
       /\ intact' = intact /\ failures' = failures
       /\ outcome' = outcome /\ loaded' = loaded
  <2>1. 2 \in Nat
    OBVIOUS
  <2> QED
    BY <1>2, <1>4, <2>1, ReadsIs
<1>14. Typed'
  <2>1. state'.linking_order \in Seq(Nat)
    BY <1>10, <1>12 DEF more
  <2> QED
    BY <1>1, <1>4, <1>12, <1>13, <2>1 DEF Typed
<1>15. Reading(c)'
  <2>1. Begins(state.linking_order, c.order)'
    BY <1>10, <1>12 DEF more, Begins
  <2>2. /\ Begins(state.constants, MainOf(c).constants)'
        /\ Begins(state.symbols, MainOf(c).symbols)'
    BY <1>7, <1>12 DEF Begins, MainOf
  <2>3. offset' = OrderAt(n + 1) /\ Len(state'.linking_order) = n + 1
    BY <1>5, <1>7, <1>10, <1>12, <1>13 DEF OrderAt, mo_header_reserved_size, more
  <2> QED
    BY <1>1, <1>7, <1>12, <1>13, <2>1, <2>2, <2>3 DEF Reading
<1> QED
  BY <1>1, <1>3, <1>13, <1>14, <1>15, SectionGoesOn

(* Constants and symbols lie one behind the other, inside the main object. *)
LEMMA PlacesInMain ==
  ASSUME NEW c \in Compilations
  PROVE  /\ \A e \in 1 .. Len(c.constants) :
              /\ ConstantAt(c, e - 1) \in Nat
              /\ ConstantAt(c, e) = ConstantAt(c, e - 1) + 16 + c.constants[e].size
              /\ ConstantAt(c, e) <= MainObject(c).size
         /\ \A e \in 1 .. Len(c.symbols) :
              /\ SymbolAt(c, e - 1) \in Nat
              /\ SymbolAt(c, e) = SymbolAt(c, e - 1) + 19
              /\ SymbolAt(c, e) <= MainObject(c).size
<1> DEFINE k == Len(c.constants)
           m == Len(c.symbols)
           Z == ConstantSizes(c)
           S(i) == SumOfFirst(Z, i)
           a == OrderAt(Len(c.order))
           b == ConstantAt(c, k)
           f == SymbolAt(c, m)
           s(e) == c.constants[e].size
<1>1. /\ k \in Nat /\ DOMAIN c.constants = 1 .. k /\ \A e \in 1 .. k : s(e) \in Nat
      /\ m \in Nat /\ Len(c.order) \in 0 .. Len(c.order)
  <2>1. /\ k \in Nat /\ DOMAIN c.constants = 1 .. k /\ m \in Nat /\ Len(c.order) \in Nat
        /\ \A e \in 1 .. k : c.constants[e].size \in Nat
    BY CompilationIs
  <2>2. Len(c.order) \in 0 .. Len(c.order)
    BY <2>1
  <2> QED
    BY <2>1, <2>2
<1>2. \A e \in 1 .. k : Z[e] = 16 + s(e)
  BY <1>1 DEF ConstantSizes
<1>3. \A e \in 1 .. k : Z[e] \in Nat
  BY <1>1, <1>2
<1>4. k \in 0 .. k /\ m \in 0 .. m
  BY <1>1
<1>5. a \in Nat /\ b \in Nat /\ f \in Nat /\ b <= f
  BY <1>1, <1>4, SectionsLaid
<1>6. MainObject(c).size = f + 100
  BY ObjectsAre
<1>7. \A e : SymbolAt(c, e) = b + 19 * e
  BY DEF SymbolAt
<1>8. \A e : ConstantAt(c, e) = a + S(e)
  BY DEF ConstantAt
<1> HIDE DEF a, b, f, k, m, Z, s
<1>9. /\ \A e \in 0 .. k : S(e) \in Nat
      /\ \A d, e \in 0 .. k : d <= e => S(d) <= S(e)
  BY <1>1, <1>3, SumsGrow
<1>10. \A e \in Nat : S(e + 1) = S(e) + Z[e + 1]
  BY SumStep
<1>11. b = a + S(k) /\ f = b + 19 * m
  BY <1>7, <1>8 DEF b, f
<1> HIDE DEF S
<1>12. ASSUME NEW e \in 1 .. k
       PROVE  /\ ConstantAt(c, e - 1) \in Nat
              /\ ConstantAt(c, e) = ConstantAt(c, e - 1) + 16 + s(e)
              /\ ConstantAt(c, e) <= MainObject(c).size
  <2> DEFINE d == e - 1
  <2>1. d \in Nat /\ d + 1 = e /\ d \in 0 .. k /\ e \in 0 .. k /\ k \in 0 .. k /\ e <= k
    BY <1>1
  <2> HIDE DEF d
  <2>2. S(e) = S(d) + Z[e]
    BY <1>10, <2>1
  <2>3. S(d) \in Nat /\ S(e) \in Nat /\ S(k) \in Nat /\ S(e) <= S(k)
    BY <1>9, <2>1
  <2>4. Z[e] = 16 + s(e) /\ s(e) \in Nat
    BY <1>1, <1>2
  <2>5. ConstantAt(c, d) = a + S(d) /\ ConstantAt(c, e) = a + S(e)
    BY <1>8
  <2>6. ConstantAt(c, d) \in Nat /\ ConstantAt(c, e) = ConstantAt(c, d) + 16 + s(e)
    BY <1>5, <2>2, <2>3, <2>4, <2>5
  <2>7. ConstantAt(c, e) <= f + 100
    BY <1>5, <1>11, <2>3, <2>5
  <2> QED
    BY <1>6, <2>6, <2>7 DEF d
<1>13. ASSUME NEW e \in 1 .. m
       PROVE  /\ SymbolAt(c, e - 1) \in Nat
              /\ SymbolAt(c, e) = SymbolAt(c, e - 1) + 19
              /\ SymbolAt(c, e) <= MainObject(c).size
  <2>1. SymbolAt(c, e) = b + 19 * e /\ SymbolAt(c, e - 1) = b + 19 * (e - 1)
    BY <1>7
  <2>2. SymbolAt(c, e) <= f + 100
    BY <1>1, <1>5, <1>11, <2>1, SMTT(30)
  <2> QED
    BY <1>1, <1>5, <1>6, <2>1, <2>2
<1> QED
  BY <1>12, <1>13 DEF k, m, s

(* The next constant. *)
LEMMA NextConstant ==
  ASSUME IInv, Entries("CONSTANTS"),
         NEW c \in Compilations, CutOf(directory[Main], MainObject(c)), Reading(c),
         NEW n, n = Len(state.constants)
  PROVE  /\ n \in Nat /\ n < Len(c.constants)
         /\ offset + 16 + c.constants[n + 1].size = ConstantAt(c, n + 1)
         /\ \A constant \in Constants : constant = MainOf(c).constants[n + 1]
         /\ directory[Main] = MainObject(c) => Constants # {}
<1>1. stage = "sections" /\ section = "CONSTANTS" /\ offset < end
  BY EntriesAre
<1>2. n \in Nat
  BY LenProperties DEF IInv, Typed
<1>3. Len(c.constants) \in Nat
  BY CompilationIs
<1>4. /\ offset = ConstantAt(c, n) /\ end = ConstantAt(c, Len(c.constants))
      /\ n <= Len(c.constants)
  BY <1>1, MainOfIs DEF Reading, Begins
<1>5. offset \in Nat /\ end \in Nat
  BY DEF IInv, Typed
<1>6. n < Len(c.constants)
  <2>1. n # Len(c.constants)
    BY <1>1, <1>4, <1>5
  <2> QED
    BY <1>2, <1>3, <1>4, <2>1
<1>7. PICK e \in 1 .. Len(c.constants) : e = n + 1 /\ e - 1 = n
  BY <1>2, <1>3, <1>6
<1> DEFINE s == c.constants[e].size
           d == c.constants[e].data
           file == directory[Main]
<1>8. s \in Nat /\ d \in Data
  BY CompilationIs
<1>9. /\ MainHas(c, offset, 8, n) /\ MainHas(c, offset + 8, 8, s)
      /\ MainHas(c, offset + 16, s, d)
  <2>1. /\ MainHas(c, ConstantAt(c, e - 1), 8, e - 1)
        /\ MainHas(c, ConstantAt(c, e - 1) + 8, 8, s)
        /\ MainHas(c, ConstantAt(c, e - 1) + 16, s, d)
    BY MainPacked
  <2> QED
    BY <1>4, <1>7, <2>1
<1>10. offset + 16 + s = ConstantAt(c, e) /\ offset + 16 + s <= MainObject(c).size
       /\ MainObject(c).size \in Nat
  <2>1. /\ ConstantAt(c, e) = ConstantAt(c, e - 1) + 16 + s
        /\ ConstantAt(c, e) <= MainObject(c).size
    BY PlacesInMain
  <2>2. ConstantAt(c, e - 1) = offset
    BY <1>4, <1>7
  <2> QED
    BY <2>1, <2>2, ObjectsAre
<1>11. MainOf(c).constants[e] = [id |-> n, size |-> s, data |-> d]
  <2>1. MainOf(c).constants[e] = [id |-> e - 1, size |-> s, data |-> d]
    BY MainOfIs
  <2> QED
    BY <1>7, <2>1
<1> HIDE DEF s, d
<1>12. /\ offset + 8 \in Nat /\ offset + 16 \in Nat /\ 8 \in Nat /\ 16 \in Nat
       /\ offset + 8 <= MainObject(c).size /\ offset + 8 + 8 <= MainObject(c).size
  BY <1>5, <1>8, <1>10
<1>13. /\ \A v \in Read(offset, 8) : v = n
       /\ directory[Main] = MainObject(c) => n \in Read(offset, 8)
  BY <1>1, <1>5, <1>9, <1>12, WhatIsRead
<1>14. /\ \A v \in Read(offset + 8, 8) : v = s
       /\ directory[Main] = MainObject(c) => s \in Read(offset + 8, 8)
  BY <1>1, <1>9, <1>12, WhatIsRead
<1>15. /\ \A v \in Read(offset + 16, s) : v = d
       /\ directory[Main] = MainObject(c) => d \in Read(offset + 16, s)
  BY <1>1, <1>8, <1>9, <1>10, <1>12, WhatIsRead
<1>16. \A constant \in Constants : constant = MainOf(c).constants[e]
  <2> SUFFICES ASSUME NEW constant \in Constants
               PROVE  constant = [id |-> n, size |-> s, data |-> d]
    BY <1>11
  <2>1. PICK size \in Read(offset + 8, 8) :
          constant \in {[id |-> c_id, size |-> size, data |-> data] :
                          c_id \in Read(offset, 8), data \in Read(offset + 16, size)}
    BY DEF Constants
  <2>2. size = s
    BY <1>14
  <2>3. PICK c_id \in Read(offset, 8), data \in Read(offset + 16, s) :
          constant = [id |-> c_id, size |-> s, data |-> data]
    BY <2>1, <2>2
  <2> QED
    BY <1>13, <1>15, <2>3
<1>17. ASSUME directory[Main] = MainObject(c)
       PROVE  Constants # {}
  <2>1. n \in Read(offset, 8) /\ s \in Read(offset + 8, 8) /\ d \in Read(offset + 16, s)
    BY <1>13, <1>14, <1>15, <1>17
  <2> DEFINE Of(size) == {[id |-> c_id, size |-> size, data |-> data] :
                            c_id \in Read(offset, 8), data \in Read(offset + 16, size)}
  <2>2. Constants = UNION {Of(size) : size \in Read(offset + 8, 8)}
    BY DEF Constants
  <2>3. [id |-> n, size |-> s, data |-> d] \in Of(s)
    BY <2>1
  <2> HIDE DEF Of
  <2>4. Of(s) \subseteq Constants
    BY <2>1, <2>2
  <2> QED
    BY <2>3, <2>4
<1> QED
  BY <1>2, <1>6, <1>7, <1>10, <1>16, <1>17 DEF s

(* HandleConstantsSection. *)
LEMMA ReadConstantKeeps ==
  ASSUME IInv, ReadConstant
  PROVE  IInv'
<1>1. stage = "sections" /\ section = "CONSTANTS" /\ offset < end
  BY EntriesAre DEF ReadConstant
<1>2. PICK constant \in Constants :
        /\ Reads(16 + constant.size)
        /\ state' = [state EXCEPT !.constants = Append(@, constant)]
  BY DEF ReadConstant
<1>3. PICK c \in Compilations :
        /\ CutOf(directory[Main], MainObject(c)) /\ Reading(c)
        /\ intact => c = compilation /\ directory[Main] = MainObject(c)
  BY <1>1, MainOpened
<1> DEFINE got == state.constants
           all == MainOf(c).constants
           n == Len(got)
           size == c.constants[n + 1].size
<1>4. Typed
  BY DEF IInv
<1>5. got \in Seq(ConstantsRead) /\ offset \in Nat
  BY <1>4 DEF Typed
<1>6. /\ Len(all) = Len(c.constants) /\ Len(all) \in Nat
      /\ \A e \in 1 .. Len(c.constants) :
           /\ all[e] \in ConstantsRead /\ c.constants[e].size \in Nat
           /\ all[e] = [id |-> e - 1, size |-> c.constants[e].size,
                        data |-> c.constants[e].data]
  BY CompilationIs, MainOfIs
<1>7. /\ next = 3 /\ Len(state.linking_order) = Len(c.order)
      /\ state.symbols = << >> /\ state.pools = << >>
      /\ end = ConstantAt(c, Len(c.constants))
      /\ Begins(state.linking_order, c.order) /\ Begins(got, all)
      /\ Begins(state.symbols, MainOf(c).symbols)
  BY <1>1, <1>3 DEF Reading
<1>8. /\ n \in Nat /\ n < Len(c.constants) /\ offset + 16 + size = ConstantAt(c, n + 1)
      /\ constant = all[n + 1]
  BY <1>2, <1>3, NextConstant DEF ReadConstant
<1> HIDE DEF all, got
<1>9. constant \in ConstantsRead /\ constant.size = size /\ size \in Nat
  <2>1. n + 1 \in 1 .. Len(c.constants)
    BY <1>6, <1>8
  <2>2. /\ all[n + 1] \in ConstantsRead /\ size \in Nat
        /\ all[n + 1] = [id |-> n + 1 - 1, size |-> size, data |-> c.constants[n + 1].data]
    BY <1>6, <2>1
  <2> QED
    BY <1>8, <2>2
<1> HIDE DEF size
<1>10. /\ Begins(Append(got, constant), all) /\ Append(got, constant) \in Seq(ConstantsRead)
       /\ Len(Append(got, constant)) = n + 1
  BY <1>5, <1>6, <1>7, <1>8, <1>9, OneMoreBegins
<1>11. state' = [linking_order |-> state.linking_order, constants |-> Append(got, constant),
                 symbols |-> state.symbols, pools |-> state.pools]
  <2>1. state' = [state EXCEPT !.constants = Append(got, constant)]
    BY <1>2 DEF got
  <2> QED
    BY <1>4, <2>1, StateIs
<1> DEFINE more == Append(got, constant)
<1> HIDE DEF more
<1>12. /\ state' = [linking_order |-> state'.linking_order, constants |-> state'.constants,
                    symbols |-> state'.symbols, pools |-> state'.pools]
       /\ state'.linking_order = state.linking_order /\ state'.constants = more
       /\ state'.symbols = state.symbols /\ state'.pools = state.pools
  BY <1>11 DEF more
<1>13. /\ UNCHANGED <<directory, compiler, opened, outcome, written, loaded>>
       /\ stage' = stage /\ next' = next /\ section' = section /\ end' = end
       /\ offset' = ConstantAt(c, n + 1) /\ offset' \in Nat
       /\ compilation' = compilation /\ compilations' = compilations
       /\ intact' = intact /\ failures' = failures
       /\ outcome' = outcome /\ loaded' = loaded
  <2> DEFINE step == 16 + size
  <2>1. step \in Nat /\ Reads(step) /\ offset + step = offset + 16 + size
    BY <1>2, <1>5, <1>9
  <2> HIDE DEF step
  <2>2. /\ UNCHANGED <<directory, compiler, opened, outcome, written, loaded>>
        /\ stage' = stage /\ next' = next /\ section' = section /\ end' = end
        /\ offset' = offset + step /\ offset' \in Nat
        /\ compilation' = compilation /\ compilations' = compilations
        /\ intact' = intact /\ failures' = failures
        /\ outcome' = outcome /\ loaded' = loaded
    BY <1>4, <2>1, ReadsIs
  <2> QED
    BY <1>8, <2>1, <2>2
<1>14. Typed'
  <2>1. state'.constants \in Seq(ConstantsRead)
    BY <1>10, <1>12 DEF more
  <2> QED
    BY <1>1, <1>4, <1>12, <1>13, <2>1 DEF Typed
<1>15. Reading(c)'
  <2>1. Begins(state.constants, MainOf(c).constants)'
    BY <1>10, <1>12 DEF more, Begins, MainOf, all
  <2>2. /\ Begins(state.linking_order, c.order)'
        /\ Begins(state.symbols, MainOf(c).symbols)'
    BY <1>7, <1>12 DEF Begins, MainOf
  <2>3. offset' = ConstantAt(c, Len(state'.constants)) /\ end' = ConstantAt(c, Len(c.constants))
    BY <1>7, <1>10, <1>12, <1>13 DEF more
  <2> QED
    BY <1>1, <1>7, <1>12, <1>13, <2>1, <2>2, <2>3 DEF Reading
<1> QED
  BY <1>1, <1>3, <1>13, <1>14, <1>15, SectionGoesOn

(* The next symbol. *)
LEMMA NextSymbol ==
  ASSUME IInv, Entries("SYMBOLS"),
         NEW c \in Compilations, CutOf(directory[Main], MainObject(c)), Reading(c),
         NEW n, n = Len(state.symbols)
  PROVE  /\ n \in Nat /\ n < Len(c.symbols) /\ offset + 19 = SymbolAt(c, n + 1)
         /\ \A symbol \in Symbols : symbol = MainOf(c).symbols[n + 1]
         /\ directory[Main] = MainObject(c) => Symbols # {}
<1>1. stage = "sections" /\ section = "SYMBOLS" /\ offset < end
  BY EntriesAre
<1>2. n \in Nat
  BY LenProperties DEF IInv, Typed
<1>3. Len(c.symbols) \in Nat
  BY CompilationIs
<1>4. /\ offset = SymbolAt(c, n) /\ end = SymbolAt(c, Len(c.symbols))
      /\ n <= Len(c.symbols)
  BY <1>1, MainOfIs DEF Reading, Begins
<1>5. offset \in Nat /\ end \in Nat
  BY DEF IInv, Typed
<1>6. n < Len(c.symbols)
  <2>1. n # Len(c.symbols)
    BY <1>1, <1>4, <1>5
  <2> QED
    BY <1>2, <1>3, <1>4, <2>1
<1>7. PICK e \in 1 .. Len(c.symbols) : e = n + 1 /\ e - 1 = n
  BY <1>2, <1>3, <1>6
<1> DEFINE o == c.symbols[e].offset
           m == c.symbols[e].module
<1>8. /\ MainHas(c, offset, 8, n) /\ MainHas(c, offset + 8, 8, o)
      /\ MainHas(c, offset + 16, 2, m) /\ MainHas(c, offset + 18, 1, Variable)
  <2>1. /\ MainHas(c, SymbolAt(c, e - 1), 8, e - 1)
        /\ MainHas(c, SymbolAt(c, e - 1) + 8, 8, o)
        /\ MainHas(c, SymbolAt(c, e - 1) + 16, 2, m)
        /\ MainHas(c, SymbolAt(c, e - 1) + 18, 1, Variable)
    BY MainPacked
  <2> QED
    BY <1>4, <1>7, <2>1
<1>9. offset + 19 = SymbolAt(c, e) /\ offset + 19 <= MainObject(c).size
      /\ MainObject(c).size \in Nat
  <2>1. SymbolAt(c, e) = SymbolAt(c, e - 1) + 19 /\ SymbolAt(c, e) <= MainObject(c).size
    BY PlacesInMain
  <2>2. SymbolAt(c, e - 1) = offset
    BY <1>4, <1>7
  <2> QED
    BY <2>1, <2>2, ObjectsAre
<1>10. MainOf(c).symbols[e] = [id |-> n, offset |-> o, module |-> m, type |-> Variable]
  <2>1. MainOf(c).symbols[e] = [id |-> e - 1, offset |-> o, module |-> m, type |-> Variable]
    BY MainOfIs
  <2> QED
    BY <1>7, <2>1
<1> HIDE DEF o, m
<1>11. /\ offset + 8 \in Nat /\ offset + 16 \in Nat /\ offset + 18 \in Nat
       /\ 1 \in Nat /\ 2 \in Nat /\ 8 \in Nat
       /\ offset + 8 <= MainObject(c).size /\ offset + 8 + 8 <= MainObject(c).size
       /\ offset + 16 + 2 <= MainObject(c).size /\ offset + 18 + 1 <= MainObject(c).size
  BY <1>5, <1>9
<1>12. /\ \A v \in Read(offset, 8) : v = n
       /\ directory[Main] = MainObject(c) => n \in Read(offset, 8)
  <2> DEFINE w == 8
  <2>1. /\ MainHas(c, offset, w, n) /\ offset \in Nat /\ w \in Nat
        /\ offset + w <= MainObject(c).size
    BY <1>5, <1>8, <1>11
  <2> HIDE DEF w
  <2>2. /\ \A v \in Read(offset, w) : v = n
        /\ directory[Main] = MainObject(c) => n \in Read(offset, w)
    BY <1>1, <2>1, WhatIsRead
  <2> QED
    BY <2>2 DEF w
<1>13. /\ \A v \in Read(offset + 8, 8) : v = o
       /\ directory[Main] = MainObject(c) => o \in Read(offset + 8, 8)
  BY <1>1, <1>8, <1>11, WhatIsRead
<1>14. /\ \A v \in Read(offset + 16, 2) : v = m
       /\ directory[Main] = MainObject(c) => m \in Read(offset + 16, 2)
  BY <1>1, <1>8, <1>11, WhatIsRead
<1>15. /\ \A v \in Read(offset + 18, 1) : v = Variable
       /\ directory[Main] = MainObject(c) => Variable \in Read(offset + 18, 1)
  BY <1>1, <1>8, <1>11, WhatIsRead
<1>16. \A symbol \in Symbols : symbol = MainOf(c).symbols[e]
  <2> SUFFICES ASSUME NEW symbol \in Symbols
               PROVE  symbol = [id |-> n, offset |-> o, module |-> m, type |-> Variable]
    BY <1>10
  <2>1. PICK s_id \in Read(offset, 8), place \in Read(offset + 8, 8),
             module \in Read(offset + 16, 2), type \in Read(offset + 18, 1) :
          symbol = [id |-> s_id, offset |-> place, module |-> module, type |-> type]
    BY DEF Symbols
  <2> QED
    BY <1>12, <1>13, <1>14, <1>15, <2>1
<1>17. ASSUME directory[Main] = MainObject(c)
       PROVE  Symbols # {}
  <2>1. n \in Read(offset, 8) /\ o \in Read(offset + 8, 8) /\ m \in Read(offset + 16, 2)
        /\ Variable \in Read(offset + 18, 1)
    BY <1>12, <1>13, <1>14, <1>15, <1>17
  <2>2. [id |-> n, offset |-> o, module |-> m, type |-> Variable] \in Symbols
    BY <2>1 DEF Symbols
  <2> QED
    BY <2>2
<1> QED
  BY <1>2, <1>6, <1>7, <1>9, <1>16, <1>17

(* HandleSymbolSection. *)
LEMMA ReadSymbolKeeps ==
  ASSUME IInv, ReadSymbol
  PROVE  IInv'
<1>1. stage = "sections" /\ section = "SYMBOLS" /\ offset < end
  BY EntriesAre DEF ReadSymbol
<1>2. PICK symbol \in Symbols :
        Reads(19) /\ state' = [state EXCEPT !.symbols = Append(@, symbol)]
  BY DEF ReadSymbol
<1>3. PICK c \in Compilations :
        /\ CutOf(directory[Main], MainObject(c)) /\ Reading(c)
        /\ intact => c = compilation /\ directory[Main] = MainObject(c)
  BY <1>1, MainOpened
<1> DEFINE got == state.symbols
           all == MainOf(c).symbols
           n == Len(got)
<1>4. Typed
  BY DEF IInv
<1>5. got \in Seq(SymbolsRead) /\ offset \in Nat
  BY <1>4 DEF Typed
<1>6. /\ Len(all) = Len(c.symbols) /\ Len(all) \in Nat
      /\ \A e \in 1 .. Len(c.symbols) : all[e] \in SymbolsRead
  BY CompilationIs, MainOfIs
<1>7. /\ next = 4 /\ Len(state.linking_order) = Len(c.order)
      /\ Len(state.constants) = Len(c.constants) /\ state.pools = << >>
      /\ end = SymbolAt(c, Len(c.symbols))
      /\ Begins(state.linking_order, c.order) /\ Begins(got, all)
      /\ Begins(state.constants, MainOf(c).constants)
  BY <1>1, <1>3 DEF Reading
<1>8. /\ n \in Nat /\ n < Len(c.symbols) /\ offset + 19 = SymbolAt(c, n + 1)
      /\ symbol = all[n + 1]
  BY <1>2, <1>3, NextSymbol DEF ReadSymbol
<1> HIDE DEF all, got
<1>9. symbol \in SymbolsRead
  <2>1. n + 1 \in 1 .. Len(c.symbols)
    BY <1>6, <1>8
  <2> QED
    BY <1>6, <1>8, <2>1
<1>10. /\ Begins(Append(got, symbol), all) /\ Append(got, symbol) \in Seq(SymbolsRead)
       /\ Len(Append(got, symbol)) = n + 1
  BY <1>5, <1>6, <1>7, <1>8, <1>9, OneMoreBegins
<1>11. state' = [linking_order |-> state.linking_order, constants |-> state.constants,
                 symbols |-> Append(got, symbol), pools |-> state.pools]
  <2>1. state' = [state EXCEPT !.symbols = Append(got, symbol)]
    BY <1>2 DEF got
  <2> QED
    BY <1>4, <2>1, StateIs
<1> DEFINE more == Append(got, symbol)
<1> HIDE DEF more
<1>12. /\ state' = [linking_order |-> state'.linking_order, constants |-> state'.constants,
                    symbols |-> state'.symbols, pools |-> state'.pools]
       /\ state'.linking_order = state.linking_order /\ state'.constants = state.constants
       /\ state'.symbols = more /\ state'.pools = state.pools
  BY <1>11 DEF more
<1>13. /\ UNCHANGED <<directory, compiler, opened, outcome, written, loaded>>
       /\ stage' = stage /\ next' = next /\ section' = section /\ end' = end
       /\ offset' = SymbolAt(c, n + 1) /\ offset' \in Nat
       /\ compilation' = compilation /\ compilations' = compilations
       /\ intact' = intact /\ failures' = failures
       /\ outcome' = outcome /\ loaded' = loaded
  <2> DEFINE step == 19
  <2>1. step \in Nat /\ Reads(step) /\ offset + step = SymbolAt(c, n + 1)
    BY <1>2, <1>8
  <2> HIDE DEF step
  <2>2. /\ UNCHANGED <<directory, compiler, opened, outcome, written, loaded>>
        /\ stage' = stage /\ next' = next /\ section' = section /\ end' = end
        /\ offset' = offset + step /\ offset' \in Nat
        /\ compilation' = compilation /\ compilations' = compilations
        /\ intact' = intact /\ failures' = failures
        /\ outcome' = outcome /\ loaded' = loaded
    BY <1>4, <2>1, ReadsIs
  <2> QED
    BY <2>1, <2>2
<1>14. Typed'
  <2>1. state'.symbols \in Seq(SymbolsRead)
    BY <1>10, <1>12 DEF more
  <2> QED
    BY <1>1, <1>4, <1>12, <1>13, <2>1 DEF Typed
<1>15. Reading(c)'
  <2>1. Begins(state.symbols, MainOf(c).symbols)'
    BY <1>10, <1>12 DEF more, Begins, MainOf, all
  <2>2. /\ Begins(state.linking_order, c.order)'
        /\ Begins(state.constants, MainOf(c).constants)'
    BY <1>7, <1>12 DEF Begins, MainOf
  <2>3. offset' = SymbolAt(c, Len(state'.symbols)) /\ end' = SymbolAt(c, Len(c.symbols))
    BY <1>7, <1>10, <1>12, <1>13 DEF more
  <2> QED
    BY <1>1, <1>7, <1>12, <1>13, <2>1, <2>2, <2>3 DEF Reading
<1> QED
  BY <1>1, <1>3, <1>13, <1>14, <1>15, SectionGoesOn

(* The main object has been read. *)
LEMMA BeginModulesKeeps ==
  ASSUME IInv, BeginModules
  PROVE  IInv'
<1>1. /\ stage = "sections" /\ next > 4
      /\ stage' = "modules" /\ next' = 1 /\ section' = "none"
      /\ offset' = offset /\ end' = end /\ state' = state /\ opened' = opened
      /\ UNCHANGED <<directory, compiler, outcome, written, loaded>>
  BY DEF BeginModules, Linking
<1>2. /\ directory' = directory /\ outcome' = outcome /\ loaded' = loaded
      /\ compilation' = compilation /\ compilations' = compilations
      /\ intact' = intact /\ failures' = failures
  BY <1>1 DEF compiler
<1>3. Typed
  BY DEF IInv
<1>4. PICK c \in Compilations :
        /\ Reading(c)
        /\ intact => c = compilation
  BY <1>1, MainOpened
<1>5. MainRead = MainOf(c) /\ state.pools = << >>
  BY <1>1, <1>4 DEF Reading
<1>6. Typed'
  BY <1>1, <1>2, <1>3 DEF Typed
<1>7. MainIsRead'
  BY <1>1 DEF MainIsRead
<1>8. CodeIsRead'
  <2>1. MainWasRead'
    <3>1. (MainRead = MainOf(c))'
      BY <1>1, <1>5 DEF MainRead, MainOf
    <3> QED
      BY <1>2, <1>4, <3>1 DEF MainWasRead
  <2>2. Len(state'.linking_order) \in Nat /\ Len(state'.pools) = 0
    BY <1>1, <1>3, <1>5 DEF Typed
  <2>3. next' <= Len(state'.linking_order) + 1 /\ \A n \in 1 .. next' - 1 : PoolRead(n)'
    BY <1>1, <2>2
  <2>4. opened' \in DOMAIN directory'
    BY <1>1, <1>2, MainOpened DEF IInv, MainIsRead
  <2> QED
    BY <1>1, <2>1, <2>2, <2>3, <2>4 DEF CodeIsRead
<1> QED
  BY <1>1, <1>6, <1>7, <1>8, LinkerGoesOn

-----------------------------------------------------------------------------
(* The linker reads the code objects.                                      *)

(* The module that is next is that of a code object, of an intact          *)
(* compilation of the one that it packed.                                  *)
LEMMA ModuleIs ==
  ASSUME IInv, stage = "modules", next <= Len(state.linking_order),
         NEW id, id = state.linking_order[next]
  PROVE  /\ id \in Nat
         /\ intact => Module(id) \in DOMAIN directory
         /\ Module(id) \in DOMAIN directory =>
              \E c \in Compilations : \E k \in 1 .. Len(c.order) :
                /\ IsCodeOf(id, c, k)
                /\ intact => /\ c = compilation /\ k = next
                             /\ directory[Module(id)] = CodeObject(c, k)
<1>1. Typed /\ FilesMade /\ AllSaved /\ CodeIsRead
  BY DEF IInv
<1>2. /\ state.linking_order \in Seq(Nat) /\ next \in Nat \ {0}
      /\ compilation \in Compilations
  BY <1>1 DEF Typed
<1>3. next \in 1 .. Len(state.linking_order) /\ next \in DOMAIN state.linking_order
  BY <1>2
<1>4. id \in Nat
  BY <1>2, <1>3
<1>5. ASSUME intact
      PROVE  /\ Module(id) \in DOMAIN directory /\ next \in 1 .. Len(compilation.order)
             /\ IsCodeOf(id, compilation, next)
             /\ directory[Module(id)] = CodeObject(compilation, next)
  <2>1. PICK c \in Compilations :
          /\ MainRead = MainOf(c)
          /\ intact => c = compilation
    BY <1>1 DEF CodeIsRead, MainWasRead
  <2>2. MainRead = MainOf(compilation)
    BY <1>5, <2>1
  <2>3. state.linking_order = compilation.order
    BY <2>2 DEF MainRead, MainOf
  <2>4. next \in 1 .. Len(compilation.order) /\ next \in DOMAIN compilation.order
        /\ compilation.order[next] = id
    BY <1>3, <2>3
  <2>5. CodeSaved(next)
    BY <1>1, <1>5, <2>4 DEF AllSaved
  <2>6. Module(id) \in DOMAIN directory
        /\ directory[Module(id)] = CodeObject(compilation, next)
    BY <2>4, <2>5 DEF CodeSaved
  <2>7. CutOf(directory[Module(id)], CodeObject(compilation, next))
    BY <1>2, <2>4, <2>6, ObjectsAre DEF CutOf
  <2> QED
    BY <2>4, <2>6, <2>7 DEF IsCodeOf
<1>6. ASSUME ~intact, Module(id) \in DOMAIN directory
      PROVE  \E c \in Compilations : \E k \in 1 .. Len(c.order) : IsCodeOf(id, c, k)
  <2>1. PICK c \in Compilations : \E k \in DOMAIN c.order : IsCodeOf(id, c, k)
    BY <1>1, <1>4, <1>6 DEF FilesMade
  <2>2. DOMAIN c.order = 1 .. Len(c.order)
    BY CompilationIs
  <2> QED
    BY <2>1, <2>2
<1> QED
  <2>1. CASE intact
    BY <1>2, <1>4, <1>5, <2>1
  <2>2. CASE ~intact
    BY <1>4, <1>6, <2>2
  <2> QED
    BY <2>1, <2>2

(* What is read of a code object at the place of a field is its value, and *)
(* it is there when the file is whole.                                     *)
LEMMA WhatIsReadOfCode ==
  ASSUME NEW c \in Compilations, NEW k \in 1 .. Len(c.order), NEW file,
         CutOf(file, CodeObject(c, k)),
         NEW at \in Nat, NEW width \in Nat, NEW value, CodeHas(c, k, at, width, value)
  PROVE  /\ \A v \in Values(file, at, width) : v = value
         /\ at + width <= file.size => Values(file, at, width) = {value}
<1>1. Values(file, at, width) = IF at + width > file.size THEN {} ELSE {value}
  BY CodeValues
<1>2. file.size \in Nat
  BY DEF CutOf
<1>3. at + width <= file.size => ~(at + width > file.size)
  BY <1>2
<1> QED
  BY <1>1, <1>3

(* A code object is opened. *)
LEMMA OpenModuleKeeps ==
  ASSUME IInv, OpenModule
  PROVE  IInv'
<1> DEFINE id == state.linking_order[next]
           file == directory[Module(id)]
           pool(stack_size) == [stack_size |-> stack_size, commands |-> << >>]
           short == file.size < 100 \/ Values(file, 0, 5) # {"MSLCO"}
<1>1. /\ stage = "modules" /\ section = "none" /\ next <= Len(state.linking_order)
      /\ IF Module(id) \notin DOMAIN directory THEN Ends("refused")
         ELSE IF short THEN Ends("astray")
         ELSE \E code_size \in Values(file, 11, 8), stack_size \in Values(file, 19, 8) :
                /\ opened' = Module(id) /\ section' = "commands" /\ offset' = 100
                /\ end' = 100 + code_size
                /\ state' = [state EXCEPT !.pools = Append(@, pool(stack_size))]
                /\ UNCHANGED <<directory, compiler, stage, next, outcome, written, loaded>>
  BY DEF OpenModule, co_header_reserved_size
<1>2. /\ id \in Nat
      /\ intact => Module(id) \in DOMAIN directory
      /\ Module(id) \in DOMAIN directory =>
           \E c \in Compilations : \E k \in 1 .. Len(c.order) :
             /\ IsCodeOf(id, c, k)
             /\ intact => /\ c = compilation /\ k = next
                          /\ directory[Module(id)] = CodeObject(c, k)
  BY <1>1, ModuleIs
<1> HIDE DEF id, short
<1>3. CASE Module(id) \notin DOMAIN directory
  <2>1. ~intact /\ Ends("refused")
    BY <1>1, <1>2, <1>3
  <2> QED
    BY <1>1, <2>1, LinkerEnds
<1>4. ASSUME Module(id) \in DOMAIN directory
      PROVE  IInv'
  <2>0. PICK c \in Compilations :
          \E k \in 1 .. Len(c.order) :
            /\ IsCodeOf(id, c, k)
            /\ intact => /\ c = compilation /\ k = next
                         /\ file = CodeObject(c, k)
    BY <1>2, <1>4
  <2>1. PICK k \in 1 .. Len(c.order) :
          /\ IsCodeOf(id, c, k)
          /\ intact => /\ c = compilation /\ k = next
                       /\ file = CodeObject(c, k)
    BY <2>0
  <2>2. CutOf(file, CodeObject(c, k)) /\ c.order[k] = id /\ k \in DOMAIN c.order
    BY <2>1 DEF IsCodeOf
  <2> HIDE DEF file
  <2>3. CASE short
    <3>1. ~intact
      <4> SUFFICES ASSUME intact
                   PROVE  FALSE
        OBVIOUS
      <4>1. file = CodeObject(c, k) /\ file.size \in Nat /\ 100 <= file.size
        BY <2>1, ObjectsAre
      <4>2. CodeHas(c, k, 0, 5, "MSLCO")
        BY CodePacked
      <4>3. Values(file, 0, 5) = {"MSLCO"}
        <5> DEFINE at == 0
                   width == 5
        <5>1. /\ at \in Nat /\ width \in Nat /\ at + width <= file.size
              /\ CodeHas(c, k, at, width, "MSLCO")
          BY <4>1, <4>2
        <5> HIDE DEF at, width
        <5>2. Values(file, at, width) = {"MSLCO"}
          BY <2>2, <5>1, WhatIsReadOfCode
        <5> QED
          BY <5>2 DEF at, width
      <4> QED
        BY <2>3, <4>1, <4>3 DEF short
    <3>2. Ends("astray")
      BY <1>1, <1>4, <2>3
    <3> QED
      BY <1>1, <3>1, <3>2, LinkerEnds
  <2>4. CASE ~short
    <3>1. PICK code_size \in Values(file, 11, 8), stack_size \in Values(file, 19, 8) :
            /\ opened' = Module(id) /\ section' = "commands" /\ offset' = 100
            /\ end' = 100 + code_size
            /\ state' = [state EXCEPT !.pools = Append(@, pool(stack_size))]
            /\ UNCHANGED <<directory, compiler, stage, next, outcome, written, loaded>>
      BY <1>1, <1>4, <2>4 DEF file
    <3>2. code_size = 36 * Len(c.code[k])
      <4> DEFINE at == 11
                 width == 8
                 value == 36 * Len(c.code[k])
      <4>1. CodeHas(c, k, at, width, value) /\ at \in Nat /\ width \in Nat
        BY CodePacked
      <4>2. code_size \in Values(file, at, width)
        BY <3>1
      <4> HIDE DEF at, width, value
      <4>3. code_size = value
        BY <2>2, <4>1, <4>2, WhatIsReadOfCode
      <4> QED
        BY <4>3 DEF value
    <3>3. stack_size = c.stack_size[k]
      <4>1. CodeHas(c, k, 19, 8, c.stack_size[k]) /\ 19 \in Nat /\ 8 \in Nat
        BY CodePacked
      <4> QED
        BY <2>2, <4>1, WhatIsReadOfCode
    <3>4. /\ Len(c.code[k]) \in Nat /\ c.stack_size[k] \in Nat
      BY CompilationIs, CodePacked
    <3> DEFINE all == c.code[k]
               one == pool(stack_size)
               pools == state.pools
               more == Append(pools, one)
    <3>5. one.stack_size = c.stack_size[k] /\ one.commands = << >> /\ one \in Pools
      BY <3>3, <3>4 DEF Pools
    <3> HIDE DEF one, pool
    <3>6. /\ Typed /\ CodeIsRead
      BY DEF IInv
    <3>7. /\ pools \in Seq(Pools) /\ next \in Nat \ {0} /\ Len(pools) = next - 1
          /\ MainWasRead /\ \A n \in 1 .. next - 1 : PoolRead(n)
      BY <1>1, <3>6 DEF CodeIsRead, Typed
    <3>8. /\ more \in Seq(Pools) /\ Len(more) = next
          /\ \A n \in 1 .. next - 1 : more[n] = pools[n]
          /\ more[next] = one
      <4>1. /\ more \in Seq(Pools) /\ Len(more) = Len(pools) + 1
            /\ \A n \in 1 .. Len(pools) : more[n] = pools[n]
            /\ more[Len(pools) + 1] = one
        BY <3>5, <3>7, AppendProperties
      <4> QED
        BY <3>7, <4>1
    <3> HIDE DEF more
    <3>9. state' = [linking_order |-> state.linking_order, constants |-> state.constants,
                    symbols |-> state.symbols, pools |-> more]
      <4>1. state' = [state EXCEPT !.pools = more]
        BY <3>1 DEF more, one
      <4> QED
        BY <3>6, <4>1, StateIs
    <3>10. /\ state' = [linking_order |-> state'.linking_order, constants |-> state'.constants,
                        symbols |-> state'.symbols, pools |-> state'.pools]
           /\ state'.linking_order = state.linking_order
           /\ state'.constants = state.constants
           /\ state'.symbols = state.symbols /\ state'.pools = more
      BY <3>9
    <3>11. /\ directory' = directory /\ stage' = "modules" /\ next' = next
           /\ compilation' = compilation /\ compilations' = compilations
           /\ intact' = intact /\ failures' = failures
           /\ outcome' = outcome /\ loaded' = loaded /\ written' = written
           /\ opened' = Module(id) /\ section' = "commands" /\ offset' = 100
           /\ end' = 100 + 36 * Len(all) /\ end' \in Nat
      BY <1>1, <3>1, <3>2, <3>4 DEF compiler
    <3>12. Typed'
      BY <1>1, <3>6, <3>8, <3>10, <3>11 DEF Typed
    <3>13. MainIsRead'
      BY <3>11 DEF MainIsRead
    <3>14. MainWasRead'
      BY <3>7, <3>10, <3>11 DEF MainWasRead, MainRead, MainOf
    <3>15. \A n \in 1 .. next' - 1 : PoolRead(n)'
      <4> SUFFICES ASSUME NEW n \in 1 .. next - 1
                   PROVE  PoolRead(n)'
        BY <3>11
      <4>1. PoolRead(n) /\ state'.linking_order[n] = state.linking_order[n]
            /\ state'.pools[n] = state.pools[n]
        BY <3>7, <3>8, <3>10
      <4> QED
        BY <3>11, <4>1 DEF PoolRead, PoolOf
    <3>16. ReadingCode(c, k)'
      <4>1. /\ state'.pools[next'].stack_size = c.stack_size[k]
            /\ state'.pools[next'].commands = << >>
            /\ Len(state'.pools[next'].commands) = 0
        BY <3>5, <3>8, <3>10, <3>11
      <4>2. Begins(state.pools[next].commands, c.code[k])'
        BY <3>4, <4>1, NothingBegins DEF Begins
      <4>3. IsCodeOf(state.linking_order[next], c, k)'
        BY <2>2, <3>10, <3>11 DEF IsCodeOf, CutOf, id, file
      <4>4. /\ offset' = co_header_reserved_size + 36 * Len(state'.pools[next'].commands)
            /\ end' = co_header_reserved_size + 36 * Len(c.code[k])
        BY <3>11, <4>1 DEF co_header_reserved_size
      <4> QED
        BY <2>1, <3>11, <4>1, <4>2, <4>3, <4>4 DEF ReadingCode
    <3>17. CodeIsRead'
      <4>1. /\ section' = "commands" /\ Len(state'.pools) = next'
            /\ next' <= Len(state'.linking_order)
            /\ next' <= Len(state'.linking_order) + 1
        <5>1. Len(state.linking_order) \in Nat
          BY <3>6, LenProperties DEF Typed
        <5> QED
          BY <1>1, <3>7, <3>8, <3>10, <3>11, <5>1
      <4>2. opened' = Module(state'.linking_order[next']) /\ opened' \in DOMAIN directory'
        BY <1>4, <3>10, <3>11 DEF id
      <4> QED
        BY <2>2, <3>14, <3>15, <3>16, <4>1, <4>2 DEF CodeIsRead
    <3> QED
      BY <1>1, <3>1, <3>11, <3>12, <3>13, <3>17, LinkerGoesOn
  <2> QED
    BY <2>3, <2>4
<1> QED
  BY <1>3, <1>4

(* The code object that is read, of an intact compilation as a whole.      *)
LEMMA CodeOpened ==
  ASSUME IInv, stage = "modules", section = "commands"
  PROVE  /\ Len(state.pools) = next /\ next <= Len(state.linking_order)
         /\ next \in 1 .. Len(state.pools)
         /\ opened = Module(state.linking_order[next]) /\ opened \in DOMAIN directory
         /\ state.pools[next] \in Pools
         /\ \E c \in Compilations : \E k \in 1 .. Len(c.order) :
              /\ ReadingCode(c, k) /\ CutOf(directory[opened], CodeObject(c, k))
              /\ intact => directory[opened] = CodeObject(c, k)
<1>1. /\ Len(state.pools) = next /\ next <= Len(state.linking_order)
      /\ opened = Module(state.linking_order[next]) /\ opened \in DOMAIN directory
      /\ \E c \in Compilations : \E k \in DOMAIN c.order : ReadingCode(c, k)
      /\ MainWasRead
  BY DEF IInv, CodeIsRead
<1>2. PICK c \in Compilations : \E k \in DOMAIN c.order : ReadingCode(c, k)
  BY <1>1
<1>3. PICK k \in 1 .. Len(c.order) : ReadingCode(c, k)
  BY <1>2, CompilationIs
<1>4. next \in 1 .. Len(state.pools) /\ state.pools[next] \in Pools
  <2>1. next \in Nat \ {0} /\ state.pools \in Seq(Pools)
    BY DEF IInv, Typed
  <2> QED
    BY <1>1, <2>1
<1>5. CutOf(directory[opened], CodeObject(c, k))
  BY <1>1, <1>3 DEF ReadingCode, IsCodeOf
<1>6. ASSUME intact
      PROVE  directory[opened] = CodeObject(c, k)
  <2>1. c = compilation /\ k = next
    BY <1>3, <1>6 DEF ReadingCode
  <2>2. PICK d \in Compilations :
          /\ MainRead = MainOf(d)
          /\ intact => d = compilation
    BY <1>1 DEF MainWasRead
  <2>3. MainRead = MainOf(c)
    BY <1>6, <2>1, <2>2
  <2>4. state.linking_order = c.order
    BY <2>3 DEF MainRead, MainOf
  <2>5. k \in DOMAIN compilation.order
    BY <2>1, CompilationIs
  <2>6. CodeSaved(k)
    BY <1>6, <2>5 DEF IInv, AllSaved
  <2> QED
    BY <1>1, <2>1, <2>4, <2>6 DEF CodeSaved
<1> QED
  BY <1>1, <1>3, <1>4, <1>5, <1>6

(* Commands are only read of code objects. *)
LEMMA CommandsAreOfModules ==
  ASSUME IInv, Entries("commands")
  PROVE  stage = "modules" /\ section = "commands" /\ offset < end
<1>1. stage \in {"sections", "modules"} /\ section = "commands" /\ ~(offset >= end)
  BY DEF Entries, AtEnd
<1>2. stage # "sections"
  <2> SUFFICES ASSUME stage = "sections"
               PROVE  FALSE
    OBVIOUS
  <2>1. PICK c \in Compilations : Reading(c)
    BY MainOpened
  <2> QED
    BY <1>1, <2>1 DEF Reading
<1>3. offset \in Nat /\ end \in Nat
  BY DEF IInv, Typed
<1> QED
  BY <1>1, <1>2, <1>3

(* The next command. *)
LEMMA NextCommand ==
  ASSUME IInv, Entries("commands"),
         NEW c \in Compilations, NEW k \in 1 .. Len(c.order), ReadingCode(c, k),
         CutOf(directory[opened], CodeObject(c, k)),
         NEW n, n = Len(state.pools[next].commands)
  PROVE  /\ n \in Nat /\ n < Len(c.code[k])
         /\ \A command \in CommandsThere : command = c.code[k][n + 1]
         /\ directory[opened] = CodeObject(c, k) => CommandsThere # {}
<1>1. stage = "modules" /\ section = "commands" /\ offset < end
  BY CommandsAreOfModules
<1>2. n \in Nat
  <2>1. state.pools[next].commands \in Seq([1 .. 9 -> Nat])
    BY <1>1, CodeOpened DEF Pools
  <2> QED
    BY <2>1, LenProperties
<1> DEFINE all == c.code[k]
           m == Len(all)
           file == directory[opened]
           S(j) == SumOfFirst(CommandWidths, j - 1)
           W(j) == CommandWidths[j]
           Part(j) == Read(offset + S(j), W(j))
<1>3. m \in Nat /\ all \in Seq([1 .. 9 -> Nat])
  BY CompilationIs, CodePacked
<1>4. offset = 100 + 36 * n /\ end = 100 + 36 * m
  BY DEF ReadingCode, co_header_reserved_size
<1>5. \A i \in 1 .. m : \A j \in 1 .. 9 :
        CodeHas(c, k, 100 + 36 * (i - 1) + S(j), W(j), all[i][j])
  BY CodePacked
<1>6. CodeObject(c, k).size = 100 + 36 * m
  BY CodePacked
<1>7. \A j \in 1 .. 9 : W(j) \in Nat /\ S(j) \in Nat /\ S(j) + W(j) <= 36
  BY CommandWidthsAre
<1>8. CommandsThere = IF \E j \in 1 .. 9 : Part(j) = {} THEN {}
                      ELSE {[j \in 1 .. 9 |-> CHOOSE v \in Part(j) : TRUE]}
  BY DEF CommandsThere
<1> HIDE DEF all, m, S, W
<1>9. n < m
  BY <1>1, <1>2, <1>3, <1>4
<1>10. PICK i \in 1 .. m : i = n + 1 /\ i - 1 = n
  BY <1>2, <1>3, <1>9
<1>11. ASSUME NEW j \in 1 .. 9
       PROVE  /\ \A v \in Part(j) : v = all[i][j]
              /\ file = CodeObject(c, k) => Part(j) = {all[i][j]}
  <2> DEFINE at == offset + S(j)
  <2>1. CodeHas(c, k, at, W(j), all[i][j])
    <3>1. CodeHas(c, k, 100 + 36 * (i - 1) + S(j), W(j), all[i][j])
      BY <1>5
    <3>2. at = 100 + 36 * (i - 1) + S(j)
      BY <1>4, <1>10
    <3> QED
      BY <3>1, <3>2
  <2>2. at \in Nat /\ W(j) \in Nat /\ at + W(j) <= 100 + 36 * m
    <3> DEFINE s == S(j)
               w == W(j)
    <3>1. w \in Nat /\ s \in Nat /\ s + w <= 36
      BY <1>7
    <3>2. at = 100 + 36 * n + s
      BY <1>4
    <3> HIDE DEF s, w, at
    <3>3. at \in Nat /\ at + w <= 100 + 36 * m
      BY <1>2, <1>3, <1>9, <3>1, <3>2, SMTT(30)
    <3> QED
      BY <3>1, <3>3 DEF w
  <2>3. Part(j) = Values(file, at, W(j))
    BY DEF Read, Buffer
  <2> HIDE DEF at, Part, file
  <2>4. CutOf(file, CodeObject(c, k))
    BY DEF file
  <2>5. /\ \A v \in Values(file, at, W(j)) : v = all[i][j]
        /\ at + W(j) <= file.size => Values(file, at, W(j)) = {all[i][j]}
    BY <2>1, <2>2, <2>4, WhatIsReadOfCode
  <2> QED
    BY <1>6, <2>2, <2>3, <2>5
<1> HIDE DEF Part
<1>12. ASSUME NEW command \in CommandsThere
       PROVE  command = all[i]
  <2>1. /\ \A j \in 1 .. 9 : Part(j) # {}
        /\ command = [j \in 1 .. 9 |-> CHOOSE v \in Part(j) : TRUE]
    BY <1>8
  <2>2. \A j \in 1 .. 9 : (CHOOSE v \in Part(j) : TRUE) = all[i][j]
    BY <1>11, <2>1
  <2>3. command = [j \in 1 .. 9 |-> all[i][j]]
    BY <2>1, <2>2
  <2>4. all[i] \in [1 .. 9 -> Nat]
    BY <1>3 DEF m
  <2> QED
    BY <2>3, <2>4
<1>13. ASSUME file = CodeObject(c, k)
       PROVE  CommandsThere # {}
  <2>1. \A j \in 1 .. 9 : Part(j) # {}
    BY <1>11, <1>13
  <2> QED
    BY <1>8, <2>1
<1> QED
  BY <1>2, <1>9, <1>10, <1>12, <1>13 DEF all, m, file

(* The linker goes on with a code object. *)
LEMMA CodeGoesOn ==
  ASSUME IInv, stage = "modules", stage' = stage, Typed', CodeIsRead',
         UNCHANGED <<directory, compiler, outcome, written, loaded>>
  PROVE  IInv'
<1>1. MainIsRead'
  BY DEF MainIsRead
<1> QED
  BY <1>1, LinkerGoesOn

(* The loop of DeserializeCO. *)
LEMMA ReadCommandKeeps ==
  ASSUME IInv, ReadCommand
  PROVE  IInv'
<1>1. Entries("commands") /\ stage = "modules" /\ section = "commands"
  BY CommandsAreOfModules DEF ReadCommand
<1>2. PICK command \in CommandsThere :
        /\ Reads(Sum(CommandWidths))
        /\ state' = [state EXCEPT !.pools[next].commands = Append(@, command)]
  BY DEF ReadCommand
<1>3. /\ Len(state.pools) = next /\ next <= Len(state.linking_order)
      /\ next \in 1 .. Len(state.pools)
      /\ opened = Module(state.linking_order[next]) /\ opened \in DOMAIN directory
      /\ state.pools[next] \in Pools
      /\ \E c \in Compilations : \E k \in 1 .. Len(c.order) :
           /\ ReadingCode(c, k) /\ CutOf(directory[opened], CodeObject(c, k))
           /\ intact => directory[opened] = CodeObject(c, k)
  BY <1>1, CodeOpened
<1>4. PICK c \in Compilations : \E k \in 1 .. Len(c.order) :
        ReadingCode(c, k) /\ CutOf(directory[opened], CodeObject(c, k))
  BY <1>3
<1>5. PICK k \in 1 .. Len(c.order) :
        ReadingCode(c, k) /\ CutOf(directory[opened], CodeObject(c, k))
  BY <1>4
<1> DEFINE pools == state.pools
           pool == pools[next]
           got == pool.commands
           all == c.code[k]
           one == [pool EXCEPT !.commands = Append(@, command)]
           more == [pools EXCEPT ![next] = one]
<1>6. Typed /\ CodeIsRead
  BY DEF IInv
<1>0. PICK n : n = Len(state.pools[next].commands)
  OBVIOUS
<1>7. /\ n \in Nat /\ n < Len(all) /\ command = all[n + 1]
  <2>2. /\ n \in Nat /\ n < Len(c.code[k])
        /\ \A one_more \in CommandsThere : one_more = c.code[k][n + 1]
    <3> HIDE DEF pools, pool, got, all, one, more
    <3>1. Entries("commands") /\ ReadingCode(c, k) /\ CutOf(directory[opened], CodeObject(c, k))
      BY <1>1, <1>5
    <3>2. n \in Nat
      BY <1>0, <3>1, NextCommand
    <3>3. n < Len(c.code[k])
      BY <1>0, <3>1, NextCommand
    <3>4. \A one_more \in CommandsThere : one_more = c.code[k][n + 1]
      BY <1>0, <3>1, NextCommand, SMTT(30)
    <3> QED
      BY <3>2, <3>3, <3>4
  <2> QED
    BY <1>2, <2>2
<1>8. /\ Len(all) \in Nat /\ all \in Seq([1 .. 9 -> Nat])
  BY CompilationIs, CodePacked
<1>9. /\ got \in Seq([1 .. 9 -> Nat]) /\ pool.stack_size \in Nat
      /\ n = Len(got)
  BY <1>3, <1>0 DEF Pools
<1>10. /\ pool.stack_size = c.stack_size[k] /\ Begins(got, all)
       /\ offset = 100 + 36 * n /\ end = 100 + 36 * Len(all)
       /\ IsCodeOf(state.linking_order[next], c, k)
       /\ intact => c = compilation /\ k = next
  BY <1>5, <1>0 DEF ReadingCode, co_header_reserved_size
<1> HIDE DEF all, got
<1>11. command \in [1 .. 9 -> Nat]
  <2> DEFINE S == [1 .. 9 -> Nat]
  <2>1. all \in Seq(S) /\ Len(all) \in Nat
    BY <1>8
  <2> HIDE DEF S, pools, pool, one, more
  <2>2. n + 1 \in 1 .. Len(all)
    BY <1>7, <2>1
  <2>3. all[n + 1] \in S
    BY <2>1, <2>2
  <2> QED
    BY <1>7, <2>3 DEF S
<1>12. /\ Begins(Append(got, command), all) /\ Append(got, command) \in Seq([1 .. 9 -> Nat])
       /\ Len(Append(got, command)) = n + 1
  <2> DEFINE S == [1 .. 9 -> Nat]
  <2>1. got \in Seq(S) /\ command \in S
    BY <1>9, <1>11
  <2>2. /\ n \in Nat /\ Len(got) < Len(all) /\ command = all[Len(got) + 1]
        /\ Len(all) \in Nat /\ Begins(got, all)
    BY <1>7, <1>8, <1>9, <1>10
  <2> HIDE DEF S, pools, pool, one, more
  <2>3. /\ Begins(Append(got, command), all) /\ Append(got, command) \in Seq(S)
        /\ Len(Append(got, command)) = Len(got) + 1
    BY <2>1, <2>2, OneMoreBegins
  <2> QED
    BY <1>9, <2>3 DEF S
<1>13. /\ one.stack_size = pool.stack_size /\ one.commands = Append(got, command)
       /\ one \in Pools
  <2>1. pool = [stack_size |-> pool.stack_size, commands |-> pool.commands]
    BY <1>3 DEF Pools
  <2> DEFINE s == pool.stack_size
             g == pool.commands
  <2>2. g = got
    BY DEF got
  <2> HIDE DEF s, g
  <2>3. one = [stack_size |-> s, commands |-> Append(g, command)]
    BY <2>1, SMTT(30) DEF s, g
  <2> QED
    BY <1>9, <1>12, <2>2, <2>3 DEF Pools, s
<1>14. pools \in Seq(Pools) /\ next \in 1 .. Len(pools) /\ next \in Nat \ {0}
  BY <1>3, <1>6 DEF Typed
<1>15. state' = [state EXCEPT !.pools = more]
  BY <1>2
<1> HIDE DEF one, pool
<1>16. /\ more \in Seq(Pools) /\ Len(more) = Len(pools) /\ more[next] = one
       /\ \A i \in 1 .. next - 1 : more[i] = pools[i]
  <2> HIDE DEF pools
  <2>1. more \in Seq(Pools) /\ Len(more) = Len(pools) /\ more[next] = one
        /\ \A i \in 1 .. Len(pools) : i # next => more[i] = pools[i]
    BY <1>13, <1>14
  <2> QED
    BY <1>14, <2>1
<1> HIDE DEF more
<1>17. state' = [linking_order |-> state.linking_order, constants |-> state.constants,
                 symbols |-> state.symbols, pools |-> more]
  BY <1>6, <1>15, StateIs
<1>18. /\ state' = [linking_order |-> state'.linking_order, constants |-> state'.constants,
                    symbols |-> state'.symbols, pools |-> state'.pools]
       /\ state'.linking_order = state.linking_order /\ state'.constants = state.constants
       /\ state'.symbols = state.symbols /\ state'.pools = more
  BY <1>17
<1>19. /\ UNCHANGED <<directory, compiler, opened, outcome, written, loaded>>
       /\ stage' = stage /\ next' = next /\ section' = section /\ end' = end
       /\ offset' = offset + 36 /\ offset' \in Nat
       /\ compilation' = compilation /\ compilations' = compilations
       /\ intact' = intact /\ failures' = failures
       /\ outcome' = outcome /\ loaded' = loaded
  <2> DEFINE step == Sum(CommandWidths)
  <2>1. step = 36 /\ step \in Nat
    BY CommandWidthsAre
  <2>2. Reads(step)
    BY <1>2
  <2> HIDE DEF step
  <2>3. /\ UNCHANGED <<directory, compiler, opened, outcome, written, loaded>>
        /\ stage' = stage /\ next' = next /\ section' = section /\ end' = end
        /\ offset' = offset + step /\ offset' \in Nat
        /\ compilation' = compilation /\ compilations' = compilations
        /\ intact' = intact /\ failures' = failures
        /\ outcome' = outcome /\ loaded' = loaded
    BY <1>6, <2>1, <2>2, ReadsIs
  <2> QED
    BY <2>1, <2>3
<1>20. directory' = directory /\ opened' = opened
  BY <1>19
<1>21. Typed'
  BY <1>1, <1>6, <1>16, <1>18, <1>19 DEF Typed
<1>22. MainWasRead'
  <2>1. MainWasRead
    BY <1>1, <1>6 DEF CodeIsRead
  <2> QED
    BY <1>18, <1>19, <2>1 DEF MainWasRead, MainRead, MainOf
<1>23. \A i \in 1 .. next' - 1 : PoolRead(i)'
  <2> SUFFICES ASSUME NEW i \in 1 .. next - 1
               PROVE  PoolRead(i)'
    BY <1>19
  <2>1. PoolRead(i) /\ state'.linking_order[i] = state.linking_order[i]
        /\ state'.pools[i] = state.pools[i]
    BY <1>1, <1>6, <1>16, <1>18 DEF CodeIsRead
  <2> QED
    BY <1>19, <2>1 DEF PoolRead, PoolOf
<1>24. ReadingCode(c, k)'
  <2>1. /\ state'.pools[next'].stack_size = c.stack_size[k]
        /\ state'.pools[next'].commands = Append(got, command)
    BY <1>10, <1>13, <1>16, <1>18, <1>19
  <2>2. Begins(state.pools[next].commands, c.code[k])'
    BY <1>12, <2>1 DEF Begins, all
  <2>3. IsCodeOf(state.linking_order[next], c, k)'
    BY <1>10, <1>18, <1>19, <1>20 DEF IsCodeOf, CutOf
  <2>4. /\ offset' = co_header_reserved_size + 36 * Len(state'.pools[next'].commands)
        /\ end' = co_header_reserved_size + 36 * Len(c.code[k])
    <3>1. Len(state'.pools[next'].commands) = n + 1
      BY <1>12, <2>1
    <3>2. offset' = 100 + 36 * (n + 1) /\ end' = 100 + 36 * Len(all)
      BY <1>7, <1>10, <1>19
    <3> QED
      BY <3>1, <3>2 DEF co_header_reserved_size, all
  <2> QED
    BY <1>10, <1>19, <2>1, <2>2, <2>3, <2>4 DEF ReadingCode
<1>25. CodeIsRead'
  <2>1. /\ section' = "commands" /\ Len(state'.pools) = next'
        /\ next' <= Len(state'.linking_order) /\ next' <= Len(state'.linking_order) + 1
    <3>1. next <= Len(state.linking_order) + 1
      BY <1>1, <1>6 DEF CodeIsRead
    <3> QED
      BY <1>1, <1>3, <1>16, <1>18, <1>19, <3>1
  <2>2. opened' = Module(state'.linking_order[next']) /\ opened' \in DOMAIN directory'
    BY <1>3, <1>18, <1>19, <1>20
  <2>3. k \in DOMAIN c.order
    BY CompilationIs
  <2> QED
    BY <1>22, <1>23, <1>24, <2>1, <2>2, <2>3 DEF CodeIsRead
<1> QED
  BY <1>1, <1>19, <1>21, <1>25, CodeGoesOn

(* All commands of a module have been read. *)
LEMMA EndModuleKeeps ==
  ASSUME IInv, EndModule
  PROVE  IInv'
<1>1. /\ stage = "modules" /\ section = "commands" /\ offset >= end
      /\ section' = "none" /\ next' = next + 1
      /\ stage' = stage /\ offset' = offset /\ end' = end /\ state' = state
      /\ opened' = opened
      /\ UNCHANGED <<directory, compiler, outcome, written, loaded>>
  BY DEF EndModule, Linking, AtEnd
<1>2. /\ directory' = directory /\ outcome' = outcome /\ loaded' = loaded
      /\ compilation' = compilation /\ compilations' = compilations
      /\ intact' = intact /\ failures' = failures
  BY <1>1 DEF compiler
<1>3. Typed /\ CodeIsRead
  BY DEF IInv
<1>4. /\ Len(state.pools) = next /\ next <= Len(state.linking_order)
      /\ state.pools[next] \in Pools
      /\ \E c \in Compilations : \E k \in 1 .. Len(c.order) : ReadingCode(c, k)
  BY <1>1, CodeOpened
<1>5. PICK c \in Compilations : \E k \in 1 .. Len(c.order) : ReadingCode(c, k)
  BY <1>4
<1>6. PICK k \in 1 .. Len(c.order) : ReadingCode(c, k)
  BY <1>5
<1> DEFINE pool == state.pools[next]
           all == c.code[k]
           n == Len(pool.commands)
<1>7. /\ pool.stack_size = c.stack_size[k] /\ Begins(pool.commands, all)
      /\ offset = 100 + 36 * n /\ end = 100 + 36 * Len(all)
      /\ IsCodeOf(state.linking_order[next], c, k)
      /\ intact => c = compilation /\ k = next
  BY <1>6 DEF ReadingCode, co_header_reserved_size
<1>8. pool = PoolOf(c, k)
  <2>1. /\ pool = [stack_size |-> pool.stack_size, commands |-> pool.commands]
        /\ pool.commands \in Seq([1 .. 9 -> Nat])
    BY <1>4 DEF Pools
  <2>2. Len(all) \in Nat /\ all \in Seq([1 .. 9 -> Nat])
    BY CompilationIs, CodePacked
  <2>3. all = [i \in 1 .. Len(all) |-> all[i]]
    BY <2>2, LenProperties
  <2>4. n \in Nat
    BY <2>1, LenProperties
  <2> HIDE DEF all, pool
  <2>5. ~(n < Len(all))
    BY <1>1, <1>7, <2>2, <2>4
  <2>6. pool.commands = all
    BY <1>7, <2>1, <2>2, <2>3, <2>5, AllBegins
  <2> QED
    BY <1>7, <2>1, <2>6 DEF PoolOf, all
<1>9. PoolRead(next)
  <2>1. k \in DOMAIN c.order /\ c.order[k] = state.linking_order[next]
    BY <1>7 DEF IsCodeOf
  <2> QED
    BY <1>7, <1>8, <2>1 DEF PoolRead
<1>10. Typed'
  BY <1>1, <1>2, <1>3 DEF Typed
<1>11. CodeIsRead'
  <2>1. next \in Nat \ {0} /\ Len(state.linking_order) \in Nat
    BY <1>3, LenProperties DEF Typed
  <2>2. MainWasRead /\ \A i \in 1 .. next - 1 : PoolRead(i)
    BY <1>1, <1>3 DEF CodeIsRead
  <2>3. MainWasRead'
    BY <1>1, <1>2, <2>2 DEF MainWasRead, MainRead, MainOf
  <2>4. \A i \in 1 .. next' - 1 : PoolRead(i)'
    <3> SUFFICES ASSUME NEW i \in 1 .. next
                 PROVE  PoolRead(i)'
      BY <1>1, <2>1
    <3>1. PoolRead(i)
      BY <1>9, <2>1, <2>2
    <3> QED
      BY <1>1, <1>2, <3>1 DEF PoolRead, PoolOf
  <2>5. /\ next' <= Len(state'.linking_order) + 1 /\ Len(state'.pools) = next' - 1
        /\ opened' \in DOMAIN directory'
    BY <1>1, <1>2, <1>3, <1>4, <2>1 DEF CodeIsRead
  <2> QED
    BY <1>1, <2>3, <2>4, <2>5 DEF CodeIsRead
<1> QED
  BY <1>1, <1>10, <1>11, CodeGoesOn

(* Nothing is read astray of the files of an intact compilation. *)
LEMMA ReadAstrayKeeps ==
  ASSUME IInv, ReadAstray
  PROVE  IInv'
<1>1. /\ Ends("astray")
      /\ \/ Entries("LINKING_ORDER") /\ ModuleIds = {}
         \/ Entries("CONSTANTS") /\ Constants = {}
         \/ Entries("SYMBOLS") /\ Symbols = {}
         \/ Entries("commands") /\ CommandsThere = {}
  BY DEF ReadAstray
<1>2. stage \in {"sections", "modules"}
  BY <1>1 DEF Entries
<1>3. ASSUME stage = "sections", intact
      PROVE  \E c \in Compilations :
               /\ CutOf(directory[Main], MainObject(c)) /\ Reading(c)
               /\ directory[Main] = MainObject(c)
  <2>1. \E c \in Compilations :
          /\ CutOf(directory[Main], MainObject(c)) /\ Reading(c)
          /\ intact => c = compilation /\ directory[Main] = MainObject(c)
    BY <1>3, MainOpened
  <2> QED
    BY <1>3, <2>1
<1>4. ~intact
  <2> SUFFICES ASSUME intact
               PROVE  FALSE
    OBVIOUS
  <2>1. CASE Entries("LINKING_ORDER") /\ ModuleIds = {}
    <3>1. stage = "sections"
      BY <2>1, EntriesAre
    <3>2. PICK c \in Compilations :
            /\ CutOf(directory[Main], MainObject(c)) /\ Reading(c)
            /\ directory[Main] = MainObject(c)
      BY <1>3, <3>1
    <3> QED
      BY <2>1, <3>2, NextModuleId
  <2>2. CASE Entries("CONSTANTS") /\ Constants = {}
    <3>1. stage = "sections"
      BY <2>2, EntriesAre
    <3>2. PICK c \in Compilations :
            /\ CutOf(directory[Main], MainObject(c)) /\ Reading(c)
            /\ directory[Main] = MainObject(c)
      BY <1>3, <3>1
    <3> QED
      BY <2>2, <3>2, NextConstant
  <2>3. CASE Entries("SYMBOLS") /\ Symbols = {}
    <3>1. stage = "sections"
      BY <2>3, EntriesAre
    <3>2. PICK c \in Compilations :
            /\ CutOf(directory[Main], MainObject(c)) /\ Reading(c)
            /\ directory[Main] = MainObject(c)
      BY <1>3, <3>1
    <3> QED
      BY <2>3, <3>2, NextSymbol
  <2>4. CASE Entries("commands") /\ CommandsThere = {}
    <3>1. stage = "modules" /\ section = "commands"
      BY <2>4, CommandsAreOfModules
    <3>2. PICK c \in Compilations : \E k \in 1 .. Len(c.order) :
            /\ ReadingCode(c, k) /\ CutOf(directory[opened], CodeObject(c, k))
            /\ intact => directory[opened] = CodeObject(c, k)
      BY <3>1, CodeOpened
    <3>3. PICK k \in 1 .. Len(c.order) :
            /\ ReadingCode(c, k) /\ CutOf(directory[opened], CodeObject(c, k))
            /\ intact => directory[opened] = CodeObject(c, k)
      BY <3>2
    <3>4. /\ ReadingCode(c, k) /\ CutOf(directory[opened], CodeObject(c, k))
          /\ directory[opened] = CodeObject(c, k)
      BY <3>3
    <3> QED
      BY <2>4, <3>4, NextCommand
  <2> QED
    BY <1>1, <2>1, <2>2, <2>3, <2>4
<1> QED
  BY <1>1, <1>2, <1>4, LinkerEnds

-----------------------------------------------------------------------------
(* The executable.                                                         *)

(* Its sizes are numbers, and without code no module has a command.        *)
LEMMA SizesOfExecutable ==
  ASSUME Typed
  PROVE  /\ RodSize \in Nat /\ CodeSize \in Nat
         /\ CodeSize = 0 => \A n \in 1 .. Len(state.pools) : Len(state.pools[n].commands) = 0
<1>1. /\ state.constants \in Seq(ConstantsRead) /\ state.pools \in Seq(Pools)
  BY DEF Typed
<1>2. ASSUME NEW n \in Nat
      PROVE  Align(n) \in Nat
  <2> DEFINE q == (n + 7) \div 8
  <2>1. q \in Nat
    OBVIOUS
  <2> HIDE DEF q
  <2>2. q * 8 \in Nat
    BY <2>1
  <2> QED
    BY <2>2 DEF Align, q
<1>3. RodSize \in Nat
  <2> DEFINE m == Len(state.constants)
             Z == [k \in DOMAIN state.constants |-> Align(state.constants[k].size)]
  <2>1. m \in Nat /\ DOMAIN state.constants = 1 .. m
    BY <1>1, LenProperties
  <2>2. \A k \in 1 .. m : state.constants[k].size \in Nat
    <3> SUFFICES ASSUME NEW k \in 1 .. m
                 PROVE  state.constants[k].size \in Nat
      OBVIOUS
    <3>1. state.constants[k] \in ConstantsRead
      BY <1>1, <2>1
    <3> QED
      BY <3>1 DEF ConstantsRead
  <2>3. \A k \in 1 .. m : Z[k] = Align(state.constants[k].size)
    BY <2>1
  <2>4. Z = [k \in 1 .. m |-> Z[k]]
    BY <2>1
  <2>5. RodSize = SumOfFirst(Z, Len(Z))
    BY DEF RodSize, Sum
  <2> HIDE DEF Z, m
  <2>6. Len(Z) = m
    BY <2>1, <2>4, LenIs
  <2>7. \A k \in 1 .. m : Z[k] \in Nat
    BY <1>2, <2>2, <2>3
  <2>8. \A k \in 0 .. m : SumOfFirst(Z, k) \in Nat
    BY <2>1, <2>7, SumsGrow
  <2>9. m \in 0 .. m
    BY <2>1
  <2> QED
    BY <2>5, <2>6, <2>8, <2>9
<1> DEFINE m == Len(state.pools)
           Z == [k \in DOMAIN state.pools |-> Len(state.pools[k].commands)]
<1>4. m \in Nat /\ DOMAIN state.pools = 1 .. m
  BY <1>1, LenProperties
<1>5. \A k \in 1 .. m : Len(state.pools[k].commands) \in Nat
  <2> SUFFICES ASSUME NEW k \in 1 .. m
               PROVE  Len(state.pools[k].commands) \in Nat
    OBVIOUS
  <2>1. state.pools[k] \in Pools
    BY <1>1, <1>4
  <2>2. state.pools[k].commands \in Seq([1 .. 9 -> Nat])
    BY <2>1 DEF Pools
  <2> QED
    BY <2>2, LenProperties
<1>6. \A k \in 1 .. m : Z[k] = Len(state.pools[k].commands)
  BY <1>4
<1>7. Z = [k \in 1 .. m |-> Z[k]]
  BY <1>4
<1>8. CodeSize = 32 * SumOfFirst(Z, Len(Z))
  BY DEF CodeSize, Sum
<1> HIDE DEF Z, m
<1>9. Len(Z) = m
  BY <1>4, <1>7, LenIs
<1>10. \A k \in 1 .. m : Z[k] \in Nat
  BY <1>5, <1>6
<1>11. SumOfFirst(Z, m) \in Nat
  <2>1. \A k \in 0 .. m : SumOfFirst(Z, k) \in Nat
    BY <1>4, <1>10, SumsGrow
  <2>2. m \in 0 .. m
    BY <1>4
  <2> QED
    BY <2>1, <2>2
<1>12. CodeSize \in Nat /\ (CodeSize = 0 => SumOfFirst(Z, m) = 0)
  BY <1>8, <1>9, <1>11
<1>13. CodeSize = 0 => \A k \in 1 .. m : Z[k] = 0
  BY <1>4, <1>10, <1>12, SumOfZeros
<1> QED
  BY <1>3, <1>6, <1>12, <1>13 DEF m

(* When all modules have been read, what was read is whole code objects,   *)
(* and of an intact compilation the ones that it packed.                   *)
LEMMA AllIsRead ==
  ASSUME IInv, stage = "modules", section = "none", next > Len(state.linking_order)
  PROVE  /\ \E c \in Compilations : MainRead = MainOf(c)
         /\ \A n \in DOMAIN state.pools :
              \E c \in Compilations : \E k \in DOMAIN c.order :
                c.order[k] = state.linking_order[n] /\ state.pools[n] = PoolOf(c, k)
         /\ intact => /\ MainRead = MainOf(compilation)
                      /\ state.pools = [k \in DOMAIN compilation.code |-> PoolOf(compilation, k)]
<1>1. Typed /\ CodeIsRead
  BY DEF IInv
<1>2. /\ state.linking_order \in Seq(Nat) /\ state.pools \in Seq(Pools)
      /\ next \in Nat \ {0} /\ compilation \in Compilations
  BY <1>1 DEF Typed
<1>3. /\ MainWasRead /\ next <= Len(state.linking_order) + 1
      /\ \A n \in 1 .. next - 1 : PoolRead(n)
      /\ Len(state.pools) = next - 1
  BY <1>1 DEF CodeIsRead
<1> DEFINE m == Len(state.linking_order)
<1>4. m \in Nat /\ next = m + 1 /\ Len(state.pools) = m /\ 1 .. next - 1 = 1 .. m
      /\ DOMAIN state.pools = 1 .. m
  BY <1>2, <1>3, LenProperties
<1>5. \A n \in 1 .. m : PoolRead(n)
  BY <1>3, <1>4
<1> HIDE DEF m
<1>6. \E c \in Compilations : MainRead = MainOf(c)
  BY <1>3 DEF MainWasRead
<1>7. \A n \in DOMAIN state.pools :
        \E c \in Compilations : \E k \in DOMAIN c.order :
          c.order[k] = state.linking_order[n] /\ state.pools[n] = PoolOf(c, k)
  BY <1>4, <1>5 DEF PoolRead
<1>8. ASSUME intact
      PROVE  /\ MainRead = MainOf(compilation)
             /\ state.pools = [k \in DOMAIN compilation.code |-> PoolOf(compilation, k)]
  <2>1. MainRead = MainOf(compilation)
    BY <1>3, <1>8 DEF MainWasRead
  <2>2. state.linking_order = compilation.order
    BY <2>1 DEF MainRead, MainOf
  <2>3. DOMAIN compilation.code = 1 .. m
    BY <1>2, <2>2, CompilationIs DEF m
  <2>4. ASSUME NEW n \in 1 .. m
        PROVE  state.pools[n] = PoolOf(compilation, n)
    <3>1. PICK c \in Compilations : \E k \in DOMAIN c.order :
            /\ state.pools[n] = PoolOf(c, k)
            /\ intact => c = compilation /\ k = n
      BY <1>5 DEF PoolRead
    <3> QED
      BY <1>8, <3>1
  <2>5. state.pools = [k \in 1 .. m |-> state.pools[k]]
    <3> DEFINE P == state.pools
    <3>1. P \in Seq(Pools) /\ Len(P) = m
      BY <1>2, <1>4
    <3> HIDE DEF P
    <3>2. P = [k \in 1 .. m |-> P[k]]
      BY <3>1, LenProperties
    <3> QED
      BY <3>2 DEF P
  <2>6. [k \in 1 .. m |-> state.pools[k]] = [k \in 1 .. m |-> PoolOf(compilation, k)]
    BY <2>4
  <2> QED
    BY <2>1, <2>3, <2>5, <2>6
<1> QED
  BY <1>6, <1>7, <1>8

(* The executable is saved. *)
LEMMA SaveAsMSLIKeeps ==
  ASSUME IInv, SaveAsMSLI
  PROVE  IInv'
<1>1. /\ stage = "modules" /\ section = "none" /\ next > Len(state.linking_order)
      /\ stage' = "nothing"
      /\ IF CodeSize = 0
         THEN outcome' = "refused" /\ directory' = directory /\ failures' = failures
                /\ written' = written
         ELSE \/ /\ Written(Executable, ExecutableFile) /\ failures' = failures
                 /\ outcome' = "linked" /\ written' = <<ReadOnlyData, Code>>
              \/ /\ Spoiled(Executable, ExecutableFile)
                 /\ IF UNCHANGED directory THEN outcome' = "unsaved" /\ UNCHANGED written
                    ELSE outcome' = "linked" /\ written' = << >>
      /\ compilation' = compilation /\ compilations' = compilations
      /\ intact' = intact /\ next' = next /\ loaded' = loaded
      /\ section' = section /\ opened' = opened /\ offset' = offset /\ end' = end
      /\ state' = state
  BY DEF SaveAsMSLI, reader
<1>2. /\ Typed /\ FilesMade /\ ExecutableMade /\ AllSaved
  BY DEF IInv
<1>3. loaded = << >> /\ failures \in 0 .. MaxFailures /\ MaxFailures \in Nat
  BY <1>1, <1>2, ObjectFilesAssumption DEF Typed
<1>4. PICK rod_size, code_size, rod, code :
        rod_size = RodSize /\ code_size = CodeSize /\ rod = ReadOnlyData /\ code = Code
  OBVIOUS
<1>5. rod_size \in Nat /\ code_size \in Nat
  BY <1>2, <1>4, SizesOfExecutable
<1> DEFINE whole == ExecutableFile
<1>6. /\ whole = [size |-> whole.size, fields |-> whole.fields] /\ whole.size \in Nat
      /\ whole.size = msli_header_size + rod_size + code_size
      /\ whole.fields = ExecutableFields(rod_size, code_size, rod, code)
  <2>1. /\ whole = [size |-> whole.size, fields |-> whole.fields]
        /\ whole.size = msli_header_size + rod_size + code_size
    BY <1>4 DEF ExecutableFile
  <2>2. whole.fields = ExecutableFields(rod_size, code_size, rod, code)
    BY <1>4 DEF ExecutableFile, ExecutableFields, CodeOffset
  <2>3. whole.size \in Nat
    BY <1>5, <2>1 DEF msli_header_size
  <2> QED
    BY <2>1, <2>2, <2>3
<1> HIDE DEF whole
<1>7. /\ \/ /\ CodeSize = 0 /\ outcome' = "refused" /\ directory' = directory
            /\ written' = written
         \/ /\ code_size # 0 /\ outcome' = "linked" /\ Replaced(Executable, whole)
            /\ written' = <<rod, code>>
         \/ /\ outcome' = "unsaved" /\ directory' = directory /\ written' = written
         \/ /\ code_size # 0 /\ outcome' = "linked"
            /\ \E file : /\ Replaced(Executable, file) /\ CutOf(file, whole)
                         /\ file.size < whole.size
      /\ failures' \in 0 .. MaxFailures
  <2>1. CASE CodeSize = 0
    BY <1>1, <1>3, <2>1
  <2>2. ASSUME CodeSize # 0, Written(Executable, whole), failures' = failures,
               outcome' = "linked", written' = <<ReadOnlyData, Code>>
        PROVE  <1>7!:
    <3>1. Replaced(Executable, whole)
      BY <1>6, <2>2, WrittenIs
    <3> QED
      BY <1>3, <1>4, <2>2, <3>1
  <2>3. ASSUME CodeSize # 0, Spoiled(Executable, whole),
               IF UNCHANGED directory THEN outcome' = "unsaved" /\ UNCHANGED written
               ELSE outcome' = "linked" /\ written' = << >>
        PROVE  <1>7!:
    <3>1. failures' \in 0 .. MaxFailures
      <4>1. failures < MaxFailures /\ failures' = failures + 1
        BY <2>3 DEF Spoiled, Fails
      <4> QED
        BY <1>3, <4>1
    <3>2. \/ UNCHANGED directory
          \/ \E file : /\ Replaced(Executable, file) /\ CutOf(file, whole)
                       /\ file.size < whole.size
      BY <1>6, <2>3, WrittenIs
    <3> QED
      BY <1>4, <2>3, <3>1, <3>2
  <2> QED
    BY <1>1, <2>1, <2>2, <2>3 DEF whole
<1>8. Typed'
  BY <1>1, <1>2, <1>3, <1>7 DEF Typed
<1>9. \/ directory' = directory
      \/ \E file : Replaced(Executable, file)
  BY <1>7
<1>10. FilesMade'
  BY <1>2, <1>9, FilesStay, ExecutableReplaced
<1>11. ExecutableMade'
  <2>1. CASE directory' = directory /\ written' = written
    BY <1>2, <2>1, ExecutableStays
  <2>2. ASSUME NEW file, Replaced(Executable, file), CutOf(file, whole), code_size # 0,
               file.size = whole.size => written' = <<rod, code>>
        PROVE  ExecutableMade'
    <3>1. directory'[Executable] = file
      BY <2>2 DEF Replaced
    <3>2. /\ file.fields = ExecutableFields(rod_size, code_size, rod, code)
          /\ file.size \in Nat /\ file.size <= msli_header_size + rod_size + code_size
          /\ file.size = msli_header_size + rod_size + code_size => written' = <<rod, code>>
      BY <1>6, <2>2 DEF CutOf
    <3>3. IsExecutable(rod_size, code_size, rod, code)'
      BY <3>1, <3>2 DEF IsExecutable
    <3>4. code_size \in Nat \ {0}
      BY <1>5, <2>2
    <3> QED
      BY <1>5, <3>3, <3>4 DEF ExecutableMade
  <2>3. CutOf(whole, whole)
    BY <1>6 DEF CutOf
  <2>4. ASSUME NEW file, CutOf(file, whole), file.size < whole.size
        PROVE  file.size # whole.size
    BY <1>6, <2>4 DEF CutOf
  <2> QED
    BY <1>7, <2>1, <2>2, <2>3, <2>4
<1>12. AllSaved'
  <2>1. \A name \in DOMAIN directory : name # Executable =>
          name \in DOMAIN directory' /\ directory'[name] = directory[name]
    BY <1>9 DEF Replaced
  <2>2. CASE ~intact
    BY <1>1, <2>2 DEF AllSaved
  <2>3. CASE intact
    <3>1. Main \in DOMAIN directory' /\ directory'[Main] = MainObject(compilation)
      BY <1>1, <1>2, <2>1, <2>3, NamesDiffer DEF AllSaved
    <3>2. ASSUME NEW k \in DOMAIN compilation.order
          PROVE  CodeSaved(k)'
      <4>1. CodeSaved(k)
        BY <1>1, <1>2, <2>3 DEF AllSaved
      <4> DEFINE name == Module(compilation.order[k])
      <4>2. /\ name \in DOMAIN directory /\ directory[name] = CodeObject(compilation, k)
            /\ name # Executable
        BY <4>1, NamesDiffer DEF CodeSaved
      <4>3. name \in DOMAIN directory' /\ directory'[name] = CodeObject(compilation, k)
        BY <2>1, <4>2
      <4> QED
        BY <1>1, <4>3 DEF CodeSaved
    <3> QED
      BY <1>1, <3>1, <3>2 DEF AllSaved
  <2> QED
    BY <2>2, <2>3
<1>13. MainIsRead' /\ CodeIsRead' /\ LoadsWhatWasLinked'
  BY <1>1, <1>3 DEF MainIsRead, CodeIsRead, LoadsWhatWasLinked
<1>14. /\ \E c \in Compilations : MainRead = MainOf(c)
       /\ \A n \in DOMAIN state.pools :
            \E c \in Compilations : \E k \in DOMAIN c.order :
              c.order[k] = state.linking_order[n] /\ state.pools[n] = PoolOf(c, k)
       /\ intact => /\ MainRead = MainOf(compilation)
                    /\ state.pools = [k \in DOMAIN compilation.code |-> PoolOf(compilation, k)]
  BY <1>1, AllIsRead
<1>15. LinksWholeFiles'
  <2>1. (\E c \in Compilations : MainRead = MainOf(c))'
    BY <1>1, <1>14 DEF MainRead, MainOf
  <2>2. ASSUME NEW n \in DOMAIN state'.pools
        PROVE  (\E c \in Compilations : \E k \in DOMAIN c.order :
                  c.order[k] = state.linking_order[n] /\ state.pools[n] = PoolOf(c, k))'
    BY <1>1, <1>14 DEF PoolOf
  <2> QED
    BY <2>1, <2>2 DEF LinksWholeFiles
<1>16. ASSUME CodeSize = 0, intact
       PROVE  \A k \in DOMAIN compilation.code : compilation.code[k] = << >>
  <2> SUFFICES ASSUME NEW k \in DOMAIN compilation.code
               PROVE  compilation.code[k] = << >>
    OBVIOUS
  <2>1. /\ state.pools = [i \in DOMAIN compilation.code |-> PoolOf(compilation, i)]
        /\ state.pools \in Seq(Pools) /\ compilation \in Compilations
    BY <1>2, <1>14, <1>16 DEF Typed
  <2>2. state.pools[k] = PoolOf(compilation, k)
    BY <2>1
  <2>3. state.pools[k].commands = compilation.code[k]
    BY <2>2 DEF PoolOf
  <2>4. k \in DOMAIN state.pools
    BY <2>1
  <2>5. k \in 1 .. Len(state.pools)
    BY <2>1, <2>4, LenProperties
  <2>6. Len(state.pools[k].commands) = 0
    BY <1>2, <1>16, <2>5, SizesOfExecutable
  <2>7. compilation.code[k] \in Seq([1 .. 9 -> Nat])
    BY <2>1, CompilationIs
  <2> QED
    BY <2>3, <2>6, <2>7, EmptySeq
<1>17. WholeCompilationLinks'
  <2> SUFFICES ASSUME intact
               PROVE  /\ \/ outcome' \in {"linked", "unsaved"}
                         \/ \A k \in DOMAIN compilation.code : compilation.code[k] = << >>
                      /\ MainRead = MainOf(compilation)
                      /\ state.pools = [k \in DOMAIN compilation.code |-> PoolOf(compilation, k)]
    BY <1>1 DEF WholeCompilationLinks, MainRead, MainOf, PoolOf
  <2>1. \/ outcome' \in {"linked", "unsaved"}
        \/ \A k \in DOMAIN compilation.code : compilation.code[k] = << >>
    BY <1>7, <1>16
  <2> QED
    BY <1>14, <2>1
<1> QED
  BY <1>8, <1>10, <1>11, <1>12, <1>13, <1>15, <1>17 DEF IInv

(* What a file holds at the place of a value, and what is loaded of it.    *)
LEMMA WhatIsLoaded ==
  ASSUME NEW file, file.size \in Nat, NEW at \in Nat, NEW width \in Nat, NEW value,
         Has(file.fields, at, width, value)
  PROVE  /\ \A v \in Values(file, at, width) : v = value
         /\ at + width <= file.size => Loads(file, at, width) = {value}
<1>1. Values(file, at, width) = IF at + width > file.size THEN {} ELSE {value}
  BY ValuesAre
<1>2. at + width <= file.size => ~(at + width > file.size)
  OBVIOUS
<1> QED
  BY <1>1, <1>2 DEF Loads

(* The machine loads what was linked. *)
LEMMA LoadScriptKeeps ==
  ASSUME IInv, LoadScript
  PROVE  IInv'
<1> DEFINE file == directory[Executable]
<1>1. /\ stage = "nothing" /\ Executable \in DOMAIN directory
      /\ \E rod_offset \in Values(file, 11, 8), rod_size \in Values(file, 19, 8),
            code_offset \in Values(file, 27, 8), code_size \in Values(file, 35, 8) :
            /\ FileHoldsCode(file.size, code_offset + code_size)
            /\ \E rod \in Loads(file, rod_offset, rod_size),
                 code \in Loads(file, code_offset, code_size) : loaded' = <<rod, code>>
      /\ directory' = directory /\ compilation' = compilation
      /\ compilations' = compilations /\ intact' = intact /\ failures' = failures
      /\ stage' = stage /\ next' = next /\ outcome' = outcome /\ written' = written
      /\ section' = section /\ opened' = opened /\ offset' = offset /\ end' = end
      /\ state' = state
  BY DEF LoadScript, compiler, reader
<1>2. /\ Typed /\ FilesMade /\ ExecutableMade /\ AllSaved
      /\ WholeCompilationLinks /\ LinksWholeFiles
  BY DEF IInv
<1>3. PICK r \in Nat, s \in Nat \ {0} : \E rod, code : IsExecutable(r, s, rod, code)
  BY <1>1, <1>2 DEF ExecutableMade
<1>4. PICK rod, code : IsExecutable(r, s, rod, code)
  BY <1>3
<1> DEFINE F == file.fields
<1>5. /\ F = ExecutableFields(r, s, rod, code)
      /\ file.size \in Nat /\ file.size <= 100 + r + s
      /\ file.size = 100 + r + s => written = <<rod, code>>
  BY <1>4 DEF IsExecutable, msli_header_size
<1>6. /\ Has(F, 11, 8, 100) /\ Has(F, 19, 8, r) /\ Has(F, 27, 8, 100 + r)
      /\ Has(F, 35, 8, s) /\ Has(F, 100, r, rod) /\ Has(F, 100 + r, s, code)
  <2> HIDE DEF F
  <2> QED
    BY <1>5, ExecutablePacked
<1>7. PICK rod_offset \in Values(file, 11, 8), rod_size \in Values(file, 19, 8),
           code_offset \in Values(file, 27, 8), code_size \in Values(file, 35, 8) :
        /\ FileHoldsCode(file.size, code_offset + code_size)
        /\ \E rod_got \in Loads(file, rod_offset, rod_size),
             code_got \in Loads(file, code_offset, code_size) : loaded' = <<rod_got, code_got>>
  BY <1>1
<1>8. /\ rod_offset = 100 /\ rod_size = r /\ code_offset = 100 + r /\ code_size = s
  <2> DEFINE a == 11
             b == 19
             d == 27
             e == 35
             w == 8
             o == 100
             p == 100 + r
  <2>1. /\ a \in Nat /\ b \in Nat /\ d \in Nat /\ e \in Nat /\ w \in Nat
        /\ Has(F, a, w, o) /\ Has(F, b, w, r) /\ Has(F, d, w, p) /\ Has(F, e, w, s)
        /\ rod_offset \in Values(file, a, w) /\ rod_size \in Values(file, b, w)
        /\ code_offset \in Values(file, d, w) /\ code_size \in Values(file, e, w)
    BY <1>6
  <2> HIDE DEF a, b, d, e, w, o, p, file
  <2>2. rod_offset = o
    BY <1>5, <2>1, WhatIsLoaded
  <2>3. rod_size = r
    BY <1>5, <2>1, WhatIsLoaded
  <2>4. code_offset = p
    BY <1>5, <2>1, WhatIsLoaded
  <2>5. code_size = s
    BY <1>5, <2>1, WhatIsLoaded
  <2> QED
    BY <2>2, <2>3, <2>4, <2>5 DEF o, p
<1>9. file.size >= 100 + r + s
  BY <1>7, <1>8 DEF FileHoldsCode
<1>10. written = <<rod, code>>
  <2>1. file.size = 100 + r + s
    <3> HIDE DEF file
    <3> QED
      BY <1>3, <1>5, <1>9
  <2> QED
    BY <1>5, <2>1
<1>11. loaded' = <<rod, code>>
  <2> DEFINE o == 100
             p == 100 + r
  <2>1. /\ o \in Nat /\ p \in Nat /\ Has(F, o, r, rod) /\ Has(F, p, s, code)
        /\ o + r <= file.size /\ p + s <= file.size /\ s \in Nat
        /\ \E rod_got \in Loads(file, o, r), code_got \in Loads(file, p, s) :
             loaded' = <<rod_got, code_got>>
    <3>1. o + r <= file.size /\ p + s <= file.size
      <4> HIDE DEF file
      <4> QED
        BY <1>3, <1>5, <1>9
    <3>2. \E rod_got \in Loads(file, o, r), code_got \in Loads(file, p, s) :
            loaded' = <<rod_got, code_got>>
      BY <1>7, <1>8
    <3> QED
      BY <1>6, <3>1, <3>2
  <2> HIDE DEF o, p, file
  <2>2. Loads(file, o, r) = {rod}
    BY <1>5, <2>1, WhatIsLoaded
  <2>3. Loads(file, p, s) = {code}
    BY <1>5, <2>1, WhatIsLoaded
  <2> QED
    BY <2>1, <2>2, <2>3
<1>12. LoadsWhatWasLinked'
  BY <1>1, <1>10, <1>11 DEF LoadsWhatWasLinked
<1>13. Typed'
  BY <1>1, <1>2 DEF Typed
<1>14. FilesMade' /\ ExecutableMade' /\ AllSaved'
  <2>1. stage # "compiler" /\ stage' # "compiler"
    BY <1>1
  <2> QED
    BY <1>1, <1>2, <2>1, FilesStay, ExecutableStays, AllStaysSaved
<1>15. MainIsRead' /\ CodeIsRead'
  BY <1>1 DEF MainIsRead, CodeIsRead
<1>16. WholeCompilationLinks'
  BY <1>1, <1>2 DEF WholeCompilationLinks, MainRead, MainOf, PoolOf
<1>17. LinksWholeFiles'
  BY <1>1, <1>2 DEF LinksWholeFiles, MainRead, MainOf, PoolOf
<1> QED
  BY <1>12, <1>13, <1>14, <1>15, <1>16, <1>17 DEF IInv

-----------------------------------------------------------------------------
(* The theorems.                                                           *)

(* At first there is no file, and nothing has been read. *)
LEMMA InitHolds ==
  ASSUME Init
  PROVE  IInv
<1>1. /\ DOMAIN directory = {}
      /\ compilation \in Compilations /\ compilations = 0 /\ intact = FALSE /\ failures = 0
      /\ stage = "nothing" /\ next = 1
      /\ offset = 0 /\ end = 0 /\ outcome = "none" /\ loaded = << >>
  BY DEF Init
<1>2. /\ state.linking_order = << >> /\ state.constants = << >> /\ state.symbols = << >>
      /\ state.pools = << >>
      /\ state = [linking_order |-> state.linking_order, constants |-> state.constants,
                  symbols |-> state.symbols, pools |-> state.pools]
  BY DEF Init, NothingRead
<1>3. Typed
  <2>1. MaxCompilations \in Nat /\ MaxFailures \in Nat
    BY ObjectFilesAssumption
  <2>2. 0 \in 0 .. MaxCompilations /\ 0 \in 0 .. MaxFailures
    BY <2>1
  <2>3. << >> \in Seq(Nat) /\ << >> \in Seq(ConstantsRead) /\ << >> \in Seq(SymbolsRead)
        /\ << >> \in Seq(Pools)
    OBVIOUS
  <2>4. /\ state.linking_order \in Seq(Nat) /\ state.constants \in Seq(ConstantsRead)
        /\ state.symbols \in Seq(SymbolsRead) /\ state.pools \in Seq(Pools)
    BY <1>2, <2>3
  <2>5. next \in Nat \ {0} /\ offset \in Nat /\ end \in Nat
    <3>1. 1 \in Nat \ {0} /\ 0 \in Nat
      OBVIOUS
    <3>2. next = 1 /\ offset = 0 /\ end = 0
      BY <1>1
    <3> QED
      BY <3>1, <3>2
  <2>6. intact \in BOOLEAN
    BY <1>1
  <2> QED
    BY <1>1, <1>2, <2>2, <2>4, <2>5, <2>6 DEF Typed
<1>4. FilesMade /\ ExecutableMade /\ AllSaved
  BY <1>1 DEF FilesMade, ExecutableMade, AllSaved
<1>5. MainIsRead /\ CodeIsRead
  BY <1>1 DEF MainIsRead, CodeIsRead
<1>6. WholeCompilationLinks /\ LinksWholeFiles /\ LoadsWhatWasLinked
  BY <1>1 DEF WholeCompilationLinks, LinksWholeFiles, LoadsWhatWasLinked
<1> QED
  BY <1>3, <1>4, <1>5, <1>6 DEF IInv

(* A step that changes nothing keeps it. *)
LEMMA StutterKeeps ==
  ASSUME IInv, UNCHANGED vars
  PROVE  IInv'
<1>1. /\ directory' = directory /\ compilation' = compilation
      /\ compilations' = compilations /\ intact' = intact /\ failures' = failures
      /\ stage' = stage /\ next' = next /\ outcome' = outcome /\ written' = written
      /\ section' = section /\ opened' = opened /\ offset' = offset /\ end' = end
      /\ state' = state /\ loaded' = loaded
  BY DEF vars, compiler, reader
<1>2. Typed'
  BY <1>1 DEF IInv, Typed
<1>3. FilesMade' /\ ExecutableMade'
  BY <1>1, FilesStay, ExecutableStays DEF IInv
<1>4. AllSaved'
  BY <1>1 DEF IInv, AllSaved, CodeSaved
<1>5. MainRead' = MainRead
  BY <1>1 DEF MainRead
<1>6. MainIsRead'
  <2>1. ASSUME NEW c \in Compilations, Reading(c)
        PROVE  Reading(c)'
    BY <1>1, <1>5, <2>1 DEF Reading, Begins, MainOf
  <2>2. ASSUME NEW c \in Compilations, CutOf(directory[Main], MainObject(c))
        PROVE  CutOf(directory[Main], MainObject(c))'
    BY <1>1, <2>2 DEF CutOf
  <2> QED
    BY <1>1, <2>1, <2>2 DEF IInv, MainIsRead
<1>7. ASSUME stage = "modules"
      PROVE  MainWasRead' /\ \A n \in 1 .. next - 1 : PoolRead(n)'
  <2>1. MainWasRead /\ \A n \in 1 .. next - 1 : PoolRead(n)
    BY <1>7 DEF IInv, CodeIsRead
  <2> QED
    BY <1>1, <1>5, <2>1 DEF MainWasRead, MainOf, PoolRead, PoolOf
<1>8. ASSUME NEW c \in Compilations, NEW k \in DOMAIN c.order, ReadingCode(c, k)
      PROVE  ReadingCode(c, k)'
  BY <1>1, <1>8 DEF ReadingCode, IsCodeOf, CutOf, Begins
<1>9. CodeIsRead'
  BY <1>1, <1>7, <1>8 DEF IInv, CodeIsRead
<1>10. WholeCompilationLinks'
  BY <1>1, <1>5 DEF IInv, WholeCompilationLinks, MainOf, PoolOf
<1>11. LinksWholeFiles'
  BY <1>1, <1>5 DEF IInv, LinksWholeFiles, MainOf, PoolOf
<1>12. LoadsWhatWasLinked'
  BY <1>1 DEF IInv, LoadsWhatWasLinked
<1> QED
  BY <1>2, <1>3, <1>4, <1>6, <1>9, <1>10, <1>11, <1>12 DEF IInv

(* Every step keeps the invariant. *)
LEMMA NextKeeps ==
  IInv /\ [Next]_vars => IInv'
<1> SUFFICES ASSUME IInv, [Next]_vars
             PROVE  IInv'
  OBVIOUS
<1>1. CASE Next
  BY <1>1, TestCompileKeeps, SaveAsMSLCOKeeps, SaveAsMSLMOKeeps, CompilerEndsKeeps,
     LinkKeeps, ReadSectionInfoKeeps, ReadModuleIdKeeps, ReadConstantKeeps,
     ReadSymbolKeeps, BeginModulesKeeps, OpenModuleKeeps, ReadCommandKeeps,
     EndModuleKeeps, ReadAstrayKeeps, SaveAsMSLIKeeps, LoadScriptKeeps DEF Next
<1>2. CASE UNCHANGED vars
  BY <1>2, StutterKeeps
<1> QED
  BY <1>1, <1>2

(* The invariant gives the types. *)
LEMMA InvariantIsTyped ==
  IInv => TypeOK
<1> SUFFICES ASSUME IInv
             PROVE  TypeOK
  OBVIOUS
<1>1. Typed /\ FilesMade /\ ExecutableMade /\ MainIsRead /\ CodeIsRead
  BY DEF IInv
<1>2. ASSUME NEW name \in DOMAIN directory
      PROVE  directory[name].size \in Nat
  <2>1. CASE name = Main
    BY <1>1, <1>2, <2>1 DEF FilesMade, CutOf
  <2>2. CASE name = Executable
    BY <1>1, <1>2, <2>2 DEF ExecutableMade, IsExecutable
  <2>3. ASSUME NEW id \in Nat, name = Module(id)
        PROVE  directory[name].size \in Nat
    BY <1>1, <1>2, <2>3 DEF FilesMade, IsCodeOf, CutOf
  <2> QED
    BY <1>1, <1>2, <2>1, <2>2, <2>3 DEF FilesMade
<1>3. stage = "modules" /\ section = "commands" => Len(state.pools) = next
  BY <1>1 DEF CodeIsRead
<1>4. stage \in {"sections", "modules"} => opened \in DOMAIN directory
  BY <1>1 DEF MainIsRead, CodeIsRead
<1> QED
  BY <1>1, <1>2, <1>3, <1>4 DEF TypeOK, Typed

(* It always holds. *)
LEMMA Invariant ==
  Spec => []IInv
<1>1. Init => IInv
  BY InitHolds
<1> QED
  BY <1>1, NextKeeps, PTL DEF Spec

(* Offsets stay numbers, each file of the directory has a size, the linker *)
(* reads a file that is there and has a pool for each module it has opened *)
(* (ObjectsReader, HandleModule).                                          *)
THEOREM TypeCorrect ==
  Spec => []TypeOK
BY Invariant, InvariantIsTyped, PTL

(* A compilation all of whose files were saved is linked whole, as it was  *)
(* packed and nothing else, whatever lay in the directory before: every    *)
(* offset that the packer computes is where ObjectsReader looks            *)
(* (ByterizeCompilationState, ByterizeCommands; DeserializeMO,             *)
(* DeserializeCO).                                                         *)
THEOREM WholeCompilationsLink ==
  Spec => []WholeCompilationLinks
<1>1. IInv => WholeCompilationLinks
  BY DEF IInv
<1> QED
  BY <1>1, Invariant, PTL

(* What is linked is made of whole files: a file that was cut off at any   *)
(* size never passes for a shorter one (DeserializeMO, DeserializeCO).     *)
THEOREM OnlyWholeFilesAreLinked ==
  Spec => []LinksWholeFiles
<1>1. IInv => LinksWholeFiles
  BY DEF IInv
<1> QED
  BY <1>1, Invariant, PTL

(* What the machine loads is what the linker wrote last, as a whole        *)
(* (SaveAsMSLI, LoadScript).                                               *)
THEOREM LoadedIsLinked ==
  Spec => []LoadsWhatWasLinked
<1>1. IInv => LoadsWhatWasLinked
  BY DEF IInv
<1> QED
  BY <1>1, Invariant, PTL

=============================================================================
