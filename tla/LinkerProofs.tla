---------------------------- MODULE LinkerProofs ----------------------------
(***************************************************************************)
(* Proofs about Linker, for every set of modules, labels and projects and  *)
(* every alignment.                                                        *)
(*                                                                         *)
(* Offsets of constants are a recursive function of their number.  What    *)
(* holds of all of them is proved by looking at the least number of which  *)
(* it would not hold.                                                      *)
(***************************************************************************)
EXTENDS Linker, TLAPS, SequenceTheorems, WellFoundedInduction

-----------------------------------------------------------------------------
(* Every set of natural numbers has a least one. *)
LEMMA LeastNatural ==
  ASSUME NEW T, T \subseteq Nat, T # {}
  PROVE  \E n \in T : \A m \in T : n <= m
<1> DEFINE R == OpToRel(<, Nat)
<1>1. IsWellFoundedOn(R, Nat)
  BY NatLessThanWellFounded
<1>2. \A m \in Nat, n \in Nat : m < n => <<m, n>> \in R
  BY DEF OpToRel
<1> HIDE DEF R
<1>3. PICK n \in T : \A m \in T : ~(<<m, n>> \in R)
  BY <1>1, WFMin
<1>4. \A m \in T : ~(m < n)
  BY <1>2, <1>3
<1> QED
  BY <1>4

-----------------------------------------------------------------------------
(* Offsets of constants.                                                   *)

(* What the definition of ConstantOffset says of the offset of constant i, *)
(* given those before it.                                                  *)
NextOffset(offsets, i) ==
  IF i <= 1 THEN 0 ELSE offsets[i - 1] + UsingSize(i - 1)

(* h is the table of the first n of them. *)
IsTable(h, n) == h = [i \in 0 .. n |-> NextOffset(h, i)]

LEMMA TablesExist == \A n \in Nat : \E h : IsTable(h, n)
<1> DEFINE T == {n \in Nat : ~\E h : IsTable(h, n)}
<1> SUFFICES ASSUME T # {}
             PROVE  FALSE
  OBVIOUS
<1>1. PICK n \in T : \A m \in T : n <= m
  BY LeastNatural
<1>2. CASE n = 0
  <2> DEFINE h == [i \in 0 .. 0 |-> 0]
  <2>1. IsTable(h, 0)
    BY DEF IsTable, NextOffset
  <2> QED
    BY <1>2, <2>1
<1>3. CASE n # 0
  <2>1. n \in Nat /\ n - 1 \in Nat /\ n - 1 \notin T
    BY <1>1, <1>3
  <2>2. PICK h : IsTable(h, n - 1)
    BY <2>1
  <2> DEFINE k == [i \in 0 .. n |-> IF i = n THEN NextOffset(h, n) ELSE h[i]]
  <2>3. ASSUME NEW i \in 0 .. n
        PROVE  k[i] = NextOffset(k, i)
    <3>1. CASE i <= 1 /\ i # n
      BY <2>1, <2>2, <3>1 DEF IsTable, NextOffset
    <3>2. CASE i <= 1 /\ i = n
      BY <3>2 DEF NextOffset
    <3>3. CASE ~(i <= 1)
      <4>1. i - 1 \in 0 .. n - 1 /\ i - 1 # n /\ i - 1 \in 0 .. n
        BY <2>1, <3>3
      <4>2. k[i - 1] = h[i - 1]
        BY <4>1
      <4>3. k[i] = NextOffset(h, i)
        <5>1. CASE i = n
          BY <5>1
        <5>2. CASE i # n
          <6>1. i \in 0 .. n - 1
            BY <2>1, <5>2
          <6> QED
            BY <2>2, <5>2, <6>1 DEF IsTable
        <5> QED
          BY <5>1, <5>2
      <4> QED
        BY <4>2, <4>3, Zenon DEF NextOffset
    <3> QED
      BY <2>1, <3>1, <3>2, <3>3
  <2> DEFINE l == [i \in 0 .. n |-> NextOffset(k, i)]
  <2>4. k = l
    <3>1. DOMAIN k = 0 .. n /\ DOMAIN l = 0 .. n /\ \A i \in 0 .. n : k[i] = l[i]
      BY <2>3
    <3> QED
      BY <3>1, Zenon
  <2>5. IsTable(k, n)
    BY <2>4 DEF IsTable
  <2> QED
    BY <2>1, <2>5
<1> QED
  BY <1>2, <1>3

(* Two tables say the same of the constants both have. *)
LEMMA TablesAgree ==
  ASSUME NEW m \in Nat, NEW n \in Nat, NEW h, NEW k, IsTable(h, m), IsTable(k, n)
  PROVE  \A i \in Nat : i <= m /\ i <= n => h[i] = k[i]
<1> DEFINE T == {i \in Nat : i <= m /\ i <= n /\ h[i] # k[i]}
<1> SUFFICES ASSUME T # {}
             PROVE  FALSE
  OBVIOUS
<1>1. PICK i \in T : \A j \in T : i <= j
  BY LeastNatural
<1>2. i \in 0 .. m /\ i \in 0 .. n
  BY <1>1
<1>3. h[i] = NextOffset(h, i) /\ k[i] = NextOffset(k, i)
  BY <1>2 DEF IsTable
<1>4. CASE i <= 1
  BY <1>1, <1>3, <1>4 DEF NextOffset
<1>5. CASE ~(i <= 1)
  <2>1. i - 1 \in Nat /\ i - 1 \notin T /\ i - 1 <= m /\ i - 1 <= n
    BY <1>1, <1>5
  <2>2. h[i - 1] = k[i - 1]
    BY <2>1
  <2>3. NextOffset(h, i) = NextOffset(k, i)
    BY <2>2, Zenon DEF NextOffset
  <2> QED
    BY <1>1, <1>3, <2>3
<1> QED
  BY <1>4, <1>5

(* So the definition of ConstantOffset defines a function. *)
LEMMA ConstantOffsetIs ==
  ConstantOffset = [i \in Nat |-> NextOffset(ConstantOffset, i)]
<1> DEFINE Table(n) == CHOOSE h : IsTable(h, n)
           g == [n \in Nat |-> Table(n)[n]]
<1>1. \A n \in Nat : IsTable(Table(n), n)
  BY TablesExist
<1> HIDE DEF Table
<1>2. ASSUME NEW n \in Nat
      PROVE  g[n] = NextOffset(g, n)
  <2>1. g[n] = NextOffset(Table(n), n)
    BY <1>1 DEF IsTable
  <2>2. CASE n <= 1
    BY <2>1, <2>2 DEF NextOffset
  <2>3. CASE ~(n <= 1)
    <3>1. n - 1 \in Nat /\ n - 1 <= n
      BY <2>3
    <3>2. Table(n)[n - 1] = Table(n - 1)[n - 1]
      BY <1>1, <3>1, TablesAgree
    <3>3. g[n - 1] = Table(n)[n - 1]
      BY <3>1, <3>2
    <3> QED
      BY <2>1, <3>3, Zenon DEF NextOffset
  <2> QED
    BY <2>2, <2>3
<1>3. g = [n \in Nat |-> NextOffset(g, n)]
  BY <1>2
<1>4. \E f : f = [n \in Nat |-> NextOffset(f, n)]
  BY <1>3
<1> QED
  BY <1>4, Zenon DEF ConstantOffset, NextOffset

-----------------------------------------------------------------------------
(* The inductive invariant.  What it says of the operations emitted so far *)
(* refers to the byte commands behind them, whose places it counts up to   *)
(* the cursor, the next command HandleModule looks at.                     *)
Cursor == <<module, command>>
Handled(p) == Before(p, Cursor)
Operations == [op : JumpOp \cup {"ACCESS", "EMIT"}, arg0 : Nat, place : Places]

Typed ==
  /\ project \in Projects /\ interactive \in BOOLEAN
  /\ module \in Nat \ {0} /\ command \in Nat
  /\ result \in Seq(Operations)
  /\ label_jmp_ip \in [Labels -> Nat \cup {NoEntry}]
  /\ except_handling_jmps \in [Labels -> SUBSET Nat]
  /\ stack_offset_of_module \in [Modules -> Nat \cup {NoEntry}]
  /\ global_memory_offset \in Nat

(* Every operation comes from a command that was handled, jumps from jumps,*)
(* and a handled command that makes operations made one.                   *)
EmittedFromHandled ==
  /\ \A i \in 1 .. Len(result) :
       /\ Handled(result[i].place)
       /\ result[i].op = At(result[i].place).op
  /\ \A p \in Places :
       Handled(p) /\ MakesOperations(At(p)) => result # <<>>

(* A label that has an entry stands where the entry says; one that was     *)
(* handled has an entry.                                                   *)
StandsAt(p, l) ==
  /\ p \in Places /\ IsLabel(p, l) /\ Handled(p)
  /\ label_jmp_ip[l] <= Len(result)
  /\ \A k \in 1 .. Len(result) : k <= label_jmp_ip[l] <=> Before(result[k].place, p)
LabelsPlaced ==
  \A l \in Labels :
    /\ label_jmp_ip[l] # NoEntry => \E p \in Places : StandsAt(p, l)
    /\ \A p \in Places : Handled(p) /\ IsLabel(p, l) => label_jmp_ip[l] # NoEntry

(* What waits for a label is a jump to it, and only for one not placed.    *)
JumpsWait ==
  \A l \in Labels :
    /\ label_jmp_ip[l] # NoEntry => except_handling_jmps[l] = {}
    /\ \A w \in except_handling_jmps[l] :
         /\ w + 1 \in 1 .. Len(result)
         /\ result[w + 1].op \in JumpOp
         /\ At(result[w + 1].place).label = l

(* Only the interactive linker gets beyond the start; a linked program has *)
(* no jump left that waits, a failed one a reason.                         *)
OutcomesHold ==
  /\ outcome = "start" => module = 1 /\ command = 0
  /\ vm_index = 1 => interactive
  /\ outcome \in {"linking", "linked"} => interactive
  /\ outcome = "linked" =>
       /\ module > Len(Order)
       /\ \A l \in Labels : except_handling_jmps[l] = {}
  /\ FailsForAReason

(* Modules begun have frames one after the other behind the constants.     *)
Begun(i) == i < module \/ (i = module /\ command > 0)
OffsetOf(i) == stack_offset_of_module[Order[i]]
SizeOf(i) == project.stack_size[Order[i]]
FramesInARow ==
  outcome \in {"linking", "linked"} =>
    /\ StackStart <= global_memory_offset
    /\ \A i \in 1 .. Len(Order) :
         /\ Begun(i) => OffsetOf(i) # NoEntry /\ StackStart <= OffsetOf(i)
         /\ i < module => OffsetOf(i) + SizeOf(i) <= global_memory_offset
         /\ i = module /\ command > 0 => OffsetOf(i) = global_memory_offset
    /\ \A i, j \in 1 .. Len(Order) :
         i < j /\ Begun(j) => OffsetOf(i) + SizeOf(i) <= OffsetOf(j)

(* An access has the address of what its command names. *)
AddressOf(p) ==
  CASE At(p).source = "Symbol" ->
         stack_offset_of_module[Owner(p)] + project.symbols[At(p).data].offset
    [] At(p).source = "MemoryAddress" -> OffsetOf(p[1]) + At(p).data
    [] At(p).source = "Constant" -> ConstantOffset[At(p).data]
AccessesResolved ==
  outcome \in {"linking", "linked"} =>
    \A i \in 1 .. Len(result) :
      LET p == result[i].place IN
      (DependenciesFirst /\ IsVariable(p)) \/ IsAccess(p, "Constant")
        => result[i].arg0 = AddressOf(p)

LinkInv ==
  /\ Typed /\ EmittedFromHandled /\ LabelsPlaced /\ JumpsWait /\ JumpsAccounted
  /\ OutcomesHold /\ FramesInARow /\ AccessesResolved

-----------------------------------------------------------------------------
(* What a project is made of.                                              *)

(* The parts of a project have the types Project gives them. *)
LEMMA PartsOfProject ==
  ASSUME Typed
  PROVE  /\ Order \in Seq(Modules) /\ Len(Order) \in Nat
         /\ \A i \in 1 .. Len(Order) : Order[i] \in Modules
         /\ \A m \in Modules :
              /\ project.code[m] \in Seq(Command) /\ Len(project.code[m]) \in Nat
              /\ project.stack_size[m] \in Nat
              /\ project.file[m] \in {"read", "missing", "damaged"}
         /\ project.constants \in Seq(Nat) /\ Len(project.constants) \in Nat
         /\ \A i \in 1 .. Len(project.constants) : project.constants[i] \in Nat
         /\ Len(project.symbols) \in Nat
         /\ \A i \in 1 .. Len(project.symbols) :
              /\ project.symbols[i].type \in {"Variable", "Undefined"}
              /\ project.symbols[i].module \in Modules
              /\ project.symbols[i].offset \in Nat
         /\ IndexesInRange(project) /\ NoModuleTwice(project)
<1>1. project \in Project /\ IndexesInRange(project) /\ NoModuleTwice(project)
  BY LinkerAssumption DEF Typed
<1>2. Order \in Seq(Modules) /\ project.constants \in Seq(Nat)
  BY <1>1 DEF Project, Order
<1>3. project.symbols \in Seq([type : {"Variable", "Undefined"},
                               module : Modules, offset : Nat])
  BY <1>1 DEF Project
<1>4. /\ project.code \in [Modules -> Seq(Command)]
      /\ project.stack_size \in [Modules -> Nat]
      /\ project.file \in [Modules -> {"read", "missing", "damaged"}]
  BY <1>1 DEF Project
<1>5. /\ Len(Order) \in Nat /\ \A i \in 1 .. Len(Order) : Order[i] \in Modules
      /\ Len(project.constants) \in Nat
      /\ \A i \in 1 .. Len(project.constants) : project.constants[i] \in Nat
  BY <1>2
<1>6. /\ Len(project.symbols) \in Nat
      /\ \A i \in 1 .. Len(project.symbols) :
           /\ project.symbols[i].type \in {"Variable", "Undefined"}
           /\ project.symbols[i].module \in Modules
           /\ project.symbols[i].offset \in Nat
  <2> DEFINE S == [type : {"Variable", "Undefined"}, module : Modules, offset : Nat]
  <2> HIDE DEF S
  <2>1. project.symbols \in Seq(S)
    BY <1>3 DEF S
  <2>2. Len(project.symbols) \in Nat
        /\ \A i \in 1 .. Len(project.symbols) : project.symbols[i] \in S
    BY <2>1
  <2> QED
    BY <2>2 DEF S
<1>7. \A m \in Modules :
        /\ project.code[m] \in Seq(Command) /\ Len(project.code[m]) \in Nat
        /\ project.stack_size[m] \in Nat
        /\ project.file[m] \in {"read", "missing", "damaged"}
  BY <1>4
<1> QED
  BY <1>1, <1>2, <1>5, <1>6, <1>7

(* A place is a module's number in the linking order and that of one of    *)
(* its commands.                                                           *)
LEMMA PlaceIs ==
  \A p : p \in Places <=>
    /\ p = <<p[1], p[2]>>
    /\ p[1] \in 1 .. Len(Order) /\ p[2] \in 1 .. Len(project.code[Order[p[1]]])
BY DEF Places

(* A byte command at a place is a Command: jumps and labels have a label,  *)
(* accesses a source and an index that is in range.                        *)
LEMMA CommandAtPlace ==
  ASSUME Typed, NEW p \in Places
  PROVE  /\ p[1] \in 1 .. Len(Order) /\ p[1] \in Nat /\ p[2] \in Nat
         /\ p[2] >= 1 /\ p[2] <= Len(project.code[Order[p[1]]])
         /\ At(p) \in Command
         /\ At(p).op \in JumpOp \cup {"JMP_LABEL"} => At(p).label \in Labels
         /\ At(p).op = "EMIT" => At(p).operations \in Nat
         /\ At(p).op = "ACCESS" =>
              /\ At(p).source \in Source /\ At(p).data \in Nat
              /\ At(p).source = "Symbol" => At(p).data \in 1 .. Len(project.symbols)
              /\ At(p).source = "Constant" => At(p).data \in 1 .. Len(project.constants)
<1>1. /\ p[1] \in 1 .. Len(Order)
      /\ p[2] \in 1 .. Len(project.code[Order[p[1]]])
  BY PlaceIs
<1>2. Order[p[1]] \in Modules /\ Len(Order) \in Nat
  BY <1>1, PartsOfProject
<1>3. /\ project.code[Order[p[1]]] \in Seq(Command)
      /\ Len(project.code[Order[p[1]]]) \in Nat
  BY <1>2, PartsOfProject
<1>4. At(p) \in Command
  BY <1>1, <1>3 DEF At
<1>5. At(p).op = "ACCESS" =>
        /\ At(p).source = "Symbol" => At(p).data \in 1 .. Len(project.symbols)
        /\ At(p).source = "Constant" => At(p).data \in 1 .. Len(project.constants)
  BY <1>1, <1>2, PartsOfProject DEF IndexesInRange, At
<1>6. /\ At(p).op \in JumpOp \cup {"JMP_LABEL"} => At(p).label \in Labels
      /\ At(p).op = "EMIT" => At(p).operations \in Nat
      /\ At(p).op = "ACCESS" => At(p).source \in Source /\ At(p).data \in Nat
  BY <1>4 DEF Command, JumpOp
<1> QED
  BY <1>1, <1>2, <1>3, <1>4, <1>5, <1>6

(* A step that keeps the project keeps all that is computed from it.       *)
LEMMA ProjectStays ==
  ASSUME project' = project
  PROVE  /\ Order' = Order /\ Places' = Places
         /\ \A p : /\ At(p)' = At(p)
                   /\ MakesOperations(At(p))' <=> MakesOperations(At(p))
                   /\ \A l : IsLabel(p, l)' <=> IsLabel(p, l)
                   /\ \A t : IsAccess(p, t)' <=> IsAccess(p, t)
                   /\ IsVariable(p)' <=> IsVariable(p)
                   /\ Owner(p)' = Owner(p)
         /\ LabelsUnique' <=> LabelsUnique
         /\ Unlinkable' <=> Unlinkable
         /\ DependenciesFirst' <=> DependenciesFirst
<1>1. Order' = Order
  BY DEF Order
<1>2. Places' = Places
  BY <1>1, Zenon DEF Places
<1>3. \A p : At(p)' = At(p)
  BY <1>1, Zenon DEF At
<1>4. \A p : \A t : IsAccess(p, t)' <=> IsAccess(p, t)
  BY <1>3, Zenon DEF IsAccess
<1>5. \A p : \A l : IsLabel(p, l)' <=> IsLabel(p, l)
  BY <1>3, Zenon DEF IsLabel
<1>6. \A p : IsVariable(p)' <=> IsVariable(p)
  BY <1>3, <1>4, Zenon DEF IsVariable
<1>7. \A p : Owner(p)' = Owner(p)
  BY <1>1, <1>3, Zenon DEF Owner
<1>8. LabelsUnique' <=> LabelsUnique
  BY <1>2, <1>5 DEF LabelsUnique
<1>9. \A p : MakesOperations(At(p))' <=> MakesOperations(At(p))
  BY <1>3, Zenon DEF MakesOperations
<1>10. Unlinkable' <=> Unlinkable
  BY <1>1, <1>2, <1>3, <1>5, <1>9 DEF Unlinkable
<1>11. DependenciesFirst' <=> DependenciesFirst
  BY <1>1, <1>2, <1>3, <1>4 DEF DependenciesFirst
<1> QED
  BY <1>1, <1>2, <1>3, <1>4, <1>5, <1>6, <1>7, <1>8, <1>9, <1>10, <1>11

(* The layout of the constants depends on the project and the mode only.   *)
LEMMA ConstantsStay ==
  ASSUME project' = project, interactive' = interactive
  PROVE  ConstantOffset' = ConstantOffset /\ StackStart' = StackStart
         /\ RodSize' = RodSize
<1>1. ConstantOffset' = ConstantOffset
  BY Zenon DEF ConstantOffset, UsingSize, Align
<1>2. RodSize' = RodSize
  BY <1>1, Zenon DEF RodSize
<1> QED
  BY <1>1, <1>2, Zenon DEF StackStart, Align

-----------------------------------------------------------------------------
(* How the constants are laid out.                                         *)

Multiple(n) == \E q \in Nat : n = q * DefaultAlignment

(* A multiple of the alignment leaves no remainder. *)
LEMMA MultipleIsAligned ==
  ASSUME NEW q \in Nat
  PROVE  q * DefaultAlignment \in Nat
         /\ (q * DefaultAlignment) % DefaultAlignment = 0
<1> DEFINE A == DefaultAlignment
           n == q * A
           d == n \div A
           r == n % A
<1>1. A \in Nat \ {0}
  BY LinkerAssumption
<1> HIDE DEF A
<1>2. n \in Nat
  BY <1>1
<1> HIDE DEF n
<1>3. d \in Int /\ r \in 0 .. A - 1 /\ n = A * d + r
  BY <1>1, <1>2, Z3
<1> HIDE DEF d, r
<1>4. r = A * (q - d)
  BY <1>1, <1>3, Z3 DEF n
<1>5. ASSUME q - d >= 1
      PROVE  FALSE
  <2>1. A * (q - d) >= A
    BY <1>1, <1>3, <1>5, Z3
  <2> QED
    BY <1>1, <1>3, <1>4, <2>1
<1>6. ASSUME q - d <= -1
      PROVE  FALSE
  <2>1. A * (q - d) <= -A
    BY <1>1, <1>3, <1>6, Z3
  <2> QED
    BY <1>1, <1>3, <1>4, <2>1
<1>7. q - d = 0
  BY <1>3, <1>5, <1>6
<1>8. r = 0
  BY <1>1, <1>4, <1>7
<1> QED
  BY <1>2, <1>8 DEF n, r, A

(* Align rounds up to a multiple of the alignment. *)
LEMMA AlignRoundsUp ==
  ASSUME NEW n \in Nat
  PROVE  Align(n) \in Nat /\ n <= Align(n) /\ Multiple(Align(n))
<1> DEFINE A == DefaultAlignment
           q == (n + A - 1) \div A
<1>0. A \in Nat \ {0}
  BY LinkerAssumption
<1> HIDE DEF A
<1>1. q \in Nat
  BY <1>0
<1>2. n + A - 1 < (q + 1) * A
  BY <1>0, Z3
<1>3. (q + 1) * A = q * A + A
  BY <1>0, <1>1
<1> HIDE DEF q
<1>4. q * A \in Nat
  BY <1>0, <1>1
<1>5. n <= q * A
  BY <1>0, <1>2, <1>3, <1>4
<1> QED
  BY <1>1, <1>4, <1>5 DEF Align, Multiple, q, A

(* A constant has room for its bytes, a multiple of the alignment in       *)
(* interactive mode.                                                       *)
LEMMA UsingSizeIs ==
  ASSUME Typed, NEW i \in 1 .. Len(project.constants)
  PROVE  /\ UsingSize(i) \in Nat /\ project.constants[i] <= UsingSize(i)
         /\ interactive => Multiple(UsingSize(i))
<1>1. project.constants[i] \in Nat
  BY PartsOfProject
<1>2. CASE interactive
  <2>1. UsingSize(i) = Align(project.constants[i])
    BY <1>2 DEF UsingSize
  <2> QED
    BY <1>1, <2>1, AlignRoundsUp
<1>3. CASE ~interactive
  BY <1>1, <1>3 DEF UsingSize
<1> QED
  BY <1>2, <1>3

(* The next constant goes right behind a constant. *)
LEMMA OffsetAfter ==
  ASSUME NEW i \in Nat
  PROVE  /\ i <= 1 => ConstantOffset[i] = 0
         /\ i >= 1 => ConstantOffset[i + 1] = ConstantOffset[i] + UsingSize(i)
<1>1. /\ ConstantOffset[i] = NextOffset(ConstantOffset, i)
      /\ ConstantOffset[i + 1] = NextOffset(ConstantOffset, i + 1)
  BY ConstantOffsetIs
<1>2. ASSUME i >= 1
      PROVE  ConstantOffset[i + 1] = ConstantOffset[i] + UsingSize(i)
  <2>1. PICK j \in Nat : j = i + 1
    OBVIOUS
  <2>2. j - 1 = i /\ ~(j <= 1)
    BY <1>2, <2>1
  <2>3. ConstantOffset[j] = ConstantOffset[i] + UsingSize(i)
    BY <1>1, <2>1, <2>2, Zenon DEF NextOffset
  <2> QED
    BY <2>1, <2>3
<1> QED
  BY <1>1, <1>2 DEF NextOffset

(* Each offset is a number, a multiple of the alignment in interactive     *)
(* mode.                                                                   *)
LEMMA OffsetsAreNumbers ==
  ASSUME Typed
  PROVE  \A i \in 1 .. Len(project.constants) + 1 :
           /\ ConstantOffset[i] \in Nat
           /\ interactive => Multiple(ConstantOffset[i])
<1> DEFINE L == Len(project.constants)
           T == {i \in 1 .. L + 1 :
                   ~(ConstantOffset[i] \in Nat
                     /\ (interactive => Multiple(ConstantOffset[i])))}
<1>0. L \in Nat /\ DefaultAlignment \in Nat
  BY PartsOfProject, LinkerAssumption
<1> SUFFICES ASSUME T # {}
             PROVE  FALSE
  OBVIOUS
<1>1. PICK i \in T : \A j \in T : i <= j
  <2>1. T \subseteq Nat
    BY <1>0
  <2> HIDE DEF T
  <2> QED
    BY <2>1, LeastNatural
<1>2. CASE i = 1
  <2>1. ConstantOffset[i] = 0
    BY <1>2, OffsetAfter
  <2>2. Multiple(0)
    BY <1>0 DEF Multiple
  <2> QED
    BY <2>1, <2>2
<1>3. CASE i # 1
  <2>1. PICK j \in 1 .. L : i = j + 1
    BY <1>0, <1>3
  <2>2. /\ ConstantOffset[j] \in Nat
        /\ interactive => Multiple(ConstantOffset[j])
    BY <1>0, <1>1, <2>1
  <2>3. /\ UsingSize(j) \in Nat
        /\ interactive => Multiple(UsingSize(j))
    BY UsingSizeIs
  <2>4. ConstantOffset[i] = ConstantOffset[j] + UsingSize(j)
    BY <1>0, <2>1, OffsetAfter
  <2>5. ASSUME interactive
        PROVE  Multiple(ConstantOffset[i])
    <3>1. PICK q \in Nat : ConstantOffset[j] = q * DefaultAlignment
      BY <2>2, <2>5 DEF Multiple
    <3>2. PICK r \in Nat : UsingSize(j) = r * DefaultAlignment
      BY <2>3, <2>5 DEF Multiple
    <3>3. ConstantOffset[i] = (q + r) * DefaultAlignment
      BY <1>0, <2>4, <3>1, <3>2, Z3
    <3> QED
      BY <3>3 DEF Multiple
  <2> QED
    BY <2>2, <2>3, <2>4, <2>5
<1> QED
  BY <1>2, <1>3

(* What a constant occupies ends before every later one begins. *)
LEMMA ConstantsInARow ==
  ASSUME Typed, NEW i \in 1 .. Len(project.constants)
  PROVE  \A j \in i + 1 .. Len(project.constants) + 1 :
           ConstantOffset[i] + UsingSize(i) <= ConstantOffset[j]
<1> DEFINE L == Len(project.constants)
           end == ConstantOffset[i] + UsingSize(i)
           T == {j \in i + 1 .. L + 1 : ~(end <= ConstantOffset[j])}
<1>0. L \in Nat
  BY PartsOfProject
<1> SUFFICES ASSUME T # {}
             PROVE  FALSE
  OBVIOUS
<1>1. PICK j \in T : \A k \in T : j <= k
  <2>1. T \subseteq Nat
    BY <1>0
  <2> HIDE DEF T
  <2> QED
    BY <2>1, LeastNatural
<1>2. PICK k \in i .. L : j = k + 1
  BY <1>0
<1>3. ConstantOffset[j] = ConstantOffset[k] + UsingSize(k)
  BY <1>0, <1>2, OffsetAfter
<1>4. end \in Nat /\ ConstantOffset[k] \in Nat /\ UsingSize(k) \in Nat
  <2>1. k \in 1 .. L /\ k \in 1 .. L + 1 /\ i \in 1 .. L + 1
    BY <1>0
  <2>2. UsingSize(k) \in Nat /\ UsingSize(i) \in Nat
    BY <2>1, UsingSizeIs
  <2>3. ConstantOffset[k] \in Nat /\ ConstantOffset[i] \in Nat
    BY <2>1, OffsetsAreNumbers
  <2> QED
    BY <2>2, <2>3
<1>5. CASE k = i
  BY <1>3, <1>4, <1>5
<1>6. CASE k # i
  <2>1. k \in i + 1 .. L + 1 /\ k \notin T
    BY <1>0, <1>1, <1>2, <1>6
  <2>2. end <= ConstantOffset[k]
    BY <2>1
  <2> HIDE DEF end
  <2>3. end <= ConstantOffset[j]
    BY <1>3, <1>4, <2>2
  <2> QED
    BY <2>3
<1> QED
  BY <1>5, <1>6

(* The argument of an access becomes a number.                             *)
LEMMA RelocatedIsNumber ==
  ASSUME Typed, Cursor \in Places, C = At(Cursor), C.op = "ACCESS"
  PROVE  Relocated(C) \in Nat
<1>1. C.source \in Source /\ C.data \in Nat
  BY CommandAtPlace
<1>2. CASE C.source = "Symbol"
  <2>1. C.data \in 1 .. Len(project.symbols)
    BY <1>2, CommandAtPlace
  <2>2. /\ project.symbols[C.data].type \in {"Variable", "Undefined"}
        /\ project.symbols[C.data].module \in Modules
        /\ project.symbols[C.data].offset \in Nat
        /\ Len(project.symbols) \in Nat
    BY <2>1, PartsOfProject
  <2>3. StackOffset(project.symbols[C.data].module) \in Nat
    BY <2>2 DEF StackOffset, Typed, NoEntry
  <2>4. SymbolValue(C.data) \in Nat
    BY <2>1, <2>2, <2>3 DEF SymbolValue
  <2> QED
    BY <1>2, <2>4 DEF Relocated
<1>3. CASE C.source = "MemoryAddress"
  <2>1. module \in 1 .. Len(Order)
    BY PlaceIs DEF Cursor
  <2>2. M \in Modules
    BY <2>1, PartsOfProject DEF M, Order
  <2>3. StackOffset(M) \in Nat
    BY <2>2 DEF StackOffset, Typed, NoEntry
  <2> QED
    BY <1>1, <1>3, <2>3 DEF Relocated
<1>4. CASE C.source = "Constant"
  <2>1. C.data \in 1 .. Len(project.constants)
    BY <1>4, CommandAtPlace
  <2>2. C.data \in 1 .. Len(project.constants) + 1
    BY <2>1, PartsOfProject
  <2> QED
    BY <1>4, <2>2, OffsetsAreNumbers DEF Relocated
<1> QED
  BY <1>1, <1>2, <1>3, <1>4 DEF Source

-----------------------------------------------------------------------------
(* The steps of the linker: they march on from module to module or handle  *)
(* the command at the cursor.                                              *)
Marching ==
  /\ UNCHANGED <<result, label_jmp_ip, except_handling_jmps>>
  /\ \A p \in Places : Handled(p)' <=> Handled(p)
Handling ==
  /\ PlaceLabel \/ HandleJump \/ HandleAccess \/ HandleOther
  /\ outcome = "linking" /\ outcome' = outcome
  /\ UNCHANGED <<module, stack_offset_of_module, global_memory_offset>>
  /\ command' = command + 1
  /\ Cursor \in Places /\ ~Handled(Cursor) /\ C = At(Cursor)
  /\ \A p \in Places : Handled(p)' <=> Handled(p) \/ p = Cursor

(* The command a handler is given is the one at the cursor. *)
LEMMA HandlersReadTheCursor ==
  ASSUME Typed, NEW ops, Handle(ops)
  PROVE  Cursor \in Places /\ C = At(Cursor) /\ C.op \in ops
<1>1. /\ module \in 1 .. Len(Order) /\ M = Order[module]
      /\ command \in 1 .. Len(project.code[Order[module]])
  BY PartsOfProject DEF Handle, Typed, Order, M
<1>2. Cursor[1] = module /\ Cursor[2] = command
  BY DEF Cursor
<1> QED
  BY <1>1, <1>2 DEF Cursor, Places, C, At, Handle

(* What the step to the next command makes handled. *)
LEMMA CursorAdvances ==
  ASSUME Typed, Cursor \in Places, module' = module, command' = command + 1
  PROVE  ~Handled(Cursor) /\ \A p \in Places : Handled(p)' <=> Handled(p) \/ p = Cursor
<1>1. ASSUME NEW p \in Places
      PROVE  Handled(p)' <=> Handled(p) \/ p = Cursor
  <2>1. p = <<p[1], p[2]>> /\ p[1] \in Nat /\ p[2] \in Nat
    BY PlaceIs, CommandAtPlace
  <2>2. p = Cursor <=> p[1] = module /\ p[2] = command
    BY <2>1 DEF Cursor
  <2> QED
    BY <2>1, <2>2 DEF Handled, Before, Cursor, Typed
<1> QED
  BY <1>1 DEF Handled, Before, Cursor, Typed

LEMMA Steps ==
  ASSUME Typed, [Next]_vars
  PROVE  /\ project' = project /\ interactive' = interactive /\ vm_index' = vm_index
         /\ Marching \/ Handling
<1>1. CASE StartModule
  <2>1. /\ project' = project /\ interactive' = interactive /\ vm_index' = vm_index
        /\ UNCHANGED <<result, label_jmp_ip, except_handling_jmps, module>>
        /\ command = 0
    BY <1>1, Zenon DEF StartModule
  <2>2. M \in Modules
    BY <1>1, PartsOfProject DEF StartModule, Typed, M, Order
  <2>3. command' = 1 \/ command' = command
    BY <1>1, <2>2, PartsOfProject DEF StartModule
  <2>4. ASSUME NEW p \in Places
        PROVE  Handled(p)' <=> Handled(p)
    BY <2>1, <2>3, CommandAtPlace DEF Handled, Before, Cursor, Typed
  <2> QED
    BY <2>1, <2>4 DEF Marching
<1>2. CASE FinishModule
  <2>1. /\ project' = project /\ interactive' = interactive /\ vm_index' = vm_index
        /\ UNCHANGED <<result, label_jmp_ip, except_handling_jmps>>
        /\ module' = module + 1 /\ command' = 0
        /\ command > Len(project.code[Order[module]])
    BY <1>2 DEF FinishModule, M, Order
  <2>2. ASSUME NEW p \in Places
        PROVE  Handled(p)' <=> Handled(p)
    <3>1. p[1] = module => p[2] < command
      BY <2>1, CommandAtPlace, PartsOfProject DEF Typed
    <3> QED
      BY <2>1, <3>1, CommandAtPlace DEF Handled, Before, Cursor, Typed
  <2> QED
    BY <2>1, <2>2 DEF Marching
<1>3. CASE PlaceLabel \/ HandleJump \/ HandleAccess \/ HandleOther
  <2>1. PICK ops : Handle(ops) /\ NextCommand
    BY <1>3 DEF PlaceLabel, HandleJump, HandleAccess, HandleOther
  <2>2. Cursor \in Places /\ C = At(Cursor)
    BY <2>1, HandlersReadTheCursor
  <2>3. /\ project' = project /\ interactive' = interactive /\ vm_index' = vm_index
        /\ UNCHANGED <<module, outcome, stack_offset_of_module, global_memory_offset>>
        /\ command' = command + 1 /\ outcome = "linking"
    BY <2>1 DEF NextCommand, Handle
  <2>4. ~Handled(Cursor) /\ \A p \in Places : Handled(p)' <=> Handled(p) \/ p = Cursor
    BY <2>2, <2>3, CursorAdvances
  <2> QED
    BY <1>3, <2>2, <2>3, <2>4 DEF Handling
<1>4. CASE Refuse \/ PlaceConstants \/ HandleUnsupported \/ Finish \/ UNCHANGED vars
  <2>1. UNCHANGED <<project, interactive, vm_index, module, command,
                    result, label_jmp_ip, except_handling_jmps>>
    BY <1>4 DEF Refuse, PlaceConstants, HandleUnsupported, Finish, Fail, vars, state
  <2>2. \A p \in Places : Handled(p)' <=> Handled(p)
    BY <2>1 DEF Handled, Before, Cursor
  <2> QED
    BY <2>1, <2>2 DEF Marching
<1> QED
  BY <1>1, <1>2, <1>3, <1>4 DEF Next

(* What a handler does to the result: it may resolve arguments of earlier  *)
(* operations and adds operations for its command.                         *)
LEMMA ResultGrows ==
  ASSUME Typed, Handling
  PROVE  /\ result' \in Seq(Operations) /\ Len(result') >= Len(result)
         /\ \A k \in 1 .. Len(result) :
              /\ result'[k].place = result[k].place
              /\ result'[k].op = result[k].op
              /\ ~PlaceLabel => result'[k] = result[k]
         /\ \A k \in Len(result) + 1 .. Len(result') :
              result'[k].place = Cursor /\ result'[k].op = At(Cursor).op
         /\ MakesOperations(At(Cursor)) => Len(result') > Len(result)
<1>0. /\ Cursor \in Places /\ C = At(Cursor) /\ Len(result) \in Nat
      /\ \A k \in 1 .. Len(result) : result[k] \in Operations
  BY DEF Handling, Typed
<1>1. ASSUME NEW o, o \in Operations, result' = Append(result, o),
             o.place = Cursor, o.op = At(Cursor).op
      PROVE  /\ result' \in Seq(Operations) /\ Len(result') = Len(result) + 1
             /\ \A k \in 1 .. Len(result) : result'[k] = result[k]
             /\ result'[Len(result) + 1] = o
  <2> DEFINE S == Operations
  <2> HIDE DEF S
  <2>1. result \in Seq(S) /\ o \in S
    BY <1>1 DEF S, Typed
  <2> QED
    BY <1>1, <2>1, AppendProperties DEF S
<1>2. CASE PlaceLabel
  <2>1. /\ At(Cursor).op = "JMP_LABEL"
        /\ result' = [i \in 1 .. Len(result) |->
             IF i - 1 \in except_handling_jmps[C.label]
             THEN [result[i] EXCEPT !.arg0 = CurrentIp] ELSE result[i]]
    BY <1>0, <1>2 DEF PlaceLabel, Handle
  <2>2. ASSUME NEW k \in 1 .. Len(result)
        PROVE  /\ result'[k] \in Operations
               /\ result'[k].place = result[k].place
               /\ result'[k].op = result[k].op
    BY <1>0, <2>1, <2>2 DEF Operations, CurrentIp
  <2>3. result' \in [1 .. Len(result) -> Operations]
    BY <2>1, <2>2, Zenon
  <2>4. result' \in Seq(Operations) /\ Len(result') = Len(result)
    <3> DEFINE S == Operations
    <3> HIDE DEF S
    <3>1. result' \in [1 .. Len(result) -> S]
      BY <2>3 DEF S
    <3> QED
      BY <1>0, <3>1 DEF S
  <2>5. ~MakesOperations(At(Cursor))
    BY <2>1 DEF MakesOperations, JumpOp
  <2> QED
    BY <1>0, <1>2, <2>2, <2>4, <2>5
<1>3. CASE HandleJump
  <2>1. /\ At(Cursor).op \in JumpOp
        /\ \/ /\ label_jmp_ip[C.label] # NoEntry
              /\ result' = Append(result, Operation(C.op, label_jmp_ip[C.label]))
           \/ result' = Append(result, Operation(C.op, 0))
    BY <1>0, <1>3 DEF HandleJump, Handle
  <2>2. C.label \in Labels
    BY <1>0, <2>1, CommandAtPlace
  <2>3. PICK n \in Nat : result' = Append(result, Operation(C.op, n))
    BY <2>1, <2>2 DEF Typed
  <2>4. /\ Operation(C.op, n) \in Operations /\ Operation(C.op, n).place = Cursor
        /\ Operation(C.op, n).op = At(Cursor).op
    BY <1>0, <2>1 DEF Operation, Operations, Cursor
  <2> QED
    BY <1>0, <1>1, <2>3, <2>4
<1>4. CASE HandleAccess
  <2>1. At(Cursor).op = "ACCESS" /\ result' = Append(result, Operation("ACCESS", Relocated(C)))
    BY <1>0, <1>4 DEF HandleAccess, Handle
  <2>2. Relocated(C) \in Nat
    BY <1>0, <2>1, RelocatedIsNumber
  <2>3. /\ Operation("ACCESS", Relocated(C)) \in Operations
        /\ Operation("ACCESS", Relocated(C)).place = Cursor
        /\ Operation("ACCESS", Relocated(C)).op = At(Cursor).op
    BY <1>0, <2>1, <2>2 DEF Operation, Operations, Cursor
  <2> QED
    BY <1>0, <1>1, <2>1, <2>3
<1>5. CASE HandleOther
  <2> DEFINE added == [i \in 1 .. C.operations |-> Operation("EMIT", 0)]
             S == Operations
  <2>1. At(Cursor).op = "EMIT" /\ result' = result \o added
    BY <1>0, <1>5 DEF HandleOther, Handle
  <2>2. C.operations \in Nat
    BY <1>0, <2>1, CommandAtPlace
  <2>3. /\ Operation("EMIT", 0) \in Operations /\ Operation("EMIT", 0).place = Cursor
        /\ Operation("EMIT", 0).op = At(Cursor).op
    BY <1>0, <2>1 DEF Operation, Operations, Cursor
  <2> HIDE DEF S
  <2>4. added \in Seq(S) /\ Len(added) = C.operations
    BY <2>2, <2>3 DEF S
  <2>5. result \in Seq(S)
    BY DEF S, Typed
  <2>6. /\ result' \in Seq(S) /\ Len(result') = Len(result) + C.operations
        /\ \A k \in 1 .. Len(result) : result'[k] = result[k]
        /\ \A k \in Len(result) + 1 .. Len(result') : result'[k] = Operation("EMIT", 0)
    <3>1. \A k \in 1 .. C.operations : added[k] = Operation("EMIT", 0)
      OBVIOUS
    <3> HIDE DEF added
    <3>2. /\ Len(result \o added) = Len(result) + Len(added)
          /\ result \o added \in Seq(S)
          /\ \A k \in 1 .. Len(result) : (result \o added)[k] = result[k]
          /\ \A k \in 1 .. Len(added) : (result \o added)[Len(result) + k] = added[k]
      BY <2>4, <2>5, ConcatProperties
    <3>3. Len(result) \in Nat
      BY <2>5
    <3>4. ASSUME NEW k \in Len(result) + 1 .. Len(result) + C.operations
          PROVE  result'[k] = Operation("EMIT", 0)
      <4>1. k - Len(result) \in 1 .. Len(added) /\ Len(result) + (k - Len(result)) = k
        BY <2>2, <2>4, <3>3
      <4> QED
        BY <2>1, <2>4, <3>1, <3>2, <4>1
    <3> QED
      BY <2>1, <2>4, <3>2, <3>4
  <2>7. MakesOperations(At(Cursor)) => C.operations > 0
    BY <1>0, <2>1 DEF MakesOperations, JumpOp
  <2> QED
    BY <1>0, <2>2, <2>3, <2>6, <2>7 DEF S
<1> QED
  BY <1>2, <1>3, <1>4, <1>5 DEF Handling

-----------------------------------------------------------------------------
(* The steps keep the invariant.                                           *)

(* The variables stay of their types. *)
LEMMA TypedKept ==
  ASSUME Typed, [Next]_vars
  PROVE  Typed'
<1>0. /\ project' = project /\ interactive' = interactive
      /\ Marching \/ Handling
  BY Steps
<1>1. Places' = Places /\ Operations' = Operations
  BY <1>0, ProjectStays, Zenon DEF Operations
<1>2. module' \in Nat \ {0} /\ command' \in Nat
  <2>1. CASE StartModule
    <3>1. M \in Modules
      BY <2>1, PartsOfProject DEF StartModule, Typed, M, Order
    <3>2. command' = 1 \/ command' = command
      BY <2>1, <3>1, PartsOfProject DEF StartModule
    <3>3. module' = module
      BY <2>1 DEF StartModule
    <3> QED
      BY <3>2, <3>3 DEF Typed
  <2>2. CASE FinishModule
    BY <2>2 DEF FinishModule, Typed
  <2>3. CASE PlaceLabel \/ HandleJump \/ HandleAccess \/ HandleOther
    BY <2>3 DEF PlaceLabel, HandleJump, HandleAccess, HandleOther, NextCommand, Typed
  <2>4. CASE Refuse \/ PlaceConstants \/ HandleUnsupported \/ Finish \/ UNCHANGED vars
    BY <2>4 DEF Refuse, PlaceConstants, HandleUnsupported, Finish, Fail, vars, Typed
  <2> QED
    BY <2>1, <2>2, <2>3, <2>4 DEF Next
<1>3. result' \in Seq(Operations)
  BY <1>0, ResultGrows DEF Marching, Typed
<1>4. /\ label_jmp_ip' \in [Labels -> Nat \cup {NoEntry}]
      /\ except_handling_jmps' \in [Labels -> SUBSET Nat]
  <2>1. Len(result) \in Nat
    BY DEF Typed
  <2>2. CASE PlaceLabel
    BY <2>1, <2>2 DEF PlaceLabel, Typed, CurrentIp
  <2>3. CASE HandleJump
    BY <2>1, <2>3 DEF HandleJump, Typed, CurrentIp
  <2>4. CASE HandleAccess \/ HandleOther
    BY <2>4 DEF HandleAccess, HandleOther, Typed
  <2>5. CASE Marching
    BY <2>5 DEF Marching, Typed
  <2> QED
    BY <1>0, <2>2, <2>3, <2>4, <2>5 DEF Handling
<1>5. /\ stack_offset_of_module' \in [Modules -> Nat \cup {NoEntry}]
      /\ global_memory_offset' \in Nat
  <2>1. CASE StartModule
    BY <2>1 DEF StartModule, Typed
  <2>2. CASE FinishModule
    <3>1. M \in Modules
      BY <2>2, PartsOfProject DEF FinishModule, Typed, M, Order
    <3>2. project.stack_size[M] \in Nat
      BY <3>1, PartsOfProject
    <3> QED
      BY <2>2, <3>2 DEF FinishModule, Typed
  <2>3. CASE PlaceConstants
    <3>1. RodSize \in Nat
      BY OffsetsAreNumbers, PartsOfProject DEF RodSize
    <3> QED
      BY <2>3, <3>1, AlignRoundsUp DEF PlaceConstants, RodOffsetAligned, Typed
  <2>4. CASE Handling
    BY <2>4 DEF Handling, Typed
  <2>5. CASE Refuse \/ HandleUnsupported \/ Finish \/ UNCHANGED vars
    BY <2>5 DEF Refuse, HandleUnsupported, Finish, Fail, vars, state, Typed
  <2>6. CASE PlaceLabel \/ HandleJump \/ HandleAccess \/ HandleOther
    BY <2>6 DEF PlaceLabel, HandleJump, HandleAccess, HandleOther, NextCommand, Typed
  <2> QED
    BY <2>1, <2>2, <2>3, <2>4, <2>5, <2>6 DEF Next
<1>6. result' \in Seq(Operations')
  BY <1>1, <1>3, Zenon
<1> QED
  BY <1>0, <1>2, <1>4, <1>5, <1>6 DEF Typed

(* Steps keep the project, the places in it and the commands there.        *)
LEMMA StepsKeepPlaces ==
  ASSUME Typed, [Next]_vars
  PROVE  /\ project' = project
         /\ Marching \/ Handling
         /\ Places' = Places
         /\ Len(result) \in Nat
         /\ \A i \in 1 .. Len(result) : result[i].place \in Places
<1>1. project' = project /\ (Marching \/ Handling)
  BY Steps
<1>2. Places' = Places
  BY <1>1, ProjectStays
<1>3. Len(result) \in Nat /\ \A i \in 1 .. Len(result) : result[i] \in Operations
  BY DEF Typed
<1>4. \A i \in 1 .. Len(result) : result[i].place \in Places
  BY <1>3 DEF Operations
<1> QED
  BY <1>1, <1>2, <1>3, <1>4

LEMMA StepsKeepCommands ==
  ASSUME Typed, [Next]_vars
  PROVE  /\ \A p \in Places : At(p)' = At(p)
         /\ \A p \in Places : MakesOperations(At(p))' <=> MakesOperations(At(p))
         /\ \A p \in Places : \A l \in Labels : IsLabel(p, l)' <=> IsLabel(p, l)
BY Steps, ProjectStays

(* The operations emitted stay those of the commands handled.              *)
LEMMA EmittedKept ==
  ASSUME Typed, [Next]_vars, EmittedFromHandled
  PROVE  EmittedFromHandled'
<1>0. /\ project' = project
      /\ Marching \/ Handling
      /\ Places' = Places /\ Len(result) \in Nat
      /\ \A i \in 1 .. Len(result) : result[i].place \in Places
  BY StepsKeepPlaces
<1>a. /\ \A p \in Places : At(p)' = At(p)
      /\ \A p \in Places : MakesOperations(At(p))' <=> MakesOperations(At(p))
  BY StepsKeepCommands
<1>1. CASE Marching
  <2>1. \A p \in Places : Handled(p)' <=> Handled(p)
    BY <1>1 DEF Marching
  <2>2. ASSUME NEW i \in 1 .. Len(result')
        PROVE  Handled(result[i].place)' /\ result'[i].op = At(result[i].place)'.op
    <3>1. i \in 1 .. Len(result) /\ result'[i] = result[i]
      BY <1>1 DEF Marching
    <3>2. PICK p \in Places : p = result'[i].place /\ p = result[i].place
      BY <1>0, <1>a, <3>1
    <3>3. Handled(p)'
      BY <2>1, <3>1, <3>2 DEF EmittedFromHandled
    <3>4. Handled(result[i].place)'
      BY <3>2, <3>3 DEF Handled
    <3>5. result'[i].op = At(p).op
      BY <3>1, <3>2 DEF EmittedFromHandled
    <3> QED
      BY <1>0, <1>a, <3>2, <3>4, <3>5
  <2>3. result' = result
    BY <1>1 DEF Marching
  <2>4. \A p \in Places : Handled(p)' /\ MakesOperations(At(p))' => result' # <<>>
    BY <1>0, <1>a, <2>1, <2>3 DEF EmittedFromHandled
  <2> QED
    BY <1>0, <1>a, <2>2, <2>4 DEF EmittedFromHandled
<1>2. CASE Handling
  <2>1. /\ \A p \in Places : Handled(p)' <=> Handled(p) \/ p = Cursor
        /\ Cursor \in Places
    BY <1>2 DEF Handling
  <2>2. /\ result' \in Seq(Operations) /\ Len(result') >= Len(result)
        /\ \A k \in 1 .. Len(result) :
              /\ result'[k].place = result[k].place
              /\ result'[k].op = result[k].op
        /\ \A k \in Len(result) + 1 .. Len(result') :
              result'[k].place = Cursor /\ result'[k].op = At(Cursor).op
        /\ MakesOperations(At(Cursor)) => Len(result') > Len(result)
    BY <1>2, ResultGrows
  <2>3. Len(result') \in Nat
    BY <2>2
  <2>4. ASSUME NEW i \in 1 .. Len(result')
        PROVE  \E p \in Places : /\ p = result'[i].place /\ Handled(p)'
                                 /\ result'[i].op = At(p).op
    <3>1. CASE i \in 1 .. Len(result)
      BY <1>0, <1>a, <2>1, <2>2, <3>1 DEF EmittedFromHandled
    <3>2. CASE i \in Len(result) + 1 .. Len(result')
      BY <2>1, <2>2, <3>2
    <3> QED
      BY <1>0, <1>a, <2>3, <3>1, <3>2
  <2>5. ASSUME NEW i \in 1 .. Len(result')
        PROVE  Handled(result[i].place)' /\ result'[i].op = At(result[i].place)'.op
    <3>1. PICK p \in Places : /\ p = result'[i].place /\ Handled(p)'
                              /\ result'[i].op = At(p).op
      BY <2>4
    <3>2. Handled(result[i].place)'
      BY <3>1 DEF Handled
    <3> QED
      BY <1>0, <1>a, <3>1, <3>2
  <2>6. \A p \in Places : Handled(p)' /\ MakesOperations(At(p))' => result' # <<>>
    <3>1. result # <<>> => Len(result) > 0
      BY <1>0, <1>a, EmptySeq DEF Typed
    <3>2. Len(result') > 0 => result' # <<>>
      OBVIOUS
    <3> QED
      BY <1>0, <1>a, <2>1, <2>2, <2>3, <3>1, <3>2 DEF EmittedFromHandled
  <2> QED
    BY <1>0, <1>a, <2>5, <2>6 DEF EmittedFromHandled
<1> QED
  BY <1>0, <1>a, <1>1, <1>2

(* What handlers do to labels and to the jumps that wait for them.         *)
LEMMA LabelsMove ==
  ASSUME Typed, Handling
  PROVE  \/ /\ PlaceLabel /\ At(Cursor).op = "JMP_LABEL" /\ At(Cursor).label \in Labels
            /\ label_jmp_ip' = [label_jmp_ip EXCEPT ![At(Cursor).label] = Len(result)]
            /\ except_handling_jmps' =
                 [except_handling_jmps EXCEPT ![At(Cursor).label] = {}]
         \/ /\ ~PlaceLabel /\ At(Cursor).op # "JMP_LABEL" /\ UNCHANGED label_jmp_ip
            /\ \/ /\ UNCHANGED except_handling_jmps
                  /\ At(Cursor).op \in JumpOp =>
                       /\ At(Cursor).label \in Labels
                       /\ label_jmp_ip[At(Cursor).label] # NoEntry
                       /\ result' = Append(result, Operation(At(Cursor).op,
                                             label_jmp_ip[At(Cursor).label]))
               \/ /\ At(Cursor).op \in JumpOp /\ At(Cursor).label \in Labels
                  /\ label_jmp_ip[At(Cursor).label] = NoEntry
                  /\ result' = Append(result, Operation(At(Cursor).op, 0))
                  /\ except_handling_jmps' = [except_handling_jmps EXCEPT
                       ![At(Cursor).label] = @ \cup {Len(result)}]
<1>0. C = At(Cursor) /\ Cursor \in Places
      /\ (C.op \in JumpOp \cup {"JMP_LABEL"} => C.label \in Labels)
  BY CommandAtPlace DEF Handling
<1>1. PlaceLabel => C.op = "JMP_LABEL"
  BY DEF PlaceLabel, Handle
<1>2. CASE PlaceLabel
  BY <1>0, <1>1, <1>2 DEF PlaceLabel, CurrentIp
<1>3. CASE HandleJump
  <2>1. C.op \in JumpOp /\ C.op # "JMP_LABEL"
    BY <1>3 DEF HandleJump, Handle, JumpOp
  <2> QED
    BY <1>0, <1>1, <1>3, <2>1 DEF HandleJump, CurrentIp
<1>4. CASE HandleAccess \/ HandleOther
  <2>1. C.op \notin JumpOp /\ C.op # "JMP_LABEL"
    BY <1>4 DEF HandleAccess, HandleOther, Handle, JumpOp
  <2> QED
    BY <1>0, <1>1, <1>4, <2>1 DEF HandleAccess, HandleOther
<1> QED
  BY <1>2, <1>3, <1>4 DEF Handling

(* Labels stand where their entries say.                                   *)
LEMMA LabelsStayPlaced ==
  ASSUME Typed, [Next]_vars, EmittedFromHandled, LabelsPlaced
  PROVE  LabelsPlaced'
<1>0. /\ project' = project
      /\ Marching \/ Handling
      /\ Places' = Places /\ Len(result) \in Nat
      /\ \A i \in 1 .. Len(result) : result[i].place \in Places
  BY StepsKeepPlaces
<1>a. \A p \in Places : \A l \in Labels : IsLabel(p, l)' <=> IsLabel(p, l)
  BY StepsKeepCommands
<1>1. CASE Marching
  <2>1. /\ \A p \in Places : Handled(p)' <=> Handled(p)
        /\ result' = result /\ label_jmp_ip' = label_jmp_ip
    BY <1>1 DEF Marching
  <2>2. \A p \in Places : \A l \in Labels : StandsAt(p, l) => StandsAt(p, l)'
    BY <1>0, <1>a, <2>1 DEF StandsAt
  <2> QED
    BY <1>0, <1>a, <2>1, <2>2 DEF LabelsPlaced
<1>2. CASE Handling
  <2>1. /\ \A p \in Places : Handled(p)' <=> Handled(p) \/ p = Cursor
        /\ Cursor \in Places
    BY <1>2 DEF Handling
  <2>2. /\ Len(result') \in Nat /\ Len(result') >= Len(result)
        /\ \A k \in 1 .. Len(result) : result'[k].place = result[k].place
        /\ \A k \in Len(result) + 1 .. Len(result') : result'[k].place = Cursor
    BY <1>2, ResultGrows
  <2>3. \/ /\ At(Cursor).op = "JMP_LABEL" /\ At(Cursor).label \in Labels
           /\ label_jmp_ip' = [label_jmp_ip EXCEPT ![At(Cursor).label] = Len(result)]
        \/ At(Cursor).op # "JMP_LABEL" /\ UNCHANGED label_jmp_ip
    BY <1>2, LabelsMove
  <2>4. ASSUME NEW l \in Labels, label_jmp_ip'[l] # NoEntry
        PROVE  \E p \in Places : StandsAt(p, l)'
    <3>1. CASE At(Cursor).op = "JMP_LABEL" /\ l = At(Cursor).label
      <4>1. PICK p \in Places : p = Cursor
        BY <2>1
      <4>2. label_jmp_ip'[l] = Len(result)
        BY <2>3, <3>1 DEF Typed
      <4>3. IsLabel(p, l) /\ Handled(p)'
        BY <2>1, <3>1, <4>1 DEF IsLabel
      <4>4. ASSUME NEW k \in 1 .. Len(result')
            PROVE  k <= Len(result) <=> Before(result'[k].place, p)
        <5>1. CASE k \in 1 .. Len(result)
          BY <2>2, <4>1, <5>1 DEF EmittedFromHandled, Handled
        <5>2. CASE k \in Len(result) + 1 .. Len(result')
          <6>1. ~Before(Cursor, Cursor)
            BY DEF Before, Cursor, Typed
          <6> QED
            BY <1>0, <1>a, <2>2, <4>1, <5>2, <6>1
        <5> QED
          BY <1>0, <1>a, <2>2, <5>1, <5>2
      <4> QED
        BY <1>0, <1>a, <2>2, <4>2, <4>3, <4>4 DEF StandsAt
    <3>2. CASE ~(At(Cursor).op = "JMP_LABEL" /\ l = At(Cursor).label)
      <4>1. label_jmp_ip'[l] = label_jmp_ip[l]
        BY <2>3, <3>2 DEF Typed
      <4>2. PICK p \in Places : StandsAt(p, l)
        BY <2>4, <4>1 DEF LabelsPlaced
      <4>3. IsLabel(p, l) /\ Handled(p)' /\ label_jmp_ip[l] \in Nat
        BY <2>1, <2>4, <4>1, <4>2 DEF StandsAt, Typed
      <4>4. ASSUME NEW k \in 1 .. Len(result')
            PROVE  k <= label_jmp_ip[l] <=> Before(result'[k].place, p)
        <5>1. CASE k \in 1 .. Len(result)
          BY <2>2, <4>2, <5>1 DEF StandsAt
        <5>2. CASE k \in Len(result) + 1 .. Len(result')
          <6>1. p[1] \in Nat /\ p[2] \in Nat /\ Before(p, Cursor)
            BY <4>2, CommandAtPlace DEF StandsAt, Handled
          <6>2. ~Before(Cursor, p)
            BY <6>1 DEF Before, Cursor, Typed
          <6> QED
            BY <1>0, <1>a, <2>2, <4>2, <4>3, <5>2, <6>2 DEF StandsAt
        <5> QED
          BY <1>0, <1>a, <2>2, <5>1, <5>2
      <4>5. label_jmp_ip[l] <= Len(result')
        BY <1>0, <1>a, <2>2, <4>2, <4>3 DEF StandsAt
      <4> QED
        BY <1>0, <1>a, <4>1, <4>3, <4>4, <4>5 DEF StandsAt
    <3> QED
      BY <3>1, <3>2
  <2>5. ASSUME NEW l \in Labels, NEW p \in Places, Handled(p)', IsLabel(p, l)
        PROVE  label_jmp_ip'[l] # NoEntry
    <3>1. CASE p = Cursor
      <4>1. At(Cursor).op = "JMP_LABEL" /\ l = At(Cursor).label
        BY <2>5, <3>1 DEF IsLabel
      <4> QED
        BY <1>0, <1>a, <2>3, <4>1 DEF Typed, NoEntry
    <3>2. CASE p # Cursor
      <4>1. label_jmp_ip[l] # NoEntry
        BY <2>1, <2>5, <3>2 DEF LabelsPlaced
      <4> QED
        BY <1>0, <1>a, <2>3, <4>1 DEF Typed, NoEntry
    <3> QED
      BY <3>1, <3>2
  <2> QED
    BY <1>0, <1>a, <2>4, <2>5 DEF LabelsPlaced
<1> QED
  BY <1>0, <1>a, <1>1, <1>2

(* The operations after a step, and the commands they come from.           *)
LEMMA OperationsAfter ==
  ASSUME Typed, [Next]_vars
  PROVE  /\ Len(result') \in Nat /\ Len(result') >= Len(result)
         /\ \A i \in 1 .. Len(result') :
              /\ result'[i].place \in Places
              /\ At(result[i].place)' = At(result'[i].place)
         /\ \A i \in 1 .. Len(result) :
              result'[i].place = result[i].place /\ result'[i].op = result[i].op
<1>1. Typed' /\ Places' = Places /\ project' = project
  BY TypedKept, StepsKeepPlaces
<1>2. Len(result') \in Nat /\ \A i \in 1 .. Len(result') : result'[i] \in Operations'
  BY <1>1 DEF Typed
<1>3. \A i \in 1 .. Len(result') : result'[i].place \in Places
  BY <1>1, <1>2 DEF Operations
<1>4. Order' = Order
  BY <1>1 DEF Order
<1>5. \A i \in 1 .. Len(result') : At(result[i].place)' = At(result'[i].place)
  BY <1>1, <1>4, Zenon DEF At
<1>6. /\ Len(result') >= Len(result)
      /\ \A i \in 1 .. Len(result) :
           result'[i].place = result[i].place /\ result'[i].op = result[i].op
  BY Steps, ResultGrows DEF Marching, Typed
<1> QED
  BY <1>2, <1>3, <1>5, <1>6

(* What waits for a label stays a jump to it.                              *)
LEMMA JumpsKeepWaiting ==
  ASSUME Typed, [Next]_vars, JumpsWait
  PROVE  JumpsWait'
<1>0. /\ Marching \/ Handling
      /\ Len(result) \in Nat
  BY StepsKeepPlaces
<1>1. /\ Len(result') \in Nat /\ Len(result') >= Len(result)
      /\ \A i \in 1 .. Len(result') : At(result[i].place)' = At(result'[i].place)
      /\ \A i \in 1 .. Len(result) :
           result'[i].place = result[i].place /\ result'[i].op = result[i].op
  BY OperationsAfter
<1>2. ASSUME NEW l \in Labels, NEW w \in except_handling_jmps[l]
      PROVE  /\ w + 1 \in 1 .. Len(result')
             /\ result'[w + 1].op \in JumpOp
             /\ At(result[w + 1].place)'.label = l
  <2>1. PICK k \in 1 .. Len(result) : k = w + 1
    BY DEF JumpsWait
  <2>2. result[k].op \in JumpOp /\ At(result[k].place).label = l
    BY <2>1 DEF JumpsWait
  <2>3. k \in 1 .. Len(result') /\ result'[k].op \in JumpOp
    BY <1>0, <1>1, <2>2
  <2>4. At(result[k].place)'.label = l
    BY <1>1, <2>2, <2>3
  <2> QED
    BY <2>1, <2>3, <2>4
<1>3. CASE Marching
  BY <1>2, <1>3 DEF Marching, JumpsWait
<1>4. CASE Handling
  <2>1. CASE PlaceLabel
    <3>1. /\ At(Cursor).label \in Labels
          /\ label_jmp_ip' = [label_jmp_ip EXCEPT ![At(Cursor).label] = Len(result)]
          /\ except_handling_jmps' =
               [except_handling_jmps EXCEPT ![At(Cursor).label] = {}]
      BY <1>4, <2>1, LabelsMove
    <3>2. ASSUME NEW l \in Labels
          PROVE  /\ label_jmp_ip'[l] # NoEntry => except_handling_jmps'[l] = {}
                 /\ except_handling_jmps'[l] \subseteq except_handling_jmps[l]
      BY <3>1 DEF Typed, JumpsWait
    <3> QED
      BY <1>2, <3>2 DEF JumpsWait
  <2>2. CASE UNCHANGED <<label_jmp_ip, except_handling_jmps>>
    BY <1>2, <2>2 DEF JumpsWait
  <2>3. CASE /\ UNCHANGED label_jmp_ip /\ At(Cursor).op \in JumpOp
             /\ At(Cursor).label \in Labels
             /\ label_jmp_ip[At(Cursor).label] = NoEntry
             /\ result' = Append(result, Operation(At(Cursor).op, 0))
             /\ except_handling_jmps' = [except_handling_jmps EXCEPT
                  ![At(Cursor).label] = @ \cup {Len(result)}]
    <3>1. Len(result) + 1 \in 1 .. Len(result')
      BY <1>0, <2>3
    <3>2. PICK k \in 1 .. Len(result') : k = Len(result) + 1
      BY <3>1
    <3>3. result'[k].place = Cursor /\ result'[k].op = At(Cursor).op
      BY <1>0, <1>4, <3>2, ResultGrows
    <3>4. At(result[k].place)'.label = At(Cursor).label
      BY <1>1, <3>3
    <3>5. ASSUME NEW l \in Labels, NEW w \in except_handling_jmps'[l]
          PROVE  /\ w + 1 \in 1 .. Len(result')
                 /\ result'[w + 1].op \in JumpOp
                 /\ At(result[w + 1].place)'.label = l
      <4>1. CASE w \in except_handling_jmps[l]
        BY <1>2, <4>1
      <4>2. CASE w \notin except_handling_jmps[l]
        <5>1. l = At(Cursor).label /\ w = Len(result)
          BY <2>3, <3>5, <4>2 DEF Typed
        <5> QED
          BY <2>3, <3>2, <3>3, <3>4, <5>1
      <4> QED
        BY <4>1, <4>2
    <3>6. ASSUME NEW l \in Labels, label_jmp_ip'[l] # NoEntry
          PROVE  except_handling_jmps'[l] = {}
      BY <2>3, <3>6 DEF Typed, JumpsWait
    <3> QED
      BY <3>5, <3>6 DEF JumpsWait
  <2> QED
    BY <1>4, <2>1, <2>2, <2>3, LabelsMove
<1> QED
  BY <1>0, <1>3, <1>4

(* Every jump waits or has its place.                                      *)
LEMMA JumpsStayAccounted ==
  ASSUME Typed, [Next]_vars, EmittedFromHandled, LabelsPlaced, JumpsWait,
         JumpsAccounted
  PROVE  JumpsAccounted'
<1>0. /\ Marching \/ Handling
      /\ Len(result) \in Nat
      /\ \A i \in 1 .. Len(result) : result[i].place \in Places
  BY StepsKeepPlaces
<1>1. /\ Len(result') \in Nat /\ Len(result') >= Len(result)
      /\ \A i \in 1 .. Len(result') : At(result[i].place)' = At(result'[i].place)
      /\ \A i \in 1 .. Len(result) :
           result'[i].place = result[i].place /\ result'[i].op = result[i].op
  BY OperationsAfter
<1>2. LabelsUnique' <=> LabelsUnique
  BY Steps, ProjectStays
<1>3. \A i \in 1 .. Len(result) :
        result[i].op \in JumpOp => At(result[i].place).label \in Labels
  BY <1>0, CommandAtPlace DEF EmittedFromHandled
<1> DEFINE Has(i, l) ==
             \/ label_jmp_ip'[l] = NoEntry /\ i - 1 \in except_handling_jmps'[l]
             \/ /\ label_jmp_ip'[l] # NoEntry /\ except_handling_jmps'[l] = {}
                /\ LabelsUnique => result'[i].arg0 = label_jmp_ip'[l]
<1>4. SUFFICES ASSUME NEW i \in 1 .. Len(result'), result'[i].op \in JumpOp
               PROVE  Has(i, At(result'[i].place).label)
  BY <1>1, <1>2 DEF JumpsAccounted
<1>5. CASE Marching
  BY <1>0, <1>4, <1>5 DEF Marching, JumpsAccounted
<1>6. CASE Handling /\ i \in 1 .. Len(result)
  <2>1. PICK l \in Labels : l = At(result[i].place).label /\ l = At(result'[i].place).label
    BY <1>1, <1>3, <1>4, <1>6
  <2>2. \/ label_jmp_ip[l] = NoEntry /\ i - 1 \in except_handling_jmps[l]
        \/ /\ label_jmp_ip[l] # NoEntry /\ except_handling_jmps[l] = {}
           /\ LabelsUnique => result[i].arg0 = label_jmp_ip[l]
    BY <1>1, <1>4, <1>6, <2>1 DEF JumpsAccounted
  <2>3. CASE PlaceLabel
    <3>1. /\ At(Cursor).op = "JMP_LABEL" /\ At(Cursor).label \in Labels
          /\ label_jmp_ip' = [label_jmp_ip EXCEPT ![At(Cursor).label] = Len(result)]
          /\ except_handling_jmps' =
               [except_handling_jmps EXCEPT ![At(Cursor).label] = {}]
      BY <1>6, <2>3, LabelsMove
    <3>2. result'[i] = IF i - 1 \in except_handling_jmps[At(Cursor).label]
                       THEN [result[i] EXCEPT !.arg0 = Len(result)] ELSE result[i]
      BY <1>6, <2>3 DEF PlaceLabel, CurrentIp, Handling
    <3>3. result[i] \in Operations
      BY <1>6 DEF Typed
    <3>4. CASE l = At(Cursor).label
      <4>1. label_jmp_ip'[l] = Len(result) /\ except_handling_jmps'[l] = {}
        BY <3>1, <3>4 DEF Typed
      <4>2. ASSUME LabelsUnique
            PROVE  label_jmp_ip[l] = NoEntry
        <5>1. SUFFICES ASSUME label_jmp_ip[l] # NoEntry
                       PROVE  FALSE
          OBVIOUS
        <5>2. PICK p \in Places : IsLabel(p, l) /\ Handled(p)
          BY <5>1 DEF LabelsPlaced, StandsAt
        <5>3. IsLabel(Cursor, l) /\ Cursor \in Places /\ ~Handled(Cursor)
          BY <1>6, <3>1, <3>4 DEF IsLabel, Handling
        <5>4. p = Cursor
          BY <4>2, <5>2, <5>3 DEF LabelsUnique
        <5> QED
          BY <5>2, <5>3, <5>4
      <4>3. ASSUME LabelsUnique
            PROVE  result'[i].arg0 = Len(result)
        <5>1. i - 1 \in except_handling_jmps[l]
          BY <2>2, <4>2, <4>3
        <5> QED
          BY <3>2, <3>3, <3>4, <5>1 DEF Operations
      <4> QED
        BY <1>0, <2>1, <4>1, <4>3 DEF NoEntry
    <3>5. CASE l # At(Cursor).label
      <4>1. /\ label_jmp_ip'[l] = label_jmp_ip[l]
            /\ except_handling_jmps'[l] = except_handling_jmps[l]
        BY <3>1, <3>5 DEF Typed
      <4>2. i - 1 \notin except_handling_jmps[At(Cursor).label]
        <5>1. SUFFICES ASSUME NEW w \in except_handling_jmps[At(Cursor).label], w = i - 1
                       PROVE  FALSE
          OBVIOUS
        <5>2. w + 1 = i
          BY <5>1, <1>6
        <5>3. At(result[i].place).label = At(Cursor).label
          BY <3>1, <5>2 DEF JumpsWait
        <5> QED
          BY <2>1, <3>5, <5>3
      <4>3. result'[i] = result[i]
        BY <3>2, <4>2
      <4> QED
        BY <2>1, <2>2, <4>1, <4>3
    <3> QED
      BY <3>4, <3>5
  <2>4. CASE ~PlaceLabel
    <3>1. result'[i] = result[i]
      BY <1>6, <2>4, ResultGrows
    <3>2. /\ label_jmp_ip' = label_jmp_ip
          /\ \/ UNCHANGED except_handling_jmps
             \/ /\ At(Cursor).label \in Labels
                /\ label_jmp_ip[At(Cursor).label] = NoEntry
                /\ except_handling_jmps' = [except_handling_jmps EXCEPT
                     ![At(Cursor).label] = @ \cup {Len(result)}]
      BY <1>6, <2>4, LabelsMove
    <3>3. /\ except_handling_jmps[l] \subseteq except_handling_jmps'[l]
          /\ label_jmp_ip[l] # NoEntry =>
               except_handling_jmps'[l] = except_handling_jmps[l]
      BY <3>2 DEF Typed
    <3> QED
      BY <2>1, <2>2, <3>1, <3>2, <3>3
  <2> QED
    BY <2>3, <2>4
<1>7. CASE Handling /\ i \notin 1 .. Len(result)
  <2>1. result'[i].place = Cursor /\ result'[i].op = At(Cursor).op
    BY <1>0, <1>1, <1>7, ResultGrows
  <2>2. At(Cursor).op \in JumpOp /\ At(Cursor).op # "JMP_LABEL"
    BY <1>4, <2>1 DEF JumpOp
  <2>3. PICK l \in Labels : l = At(Cursor).label
    BY <1>7, <2>2, LabelsMove
  <2>4. CASE /\ label_jmp_ip' = label_jmp_ip
             /\ except_handling_jmps' = except_handling_jmps
             /\ label_jmp_ip[l] # NoEntry
             /\ result' = Append(result, Operation(At(Cursor).op, label_jmp_ip[l]))
    <3>1. i = Len(result) + 1
      BY <1>0, <1>1, <1>7, <2>4
    <3>2. result'[i].arg0 = label_jmp_ip[l]
      BY <1>0, <2>4, <3>1, AppendProperties DEF Operation, Typed
    <3> QED
      BY <2>1, <2>3, <2>4, <3>2 DEF JumpsWait
  <2>5. CASE /\ label_jmp_ip' = label_jmp_ip
             /\ label_jmp_ip[l] = NoEntry
             /\ result' = Append(result, Operation(At(Cursor).op, 0))
             /\ except_handling_jmps' = [except_handling_jmps EXCEPT
                  ![l] = @ \cup {Len(result)}]
    <3>1. i = Len(result) + 1
      BY <1>0, <1>1, <1>7, <2>5
    <3>2. i - 1 \in except_handling_jmps'[l]
      BY <1>0, <2>5, <3>1 DEF Typed
    <3> QED
      BY <2>1, <2>3, <2>5, <3>2
  <2> QED
    BY <1>7, <2>2, <2>3, <2>4, <2>5, LabelsMove
<1> QED
  BY <1>0, <1>5, <1>6, <1>7

(* What fails has a reason, what is linked waits for nothing.              *)
LEMMA OutcomesStay ==
  ASSUME Typed, [Next]_vars, EmittedFromHandled, LabelsPlaced, JumpsWait,
         OutcomesHold
  PROVE  OutcomesHold'
<1>0. /\ interactive' = interactive /\ vm_index' = vm_index
      /\ project' = project /\ (Unlinkable' <=> Unlinkable) /\ Order' = Order
  BY Steps, ProjectStays
<1>1. CASE Refuse
  BY <1>0, <1>1 DEF Refuse, OutcomesHold, FailsForAReason, Unlinkable
<1>2. CASE PlaceConstants
  BY <1>0, <1>2 DEF PlaceConstants, OutcomesHold, FailsForAReason
<1>3. CASE StartModule
  <2>1. module \in 1 .. Len(Order) /\ M = Order[module] /\ M \in Modules
    BY <1>3, PartsOfProject DEF StartModule, Typed, M, Order
  <2>2. /\ outcome' = "failed" => project.file[M] = "missing"
        /\ outcome' \notin {"linked", "start"}
        /\ outcome' = "linking" => outcome = "linking"
    BY <1>3, <2>1, PartsOfProject DEF StartModule
  <2> QED
    BY <1>0, <2>1, <2>2 DEF OutcomesHold, FailsForAReason, Unlinkable
<1>4. CASE FinishModule
  BY <1>0, <1>4 DEF FinishModule, OutcomesHold, FailsForAReason
<1>5. CASE PlaceLabel \/ HandleJump \/ HandleAccess \/ HandleOther
  <2>1. outcome' = "linking" /\ outcome = "linking"
    BY <1>5 DEF PlaceLabel, HandleJump, HandleAccess, HandleOther, Handle, NextCommand
  <2> QED
    BY <1>0, <2>1 DEF OutcomesHold, FailsForAReason
<1>6. CASE HandleUnsupported
  <2>1. Cursor \in Places /\ At(Cursor).op = "UNSUPPORTED"
    BY <1>6, HandlersReadTheCursor DEF HandleUnsupported
  <2>2. Unlinkable
    BY <2>1 DEF Unlinkable
  <2> QED
    BY <1>0, <1>6, <2>2 DEF HandleUnsupported, Fail, OutcomesHold, FailsForAReason
<1>7. CASE Finish
  <2>1. \A p \in Places : Handled(p)
    BY <1>7, CommandAtPlace, PartsOfProject DEF Finish, Handled, Before, Cursor, Typed, Order
  <2>2. CASE /\ result = <<>> \/ \E l \in Labels : except_handling_jmps[l] # {}
             /\ Fail
    <3>1. ASSUME result = <<>>
          PROVE  Unlinkable
      BY <2>1, <3>1 DEF EmittedFromHandled, Unlinkable
    <3>2. ASSUME \E l \in Labels : except_handling_jmps[l] # {}
          PROVE  Unlinkable
      <4>1. PICK l \in Labels : \E w : w \in except_handling_jmps[l]
        BY <3>2
      <4>2. PICK w \in except_handling_jmps[l] : TRUE
        BY <4>1
      <4>3. PICK p \in Places : At(p).op \in JumpOp /\ At(p).label = l
        BY StepsKeepPlaces DEF JumpsWait, EmittedFromHandled
      <4>4. label_jmp_ip[l] = NoEntry
        BY <4>2 DEF JumpsWait
      <4>5. \A q \in Places : ~IsLabel(q, l)
        BY <2>1, <4>4 DEF LabelsPlaced
      <4> QED
        BY <4>3, <4>5 DEF Unlinkable
    <3>3. Unlinkable
      BY <2>2, <3>1, <3>2
    <3> QED
      BY <1>0, <2>2, <3>3 DEF Fail, OutcomesHold, FailsForAReason
  <2>3. CASE /\ \A l \in Labels : except_handling_jmps[l] = {}
             /\ outcome' \in {"linked", "unsaved"}
             /\ UNCHANGED <<except_handling_jmps, module>>
    BY <1>0, <1>7, <2>3 DEF Finish, OutcomesHold, FailsForAReason, Order
  <2> QED
    BY <1>7, <2>2, <2>3 DEF Finish, state
<1>8. CASE UNCHANGED vars
  BY <1>0, <1>8 DEF vars, state, OutcomesHold, FailsForAReason
<1> QED
  BY <1>1, <1>2, <1>3, <1>4, <1>5, <1>6, <1>7, <1>8 DEF Next

(* Frames stay one after the other.                                        *)
LEMMA FramesStayInARow ==
  ASSUME Typed, [Next]_vars, OutcomesHold, FramesInARow
  PROVE  FramesInARow'
<1>0. /\ project' = project /\ interactive' = interactive
      /\ Order' = Order /\ StackStart' = StackStart /\ Len(Order) \in Nat
  BY Steps, ProjectStays, ConstantsStay, PartsOfProject
<1> DEFINE off == stack_offset_of_module
           L == Len(Order)
           size(i) == project.stack_size[Order[i]]
           begun(i) == i < module' \/ (i = module' /\ command' > 0)
           Row == /\ StackStart <= global_memory_offset'
                  /\ \A i \in 1 .. L :
                       /\ begun(i) => off'[Order[i]] # NoEntry /\ StackStart <= off'[Order[i]]
                       /\ i < module' => off'[Order[i]] + size(i) <= global_memory_offset'
                       /\ i = module' /\ command' > 0 =>
                            off'[Order[i]] = global_memory_offset'
                  /\ \A i, j \in 1 .. L :
                       i < j /\ begun(j) => off'[Order[i]] + size(i) <= off'[Order[j]]
<1>1. (outcome' \in {"linking", "linked"} => Row) => FramesInARow'
  BY <1>0 DEF FramesInARow, Begun, OffsetOf, SizeOf
<1>2. \A i \in 1 .. L :
        /\ Order[i] \in Modules /\ size(i) \in Nat
        /\ off[Order[i]] \in Nat \cup {NoEntry}
  BY PartsOfProject DEF Typed
<1>3. StackStart \in Nat
  <2>1. RodSize \in Nat
    BY OffsetsAreNumbers, PartsOfProject DEF RodSize
  <2> QED
    BY <2>1, AlignRoundsUp DEF StackStart
<1>4. CASE Refuse \/ HandleUnsupported
  BY <1>1, <1>4 DEF Refuse, HandleUnsupported, Fail
<1>5. CASE PlaceConstants
  <2>1. module' = 1 /\ command' = 0 /\ global_memory_offset' = StackStart
    BY <1>5 DEF PlaceConstants, OutcomesHold, RodOffsetAligned, StackStart
  <2>2. Row
    BY <1>0, <1>3, <2>1
  <2> QED
    BY <1>1, <2>2
<1>6. CASE StartModule
  <2>1. /\ outcome = "linking" /\ command = 0 /\ module \in 1 .. L
        /\ module' = module /\ UNCHANGED global_memory_offset
        /\ off' = [off EXCEPT ![Order[module]] = global_memory_offset]
    BY <1>6, PartsOfProject DEF StartModule, Typed, M, Order
  <2>2. off'[Order[module]] = global_memory_offset
    BY <1>2, <2>1 DEF Typed
  <2>3. \A i \in 1 .. L : i # module => off'[Order[i]] = off[Order[i]]
    BY <1>2, <2>1, PartsOfProject DEF Typed, NoModuleTwice, Order
  <2>4. \A i \in 1 .. L : begun(i) => i < module \/ i = module
    BY <2>1
  <2>5. /\ StackStart <= global_memory_offset
        /\ \A i \in 1 .. L : i < module =>
             /\ off[Order[i]] # NoEntry /\ StackStart <= off[Order[i]]
             /\ off[Order[i]] + size(i) <= global_memory_offset
        /\ \A i, j \in 1 .. L :
             i < j /\ j < module => off[Order[i]] + size(i) <= off[Order[j]]
    BY <2>1 DEF FramesInARow, Begun, OffsetOf, SizeOf
  <2>6. \A i \in 1 .. L : begun(i) =>
          /\ off'[Order[i]] # NoEntry /\ StackStart <= off'[Order[i]]
    BY <2>1, <2>2, <2>3, <2>4, <2>5 DEF Typed, NoEntry
  <2>7. \A i \in 1 .. L :
          /\ i < module' => off'[Order[i]] + size(i) <= global_memory_offset'
          /\ i = module' /\ command' > 0 => off'[Order[i]] = global_memory_offset'
    BY <2>1, <2>2, <2>3, <2>5
  <2>8. ASSUME NEW i \in 1 .. L, NEW j \in 1 .. L, i < j, begun(j)
        PROVE  off'[Order[i]] + size(i) <= off'[Order[j]]
    <3>1. i < module /\ off'[Order[i]] = off[Order[i]]
      BY <1>0, <2>1, <2>3, <2>4, <2>8
    <3>2. CASE j = module
      BY <2>2, <2>5, <3>1, <3>2
    <3>3. CASE j < module
      BY <2>1, <2>3, <2>5, <2>8, <3>1, <3>3
    <3> QED
      BY <2>4, <2>8, <3>2, <3>3
  <2>9. Row
    BY <2>1, <2>5, <2>6, <2>7, <2>8
  <2> QED
    BY <1>1, <2>9
<1>7. CASE FinishModule
  <2>1. /\ outcome = "linking" /\ command \in Nat /\ command > 0 /\ module \in 1 .. L
        /\ module' = module + 1 /\ command' = 0 /\ off' = off
        /\ global_memory_offset' = global_memory_offset + size(module)
    BY <1>7, PartsOfProject DEF FinishModule, Typed, M, Order
  <2>2. \A i \in 1 .. L : /\ begun(i) <=> i < module \/ (i = module /\ command > 0)
                          /\ i < module' <=> i < module \/ i = module
                          /\ i # module' \/ ~(command' > 0)
    BY <1>0, <2>1
  <2>3. /\ StackStart <= global_memory_offset
        /\ \A i \in 1 .. L :
             /\ i < module \/ (i = module /\ command > 0) =>
                  off[Order[i]] # NoEntry /\ StackStart <= off[Order[i]]
             /\ i < module => off[Order[i]] + size(i) <= global_memory_offset
             /\ i = module => off[Order[i]] = global_memory_offset
        /\ \A i, j \in 1 .. L :
             i < j /\ (j < module \/ (j = module /\ command > 0)) =>
               off[Order[i]] + size(i) <= off[Order[j]]
    BY <2>1 DEF FramesInARow, Begun, OffsetOf, SizeOf
  <2>4. \A i \in 1 .. L : i < module' =>
          off'[Order[i]] + size(i) <= global_memory_offset'
    <3>1. SUFFICES ASSUME NEW i \in 1 .. L, i < module \/ i = module
                   PROVE  off[Order[i]] + size(i) <= global_memory_offset + size(module)
      BY <2>1, <2>2
    <3>2. /\ off[Order[i]] \in Nat /\ size(i) \in Nat
          /\ size(module) \in Nat /\ global_memory_offset \in Nat
      BY <1>2, <2>1, <2>3, <3>1 DEF Typed
    <3>3. CASE i = module
      BY <2>3, <3>2, <3>3
    <3>4. CASE i < module
      <4>1. off[Order[i]] + size(i) <= global_memory_offset
        BY <2>3, <3>4
      <4>2. off[Order[i]] + size(i) \in Nat
        BY <3>2
      <4> HIDE DEF size, off
      <4> QED
        BY <3>2, <4>1, <4>2
    <3> QED
      BY <3>1, <3>3, <3>4
  <2>5. StackStart <= global_memory_offset'
    BY <1>2, <1>3, <2>1, <2>3 DEF Typed
  <2>6. Row
    BY <2>1, <2>2, <2>3, <2>4, <2>5
  <2> QED
    BY <1>1, <2>6
<1>8. CASE Handling
  <2>1. /\ outcome = "linking" /\ module' = module /\ command' = command + 1
        /\ off' = off /\ global_memory_offset' = global_memory_offset
        /\ command \in Nat /\ command > 0
    BY <1>8, CommandAtPlace DEF Handling, Cursor
  <2>2. Row
    BY <2>1 DEF FramesInARow, Begun, OffsetOf, SizeOf
  <2> QED
    BY <1>1, <2>2
<1>9. CASE Finish \/ UNCHANGED vars
  <2>1. /\ module' = module /\ command' = command
        /\ off' = off /\ global_memory_offset' = global_memory_offset
        /\ outcome' \in {"linking", "linked"} => outcome \in {"linking", "linked"}
    BY <1>9 DEF Finish, Fail, vars, state
  <2>2. outcome' \in {"linking", "linked"} => Row
    BY <2>1 DEF FramesInARow, Begun, OffsetOf, SizeOf
  <2> QED
    BY <1>1, <2>2
<1>10. PlaceLabel \/ HandleJump \/ HandleAccess \/ HandleOther => Handling
  BY HandlersReadTheCursor, CursorAdvances
     DEF PlaceLabel, HandleJump, HandleAccess, HandleOther, Handling, Handle, NextCommand
<1> QED
  BY <1>4, <1>5, <1>6, <1>7, <1>8, <1>9, <1>10 DEF Next

(* The module of a place up to the cursor and, if what is depended on      *)
(* comes first, the module that declared what it accesses are modules      *)
(* HandleModule has come to.                                               *)
LEMMA OwnersHaveBegun ==
  ASSUME Typed, NEW p \in Places,
         Handled(p) \/ (p = Cursor /\ command > 0)
  PROVE  /\ p[1] \in 1 .. Len(Order) /\ Begun(p[1])
         /\ command = 0 => p[1] < module
         /\ DependenciesFirst /\ IsAccess(p, "Symbol") =>
              \E i \in 1 .. p[1] : /\ i \in 1 .. Len(Order) /\ Order[i] = Owner(p)
                                   /\ Begun(i) /\ (command = 0 => i < module)
<1>1. p[1] \in 1 .. Len(Order) /\ p[1] \in Nat /\ p[2] \in Nat /\ p[2] >= 1
  BY CommandAtPlace
<1>2. Begun(p[1]) /\ (command = 0 => p[1] < module)
  BY <1>1 DEF Begun, Handled, Before, Cursor, Typed
<1>3. ASSUME DependenciesFirst, IsAccess(p, "Symbol")
      PROVE  \E i \in 1 .. p[1] : /\ i \in 1 .. Len(Order) /\ Order[i] = Owner(p)
                                  /\ Begun(i) /\ (command = 0 => i < module)
  <2>1. PICK i \in 1 .. p[1] : Order[i] = Owner(p)
    BY <1>3 DEF DependenciesFirst, Owner, IsAccess
  <2>2. i \in 1 .. Len(Order) /\ Begun(i) /\ (command = 0 => i < module)
    BY <1>1, <1>2, PartsOfProject DEF Begun, Typed
  <2> QED
    BY <2>1, <2>2
<1> QED
  BY <1>1, <1>2, <1>3

(* The machine operation of an access gets the address.                    *)
LEMMA NewAccessIsResolved ==
  ASSUME Typed, FramesInARow, Handling,
         (DependenciesFirst /\ IsVariable(Cursor)) \/ IsAccess(Cursor, "Constant")
  PROVE  /\ Len(result') = Len(result) + 1
         /\ result'[Len(result) + 1].arg0 = AddressOf(Cursor)
<1>0. /\ Cursor \in Places /\ C = At(Cursor) /\ outcome = "linking"
      /\ Len(result) \in Nat /\ command > 0
  BY CommandAtPlace DEF Handling, Typed, Cursor
<1>1. C.op = "ACCESS"
  BY <1>0 DEF IsVariable, IsAccess
<1>2. result' = Append(result, Operation("ACCESS", Relocated(C)))
  BY <1>1 DEF Handling, Handle, PlaceLabel, HandleJump, HandleAccess, HandleOther, JumpOp
<1>3. result'[Len(result) + 1].arg0 = Relocated(C) /\ Len(result') = Len(result) + 1
  BY <1>0, <1>2, AppendProperties DEF Operation, Typed
<1>4. /\ module \in 1 .. Len(Order) /\ Begun(module) /\ M = Order[module]
      /\ Cursor[1] = module
  BY <1>0, OwnersHaveBegun DEF Cursor, M, Order
<1>5. \A i \in 1 .. Len(Order) : Begun(i) => StackOffset(Order[i]) = OffsetOf(i)
  BY <1>0 DEF FramesInARow, StackOffset, OffsetOf
<1>6. CASE IsAccess(Cursor, "Constant")
  BY <1>0, <1>3, <1>6 DEF IsAccess, Relocated, AddressOf
<1>7. CASE IsAccess(Cursor, "MemoryAddress")
  BY <1>0, <1>3, <1>4, <1>5, <1>7 DEF IsAccess, Relocated, AddressOf
<1>8. CASE /\ DependenciesFirst /\ IsAccess(Cursor, "Symbol")
           /\ project.symbols[C.data].type = "Variable"
  <2>1. C.source = "Symbol" /\ Owner(Cursor) = project.symbols[C.data].module
    BY <1>0, <1>8 DEF IsAccess, Owner
  <2>2. PICK i \in 1 .. Len(Order) : Order[i] = Owner(Cursor) /\ Begun(i)
    BY <1>0, <1>8, OwnersHaveBegun
  <2>3. StackOffset(Owner(Cursor)) = stack_offset_of_module[Owner(Cursor)]
    BY <1>5, <2>2 DEF OffsetOf
  <2>4. Relocated(C) = StackOffset(Owner(Cursor)) + project.symbols[C.data].offset
    BY <1>8, <2>1 DEF Relocated, SymbolValue
  <2>5. AddressOf(Cursor) =
          stack_offset_of_module[Owner(Cursor)] + project.symbols[C.data].offset
    BY <1>0, <2>1 DEF AddressOf
  <2> QED
    BY <1>3, <2>3, <2>4, <2>5
<1> QED
  BY <1>0, <1>6, <1>7, <1>8 DEF IsVariable

(* The address named by a command stays while the memory of the modules it *)
(* refers to stays.                                                        *)
LEMMA AddressStays ==
  ASSUME Typed, [Next]_vars, NEW p \in Places,
         IsVariable(p) \/ IsAccess(p, "Constant"),
         stack_offset_of_module'[Order[p[1]]] = stack_offset_of_module[Order[p[1]]],
         IsAccess(p, "Symbol") =>
           stack_offset_of_module'[Owner(p)] = stack_offset_of_module[Owner(p)]
  PROVE  AddressOf(p)' = AddressOf(p)
<1>1. /\ project' = project /\ Order' = Order
      /\ ConstantOffset' = ConstantOffset
      /\ At(p)' = At(p) /\ Owner(p)' = Owner(p)
  BY Steps, ProjectStays, ConstantsStay
<1>2. At(p).op = "ACCESS"
  BY DEF IsVariable, IsAccess
<1>3. CASE At(p).source = "Symbol"
  BY <1>1, <1>2, <1>3 DEF AddressOf, IsAccess
<1>4. CASE At(p).source = "MemoryAddress"
  BY <1>1, <1>4 DEF AddressOf, OffsetOf
<1>5. CASE At(p).source = "Constant"
  BY <1>1, <1>5 DEF AddressOf
<1> QED
  BY <1>2, <1>3, <1>4, <1>5, CommandAtPlace DEF Source

(* Accesses keep the address of what their commands name.                  *)
LEMMA AccessesStayResolved ==
  ASSUME Typed, [Next]_vars, EmittedFromHandled, JumpsWait, OutcomesHold,
         FramesInARow, AccessesResolved
  PROVE  AccessesResolved'
<1>0. /\ project' = project /\ Order' = Order
      /\ DependenciesFirst' <=> DependenciesFirst
      /\ Marching \/ Handling
  BY Steps, ProjectStays
<1>1. /\ Len(result') \in Nat /\ Len(result') >= Len(result) /\ Len(result) \in Nat
      /\ \A i \in 1 .. Len(result') : result'[i].place \in Places
      /\ \A i \in 1 .. Len(result) :
              result'[i].place = result[i].place /\ result'[i].op = result[i].op
  BY OperationsAfter DEF Typed
<1> DEFINE Named(p) == \/ DependenciesFirst /\ IsVariable(p)
                       \/ IsAccess(p, "Constant")
<1>2. SUFFICES ASSUME outcome' \in {"linking", "linked"},
                      NEW i \in 1 .. Len(result'), NEW p \in Places,
                      p = result'[i].place, Named(p)
               PROVE  result'[i].arg0 = AddressOf(p)'
  <2>1. SUFFICES ASSUME outcome' \in {"linking", "linked"},
                        NEW i \in 1 .. Len(result'),
                        \/ DependenciesFirst /\ IsVariable(result[i].place)'
                        \/ IsAccess(result[i].place, "Constant")'
                 PROVE  (result[i].arg0 = AddressOf(result[i].place))'
    BY <1>0 DEF AccessesResolved
  <2>2. PICK p \in Places : p = result'[i].place
    BY <1>1
  <2>3. \/ DependenciesFirst /\ IsVariable(p)'
        \/ IsAccess(p, "Constant")'
    BY <2>1, <2>2, Zenon DEF IsVariable, IsAccess, At
  <2>4. Named(p)
    BY <1>0, <2>3, ProjectStays
  <2>5. result'[i].arg0 = AddressOf(p)'
    BY <1>2, <2>1, <2>2, <2>4
  <2>6. AddressOf(p)' = AddressOf(result[i].place)'
    BY <2>2, Zenon DEF AddressOf, Owner, OffsetOf, At
  <2> QED
    BY <2>5, <2>6
<1>3. CASE i \in 1 .. Len(result)
  <2>1. p = result[i].place /\ Handled(p) /\ result[i].op = At(p).op
    BY <1>1, <1>2, <1>3 DEF EmittedFromHandled
  <2>2. At(p).op = "ACCESS"
    BY <1>2 DEF IsVariable, IsAccess
  <2>3. result'[i].arg0 = result[i].arg0
    <3>1. CASE Marching
      BY <3>1 DEF Marching
    <3>2. CASE Handling /\ ~PlaceLabel
      BY <1>3, <3>2, ResultGrows
    <3>3. CASE Handling /\ PlaceLabel
      <4>1. C.label \in Labels
        BY <3>3, LabelsMove DEF Handling
      <4>2. i - 1 \notin except_handling_jmps[C.label]
        <5>1. SUFFICES ASSUME NEW w \in except_handling_jmps[C.label], w = i - 1
                       PROVE  FALSE
          OBVIOUS
        <5>2. w + 1 = i
          BY <1>3, <5>1
        <5> QED
          BY <2>1, <2>2, <4>1, <5>2 DEF JumpsWait, JumpOp
      <4> QED
        BY <1>3, <3>3, <4>2 DEF PlaceLabel
    <3> QED
      BY <1>0, <3>1, <3>2, <3>3
  <2>4. CASE outcome = "start"
    <3>1. p[1] < 1 \/ (p[1] = 1 /\ p[2] < 0)
      BY <2>1, <2>4 DEF OutcomesHold, Handled, Before, Cursor
    <3> QED
      BY <3>1, CommandAtPlace
  <2>5. CASE outcome # "start"
    <3>1. outcome \in {"linking", "linked"}
      BY <1>2, <2>5 DEF Next, Refuse, PlaceConstants, StartModule, FinishModule, PlaceLabel,
         HandleJump, HandleAccess, HandleOther, Handle, HandleUnsupported, Finish, vars
    <3>2. result[i].arg0 = AddressOf(p)
      BY <1>2, <1>3, <2>1, <3>1 DEF AccessesResolved
    <3>3. p[1] \in 1 .. Len(Order) /\ (command = 0 => p[1] < module)
      BY <1>2, <2>1, OwnersHaveBegun
    <3>4. DependenciesFirst /\ IsAccess(p, "Symbol") =>
            \E j \in 1 .. Len(Order) : /\ Order[j] = Owner(p)
                                       /\ command = 0 => j < module
      BY <1>2, <2>1, OwnersHaveBegun
    <3>5. ASSUME NEW j \in 1 .. Len(Order), command = 0 => j < module
          PROVE  stack_offset_of_module'[Order[j]] = stack_offset_of_module[Order[j]]
      <4>1. CASE StartModule
        <5>1. /\ command = 0 /\ module \in 1 .. Len(Order) /\ M = Order[module]
              /\ stack_offset_of_module' =
                   [stack_offset_of_module EXCEPT ![M] = global_memory_offset]
          BY <4>1, PartsOfProject DEF StartModule, Typed, M, Order
        <5>2. Order[j] # Order[module] /\ Order[j] \in Modules
          BY <3>5, <5>1, PartsOfProject DEF NoModuleTwice, Order
        <5> QED
          BY <5>1, <5>2 DEF Typed
      <4>2. CASE ~StartModule
        <5>1. UNCHANGED stack_offset_of_module
          BY <4>2 DEF Next, Refuse, PlaceConstants, FinishModule, PlaceLabel, HandleJump,
             HandleAccess, HandleOther, NextCommand, HandleUnsupported, Finish, Fail, vars, state
        <5> QED
          BY <5>1
      <4> QED
        BY <4>1, <4>2
    <3>6. AddressOf(p)' = AddressOf(p)
      <4>1. IsAccess(p, "Symbol") => DependenciesFirst
        BY <1>2 DEF IsAccess
      <4>2. IsAccess(p, "Symbol") =>
              stack_offset_of_module'[Owner(p)] = stack_offset_of_module[Owner(p)]
        BY <3>4, <3>5, <4>1
      <4> QED
        BY <1>2, <3>3, <3>5, <4>2, AddressStays
    <3> QED
      BY <2>3, <3>2, <3>6
  <2> QED
    BY <2>4, <2>5
<1>4. CASE i \notin 1 .. Len(result)
  <2>1. Handling
    BY <1>0, <1>1, <1>4 DEF Marching
  <2>2. p = Cursor
    BY <1>1, <1>2, <1>4, <2>1, ResultGrows
  <2>3. /\ Len(result') = Len(result) + 1
        /\ result'[Len(result) + 1].arg0 = AddressOf(p)
    BY <1>2, <2>1, <2>2, NewAccessIsResolved
  <2>4. i = Len(result) + 1
    BY <1>1, <1>4, <2>3
  <2>5. AddressOf(p)' = AddressOf(p)
    BY <1>2, <2>1, AddressStays DEF Handling
  <2> QED
    BY <2>3, <2>4, <2>5
<1> QED
  BY <1>3, <1>4

-----------------------------------------------------------------------------
(* The theorems.                                                           *)

(* The invariant holds at the start. *)
LEMMA InitLinkInv ==
  ASSUME Init
  PROVE  LinkInv
<1>1. result = <<>> /\ Len(result) = 0 /\ outcome = "start" /\ module = 1 /\ command = 0
  BY DEF Init
<1>2. Typed
  <2>1. result \in Seq(Operations)
    <3> DEFINE S == Operations
    <3> HIDE DEF S
    <3>1. <<>> \in Seq(S)
      OBVIOUS
    <3> QED
      BY <1>1, <3>1 DEF S
  <2> QED
    BY <2>1 DEF Init, Typed
<1>3. \A p \in Places : ~Handled(p)
  BY <1>1, <1>2, CommandAtPlace DEF Handled, Before, Cursor
<1>4. EmittedFromHandled /\ JumpsAccounted
  BY <1>1, <1>3 DEF EmittedFromHandled, JumpsAccounted
<1>5. LabelsPlaced /\ JumpsWait
  BY <1>3 DEF LabelsPlaced, JumpsWait, Init
<1>6. OutcomesHold /\ FramesInARow /\ AccessesResolved
  BY <1>1 DEF OutcomesHold, FramesInARow, AccessesResolved, FailsForAReason, Init
<1> QED
  BY <1>2, <1>4, <1>5, <1>6 DEF LinkInv

(* Every step keeps the invariant.                                         *)
LEMMA LinkInvKept == LinkInv /\ [Next]_vars => LinkInv'
BY TypedKept, EmittedKept, LabelsStayPlaced, JumpsKeepWaiting, JumpsStayAccounted,
   OutcomesStay, FramesStayInARow, AccessesStayResolved DEF LinkInv

LEMMA LinkInvHolds == Spec => []LinkInv
<1>1. Init => LinkInv
  BY InitLinkInv
<1> QED
  BY <1>1, LinkInvKept, PTL DEF Spec

(* HandleCF patches jumps so that each goes to the operation behind its    *)
(* label, whether the label came before the jump or after it, in the same  *)
(* module or in another; meanwhile a jump waits or has its place.          *)
THEOREM JumpsGoToTheirLabels == Spec => []JumpsResolved
<1>1. LinkInv => JumpsResolved
  <2> SUFFICES ASSUME LinkInv
               PROVE  JumpsResolved
    OBVIOUS
  <2>1. ASSUME outcome = "linked", LabelsUnique,
               NEW i \in 1 .. Len(result), result[i].op \in JumpOp
        PROVE  \E p \in Places :
                 /\ IsLabel(p, At(result[i].place).label)
                 /\ \A k \in 1 .. Len(result) :
                      k <= result[i].arg0 <=> Before(result[k].place, p)
    <3>1. /\ result[i] \in Operations
          /\ result[i].op = At(result[i].place).op
      BY DEF LinkInv, Typed, EmittedFromHandled
    <3>2. result[i].place \in Places
      BY <3>1 DEF Operations
    <3>3. PICK l \in Labels : l = At(result[i].place).label
      BY <2>1, <3>1, <3>2, CommandAtPlace DEF LinkInv
    <3>4. except_handling_jmps[l] = {}
      BY <2>1 DEF LinkInv, OutcomesHold
    <3>5. label_jmp_ip[l] # NoEntry /\ result[i].arg0 = label_jmp_ip[l]
      BY <2>1, <3>3, <3>4 DEF LinkInv, JumpsAccounted
    <3>6. PICK p \in Places : StandsAt(p, l)
      BY <3>5 DEF LinkInv, LabelsPlaced
    <3> QED
      BY <3>3, <3>5, <3>6 DEF StandsAt
  <2> QED
    BY <2>1 DEF JumpsResolved, JumpsLand, LinkInv
<1> QED
  BY <1>1, LinkInvHolds, PTL

(* Interactive linking is refused only if the project has a defect: never  *)
(* because of the order in which labels and jumps are met.                 *)
THEOREM LinkingFailsForAReason == Spec => []FailsForAReason
<1>1. LinkInv => FailsForAReason
  BY DEF LinkInv, OutcomesHold
<1> QED
  BY <1>1, LinkInvHolds, PTL

(* What the layout says of a linked program. *)
LEMMA LayoutOfLinked ==
  ASSUME LinkInv, outcome = "linked"
  PROVE  /\ \A i \in 1 .. Len(Order) :
              /\ Order[i] \in Modules /\ OffsetOf(i) \in Nat /\ SizeOf(i) \in Nat
              /\ StackStart <= OffsetOf(i)
         /\ \A i, j \in 1 .. Len(Order) :
              i < j => OffsetOf(i) + SizeOf(i) <= OffsetOf(j)
         /\ \A i \in 1 .. Len(result) :
              /\ result[i].place \in Places /\ Handled(result[i].place)
              /\ (DependenciesFirst /\ IsVariable(result[i].place))
                   \/ IsAccess(result[i].place, "Constant")
                   => result[i].arg0 = AddressOf(result[i].place)
<1>1. \A i \in 1 .. Len(Order) : Begun(i)
  BY PartsOfProject DEF LinkInv, Typed, OutcomesHold, Begun
<1>2. \A i \in 1 .. Len(Order) :
        /\ Order[i] \in Modules /\ OffsetOf(i) \in Nat /\ SizeOf(i) \in Nat
        /\ StackStart <= OffsetOf(i)
  BY <1>1, PartsOfProject DEF LinkInv, Typed, FramesInARow, OffsetOf, SizeOf
<1>3. \A i, j \in 1 .. Len(Order) :
        i < j => OffsetOf(i) + SizeOf(i) <= OffsetOf(j)
  BY <1>1 DEF LinkInv, FramesInARow
<1>4. \A i \in 1 .. Len(result) : result[i] \in Operations
  BY DEF LinkInv, Typed
<1>5. \A i \in 1 .. Len(result) :
        result[i].place \in Places /\ Handled(result[i].place)
  BY <1>4 DEF LinkInv, EmittedFromHandled, Operations
<1> QED
  BY <1>2, <1>3, <1>5 DEF LinkInv, AccessesResolved

(* The frames HandleModule gives to modules have no byte in common and lie *)
(* behind the constants; an access to a variable stays in the frame of the *)
(* module that declared it.                                                *)
LEMMA VariablesAreApart ==
  ASSUME LinkInv
  PROVE  VariablesKeptApart
<1> SUFFICES ASSUME outcome = "linked", DependenciesFirst, OffsetsInFrame
             PROVE  /\ \A m, n \in Linked : m # n => Frame(m) \cap Frame(n) = {}
                    /\ \A m \in Linked : \A a \in Frame(m) : a >= StackStart
                    /\ \A i \in 1 .. Len(result) :
                         IsVariable(result[i].place) =>
                           result[i].arg0 \in Frame(Owner(result[i].place))
  BY DEF VariablesKeptApart
<1>1. StackStart \in Nat
  <2>1. RodSize \in Nat
    BY OffsetsAreNumbers, PartsOfProject DEF RodSize, LinkInv
  <2> QED
    BY <2>1, AlignRoundsUp DEF StackStart
<1>2. \A i \in 1 .. Len(Order) :
        Frame(Order[i]) = OffsetOf(i) .. (OffsetOf(i) + SizeOf(i) - 1)
  BY DEF Frame, OffsetOf, SizeOf
<1>3. ASSUME NEW m \in Linked, NEW n \in Linked, m # n
      PROVE  Frame(m) \cap Frame(n) = {}
  <2>1. PICK i \in 1 .. Len(Order) : m = Order[i]
    BY DEF Linked
  <2>2. PICK j \in 1 .. Len(Order) : n = Order[j]
    BY DEF Linked
  <2>3. i < j \/ j < i
    BY <1>3, <2>1, <2>2, PartsOfProject DEF LinkInv
  <2>4. OffsetOf(i) + SizeOf(i) <= OffsetOf(j) \/ OffsetOf(j) + SizeOf(j) <= OffsetOf(i)
    BY <2>3, LayoutOfLinked
  <2> QED
    BY <1>2, <2>1, <2>2, <2>4, LayoutOfLinked
<1>4. ASSUME NEW m \in Linked, NEW a \in Frame(m)
      PROVE  a >= StackStart
  <2>1. PICK i \in 1 .. Len(Order) : m = Order[i]
    BY DEF Linked
  <2> QED
    BY <1>1, <1>2, <1>4, <2>1, LayoutOfLinked
<1>5. ASSUME NEW k \in 1 .. Len(result), IsVariable(result[k].place)
      PROVE  result[k].arg0 \in Frame(Owner(result[k].place))
  <2>1. PICK p \in Places : /\ p = result[k].place /\ Handled(p)
                            /\ result[k].arg0 = AddressOf(p)
    BY <1>5, LayoutOfLinked
  <2>2. p[1] \in 1 .. Len(Order) /\ At(p).data \in Nat
    BY <1>5, <2>1, CommandAtPlace DEF IsVariable, IsAccess, LinkInv
  <2>3. CASE IsAccess(p, "MemoryAddress")
    <3>1. AddressOf(p) = OffsetOf(p[1]) + At(p).data /\ Owner(p) = Order[p[1]]
      BY <2>3 DEF IsAccess, AddressOf, Owner
    <3>2. At(p).data < SizeOf(p[1])
      BY <2>3 DEF OffsetsInFrame, SizeOf
    <3> QED
      BY <1>2, <2>1, <2>2, <3>1, <3>2, LayoutOfLinked
  <2>4. CASE IsAccess(p, "Symbol")
    <3>1. /\ At(p).data \in 1 .. Len(project.symbols)
          /\ Owner(p) = project.symbols[At(p).data].module
          /\ AddressOf(p) = stack_offset_of_module[Owner(p)]
                              + project.symbols[At(p).data].offset
      BY <2>4, CommandAtPlace DEF IsAccess, AddressOf, Owner, LinkInv
    <3>2. PICK i \in 1 .. Len(Order) : Order[i] = Owner(p)
      BY <2>1, <2>4, OwnersHaveBegun DEF LinkInv
    <3>3. /\ project.symbols[At(p).data].offset \in Nat
          /\ project.symbols[At(p).data].offset < SizeOf(i)
      BY <3>1, <3>2, PartsOfProject DEF OffsetsInFrame, SizeOf, LinkInv
    <3>4. AddressOf(p) = OffsetOf(i) + project.symbols[At(p).data].offset
      BY <3>1, <3>2 DEF OffsetOf
    <3> QED
      BY <1>2, <2>1, <3>2, <3>3, <3>4, LayoutOfLinked
  <2> QED
    BY <1>5, <2>1, <2>3, <2>4 DEF IsVariable
<1> QED
  BY <1>3, <1>4, <1>5

(* Constants read at different numbers are read from different bytes, all  *)
(* in the read-only data and aligned.                                      *)
LEMMA ConstantsAreApart ==
  ASSUME LinkInv
  PROVE  ConstantsKeptApart
<1> DEFINE Constants == {k \in 1 .. Len(result) : IsAccess(result[k].place, "Constant")}
           number(k) == At(result[k].place).data
<1> SUFFICES ASSUME outcome = "linked", NEW i \in Constants, NEW j \in Constants
             PROVE  /\ ConstantBytes(i) \subseteq 0 .. (RodSize - 1)
                    /\ number(i) # number(j) =>
                         ConstantBytes(i) \cap ConstantBytes(j) = {}
                    /\ result[i].arg0 % DefaultAlignment = 0
  BY DEF ConstantsKeptApart
<1>0. Typed /\ interactive /\ Len(project.constants) \in Nat
  BY PartsOfProject DEF LinkInv, OutcomesHold
<1>1. ASSUME NEW k \in Constants
      PROVE  /\ number(k) \in 1 .. Len(project.constants)
             /\ result[k].arg0 = ConstantOffset[number(k)]
             /\ ConstantOffset[number(k)] \in Nat
             /\ project.constants[number(k)] \in Nat
             /\ UsingSize(number(k)) \in Nat
             /\ project.constants[number(k)] <= UsingSize(number(k))
  <2>1. PICK p \in Places : /\ p = result[k].place /\ IsAccess(p, "Constant")
                            /\ result[k].arg0 = AddressOf(p)
    BY LayoutOfLinked
  <2>2. /\ number(k) \in 1 .. Len(project.constants)
        /\ result[k].arg0 = ConstantOffset[number(k)]
    BY <1>0, <2>1, CommandAtPlace DEF IsAccess, AddressOf
  <2>3. number(k) \in 1 .. Len(project.constants) + 1
    BY <1>0, <2>2
  <2> HIDE DEF number
  <2> QED
    BY <1>0, <2>2, <2>3, OffsetsAreNumbers, UsingSizeIs, PartsOfProject
<1> DEFINE end(k) == ConstantOffset[number(k)] + UsingSize(number(k))
<1>2. \A k \in Constants : ConstantBytes(k) \subseteq
        ConstantOffset[number(k)] .. (end(k) - 1)
  <2>1. SUFFICES ASSUME NEW k \in Constants
                 PROVE  ConstantBytes(k) \subseteq ConstantOffset[number(k)] .. (end(k) - 1)
    OBVIOUS
  <2>2. ConstantBytes(k) = ConstantOffset[number(k)] ..
          (ConstantOffset[number(k)] + project.constants[number(k)] - 1)
    BY <1>1 DEF ConstantBytes
  <2>3. /\ ConstantOffset[number(k)] \in Nat
        /\ project.constants[number(k)] \in Nat
        /\ UsingSize(number(k)) \in Nat
        /\ project.constants[number(k)] <= UsingSize(number(k))
    BY <1>1
  <2> HIDE DEF number, Constants
  <2> QED
    BY <2>2, <2>3
<1>3. end(i) <= RodSize /\ RodSize \in Nat
  <2>1. number(i) \in 1 .. Len(project.constants)
    BY <1>1
  <2> HIDE DEF number
  <2>2. Len(project.constants) + 1 \in number(i) + 1 .. Len(project.constants) + 1
    BY <1>0, <2>1
  <2> QED
    BY <1>0, <2>1, <2>2, ConstantsInARow, OffsetsAreNumbers DEF RodSize
<1>4. ConstantBytes(i) \subseteq 0 .. (RodSize - 1)
  BY <1>1, <1>2, <1>3
<1>5. ASSUME NEW k \in Constants, NEW l \in Constants, number(k) < number(l)
      PROVE  ConstantBytes(k) \cap ConstantBytes(l) = {}
  <2>1. number(k) \in 1 .. Len(project.constants) /\ number(l) \in 1 .. Len(project.constants)
    BY <1>1
  <2>2. end(k) <= ConstantOffset[number(l)]
    <3> HIDE DEF number
    <3>1. number(l) \in number(k) + 1 .. Len(project.constants) + 1
      BY <1>0, <1>5, <2>1
    <3> QED
      BY <1>0, <2>1, <3>1, ConstantsInARow
  <2>3. /\ ConstantOffset[number(k)] \in Nat /\ ConstantOffset[number(l)] \in Nat
        /\ UsingSize(number(k)) \in Nat /\ UsingSize(number(l)) \in Nat
    BY <1>1
  <2>4. /\ ConstantBytes(k) \subseteq ConstantOffset[number(k)] .. (end(k) - 1)
        /\ ConstantBytes(l) \subseteq ConstantOffset[number(l)] .. (end(l) - 1)
    BY <1>2
  <2> HIDE DEF number, Constants
  <2> QED
    BY <2>2, <2>3, <2>4
<1>6. number(i) # number(j) => ConstantBytes(i) \cap ConstantBytes(j) = {}
  <2>1. number(i) \in 1 .. Len(project.constants) /\ number(j) \in 1 .. Len(project.constants)
    BY <1>1
  <2> HIDE DEF number
  <2>2. number(i) # number(j) => number(i) < number(j) \/ number(j) < number(i)
    BY <2>1
  <2> QED
    BY <1>5, <2>2
<1>7. result[i].arg0 % DefaultAlignment = 0
  <2>1. number(i) \in 1 .. Len(project.constants) + 1
    BY <1>0, <1>1
  <2> HIDE DEF number
  <2>2. PICK q \in Nat : ConstantOffset[number(i)] = q * DefaultAlignment
    BY <1>0, <2>1, OffsetsAreNumbers DEF Multiple
  <2> QED
    BY <1>1, <2>2, MultipleIsAligned
<1> QED
  BY <1>4, <1>6, <1>7

(* What HandleModule and the constants section lay out is kept apart: no   *)
(* two modules, and no two constants, share a byte of a linked program.    *)
THEOREM ModulesStayApart == Spec => []ModulesKeptApart
<1>1. LinkInv => ModulesKeptApart
  BY VariablesAreApart, ConstantsAreApart DEF ModulesKeptApart
<1> QED
  BY <1>1, LinkInvHolds, PTL
=============================================================================
