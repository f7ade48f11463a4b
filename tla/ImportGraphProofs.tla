-------------------------- MODULE ImportGraphProofs --------------------------
(***************************************************************************)
(* Proofs about ImportGraph, for every set of files and every project.     *)
(*                                                                         *)
(* The order serves the imports because of three invariants: every import  *)
(* a walk has passed is a dependency that is known (WalksServe), a         *)
(* dependency lies deeper than the file that needs it unless a call that   *)
(* will push it down is on its way (LayersGrow), and what Kahn's algorithm *)
(* has taken contains no cycle and needs nothing that waits (Peeled).      *)
(***************************************************************************)
EXTENDS ImportGraph, TLAPS, SequenceTheorems, FiniteSetTheorems,
        WellFoundedInduction

(* The frames of the calls in progress. *)
Frame ==
  [does : {"walk", "deepen"}, file : Files, layer : Nat, line : Nat \ {0},
   waits : BOOLEAN, todo : SUBSET Files]

Typed ==
  /\ graph \in Graphs
  /\ stack \in Seq(Frame)
  /\ call = NoCall \/ call \in [file : Files, layer : Nat]
  /\ known \subseteq Files /\ IsFiniteSet(known)
  /\ layer \in [Files -> Nat]
  /\ dependencies \in [Files -> SUBSET Files]
  /\ currently_processing \subseteq Files
  /\ phase \in {"order", "done"} => stack = <<>> /\ call = NoCall

(* Files without text leave no trace. *)
Text(f) == graph.file[f] = "text"

(* Only files with text that main needs are known, and only known files    *)
(* they import are their dependencies.  The first of them is main.         *)
KnownAreNeeded ==
  /\ \A f \in known : Text(f) /\ f \in Reachable
  /\ \A f \in Files : dependencies[f] \subseteq Imports(f) \cap known
  /\ \A f \in Files \ known : dependencies[f] = {}
  /\ \/ Main \in known
     \/ known = {} /\ call = CallOn(Main, 0)
     \/ known = {} /\ call = NoCall /\ graph.file[Main] = "empty"

(* Every frame was called by the one below it, for a file that one's file  *)
(* imports.                                                                *)
FramesFollow ==
  /\ \A k \in 1 .. Len(stack) :
       stack[k].file \in known /\ stack[k].todo \subseteq dependencies[stack[k].file]
  /\ \A k \in 1 .. Len(stack) - 1 : stack[k + 1].file \in Imports(stack[k].file)

(* So was the call to be begun, and it is one layer down. *)
CallFollows ==
  /\ call # NoCall /\ Text(call.file) => call.file \in Reachable
  /\ call # NoCall /\ stack # <<>> =>
       /\ call.layer = Top.layer + 1
       /\ Text(call.file) => call.file \in Imports(Top.file)

CallsFollowImports == FramesFollow /\ CallFollows

Walks(k) == stack[k].does = "walk"

(* A file is marked exactly while it is walked, and is walked once.        *)
ProcessingIsWalked ==
  /\ \A f \in Files :
       f \in currently_processing <=>
         \E k \in 1 .. Len(stack) : Walks(k) /\ stack[k].file = f
  /\ \A j, k \in 1 .. Len(stack) :
       Walks(j) /\ Walks(k) /\ stack[j].file = stack[k].file => j = k

DirectiveOf(k, i) == graph.imports[stack[k].file][i]
CallOf(k) == CallOn(DirectiveOf(k, stack[k].line), stack[k].layer + 1)

(* A walk that waits has its call about to begin, or has its answer: there *)
(* is no text, or the file is known and, without a cycle, lies below.      *)
Waited(k) ==
  /\ stack[k].line <= Len(graph.imports[stack[k].file])
  /\ DirectiveOf(k, stack[k].line) \in Files
  /\ \/ k = Len(stack) /\ call = CallOf(k)
     \/ ~Text(DirectiveOf(k, stack[k].line))
     \/ /\ DirectiveOf(k, stack[k].line) \in known
        /\ ~IsCyclic => layer[DirectiveOf(k, stack[k].line)] > stack[k].layer

(* The imports a walk has passed are dependencies. *)
Passed(k) ==
  \A i \in 1 .. Len(graph.imports[stack[k].file]) :
    i < stack[k].line /\ DirectiveOf(k, i) \in Files /\ Text(DirectiveOf(k, i)) =>
      DirectiveOf(k, i) \in dependencies[stack[k].file]

WalksServe ==
  /\ \A k \in 1 .. Len(stack) : Walks(k) => Passed(k) /\ (stack[k].waits => Waited(k))
  /\ \A f \in known \ currently_processing : Imports(f) \subseteq dependencies[f]

Moves(k, f) == stack[k].does = "deepen" /\ stack[k].file = f

FramesKnowTheirLayer ==
  \A k \in 1 .. Len(stack) : stack[k].layer = layer[stack[k].file]

(* A dependency lies deeper, or a file that moves down has yet to push it, *)
(* or is about to.                                                         *)
Deeper(f, g) ==
  \/ layer[g] > layer[f]
  \/ \E k \in 1 .. Len(stack) : Moves(k, f) /\ g \in stack[k].todo
  \/ stack # <<>> /\ Moves(Len(stack), f) /\ call = CallOn(g, layer[f] + 1)

LayersGrow ==
  ~IsCyclic =>
    /\ FramesKnowTheirLayer
    /\ \A f \in known : \A g \in dependencies[f] : Deeper(f, g)

(* What Kahn's algorithm has taken, and what keeps a file from being taken. *)
Taken == ToSet(sorted)
Waiting(g) == {f \in known \ Taken : g \in dependencies[f]}

(* The degrees count what each file waits for; what is taken waits for     *)
(* nothing that is not, and contains no cycle.                             *)
Peeled ==
  /\ sorted \in Seq(Files) /\ in_degree \in [Files -> Int]
  /\ phase = "analyze" => sorted = <<>>
  /\ Taken \subseteq known /\ Len(sorted) = Cardinality(Taken)
  /\ phase = "order" =>
     /\ \A g \in Files : in_degree[g] = Cardinality(Waiting(g))
     /\ zero_incoming = {g \in known \ Taken : in_degree[g] = 0}
  /\ \A f \in known : \A g \in dependencies[f] : g \in Taken => f \in Taken
  /\ \A S \in SUBSET Taken : S # {} => \E f \in S : dependencies[f] \cap S = {}

-----------------------------------------------------------------------------
(* Facts of sequences and numbers.                                         *)

(* Every set of natural numbers has a least one. *)
LEMMA LeastNatural ==
  ASSUME NEW T, T \subseteq Nat, T # {}
  PROVE  \E n \in T : \A m \in T : n <= m
<1> DEFINE R == OpToRel(<, Nat)
<1>1. IsWellFoundedOn(R, Nat)
  BY NatLessThanWellFounded
<1>2. \A m \in Nat, n \in Nat : m < n => <<m, n>> \in R
  BY DEF OpToRel
<1> HIDE DEF R
<1>3. PICK n \in T : \A m \in T : ~(<<m, n>> \in R)
  BY <1>1, WFMin
<1>4. \A m \in T : ~(m < n)
  BY <1>2, <1>3
<1> QED
  BY <1>4

(* A sequence without its last element. *)
LEMMA WithoutLast ==
  ASSUME NEW S, NEW s \in Seq(S), s # <<>>
  PROVE  /\ SubSeq(s, 1, Len(s) - 1) \in Seq(S)
         /\ Len(SubSeq(s, 1, Len(s) - 1)) = Len(s) - 1
         /\ \A i \in 1 .. Len(s) - 1 : SubSeq(s, 1, Len(s) - 1)[i] = s[i]
<1> DEFINE n == Len(s) - 1
           t == SubSeq(s, 1, n)
<1>1. n \in Nat /\ \A i \in 1 .. n : s[i] \in S
  BY EmptySeq
<1> HIDE DEF n
<1>2. /\ t \in Seq(S)
      /\ Len(t) = IF 1 <= n THEN n - 1 + 1 ELSE 0
      /\ \A i \in 1 .. n - 1 + 1 : t[i] = s[1 + i - 1]
  BY <1>1, SubSeqProperties
<1> HIDE DEF t
<1>3. n - 1 + 1 = n /\ \A i \in 1 .. n : 1 + i - 1 = i
  BY <1>1
<1>4. Len(t) = n
  BY <1>1, <1>2, <1>3
<1> QED
  BY <1>2, <1>3, <1>4 DEF n, t

-----------------------------------------------------------------------------
(* Facts of the graph, which no step changes.                              *)

(* No step changes what the files import. *)
LEMMA GraphFacts ==
  ASSUME graph' = graph
  PROVE  /\ Reachable' = Reachable
         /\ IsCyclic' = IsCyclic
         /\ \A f \in Files : (Imports(f))' = Imports(f) /\ Text(f)' = Text(f)
<1>1. \A f \in Files : (Imports(f))' = Imports(f) /\ Text(f)' = Text(f)
  BY Zenon DEF Imports, Text
<1>2. Reachable' = Reachable
  BY Zenon DEF Reachable, Closed, Imports
<1>3. Reachable \subseteq Files
  BY DEF Reachable
<1>4. IsCyclic' = IsCyclic
  BY <1>1, <1>2, <1>3 DEF IsCyclic
<1> QED
  BY <1>1, <1>2, <1>4

(* Main is needed, and what a needed file imports is. *)
LEMMA NeededIsClosed ==
  /\ Reachable \subseteq Files
  /\ Main \in Reachable
  /\ \A f \in Reachable : Imports(f) \subseteq Reachable
<1>1. Reachable \subseteq Files
  BY DEF Reachable
<1>2. Main \in Reachable
  BY ImportGraphAssumption DEF Reachable
<1>3. ASSUME NEW f \in Reachable, NEW g \in Imports(f)
      PROVE  g \in Reachable
  <2>1. g \in Files
    BY <1>3 DEF Imports
  <2>2. ASSUME NEW S \in SUBSET Files, Main \in S, Closed(S)
        PROVE  g \in S
    <3>1. f \in S
      BY <2>2 DEF Reachable
    <3> QED
      BY <1>3, <2>2, <3>1 DEF Closed
  <2> QED
    BY <2>1, <2>2 DEF Reachable
<1> QED
  BY <1>1, <1>2, <1>3

-----------------------------------------------------------------------------
(* What the steps do to the stack of calls.                                *)

Pushed(frame) ==
  /\ Len(stack') = Len(stack) + 1
  /\ stack'[Len(stack) + 1] = frame
  /\ \A k \in 1 .. Len(stack) : stack'[k] = stack[k]

Updated(frame) ==
  /\ Len(stack) > 0 /\ Len(stack') = Len(stack)
  /\ stack'[Len(stack)] = frame
  /\ \A k \in 1 .. Len(stack) - 1 : stack'[k] = stack[k]

Popped ==
  /\ Len(stack) > 0 /\ Len(stack') = Len(stack) - 1
  /\ \A k \in 1 .. Len(stack) - 1 : stack'[k] = stack[k]

(* What a typed stack holds. *)
LEMMA StackTypes ==
  ASSUME Typed
  PROVE  /\ Len(stack) \in Nat
         /\ \A k \in 1 .. Len(stack) : stack[k] \in Frame /\ stack[k].file \in Files
         /\ stack # <<>> => Len(stack) > 0 /\ Top = stack[Len(stack)] /\ Top \in Frame
<1>1. Len(stack) \in Nat /\ \A k \in 1 .. Len(stack) : stack[k] \in Frame
  BY DEF Typed
<1>2. stack # <<>> => Len(stack) > 0
  BY <1>1, EmptySeq DEF Typed
<1>3. \A k \in 1 .. Len(stack) : stack[k].file \in Files
  BY <1>1 DEF Frame
<1> QED
  BY <1>1, <1>2, <1>3 DEF Top

(* A call pushes a frame. *)
LEMMA Pushing ==
  ASSUME Typed, NEW frame \in Frame, stack' = Append(stack, frame)
  PROVE  stack' \in Seq(Frame) /\ Pushed(frame)
  BY AppendProperties DEF Typed, Pushed

(* A return pops one. *)
LEMMA Popping ==
  ASSUME Typed, stack # <<>>, stack' = Pop
  PROVE  stack' \in Seq(Frame) /\ Popped
  BY WithoutLast, StackTypes DEF Typed, Popped, Pop

(* A frame that goes on is replaced. *)
LEMMA Updating ==
  ASSUME Typed, stack # <<>>, NEW frame \in Frame, stack' = Update(frame)
  PROVE  stack' \in Seq(Frame) /\ Updated(frame)
<1>1. /\ Pop \in Seq(Frame) /\ Len(Pop) = Len(stack) - 1
      /\ \A k \in 1 .. Len(stack) - 1 : Pop[k] = stack[k]
  BY WithoutLast DEF Typed, Pop
<1>2. /\ Append(Pop, frame) \in Seq(Frame)
      /\ Len(Append(Pop, frame)) = Len(Pop) + 1
      /\ \A k \in 1 .. Len(Pop) : Append(Pop, frame)[k] = Pop[k]
      /\ Append(Pop, frame)[Len(Pop) + 1] = frame
  BY <1>1, AppendProperties
<1>3. Len(stack) \in Nat /\ Len(stack) > 0 /\ Len(Pop) + 1 = Len(stack)
  BY <1>1, StackTypes
<1> HIDE DEF Frame
<1> QED
  BY <1>1, <1>2, <1>3 DEF Updated, Update

(* Some steps do not touch the calls, and some only end one. *)
Rests == UNCHANGED <<graph, stack, call, found>>

Returns ==
  /\ call # NoCall /\ call' = NoCall
  /\ UNCHANGED <<graph, stack, found>>
  /\ \/ call.file \in currently_processing
     \/ call.file \in known /\ call.layer <= layer[call.file]
     \/ ~Text(call.file)

Advanced == [Top EXCEPT !.line = @ + 1]
Called == [Top EXCEPT !.waits = TRUE]
Answered == [Top EXCEPT !.line = @ + 1, !.waits = FALSE]
Without(f) == [Top EXCEPT !.todo = @ \ {f}]

(* Every step does one of these things to the calls. *)
LEMMA Steps ==
  ASSUME Typed, Next
  PROVE  /\ graph' = graph /\ stack' \in Seq(Frame)
         /\ \/ Rests
            \/ Returns
            \/ FoundDeeper /\ Pushed(Deepening(call.file, call.layer))
            \/ Load /\ Pushed(Walking(call.file, call.layer))
            \/ SkipDirective /\ Updated(Advanced)
            \/ Follow /\ Updated(Called)
            \/ Followed /\ Updated(Answered)
            \/ EndWalk /\ Popped
            \/ Deepen /\ \E f \in Top.todo :
                 call' = CallOn(f, Top.layer + 1) /\ Updated(Without(f))
            \/ EndDeepen /\ Popped
         /\ FoundDeeper => Pushed(Deepening(call.file, call.layer))
         /\ Load => Pushed(Walking(call.file, call.layer))
<1> USE ImportGraphAssumption
<1>0. stack \in Seq(Frame)
  BY DEF Typed
<1>1. ASSUME Overflow \/ FollowMissing \/ StartOrdering \/ TakeNext \/ FindCycle \/ Sort
      PROVE  Rests /\ graph' = graph /\ stack' \in Seq(Frame)
  BY <1>0, <1>1 DEF Overflow, FollowMissing, StartOrdering, TakeNext, FindCycle, Sort,
                    Rests, found
<1>2. ASSUME Cyclic \/ FoundAgain \/ LoadNothing
      PROVE  Returns /\ graph' = graph /\ stack' \in Seq(Frame)
  <2>1. call.file \in Files /\ call # NoCall
    BY <1>2 DEF Typed, NoCall, Cyclic, FoundAgain, LoadNothing, Revisit, FirstVisit
  <2> QED
    BY <1>0, <1>2, <2>1 DEF Cyclic, FoundAgain, LoadNothing, Revisit, Returns, found,
                            NoCall, Text
<1>3. ASSUME FoundDeeper
      PROVE  /\ Pushed(Deepening(call.file, call.layer))
             /\ graph' = graph /\ stack' \in Seq(Frame)
  <2>1. Deepening(call.file, call.layer) \in Frame
    BY <1>3 DEF FoundDeeper, Revisit, Deepening, Frame, Typed, NoCall
  <2> QED
    BY <1>3, <2>1, Pushing DEF FoundDeeper
<1>4. ASSUME Load
      PROVE  /\ Pushed(Walking(call.file, call.layer))
             /\ graph' = graph /\ stack' \in Seq(Frame)
  <2>1. Walking(call.file, call.layer) \in Frame
    BY <1>4 DEF Load, FirstVisit, Walking, Frame, Typed, NoCall
  <2> QED
    BY <1>4, <2>1, Pushing DEF Load
<1>5. ASSUME Running("walk") \/ Running("deepen")
      PROVE  /\ stack # <<>> /\ Top \in Frame
             /\ Advanced \in Frame /\ Called \in Frame /\ Answered \in Frame
             /\ \A f \in Files : Without(f) \in Frame
             /\ Top.todo \subseteq Files
  <2>1. stack # <<>> /\ Top \in Frame
    BY <1>5, StackTypes DEF Running
  <2>2. Advanced \in Frame /\ Called \in Frame /\ Answered \in Frame
    <3>1. Advanced \in Frame
      BY <2>1 DEF Frame, Advanced
    <3>2. Called \in Frame
      BY <2>1 DEF Frame, Called
    <3>3. Answered \in Frame
      <4>1. Answered = [Advanced EXCEPT !.waits = FALSE]
        BY DEF Answered, Advanced
      <4> QED
        BY <3>1, <4>1 DEF Frame
    <3> QED
      BY <3>1, <3>2, <3>3
  <2>3. \A f \in Files : Without(f) \in Frame
    BY <2>1 DEF Frame, Without
  <2>4. Top.todo \subseteq Files
    BY <2>1 DEF Frame
  <2> QED
    BY <2>1, <2>2, <2>3, <2>4
<1>6. ASSUME SkipDirective
      PROVE  Updated(Advanced) /\ graph' = graph /\ stack' \in Seq(Frame)
  BY <1>5, <1>6, Updating DEF SkipDirective, AtDirective, Advanced
<1>7. ASSUME Follow
      PROVE  Updated(Called) /\ graph' = graph /\ stack' \in Seq(Frame)
  BY <1>5, <1>7, Updating DEF Follow, AtDirective, Called
<1>8. ASSUME Followed
      PROVE  Updated(Answered) /\ graph' = graph /\ stack' \in Seq(Frame)
  BY <1>5, <1>8, Updating DEF Followed, AtDirective, Answered
<1>9. ASSUME EndWalk
      PROVE  Popped /\ graph' = graph /\ stack' \in Seq(Frame)
  BY <1>5, <1>9, Popping DEF EndWalk
<1>10. ASSUME Deepen
       PROVE  /\ \E f \in Top.todo :
                   call' = CallOn(f, Top.layer + 1) /\ Updated(Without(f))
              /\ graph' = graph /\ stack' \in Seq(Frame)
  <2>1. PICK f \in Top.todo :
          call' = CallOn(f, Top.layer + 1) /\ stack' = Update(Without(f))
    BY <1>10 DEF Deepen, Without
  <2>2. Updated(Without(f)) /\ stack' \in Seq(Frame)
    BY <1>5, <1>10, <2>1, Updating DEF Deepen
  <2> QED
    BY <1>10, <2>1, <2>2 DEF Deepen
<1>11. ASSUME EndDeepen
       PROVE  Popped /\ graph' = graph /\ stack' \in Seq(Frame)
  BY <1>5, <1>11, Popping DEF EndDeepen
<1> QED
  BY <1>1, <1>2, <1>3, <1>4, <1>6, <1>7, <1>8, <1>9, <1>10, <1>11, Zenon DEF Next

(* The stack stays typed. *)
LEMMA NextStackTypes ==
  ASSUME Typed, Next
  PROVE  /\ Len(stack') \in Nat
         /\ \A k \in 1 .. Len(stack') : stack'[k] \in Frame /\ stack'[k].file \in Files
<1>1. Len(stack') \in Nat /\ \A k \in 1 .. Len(stack') : stack'[k] \in Frame
  <2> HIDE DEF Frame
  <2> QED
    BY Steps
<1> QED
  BY <1>1 DEF Frame

(* Nothing happens to the calls when they are over. *)
LEMMA Orders ==
  ASSUME Next, phase # "analyze"
  PROVE  StartOrdering \/ TakeNext \/ FindCycle \/ Sort
  BY DEF Next, Cyclic, Overflow, FoundDeeper, FoundAgain, Revisit, LoadNothing, Load,
         FirstVisit, SkipDirective, FollowMissing, Follow, Followed, AtDirective,
         EndWalk, Deepen, EndDeepen, Running

(* Every step keeps the types. *)
LEMMA TypedKept ==
  ASSUME Typed, [Next]_vars
  PROVE  Typed'
<1>1. CASE UNCHANGED vars
  BY <1>1 DEF Typed, vars, found, NoCall
<1>2. CASE Next
  <2>1. graph' = graph /\ stack' \in Seq(Frame)
    BY <1>2, Steps
  <2>2. call' = NoCall \/ call' \in [file : Files, layer : Nat]
    <3>1. CASE Follow
      <4>1. Top \in Frame
        BY <3>1, StackTypes DEF Follow, AtDirective, Running
      <4> QED
        BY <3>1, <4>1 DEF Follow, CallOn, Frame
    <3>2. CASE Deepen
      <4>1. Top \in Frame
        BY <3>2, StackTypes DEF Deepen, Running
      <4> QED
        BY <3>2, <4>1 DEF Deepen, CallOn, Frame
    <3>3. CASE ~Follow /\ ~Deepen
      <4>1. call' \in {call, NoCall}
        BY <1>2, <3>3 DEF Next, Cyclic, Overflow, FoundDeeper, FoundAgain, LoadNothing,
             Load, SkipDirective, FollowMissing, Followed, EndWalk, EndDeepen,
             StartOrdering, TakeNext, FindCycle, Sort
      <4> QED
        BY <4>1 DEF Typed
    <3> QED
      BY <3>1, <3>2, <3>3
  <2>3. known' \subseteq Files /\ IsFiniteSet(known')
    <3>1. CASE Load
      BY <3>1, FS_AddElement DEF Typed, Load, FirstVisit
    <3>2. CASE ~Load
      <4>1. known' = known
        BY <1>2, <3>2 DEF Next, Cyclic, Overflow, FoundDeeper, FoundAgain, LoadNothing,
             SkipDirective, FollowMissing, Follow, Followed, EndWalk, Deepen, EndDeepen,
             StartOrdering, TakeNext, FindCycle, Sort, found
      <4> QED
        BY <4>1 DEF Typed
    <3> QED
      BY <3>1, <3>2
  <2>4. /\ layer' \in [Files -> Nat]
        /\ dependencies' \in [Files -> SUBSET Files]
        /\ currently_processing' \subseteq Files
    <3>1. CASE Load \/ FoundDeeper
      BY <3>1 DEF Typed, Load, FirstVisit, FoundDeeper, Revisit, NoCall
    <3>2. CASE Followed
      <4>1. Top \in Frame
        BY <3>2, StackTypes DEF Followed, AtDirective, Running
      <4>2. Top.file \in Files /\ Top.layer + 1 \in Nat
        BY <4>1 DEF Frame
      <4>3. layer' \in [Files -> Nat] /\ dependencies' \in [Files -> SUBSET Files]
        <5>1. CASE Import \in known
          <6>1. /\ dependencies' = [dependencies EXCEPT ![Top.file] = @ \cup {Import}]
                /\ layer' = [layer EXCEPT
                     ![Import] = IF Top.layer + 1 > @ THEN Top.layer + 1 ELSE @]
            BY <3>2, <5>1 DEF Followed
          <6>2. (IF Top.layer + 1 > layer[Import] THEN Top.layer + 1 ELSE layer[Import])
                  \in Nat
            BY <4>2, <5>1 DEF Typed
          <6>3. layer' \in [Files -> Nat]
            BY <6>1, <6>2 DEF Typed
          <6>4. dependencies' \in [Files -> SUBSET Files]
            BY <4>2, <5>1, <6>1 DEF Typed
          <6> QED
            BY <6>3, <6>4
        <5>2. CASE Import \notin known
          BY <3>2, <5>2 DEF Typed, Followed
        <5> QED
          BY <5>1, <5>2
      <4> QED
        BY <3>2, <4>3 DEF Typed, Followed
    <3>3. CASE EndWalk
      BY <3>3 DEF Typed, EndWalk
    <3>4. CASE ~(Load \/ FoundDeeper \/ Followed \/ EndWalk)
      <4>1. UNCHANGED <<layer, dependencies, currently_processing>>
        BY <1>2, <3>4 DEF Next, Cyclic, Overflow, FoundAgain, LoadNothing,
             SkipDirective, FollowMissing, Follow, Deepen, EndDeepen,
             StartOrdering, TakeNext, FindCycle, Sort, found
      <4> QED
        BY <4>1 DEF Typed
    <3> QED
      BY <3>1, <3>2, <3>3, <3>4
  <2>5. phase' \in {"order", "done"} => stack' = <<>> /\ call' = NoCall
    BY <1>2 DEF Typed, Next, Cyclic, Overflow, FoundDeeper, FoundAgain, Revisit,
         LoadNothing, Load, FirstVisit, SkipDirective, FollowMissing, Follow, Followed,
         AtDirective, EndWalk, Deepen, EndDeepen, Running, StartOrdering, TakeNext,
         FindCycle, Sort
  <2> QED
    BY <2>1, <2>2, <2>3, <2>4, <2>5 DEF Typed, NoCall
<1> QED
  BY <1>1, <1>2

(* What a step changes in the frame on top, and what it leaves alone. *)
LEMMA FrameFields ==
  ASSUME Typed, stack # <<>>
  PROVE  /\ Top.file \in Files /\ Top.layer \in Nat /\ Top.line \in Nat \ {0}
         /\ Top.does \in {"walk", "deepen"} /\ Top.todo \subseteq Files
         /\ \A frame \in {Advanced, Called, Answered} :
              /\ frame.does = Top.does /\ frame.file = Top.file
              /\ frame.layer = Top.layer /\ frame.todo = Top.todo
         /\ Advanced.line = Top.line + 1 /\ Advanced.waits = Top.waits
         /\ Called.line = Top.line /\ Called.waits
         /\ Answered.line = Top.line + 1 /\ ~Answered.waits
         /\ \A f : /\ Without(f).does = Top.does /\ Without(f).file = Top.file
                   /\ Without(f).layer = Top.layer /\ Without(f).line = Top.line
                   /\ Without(f).waits = Top.waits
                   /\ Without(f).todo = Top.todo \ {f}
<1>1. Top \in Frame
  BY StackTypes
<1>2. /\ Top.file \in Files /\ Top.layer \in Nat /\ Top.line \in Nat \ {0}
      /\ Top.does \in {"walk", "deepen"} /\ Top.todo \subseteq Files
  BY <1>1 DEF Frame
<1>3. /\ Advanced.does = Top.does /\ Advanced.file = Top.file
      /\ Advanced.layer = Top.layer /\ Advanced.todo = Top.todo
      /\ Advanced.line = Top.line + 1 /\ Advanced.waits = Top.waits
  BY <1>1 DEF Advanced, Frame
<1>4. /\ Called.does = Top.does /\ Called.file = Top.file
      /\ Called.layer = Top.layer /\ Called.todo = Top.todo
      /\ Called.line = Top.line /\ Called.waits
  BY <1>1 DEF Called, Frame
<1>5. /\ Answered.does = Top.does /\ Answered.file = Top.file
      /\ Answered.layer = Top.layer /\ Answered.todo = Top.todo
      /\ Answered.line = Top.line + 1 /\ ~Answered.waits
  BY <1>1 DEF Answered, Frame
<1>6. ASSUME NEW f
      PROVE  /\ Without(f).does = Top.does /\ Without(f).file = Top.file
             /\ Without(f).layer = Top.layer /\ Without(f).line = Top.line
             /\ Without(f).waits = Top.waits
             /\ Without(f).todo = Top.todo \ {f}
  BY <1>1 DEF Without, Frame
<1> QED
  BY <1>2, <1>3, <1>4, <1>5, <1>6

(* What a file imports is what its directives name, as far as it has text. *)
LEMMA DirectivesAre ==
  ASSUME Typed, NEW f \in Files
  PROVE  /\ graph.imports[f] \in Seq(Files \cup {NoFile})
         /\ Len(graph.imports[f]) \in Nat
         /\ \A g : g \in Imports(f) <=>
              /\ g \in Files /\ Text(g)
              /\ \E i \in 1 .. Len(graph.imports[f]) : graph.imports[f][i] = g
<1>1. graph.imports[f] \in Seq(Files \cup {NoFile})
  BY ImportGraphAssumption DEF Typed, Graph
<1>2. DOMAIN graph.imports[f] = 1 .. Len(graph.imports[f])
  BY <1>1
<1> QED
  BY <1>1, <1>2 DEF Imports, ToSet, Text

(* The directive the walk is at is one of its file's. *)
LEMMA DirectiveTypes ==
  ASSUME Typed, AtDirective
  PROVE  /\ stack # <<>> /\ Top.does = "walk" /\ call = NoCall
         /\ Top.line \in 1 .. Len(graph.imports[Top.file])
         /\ Import = graph.imports[Top.file][Top.line]
         /\ Import \in Files /\ Text(Import) => Import \in Imports(Top.file)
<1>1. stack # <<>> /\ Top.does = "walk" /\ call = NoCall
  BY DEF AtDirective, Running
<1>2. Top.line \in 1 .. Len(graph.imports[Top.file])
  BY <1>1, FrameFields, DirectivesAre DEF AtDirective, Directives
<1>3. Import = graph.imports[Top.file][Top.line]
  BY DEF Import, Directives
<1> QED
  BY <1>1, <1>2, <1>3, FrameFields, DirectivesAre

-----------------------------------------------------------------------------
(* Only files that are needed become known.                                *)

(* What is being walked is known. *)
LEMMA ProcessedAreKnown ==
  ASSUME Typed, CallsFollowImports, ProcessingIsWalked
  PROVE  currently_processing \subseteq known
  BY DEF Typed, CallsFollowImports, FramesFollow, ProcessingIsWalked

(* Load adds a file that is needed; Followed adds an import that is known. *)
LEMMA KnownKept ==
  ASSUME Typed, KnownAreNeeded, CallsFollowImports, ProcessingIsWalked, [Next]_vars
  PROVE  KnownAreNeeded'
<1>1. CASE UNCHANGED vars
  <2>1. graph' = graph /\ known' = known /\ dependencies' = dependencies /\ call' = call
    BY <1>1 DEF vars, found
  <2> QED
    BY <2>1, GraphFacts DEF KnownAreNeeded, Typed, CallOn, NoCall
<1>2. CASE Next
  <2>0. /\ graph' = graph /\ Reachable' = Reachable
        /\ \A f \in Files : (Imports(f))' = Imports(f) /\ Text(f)' = Text(f)
        /\ known' \subseteq Files
    BY <1>2, Steps, GraphFacts, TypedKept DEF Typed
  <2>1. ASSUME stack # <<>>
        PROVE  Main \in known
    <3>1. Top.file \in known
      BY <2>1, StackTypes DEF CallsFollowImports, FramesFollow
    <3> QED
      BY <3>1 DEF KnownAreNeeded
  <2>2. ASSUME known' = known, dependencies' = dependencies,
               \/ Main \in known
               \/ call' = call
               \/ call' = NoCall /\ graph.file[Main] = "empty"
        PROVE  KnownAreNeeded'
    <3>1. \A f \in known' : Text(f)' /\ f \in Reachable'
      BY <2>0, <2>2 DEF KnownAreNeeded, Typed
    <3>2. \A f \in Files : dependencies'[f] \subseteq (Imports(f))' \cap known'
      BY <2>0, <2>2 DEF KnownAreNeeded, Typed
    <3>3. \A f \in Files \ known' : dependencies'[f] = {}
      BY <2>0, <2>2 DEF KnownAreNeeded, Typed
    <3>4. \/ Main \in known'
          \/ known' = {} /\ call' = CallOn(Main, 0)
          \/ known' = {} /\ call' = NoCall /\ graph'.file[Main] = "empty"
      BY <2>0, <2>2 DEF KnownAreNeeded
    <3> QED
      BY <3>1, <3>2, <3>3, <3>4 DEF KnownAreNeeded, CallOn, NoCall
  <2>3. CASE Rests
    BY <2>2, <2>3 DEF Rests, found
  <2>4. CASE Returns
    <3>1. known = {} => graph.file[Main] = "empty"
      <4> SUFFICES ASSUME known = {}
                   PROVE  graph.file[Main] = "empty"
        OBVIOUS
      <4>1. call.file = Main /\ ~Text(Main)
        BY <2>4, ProcessedAreKnown DEF Returns, KnownAreNeeded, CallOn
      <4> QED
        BY <4>1, ImportGraphAssumption DEF Text, Typed, Graph
    <3> QED
      BY <2>2, <2>4, <3>1 DEF Returns, found, KnownAreNeeded
  <2>5. CASE FoundDeeper
    <3>1. Main \in known
      BY <2>5 DEF FoundDeeper, Revisit, KnownAreNeeded
    <3> QED
      BY <2>2, <2>5, <3>1 DEF FoundDeeper
  <2>6. CASE Load
    <3>1. /\ call.file \in Files /\ call # NoCall /\ Text(call.file)
          /\ known' = known \cup {call.file} /\ dependencies' = dependencies
      BY <2>6, ImportGraphAssumption DEF Load, FirstVisit, NoCall, Text
    <3>2. call.file \in Reachable
      BY <3>1 DEF CallsFollowImports, CallFollows
    <3>3. Main \in known'
      BY <3>1 DEF KnownAreNeeded, CallOn
    <3> QED
      BY <2>0, <3>1, <3>2, <3>3 DEF KnownAreNeeded, Typed
  <2>7. CASE SkipDirective \/ Follow \/ EndWalk \/ Deepen \/ EndDeepen
    <3>1. UNCHANGED <<known, dependencies>> /\ stack # <<>>
      BY <2>7 DEF SkipDirective, Follow, EndWalk, Deepen, EndDeepen, AtDirective,
                  Running, found
    <3> QED
      BY <2>1, <2>2, <3>1
  <2>8. CASE Followed
    <3>1. stack # <<>> /\ known' = known
      BY <2>8 DEF Followed, AtDirective, Running
    <3>2. CASE Import \in known
      <4>1. /\ dependencies' = [dependencies EXCEPT ![Top.file] = @ \cup {Import}]
            /\ Top.file \in known
        BY <2>8, <3>1, <3>2, StackTypes DEF Followed, CallsFollowImports, FramesFollow
      <4>2. Import \in Imports(Top.file)
        BY <2>8, <3>2, DirectiveTypes DEF Followed, KnownAreNeeded, Typed
      <4>3. /\ \A f \in Files : dependencies'[f] \subseteq Imports(f) \cap known
            /\ \A f \in Files \ known : dependencies'[f] = {}
        BY <3>2, <4>1, <4>2 DEF KnownAreNeeded, Typed
      <4> QED
        BY <2>0, <2>1, <3>1, <4>3 DEF KnownAreNeeded, Typed
    <3>3. CASE Import \notin known
      BY <2>1, <2>2, <2>8, <3>1, <3>3 DEF Followed
    <3> QED
      BY <3>2, <3>3
  <2> QED
    BY <1>2, Steps, <2>3, <2>4, <2>5, <2>6, <2>7, <2>8
<1> QED
  BY <1>1, <1>2

-----------------------------------------------------------------------------
(* Calls follow the imports.                                               *)

(* What is known, and what depends on what, is never forgotten. *)
LEMMA NothingForgotten ==
  ASSUME Typed, CallsFollowImports, Next
  PROVE  /\ known \subseteq known'
         /\ \A f \in Files : dependencies[f] \subseteq dependencies'[f]
<1>1. CASE Followed
  <2>1. known' = known /\ Top.file \in Files
    BY <1>1, FrameFields DEF Followed, AtDirective, Running
  <2>2. CASE Import \in known
    BY <1>1, <2>1, <2>2 DEF Followed, Typed
  <2>3. CASE Import \notin known
    BY <1>1, <2>1, <2>3 DEF Followed
  <2> QED
    BY <2>2, <2>3, <2>1
<1>2. CASE ~Followed
  <2>1. dependencies' = dependencies /\ known' \in {known, known \cup {call.file}}
    BY <1>2 DEF Next, Cyclic, Overflow, FoundDeeper, FoundAgain, LoadNothing, Load,
         SkipDirective, FollowMissing, Follow, EndWalk, Deepen, EndDeepen,
         StartOrdering, TakeNext, FindCycle, Sort, found
  <2> QED
    BY <2>1
<1> QED
  BY <1>1, <1>2

(* A frame is pushed only for the call that its caller made. *)
LEMMA FramesKeepFollowing ==
  ASSUME Typed, KnownAreNeeded, CallsFollowImports, Next
  PROVE  FramesFollow'
<1>1. /\ graph' = graph /\ Len(stack) \in Nat /\ Len(stack') \in Nat
      /\ \A f \in Files : (Imports(f))' = Imports(f)
      /\ \A k \in 1 .. Len(stack') : stack'[k].file \in Files
      /\ \A k \in 1 .. Len(stack) : stack[k].file \in Files
  BY Steps, GraphFacts, StackTypes, NextStackTypes
<1>2. /\ known \subseteq known'
      /\ \A f \in Files : dependencies[f] \subseteq dependencies'[f]
  BY NothingForgotten
<1>3. ASSUME NEW n \in 0 .. Len(stack),
             \A k \in 1 .. n : stack'[k] = stack[k]
      PROVE  /\ \A k \in 1 .. n :
                  /\ stack'[k].file \in known'
                  /\ stack'[k].todo \subseteq dependencies'[stack'[k].file]
             /\ \A k \in 1 .. n - 1 : stack'[k + 1].file \in Imports(stack'[k].file)
  <2>1. ASSUME NEW k \in 1 .. n
        PROVE  /\ stack'[k].file \in known'
               /\ stack'[k].todo \subseteq dependencies'[stack'[k].file]
    <3>1. k \in 1 .. Len(stack) /\ stack'[k] = stack[k] /\ stack[k].file \in Files
      BY <1>1, <1>3
    <3>2. stack[k].file \in known /\ stack[k].todo \subseteq dependencies[stack[k].file]
      BY <3>1 DEF CallsFollowImports, FramesFollow
    <3> QED
      BY <1>2, <3>1, <3>2
  <2>2. ASSUME NEW k \in 1 .. n - 1
        PROVE  stack'[k + 1].file \in Imports(stack'[k].file)
    <3>1. k \in 1 .. n /\ k + 1 \in 1 .. n /\ k \in 1 .. Len(stack) - 1
      BY <1>1
    <3> QED
      BY <1>3, <3>1 DEF CallsFollowImports, FramesFollow
  <2> QED
    BY <2>1, <2>2
<1>4. ASSUME \A k \in 1 .. Len(stack') :
               /\ stack'[k].file \in known'
               /\ stack'[k].todo \subseteq dependencies'[stack'[k].file],
             \A k \in 1 .. Len(stack') - 1 :
               stack'[k + 1].file \in Imports(stack'[k].file)
      PROVE  FramesFollow'
  <2>1. ASSUME NEW k \in 1 .. Len(stack') - 1
        PROVE  stack'[k + 1].file \in (Imports(stack[k].file))'
    <3>1. PICK f \in Files : f = stack'[k].file
      BY <1>1
    <3>2. stack'[k + 1].file \in (Imports(f))'
      BY <1>1, <1>4, <3>1
    <3> QED
      BY <3>1, <3>2
  <2> QED
    BY <1>4, <2>1 DEF FramesFollow
<1>5. ASSUME NEW frame, Pushed(frame), frame.file \in known',
             frame.todo \subseteq dependencies'[frame.file],
             stack # <<>> => frame.file \in Imports(Top.file)
      PROVE  FramesFollow'
  <2>1. /\ \A k \in 1 .. Len(stack) :
             /\ stack'[k].file \in known'
             /\ stack'[k].todo \subseteq dependencies'[stack'[k].file]
        /\ \A k \in 1 .. Len(stack) - 1 : stack'[k + 1].file \in Imports(stack'[k].file)
    BY <1>1, <1>3, <1>5 DEF Pushed
  <2>2. \A k \in 1 .. Len(stack') :
          /\ stack'[k].file \in known'
          /\ stack'[k].todo \subseteq dependencies'[stack'[k].file]
    BY <1>1, <1>5, <2>1 DEF Pushed
  <2>3. ASSUME NEW k \in 1 .. Len(stack') - 1
        PROVE  stack'[k + 1].file \in Imports(stack'[k].file)
    <3>1. CASE k = Len(stack)
      <4>1. stack # <<>>
        BY <1>1, <3>1, EmptySeq
      <4> QED
        BY <1>1, <1>5, <3>1, <4>1, StackTypes DEF Pushed
    <3>2. CASE k # Len(stack)
      BY <1>1, <1>5, <2>1, <3>2 DEF Pushed
    <3> QED
      BY <3>1, <3>2
  <2> QED
    BY <1>4, <2>2, <2>3
<1>6. ASSUME NEW frame, Updated(frame), frame.file = Top.file,
             frame.todo \subseteq Top.todo
      PROVE  FramesFollow'
  <2> DEFINE n == Len(stack)
  <2>1. /\ n \in 1 .. n /\ stack'[n].file = stack[n].file
        /\ stack'[n].todo \subseteq stack[n].todo
    BY <1>1, <1>6 DEF Updated, Top
  <2>2. \A k \in 1 .. n :
          /\ stack'[k].file \in known'
          /\ stack'[k].todo \subseteq dependencies'[stack'[k].file]
    <3>1. \A k \in 1 .. n - 1 :
            /\ stack'[k].file \in known'
            /\ stack'[k].todo \subseteq dependencies'[stack'[k].file]
      BY <1>1, <1>3, <1>6, <2>1 DEF Updated
    <3>2. /\ stack'[n].file \in known'
          /\ stack'[n].todo \subseteq dependencies'[stack'[n].file]
      BY <1>1, <1>2, <2>1 DEF CallsFollowImports, FramesFollow
    <3> QED
      BY <1>1, <3>1, <3>2
  <2>3. \A k \in 1 .. n : stack'[k].file = stack[k].file
    BY <1>1, <1>6, <2>1 DEF Updated
  <2>4. ASSUME NEW k \in 1 .. n - 1
        PROVE  stack'[k + 1].file \in Imports(stack'[k].file)
    <3>1. k \in 1 .. n /\ k + 1 \in 1 .. n
      BY <1>1
    <3> QED
      BY <2>3, <3>1 DEF CallsFollowImports, FramesFollow
  <2>5. Len(stack') = n
    BY <1>6 DEF Updated
  <2>6. /\ \A k \in 1 .. Len(stack') :
             /\ stack'[k].file \in known'
             /\ stack'[k].todo \subseteq dependencies'[stack'[k].file]
        /\ \A k \in 1 .. Len(stack') - 1 :
             stack'[k + 1].file \in Imports(stack'[k].file)
    <3> HIDE DEF n
    <3> QED
      BY <2>2, <2>4, <2>5
  <2> QED
    BY <1>4, <2>6
<1>7. ASSUME Popped
      PROVE  FramesFollow'
  <2>1. /\ Len(stack') = Len(stack) - 1 /\ Len(stack') \in 0 .. Len(stack)
        /\ \A k \in 1 .. Len(stack') : stack'[k] = stack[k]
    BY <1>1, <1>7 DEF Popped
  <2>2. /\ \A k \in 1 .. Len(stack') :
             /\ stack'[k].file \in known'
             /\ stack'[k].todo \subseteq dependencies'[stack'[k].file]
        /\ \A k \in 1 .. Len(stack') - 1 : stack'[k + 1].file \in Imports(stack'[k].file)
    BY <1>3, <2>1
  <2> QED
    BY <1>4, <2>2
<1>8. CASE Rests \/ Returns
  <2>1. stack' = stack /\ Len(stack') \in 0 .. Len(stack)
    BY <1>1, <1>8 DEF Rests, Returns
  <2>2. /\ \A k \in 1 .. Len(stack') :
             /\ stack'[k].file \in known'
             /\ stack'[k].todo \subseteq dependencies'[stack'[k].file]
        /\ \A k \in 1 .. Len(stack') - 1 : stack'[k + 1].file \in Imports(stack'[k].file)
    BY <1>3, <2>1
  <2> QED
    BY <1>4, <2>2
<1>9. CASE FoundDeeper /\ Pushed(Deepening(call.file, call.layer))
  <2>1. /\ call # NoCall /\ call.file \in known /\ call.file \in known'
        /\ Deepening(call.file, call.layer).file = call.file
        /\ Deepening(call.file, call.layer).todo = dependencies[call.file]
        /\ dependencies' = dependencies
    BY <1>9, ImportGraphAssumption DEF FoundDeeper, Revisit, Typed, NoCall, Deepening
  <2>2. stack # <<>> => call.file \in Imports(Top.file)
    BY <2>1 DEF CallsFollowImports, CallFollows, KnownAreNeeded
  <2> QED
    BY <1>5, <1>9, <2>1, <2>2
<1>10. CASE Load /\ Pushed(Walking(call.file, call.layer))
  <2>1. /\ call # NoCall /\ call.file \in known' /\ Text(call.file)
        /\ Walking(call.file, call.layer).file = call.file
        /\ Walking(call.file, call.layer).todo = {}
    BY <1>10, ImportGraphAssumption DEF Load, FirstVisit, Text, NoCall, Walking
  <2>2. stack # <<>> => call.file \in Imports(Top.file)
    BY <2>1 DEF CallsFollowImports, CallFollows
  <2> QED
    BY <1>5, <1>10, <2>1, <2>2
<1>11. CASE SkipDirective /\ Updated(Advanced)
  BY <1>6, <1>11, FrameFields DEF SkipDirective, AtDirective, Running
<1>12. CASE Follow /\ Updated(Called)
  BY <1>6, <1>12, FrameFields DEF Follow, AtDirective, Running
<1>13. CASE Followed /\ Updated(Answered)
  BY <1>6, <1>13, FrameFields DEF Followed, AtDirective, Running
<1>14. CASE Deepen /\ \E f \in Top.todo :
              call' = CallOn(f, Top.layer + 1) /\ Updated(Without(f))
  <2>1. PICK f \in Top.todo : Updated(Without(f))
    BY <1>14
  <2>2. Without(f).file = Top.file /\ Without(f).todo \subseteq Top.todo
    BY <1>14, FrameFields DEF Deepen, Running
  <2> QED
    BY <1>6, <2>1, <2>2
<1> QED
  BY Steps, <1>7, <1>8, <1>9, <1>10, <1>11, <1>12, <1>13, <1>14

(* A call is made only for an import, or a dependency, of the file on top. *)
LEMMA CallKeepsFollowing ==
  ASSUME Typed, KnownAreNeeded, CallsFollowImports, Next
  PROVE  CallFollows'
<1>1. /\ graph' = graph /\ Reachable' = Reachable
      /\ \A f \in Files : (Imports(f))' = Imports(f) /\ Text(f)' = Text(f)
  BY Steps, GraphFacts
<1>2. ASSUME call' = NoCall
      PROVE  CallFollows'
  BY <1>2 DEF CallFollows, NoCall
<1>3. ASSUME NEW frame, NEW g \in Files, Updated(frame), stack # <<>>,
             frame.layer = Top.layer, frame.file = Top.file,
             call' = CallOn(g, Top.layer + 1),
             Text(g) => g \in Imports(Top.file)
      PROVE  CallFollows'
  <2>1. /\ Top.file \in Files /\ Top.file \in Reachable
        /\ Len(stack) \in Nat
    BY <1>3, FrameFields, StackTypes DEF CallsFollowImports, FramesFollow, KnownAreNeeded
  <2>2. Text(g) => g \in Reachable
    BY <1>3, <2>1, NeededIsClosed
  <2>3. Top' = frame
    BY <1>3 DEF Updated, Top
  <2>4. call'.file = g /\ call'.layer = Top.layer + 1
    BY <1>3 DEF CallOn
  <2>5. PICK f \in Files : f = Top.file
    BY <2>1
  <2>6. Top'.layer = Top.layer /\ Top'.file = f
    BY <1>3, <2>3, <2>5
  <2>7. /\ Text(g)' = Text(g) /\ (Imports(f))' = Imports(f)
        /\ Text(g) => g \in Imports(f)
    BY <1>1, <1>3, <2>5
  <2> QED
    BY <1>1, <2>2, <2>4, <2>6, <2>7 DEF CallFollows
<1>4. CASE Rests
  <2>1. call' = call /\ stack' = stack /\ (call # NoCall => call.file \in Files)
    BY <1>4 DEF Rests, Typed
  <2>2. stack # <<>> => Top.file \in Files /\ Top' = Top
    BY <2>1, FrameFields DEF Top
  <2> QED
    BY <1>1, <2>1, <2>2 DEF CallsFollowImports, CallFollows, NoCall
<1>5. CASE Returns \/ FoundDeeper \/ Load
  BY <1>2, <1>5 DEF Returns, FoundDeeper, Load
<1>6. CASE SkipDirective \/ Followed \/ EndWalk \/ EndDeepen
  BY <1>2, <1>6 DEF SkipDirective, Followed, EndWalk, EndDeepen, AtDirective, Running
<1>7. CASE Follow /\ Updated(Called)
  <2>1. Import \in Files /\ AtDirective /\ call' = CallOn(Import, Top.layer + 1)
    BY <1>7 DEF Follow
  <2>2. stack # <<>> /\ (Text(Import) => Import \in Imports(Top.file))
    BY <2>1, DirectiveTypes
  <2> QED
    BY <1>3, <1>7, <2>1, <2>2, FrameFields
<1>8. CASE Deepen /\ \E f \in Top.todo :
             call' = CallOn(f, Top.layer + 1) /\ Updated(Without(f))
  <2>1. PICK g \in Top.todo : call' = CallOn(g, Top.layer + 1) /\ Updated(Without(g))
    BY <1>8
  <2>2. stack # <<>>
    BY <1>8 DEF Deepen, Running
  <2>3. g \in Files /\ g \in Imports(Top.file)
    BY <2>2, FrameFields, StackTypes DEF CallsFollowImports, FramesFollow, KnownAreNeeded
  <2> QED
    BY <1>3, <2>1, <2>2, <2>3, FrameFields
<1> QED
  BY Steps, <1>4, <1>5, <1>6, <1>7, <1>8

(* Both halves together. *)
LEMMA CallsKept ==
  ASSUME Typed, KnownAreNeeded, CallsFollowImports, [Next]_vars
  PROVE  CallsFollowImports'
<1>1. CASE UNCHANGED vars
  <2>1. graph' = graph /\ stack' = stack /\ call' = call
        /\ known' = known /\ dependencies' = dependencies
    BY <1>1 DEF vars, found
  <2> QED
    BY <2>1, GraphFacts, StackTypes
    DEF CallsFollowImports, FramesFollow, CallFollows, Typed, Top, NoCall
<1>2. CASE Next
  BY <1>2, FramesKeepFollowing, CallKeepsFollowing DEF CallsFollowImports
<1> QED
  BY <1>1, <1>2

-----------------------------------------------------------------------------
(* The files on the stack.                                                 *)

(* A file on the stack that is imported from above it closes a cycle. *)
LEMMA CycleOnStack ==
  ASSUME Typed, KnownAreNeeded, CallsFollowImports,
         NEW j \in 1 .. Len(stack), NEW k \in j .. Len(stack),
         stack[j].file \in Imports(stack[k].file)
  PROVE  IsCyclic
<1> DEFINE S == {stack[i].file : i \in j .. k}
<1>0. Len(stack) \in Nat
  BY StackTypes
<1>1. \A i \in j .. k : i \in 1 .. Len(stack) /\ stack[i].file \in Reachable
  BY <1>0 DEF KnownAreNeeded, CallsFollowImports, FramesFollow
<1>2. S \in SUBSET Reachable /\ S # {}
  <2>1. j \in j .. k
    BY <1>0
  <2> QED
    BY <1>1, <2>1
<1>3. ASSUME NEW f \in S
      PROVE  Imports(f) \cap S # {}
  <2>1. PICK i \in j .. k : f = stack[i].file
    OBVIOUS
  <2>2. CASE i = k
    <3>1. stack[j].file \in S
      BY <1>0
    <3> QED
      BY <2>1, <2>2, <3>1
  <2>3. CASE i # k
    <3>1. i + 1 \in j .. k /\ i \in 1 .. Len(stack) - 1
      BY <1>0, <2>3
    <3>2. stack[i + 1].file \in Imports(f)
      BY <2>1, <3>1 DEF CallsFollowImports, FramesFollow
    <3> QED
      BY <3>1, <3>2
  <2> QED
    BY <2>2, <2>3
<1> HIDE DEF S
<1> QED
  BY <1>2, <1>3 DEF IsCyclic

(* So without a cycle no file is called that is on the stack. *)
LEMMA CallIsNotOnStack ==
  ASSUME Typed, KnownAreNeeded, CallsFollowImports, ~IsCyclic,
         call # NoCall, Text(call.file),
         NEW j \in 1 .. Len(stack)
  PROVE  stack[j].file # call.file
<1>1. Len(stack) \in Nat /\ Len(stack) \in j .. Len(stack) /\ stack # <<>>
  BY StackTypes, EmptySeq
<1>2. call.file \in Imports(stack[Len(stack)].file)
  BY <1>1, StackTypes DEF CallsFollowImports, CallFollows
<1> QED
  BY <1>1, <1>2, CycleOnStack

(* A frame that is replaced stays a frame of its file. *)
LEMMA UpdateKeepsFiles ==
  ASSUME Typed, NEW frame, Updated(frame), frame.does = Top.does, frame.file = Top.file
  PROVE  /\ Len(stack') = Len(stack)
         /\ \A k \in 1 .. Len(stack) :
              stack'[k].does = stack[k].does /\ stack'[k].file = stack[k].file
<1>1. Len(stack) \in Nat
  BY StackTypes
<1>2. /\ stack'[Len(stack)].does = stack[Len(stack)].does
      /\ stack'[Len(stack)].file = stack[Len(stack)].file
  BY DEF Updated, Top
<1> QED
  BY <1>1, <1>2 DEF Updated

(* Of the frames that are changed, only what they have done is. *)
Updates ==
  \/ SkipDirective /\ Updated(Advanced)
  \/ Follow /\ Updated(Called)
  \/ Followed /\ Updated(Answered)
  \/ Deepen /\ \E f \in Top.todo :
       call' = CallOn(f, Top.layer + 1) /\ Updated(Without(f))

(* So no step that replaces a frame changes which files are walked. *)
LEMMA UpdatingSteps ==
  ASSUME Typed, Updates
  PROVE  /\ Len(stack') = Len(stack)
         /\ \A k \in 1 .. Len(stack) :
              stack'[k].does = stack[k].does /\ stack'[k].file = stack[k].file
         /\ UNCHANGED <<known, currently_processing>>
<1>1. CASE SkipDirective /\ Updated(Advanced)
  BY <1>1, UpdateKeepsFiles, FrameFields DEF SkipDirective, AtDirective, Running, found
<1>2. CASE Follow /\ Updated(Called)
  BY <1>2, UpdateKeepsFiles, FrameFields DEF Follow, AtDirective, Running, found
<1>3. CASE Followed /\ Updated(Answered)
  BY <1>3, UpdateKeepsFiles, FrameFields DEF Followed, AtDirective, Running
<1>4. CASE Deepen /\ \E f \in Top.todo :
             call' = CallOn(f, Top.layer + 1) /\ Updated(Without(f))
  <2>1. PICK f \in Top.todo : Updated(Without(f))
    BY <1>4
  <2>2. Without(f).does = Top.does /\ Without(f).file = Top.file
    BY <1>4, FrameFields DEF Deepen, Running
  <2> QED
    BY <1>4, <2>1, <2>2, UpdateKeepsFiles DEF Deepen, found
<1> QED
  BY <1>1, <1>2, <1>3, <1>4 DEF Updates

(* A file is marked when its walk begins and unmarked when it ends. *)
LEMMA ProcessingKept ==
  ASSUME Typed, CallsFollowImports, ProcessingIsWalked, [Next]_vars
  PROVE  ProcessingIsWalked'
<1>0. Len(stack) \in Nat
  BY StackTypes
<1>1. CASE UNCHANGED vars \/ Rests \/ Returns
  <2>1. stack' = stack /\ currently_processing' = currently_processing
    BY <1>1 DEF vars, found, Rests, Returns
  <2> QED
    BY <2>1 DEF ProcessingIsWalked, Walks
<1>2. CASE FoundDeeper /\ Pushed(Deepening(call.file, call.layer))
  <2>1. /\ currently_processing' = currently_processing
        /\ Len(stack') = Len(stack) + 1
        /\ stack'[Len(stack) + 1].does # "walk"
        /\ \A k \in 1 .. Len(stack) : stack'[k] = stack[k]
    BY <1>2 DEF FoundDeeper, Pushed, Deepening
  <2>2. \A k \in 1 .. Len(stack') :
          stack'[k].does = "walk" => k \in 1 .. Len(stack) /\ stack'[k] = stack[k]
    BY <1>0, <2>1
  <2>3. \A k \in 1 .. Len(stack) : k \in 1 .. Len(stack')
    BY <1>0, <2>1
  <2> QED
    BY <2>1, <2>2, <2>3 DEF ProcessingIsWalked, Walks
<1>3. CASE Load /\ Pushed(Walking(call.file, call.layer))
  <2> DEFINE n == Len(stack) + 1
  <2>1. /\ call.file \in Files /\ call.file \notin known
        /\ currently_processing' = currently_processing \cup {call.file}
        /\ Len(stack') = n
        /\ stack'[n].does = "walk" /\ stack'[n].file = call.file
        /\ \A k \in 1 .. Len(stack) : stack'[k] = stack[k]
    BY <1>3 DEF Load, FirstVisit, Pushed, Walking
  <2>2. \A k \in 1 .. Len(stack) : stack[k].file # call.file
    BY <2>1 DEF CallsFollowImports, FramesFollow
  <2>3. /\ \A k \in 1 .. Len(stack') : k = n \/ k \in 1 .. Len(stack)
        /\ \A k \in 1 .. Len(stack) : k \in 1 .. Len(stack')
        /\ n \in 1 .. Len(stack')
    BY <1>0, <2>1
  <2>4. ASSUME NEW f \in Files
        PROVE  f \in currently_processing' <=>
                 \E k \in 1 .. Len(stack') : stack'[k].does = "walk" /\ stack'[k].file = f
    BY <2>1, <2>3 DEF ProcessingIsWalked, Walks
  <2>5. ASSUME NEW j \in 1 .. Len(stack'), NEW k \in 1 .. Len(stack'),
               stack'[j].does = "walk", stack'[k].does = "walk",
               stack'[j].file = stack'[k].file
        PROVE  j = k
    BY <2>1, <2>2, <2>3, <2>5 DEF ProcessingIsWalked, Walks
  <2> QED
    BY <2>4, <2>5 DEF ProcessingIsWalked, Walks
<1>4. CASE EndWalk /\ Popped
  <2>1. /\ Top.does = "walk" /\ stack # <<>>
        /\ currently_processing' = currently_processing \ {Top.file}
    BY <1>4 DEF EndWalk, Running
  <2>2. /\ Len(stack') = Len(stack) - 1 /\ Len(stack) \in 1 .. Len(stack)
        /\ \A k \in 1 .. Len(stack) - 1 : stack'[k] = stack[k]
        /\ \A k \in 1 .. Len(stack) : k = Len(stack) \/ k \in 1 .. Len(stack) - 1
        /\ \A k \in 1 .. Len(stack) - 1 : k # Len(stack) /\ k \in 1 .. Len(stack)
    BY <1>0, <1>4 DEF Popped
  <2>3. ASSUME NEW f \in Files
        PROVE  f \in currently_processing' <=>
                 \E k \in 1 .. Len(stack') : stack'[k].does = "walk" /\ stack'[k].file = f
    BY <2>1, <2>2 DEF ProcessingIsWalked, Walks, Top
  <2>4. \A j, k \in 1 .. Len(stack') :
          stack'[j].does = "walk" /\ stack'[k].does = "walk"
            /\ stack'[j].file = stack'[k].file => j = k
    BY <2>2 DEF ProcessingIsWalked, Walks
  <2> QED
    BY <2>3, <2>4 DEF ProcessingIsWalked, Walks
<1>5. CASE EndDeepen /\ Popped
  <2>1. /\ Top.does # "walk" /\ stack # <<>>
        /\ currently_processing' = currently_processing
    BY <1>5 DEF EndDeepen, Running, found
  <2>2. /\ Len(stack') = Len(stack) - 1
        /\ \A k \in 1 .. Len(stack) - 1 : stack'[k] = stack[k]
        /\ \A k \in 1 .. Len(stack) : k = Len(stack) \/ k \in 1 .. Len(stack) - 1
        /\ \A k \in 1 .. Len(stack) - 1 : k \in 1 .. Len(stack)
    BY <1>0, <1>5 DEF Popped
  <2> QED
    BY <2>1, <2>2 DEF ProcessingIsWalked, Walks, Top
<1>6. CASE Updates
  BY <1>6, UpdatingSteps DEF ProcessingIsWalked, Walks
<1>7. CASE Next
  BY <1>7, Steps, <1>1, <1>2, <1>3, <1>4, <1>5, <1>6 DEF Updates
<1> QED
  BY <1>1, <1>7

-----------------------------------------------------------------------------
(* Walks serve what they have passed.                                      *)

(* A known file never moves up. *)
LEMMA LayersRise ==
  ASSUME Typed, Next
  PROVE  \A f \in known : layer'[f] >= layer[f]
<1>1. CASE Load \/ FoundDeeper
  <2>1. call # NoCall /\ call.layer \in Nat
    BY <1>1, ImportGraphAssumption DEF Load, FirstVisit, FoundDeeper, Revisit,
      Typed, NoCall
  <2>2. layer' = [layer EXCEPT ![call.file] = call.layer]
    BY <1>1 DEF Load, FoundDeeper
  <2>3. call.file \notin known \/ call.layer > layer[call.file]
    BY <1>1 DEF Load, FirstVisit, FoundDeeper
  <2> QED
    BY <2>1, <2>2, <2>3 DEF Typed
<1>2. CASE Followed
  <2>1. Top.layer + 1 \in Nat
    BY <1>2, FrameFields DEF Followed, AtDirective, Running
  <2>2. CASE Import \in known
    <3>1. layer' = [layer EXCEPT
            ![Import] = IF Top.layer + 1 > @ THEN Top.layer + 1 ELSE @]
      BY <1>2, <2>2 DEF Followed
    <3> QED
      BY <2>1, <3>1 DEF Typed
  <2>3. CASE Import \notin known
    BY <1>2, <2>3 DEF Followed, Typed
  <2> QED
    BY <2>2, <2>3
<1>3. CASE ~(Load \/ FoundDeeper \/ Followed)
  <2>1. layer' = layer
    BY <1>3 DEF Next, Cyclic, Overflow, FoundAgain, LoadNothing,
         SkipDirective, FollowMissing, Follow, EndWalk, Deepen, EndDeepen,
         StartOrdering, TakeNext, FindCycle, Sort, found
  <2> QED
    BY <2>1 DEF Typed
<1> QED
  BY <1>1, <1>2, <1>3

(* What a walk has passed stays served. *)
LEMMA PassedStays ==
  ASSUME Typed, CallsFollowImports, Next, NEW k \in 1 .. Len(stack),
         stack'[k].file = stack[k].file, stack'[k].line = stack[k].line, Passed(k)
  PROVE  Passed(k)'
<1>1. graph' = graph /\ stack[k].file \in Files
  BY Steps, StackTypes
<1>2. dependencies[stack[k].file] \subseteq dependencies'[stack[k].file]
  BY <1>1, NothingForgotten
<1> QED
  BY <1>1, <1>2 DEF Passed, DirectiveOf, Text

(* A frame waits for the call it made, and then until it goes on. *)
LEMMA WaitedStays ==
  ASSUME Typed, CallsFollowImports, Next,
         NEW k \in 1 .. Len(stack), stack'[k] = stack[k], Waited(k),
         k = Len(stack) /\ call = CallOf(k) =>
           \/ Len(stack') = Len(stack) /\ call' = call
           \/ ~Text(call.file)
           \/ call.file \in known' /\ (~IsCyclic => layer'[call.file] >= call.layer)
  PROVE  Waited(k)'
<1> DEFINE g == graph.imports[stack[k].file][stack[k].line]
<1>1. /\ graph' = graph /\ IsCyclic' = IsCyclic
      /\ stack[k].layer \in Nat /\ stack[k].line <= Len(graph.imports[stack[k].file])
      /\ g \in Files
  BY Steps, GraphFacts, StackTypes DEF Waited, DirectiveOf, Frame
<1>2. known \subseteq known' /\ \A f \in known : layer'[f] >= layer[f]
  BY NothingForgotten, LayersRise
<1>3. layer \in [Files -> Nat] /\ layer' \in [Files -> Nat]
  BY TypedKept DEF Typed
<1> DEFINE l == stack[k].layer
<1>4. \/ k = Len(stack) /\ call = CallOn(g, l + 1)
      \/ ~(graph.file[g] = "text")
      \/ g \in known /\ (~IsCyclic => layer[g] > l)
  BY DEF Waited, DirectiveOf, CallOf, Text
<1>5. \/ k = Len(stack') /\ call' = CallOn(g, l + 1)
      \/ ~(graph.file[g] = "text")
      \/ g \in known' /\ (~IsCyclic => layer'[g] > l)
  <2>1. CASE k = Len(stack) /\ call = CallOn(g, l + 1)
    <3>1. call.file = g /\ call.layer = l + 1
      BY <2>1 DEF CallOn
    <3>2. call = CallOf(k)
      BY <2>1 DEF CallOf, DirectiveOf
    <3> HIDE DEF g, l
    <3> QED
      BY <1>1, <1>3, <2>1, <3>1, <3>2 DEF Text, l
  <2>2. CASE g \in known /\ (~IsCyclic => layer[g] > l)
    <3> HIDE DEF g
    <3> QED
      BY <1>1, <1>2, <1>3, <2>2
  <2> QED
    BY <1>4, <2>1, <2>2
<1>6. graph'.imports[stack'[k].file][stack'[k].line] = g /\ stack'[k].layer = l
  BY <1>1
<1> QED
  BY <1>1, <1>5, <1>6 DEF Waited, DirectiveOf, CallOf, Text, CallOn

FrameServes(k) == Walks(k) => Passed(k) /\ (stack[k].waits => Waited(k))

(* A frame that a step leaves alone keeps serving. *)
LEMMA FrameKeepsServing ==
  ASSUME Typed, CallsFollowImports, WalksServe, Next,
         NEW k \in 1 .. Len(stack), stack'[k] = stack[k],
         k = Len(stack) /\ call = CallOf(k) =>
           \/ Len(stack') = Len(stack) /\ call' = call
           \/ ~Text(call.file)
           \/ call.file \in known' /\ (~IsCyclic => layer'[call.file] >= call.layer)
  PROVE  FrameServes(k)'
<1>1. CASE Walks(k)
  <2>1. Passed(k) /\ (stack[k].waits => Waited(k))
    BY <1>1 DEF WalksServe
  <2> QED
    BY <2>1, PassedStays, WaitedStays DEF FrameServes
<1>2. CASE ~Walks(k)
  BY <1>2 DEF FrameServes, Walks
<1> QED
  BY <1>1, <1>2

(* Each frame of the next state is an old one, that keeps serving, or the  *)
(* one on top that a step has put there.                                   *)
LEMMA FramesServe ==
  ASSUME Typed, KnownAreNeeded, CallsFollowImports, ProcessingIsWalked, WalksServe, Next,
         NEW k \in 1 .. Len(stack')
  PROVE  FrameServes(k)'
<1>0. Len(stack) \in Nat /\ Len(stack') \in Nat /\ graph' = graph
  BY StackTypes, NextStackTypes, Steps
<1>1. CASE Rests
  BY <1>1, FrameKeepsServing DEF Rests
<1>2. CASE Returns
  <2>1. CASE call.file \in currently_processing
    <3>1. call.file \in known /\ Text(call.file) /\ known' = known /\ layer' = layer
      BY <1>2, <2>1, ProcessedAreKnown DEF KnownAreNeeded, Returns, found
    <3>2. IsCyclic
      <4>1. PICK j \in 1 .. Len(stack) : stack[j].file = call.file
        BY <2>1 DEF ProcessingIsWalked, Typed
      <4> QED
        BY <1>2, <3>1, <4>1, CallIsNotOnStack DEF Returns
    <3>3. k \in 1 .. Len(stack) /\ stack'[k] = stack[k]
      BY <1>2 DEF Returns
    <3> QED
      BY <3>1, <3>2, <3>3, FrameKeepsServing
  <2>2. CASE call.file \in known /\ call.layer <= layer[call.file]
    <3>1. layer[call.file] \in Nat /\ call.layer \in Nat
      BY <1>2, <2>2 DEF Typed, Returns
    <3> QED
      BY <1>2, <2>2, <3>1, FrameKeepsServing DEF Returns, found
  <2>3. CASE ~Text(call.file)
    BY <1>2, <2>3, FrameKeepsServing DEF Returns
  <2> QED
    BY <1>2, <2>1, <2>2, <2>3 DEF Returns
<1>3. ASSUME FoundDeeper \/ Load,
             Len(stack') = Len(stack) + 1,
             \A j \in 1 .. Len(stack) : stack'[j] = stack[j],
             k # Len(stack) + 1
      PROVE  FrameServes(k)'
  <2>1. k \in 1 .. Len(stack) /\ stack'[k] = stack[k]
    BY <1>0, <1>3
  <2>2. call # NoCall /\ call.layer \in Nat /\ call.file \in Files
    BY <1>3, ImportGraphAssumption DEF Load, FirstVisit, FoundDeeper, Revisit,
      Typed, NoCall
  <2>3. call.file \in known' /\ layer' = [layer EXCEPT ![call.file] = call.layer]
    BY <1>3 DEF Load, FoundDeeper, Revisit
  <2>4. layer'[call.file] >= call.layer
    BY <2>2, <2>3 DEF Typed
  <2> QED
    BY <2>1, <2>3, <2>4, FrameKeepsServing
<1>4. CASE FoundDeeper /\ Pushed(Deepening(call.file, call.layer))
  <2>1. CASE k = Len(stack) + 1
    <3>1. stack'[k].does = "deepen"
      BY <1>4, <2>1 DEF Pushed, Deepening
    <3> QED
      BY <3>1 DEF FrameServes, Walks
  <2> QED
    BY <1>3, <1>4, <2>1 DEF Pushed
<1>5. CASE Load /\ Pushed(Walking(call.file, call.layer))
  <2>1. CASE k = Len(stack) + 1
    <3>1. stack'[k].line = 1 /\ ~stack'[k].waits
      BY <1>5, <2>1 DEF Pushed, Walking
    <3>2. Passed(k)'
      BY <3>1 DEF Passed
    <3> QED
      BY <3>1, <3>2 DEF FrameServes
  <2> QED
    BY <1>3, <1>5, <2>1 DEF Pushed
<1>6. ASSUME Len(stack') <= Len(stack), k < Len(stack),
             \A j \in 1 .. Len(stack) - 1 : stack'[j] = stack[j]
      PROVE  FrameServes(k)'
  <2>1. k \in 1 .. Len(stack) /\ stack'[k] = stack[k] /\ k # Len(stack)
    BY <1>0, <1>6
  <2> QED
    BY <2>1, FrameKeepsServing
<1>7. CASE Popped
  BY <1>0, <1>6, <1>7 DEF Popped
<1>8. ASSUME NEW frame, Updated(frame), k # Len(stack)
      PROVE  FrameServes(k)'
  BY <1>0, <1>6, <1>8 DEF Updated
<1>9. ASSUME AtDirective
      PROVE  /\ Len(stack) \in 1 .. Len(stack) /\ Top = stack[Len(stack)]
             /\ Walks(Len(stack)) /\ Passed(Len(stack))
             /\ Top.waits => Waited(Len(stack))
             /\ Import = graph.imports[Top.file][Top.line]
             /\ Top.file \in Files /\ Top.line \in Nat
  <2>1. /\ stack # <<>> /\ Top.does = "walk" /\ Top.file \in Files /\ Top.line \in Nat
        /\ Import = graph.imports[Top.file][Top.line]
    BY <1>9, DirectiveTypes, FrameFields
  <2>2. Len(stack) \in 1 .. Len(stack) /\ Top = stack[Len(stack)]
    BY <1>0, <2>1, EmptySeq, StackTypes
  <2> QED
    BY <2>1, <2>2 DEF WalksServe, Walks
<1>10. CASE SkipDirective /\ Updated(Advanced) /\ k = Len(stack)
  <2>1. /\ AtDirective /\ ~Top.waits /\ Import \notin Files
        /\ dependencies' = dependencies
    BY <1>10, ImportGraphAssumption DEF SkipDirective, found
  <2>2. /\ stack'[k].file = Top.file /\ stack'[k].line = Top.line + 1 /\ ~stack'[k].waits
    BY <1>10, <2>1, DirectiveTypes, FrameFields DEF Updated
  <2>3. Passed(k)'
    <3> SUFFICES ASSUME NEW i \in 1 .. Len(graph.imports[Top.file]), i < Top.line + 1,
                        graph.imports[Top.file][i] \in Files,
                        graph.file[graph.imports[Top.file][i]] = "text"
                 PROVE  graph.imports[Top.file][i] \in dependencies[Top.file]
      BY <1>0, <2>1, <2>2 DEF Passed, DirectiveOf, Text
    <3>1. i < Top.line
      BY <1>9, <2>1
    <3> QED
      BY <1>9, <1>10, <2>1, <3>1 DEF Passed, DirectiveOf, Text
  <2> QED
    BY <2>2, <2>3 DEF FrameServes
<1>11. CASE Follow /\ Updated(Called) /\ k = Len(stack)
  <2>1. /\ AtDirective /\ Import \in Files
        /\ call' = CallOn(Import, Top.layer + 1)
        /\ Len(stack') = Len(stack)
    BY <1>11 DEF Follow, Updated
  <2>2. /\ stack'[k].file = Top.file /\ stack'[k].line = Top.line
        /\ stack'[k].layer = Top.layer
    BY <1>11, <2>1, DirectiveTypes, FrameFields DEF Updated
  <2>3. Passed(k)'
    BY <1>9, <1>11, <2>1, <2>2, PassedStays
  <2>4. Top.line <= Len(graph.imports[Top.file])
    BY <2>1 DEF AtDirective, Directives
  <2>5. Waited(k)'
    BY <1>0, <1>9, <1>11, <2>1, <2>2, <2>4 DEF Waited, DirectiveOf, CallOf, CallOn
  <2> QED
    BY <2>3, <2>5 DEF FrameServes
<1>12. CASE Followed /\ Updated(Answered) /\ k = Len(stack)
  <2>1. /\ AtDirective /\ Top.waits /\ call = NoCall
    BY <1>12, DirectiveTypes DEF Followed
  <2>2. /\ stack'[k].file = Top.file /\ stack'[k].line = Top.line + 1 /\ ~stack'[k].waits
    BY <1>12, <2>1, DirectiveTypes, FrameFields DEF Updated
  <2>3. Import \in Files /\ (Text(Import) => Import \in known)
    <3>1. Waited(k)
      BY <1>9, <1>12, <2>1
    <3>2. CallOn(Import, Top.layer + 1) # NoCall
      BY <1>9, <2>1, <3>1, ImportGraphAssumption, <1>12
      DEF CallOn, NoCall, Waited, DirectiveOf
    <3> QED
      BY <1>9, <1>12, <2>1, <3>1, <3>2 DEF Waited, DirectiveOf, CallOf
  <2>4. Text(Import) => Import \in dependencies'[Top.file]
    <3> SUFFICES ASSUME Text(Import)
                 PROVE  Import \in dependencies'[Top.file]
      OBVIOUS
    <3>1. dependencies' = [dependencies EXCEPT ![Top.file] = @ \cup {Import}]
      BY <1>12, <2>3 DEF Followed
    <3> QED
      BY <1>9, <2>1, <3>1 DEF Typed
  <2>5. dependencies[Top.file] \subseteq dependencies'[Top.file]
    BY <1>9, <2>1, NothingForgotten
  <2>6. Passed(k)'
    <3> SUFFICES ASSUME NEW i \in 1 .. Len(graph.imports[Top.file]), i < Top.line + 1,
                        graph.imports[Top.file][i] \in Files,
                        graph.file[graph.imports[Top.file][i]] = "text"
                 PROVE  graph.imports[Top.file][i] \in dependencies'[Top.file]
      BY <1>0, <2>1, <2>2 DEF Passed, DirectiveOf, Text
    <3>1. CASE i = Top.line
      BY <1>9, <2>1, <2>4, <3>1 DEF Text
    <3>2. CASE i < Top.line
      BY <1>9, <1>12, <2>1, <2>5, <3>2 DEF Passed, DirectiveOf, Text
    <3> QED
      BY <1>9, <2>1, <3>1, <3>2
  <2> QED
    BY <2>2, <2>6 DEF FrameServes
<1>13. CASE Deepen /\ \E f \in Top.todo :
              call' = CallOn(f, Top.layer + 1) /\ Updated(Without(f))
  <2>1. PICK f \in Top.todo : Updated(Without(f))
    BY <1>13
  <2>2. CASE k = Len(stack)
    <3>1. stack # <<>> /\ Top.does = "deepen"
      BY <1>13 DEF Deepen, Running
    <3>2. stack'[k].does = "deepen"
      BY <2>1, <2>2, <3>1, FrameFields DEF Updated
    <3> QED
      BY <3>2 DEF FrameServes, Walks
  <2> QED
    BY <1>8, <2>1, <2>2
<1>14. CASE Updates
  BY <1>8, <1>10, <1>11, <1>12, <1>13, <1>14 DEF Updates
<1> QED
  BY Steps, <1>1, <1>2, <1>4, <1>5, <1>7, <1>14 DEF Updates

(* A file whose walk is over depends on all it imports. *)
LEMMA WalkedServe ==
  ASSUME Typed, CallsFollowImports, ProcessingIsWalked, WalksServe, Next,
         NEW f \in known' \ currently_processing'
  PROVE  (Imports(f))' \subseteq dependencies'[f]
<1>1. graph' = graph /\ f \in Files /\ (Imports(f))' = Imports(f)
  BY Steps, GraphFacts, TypedKept DEF Typed
<1>2. dependencies[f] \subseteq dependencies'[f]
  BY <1>1, NothingForgotten
<1>3. CASE f \in known \ currently_processing
  BY <1>1, <1>2, <1>3 DEF WalksServe
<1>4. CASE EndWalk /\ f = Top.file
  <2>1. /\ stack # <<>> /\ Top.does = "walk"
        /\ Top.line > Len(graph.imports[Top.file])
    BY <1>4 DEF EndWalk, Running, Directives
  <2>2. Len(stack) \in 1 .. Len(stack) /\ Top = stack[Len(stack)]
    BY <2>1, EmptySeq, StackTypes
  <2>3. Passed(Len(stack)) /\ Top.line \in Nat
    BY <2>1, <2>2, FrameFields DEF WalksServe, Walks
  <2>4. ASSUME NEW g \in Imports(f)
        PROVE  g \in dependencies[f]
    <3>1. /\ Len(graph.imports[f]) \in Nat /\ g \in Files /\ Text(g)
          /\ \E i \in 1 .. Len(graph.imports[f]) : graph.imports[f][i] = g
      BY <1>1, <2>4, DirectivesAre
    <3>2. PICK i \in 1 .. Len(graph.imports[f]) : graph.imports[f][i] = g
      BY <3>1
    <3>3. i < Top.line
      BY <1>4, <2>1, <2>3, <3>1
    <3> QED
      BY <1>4, <2>2, <2>3, <3>1, <3>2, <3>3 DEF Passed, DirectiveOf
  <2> QED
    BY <1>1, <1>2, <2>4
<1>5. \/ f \in known \ currently_processing
      \/ EndWalk /\ f = Top.file
  <2>1. CASE Rests \/ Returns \/ EndDeepen \/ FoundDeeper
    BY <2>1 DEF Rests, Returns, EndDeepen, FoundDeeper, found
  <2>2. CASE Load
    BY <2>2 DEF Load
  <2>3. CASE EndWalk
    BY <2>3 DEF EndWalk
  <2>4. CASE Updates
    BY <2>4, UpdatingSteps
  <2> QED
    BY Steps, <2>1, <2>2, <2>3, <2>4 DEF Updates
<1> QED
  BY <1>3, <1>4, <1>5

(* Every step keeps the walks serving. *)
LEMMA WalksKept ==
  ASSUME Typed, KnownAreNeeded, CallsFollowImports, ProcessingIsWalked, WalksServe,
         [Next]_vars
  PROVE  WalksServe'
<1>1. CASE UNCHANGED vars
  <2>1. /\ graph' = graph /\ stack' = stack /\ call' = call /\ known' = known
        /\ layer' = layer /\ dependencies' = dependencies
        /\ currently_processing' = currently_processing
    BY <1>1 DEF vars, found
  <2>2. IsCyclic' = IsCyclic
    BY <2>1, GraphFacts
  <2>3. ASSUME NEW k \in 1 .. Len(stack)
        PROVE  Passed(k)' = Passed(k) /\ Waited(k)' = Waited(k)
    BY <2>1, <2>2, Zenon DEF Passed, Waited, DirectiveOf, CallOf, CallOn, Text
  <2>4. ASSUME NEW f \in known \ currently_processing
        PROVE  (Imports(f))' = Imports(f)
    BY <2>1, GraphFacts DEF Typed
  <2> QED
    BY <2>1, <2>3, <2>4 DEF WalksServe, Walks
<1>2. CASE Next
  BY <1>2, FramesServe, WalkedServe DEF WalksServe, FrameServes
<1> QED
  BY <1>1, <1>2

-----------------------------------------------------------------------------
(* Without a cycle, layers grow along the dependencies.                    *)

(* What a walk goes on from lies deep enough: the code's own adjustment of *)
(* the layer there changes nothing.                                        *)
LEMMA FollowedLiesDeeper ==
  ASSUME Typed, KnownAreNeeded, WalksServe, ~IsCyclic, Followed, Import \in known
  PROVE  layer[Import] > Top.layer
<1>1. /\ AtDirective /\ Top.waits /\ stack # <<>> /\ Top.does = "walk" /\ call = NoCall
      /\ Import = graph.imports[Top.file][Top.line]
  BY DirectiveTypes DEF Followed
<1>2. Len(stack) \in 1 .. Len(stack) /\ Top = stack[Len(stack)]
  BY <1>1, EmptySeq, StackTypes
<1>3. Waited(Len(stack))
  BY <1>1, <1>2 DEF WalksServe, Walks
<1>4. Text(Import) /\ Import \in Files
  BY DEF KnownAreNeeded, Typed
<1>5. CallOn(Import, Top.layer + 1) # NoCall
  BY <1>4, ImportGraphAssumption DEF CallOn, NoCall
<1> QED
  BY <1>1, <1>2, <1>3, <1>4, <1>5 DEF Waited, DirectiveOf, CallOf

(* Without a cycle only Load and FoundDeeper change a layer. *)
LEMMA LayersStay ==
  ASSUME Typed, KnownAreNeeded, WalksServe, ~IsCyclic, Next, ~Load, ~FoundDeeper
  PROVE  layer' = layer
<1>1. CASE Followed
  <2>1. CASE Import \in known
    <3>1. layer' = [layer EXCEPT
            ![Import] = IF Top.layer + 1 > @ THEN Top.layer + 1 ELSE @]
      BY <1>1, <2>1 DEF Followed
    <3>2. Import \in Files /\ layer[Import] \in Nat /\ Top.layer \in Nat
      BY <1>1, <2>1, FrameFields DEF Typed, Followed, AtDirective, Running
    <3>3. ~(Top.layer + 1 > layer[Import])
      BY <1>1, <2>1, <3>2, FollowedLiesDeeper
    <3> QED
      BY <3>1, <3>2, <3>3 DEF Typed
  <2>2. CASE Import \notin known
    BY <1>1, <2>2 DEF Followed
  <2> QED
    BY <2>1, <2>2
<1>2. CASE ~Followed
  BY <1>2 DEF Next, Cyclic, Overflow, FoundAgain, LoadNothing,
         SkipDirective, FollowMissing, Follow, EndWalk, Deepen, EndDeepen,
         StartOrdering, TakeNext, FindCycle, Sort, found
<1> QED
  BY <1>1, <1>2

(* A frame's layer is its file's as long as the file is not found deeper. *)
LEMMA FramesKeepTheirLayer ==
  ASSUME Typed, KnownAreNeeded, CallsFollowImports, WalksServe, ~IsCyclic,
         FramesKnowTheirLayer, Next
  PROVE  FramesKnowTheirLayer'
<1>0. Len(stack) \in Nat /\ \A k \in 1 .. Len(stack) : stack[k].file \in Files
  BY StackTypes
<1>1. ASSUME Load \/ FoundDeeper, NEW frame, Pushed(frame),
             frame.file = call.file, frame.layer = call.layer
      PROVE  FramesKnowTheirLayer'
  <2>1. /\ call # NoCall /\ call.file \in Files
        /\ layer' = [layer EXCEPT ![call.file] = call.layer]
    BY <1>1, ImportGraphAssumption DEF Load, FirstVisit, FoundDeeper, Revisit,
      Typed, NoCall
  <2>2. Text(call.file)
    BY <1>1 DEF Load, FoundDeeper, Revisit, KnownAreNeeded, Text
  <2>3. \A k \in 1 .. Len(stack) : stack[k].file # call.file
    BY <2>1, <2>2, CallIsNotOnStack
  <2>4. \A k \in 1 .. Len(stack) : stack'[k].layer = layer'[stack'[k].file]
    BY <1>0, <1>1, <2>1, <2>3 DEF FramesKnowTheirLayer, Pushed, Typed
  <2>5. /\ stack'[Len(stack) + 1].layer = layer'[stack'[Len(stack) + 1].file]
        /\ Len(stack') = Len(stack) + 1
    BY <1>1, <2>1 DEF Pushed, Typed
  <2> QED
    BY <1>0, <2>4, <2>5 DEF FramesKnowTheirLayer
<1>2. CASE FoundDeeper
  BY <1>1, <1>2, Steps DEF Deepening
<1>3. CASE Load
  BY <1>1, <1>3, Steps DEF Walking
<1>4. CASE ~Load /\ ~FoundDeeper
  <2>1. layer' = layer
    BY <1>4, LayersStay
  <2>2. CASE Rests \/ Returns
    BY <2>1, <2>2 DEF Rests, Returns, FramesKnowTheirLayer
  <2>3. CASE Popped
    BY <1>0, <2>1, <2>3 DEF Popped, FramesKnowTheirLayer
  <2>4. ASSUME NEW frame, Updated(frame), frame.layer = Top.layer, frame.file = Top.file
        PROVE  FramesKnowTheirLayer'
    <3>1. frame.layer = layer[frame.file]
      BY <1>0, <2>4 DEF FramesKnowTheirLayer, Updated, Top
    <3> QED
      BY <1>0, <2>1, <2>4, <3>1 DEF FramesKnowTheirLayer, Updated
  <2>5. CASE SkipDirective /\ Updated(Advanced)
    BY <2>4, <2>5, FrameFields DEF SkipDirective, AtDirective, Running
  <2>6. CASE Follow /\ Updated(Called)
    BY <2>4, <2>6, FrameFields DEF Follow, AtDirective, Running
  <2>7. CASE Followed /\ Updated(Answered)
    BY <2>4, <2>7, FrameFields DEF Followed, AtDirective, Running
  <2>8. CASE Deepen /\ \E f \in Top.todo :
               call' = CallOn(f, Top.layer + 1) /\ Updated(Without(f))
    <3>1. PICK f \in Top.todo : Updated(Without(f))
      BY <2>8
    <3> QED
      BY <2>4, <2>8, <3>1, FrameFields DEF Deepen, Running
  <2> QED
    BY <1>4, Steps, <2>2, <2>3, <2>5, <2>6, <2>7, <2>8
<1> QED
  BY <1>2, <1>3, <1>4

(* A dependency that is not deep enough yet has a call on its way. *)
LEMMA DeeperStays ==
  ASSUME Typed, KnownAreNeeded, CallsFollowImports, ProcessingIsWalked, WalksServe,
         ~IsCyclic, LayersGrow, Next,
         NEW f \in known', NEW g \in dependencies'[f]
  PROVE  Deeper(f, g)'
<1>0. /\ Len(stack) \in Nat /\ f \in Files /\ g \in Files
      /\ layer \in [Files -> Nat] /\ layer' \in [Files -> Nat]
  BY StackTypes, TypedKept DEF Typed
<1>1. ASSUME layer'[g] > layer'[f]
      PROVE  Deeper(f, g)'
  BY <1>1 DEF Deeper
<1>2. ASSUME NEW k \in 1 .. Len(stack'), stack'[k].does = "deepen", stack'[k].file = f,
             g \in stack'[k].todo
      PROVE  Deeper(f, g)'
  BY <1>2 DEF Deeper, Moves
<1>3. ASSUME f \in known, g \in dependencies[f]
      PROVE  Deeper(f, g) /\ g \in known /\ g \in Imports(f) /\ Text(g)
  BY <1>3 DEF LayersGrow, KnownAreNeeded, Typed
<1>4. CASE Rests
  <2>1. /\ stack' = stack /\ call' = call /\ known' = known
        /\ layer' = layer /\ dependencies' = dependencies
    BY <1>4 DEF Rests, found
  <2>2. Deeper(f, g)
    BY <1>3, <2>1
  <2> QED
    BY <2>1, <2>2 DEF Deeper, Moves, CallOn
<1>5. CASE Returns
  <2>1. /\ stack' = stack /\ known' = known /\ call # NoCall
        /\ layer' = layer /\ dependencies' = dependencies
    BY <1>5 DEF Returns, found
  <2>2. Deeper(f, g) /\ g \in known /\ g \in Imports(f) /\ Text(g)
    BY <1>3, <2>1
  <2>3. CASE stack # <<>> /\ Moves(Len(stack), f) /\ call = CallOn(g, layer[f] + 1)
    <3>1. call.file = g /\ call.layer = layer[f] + 1
      BY <2>3 DEF CallOn
    <3>2. g \notin currently_processing
      <4>1. \A j \in 1 .. Len(stack) : stack[j].file # g
        BY <2>1, <2>2, <3>1, CallIsNotOnStack
      <4> QED
        BY <4>1, <1>0 DEF ProcessingIsWalked
    <3>3. layer[f] + 1 <= layer[g]
      BY <1>5, <2>2, <3>1, <3>2 DEF Returns
    <3> QED
      BY <1>0, <1>1, <2>1, <3>3
  <2>4. CASE ~(stack # <<>> /\ Moves(Len(stack), f) /\ call = CallOn(g, layer[f] + 1))
    BY <2>1, <2>2, <2>4 DEF Deeper, Moves
  <2> QED
    BY <2>3, <2>4
<1>6. ASSUME FoundDeeper \/ Load
      PROVE  /\ call # NoCall /\ call.file \in Files /\ call.layer \in Nat
             /\ dependencies' = dependencies
             /\ layer' = [layer EXCEPT ![call.file] = call.layer]
             /\ Len(stack') = Len(stack) + 1
             /\ \A k \in 1 .. Len(stack) : stack'[k] = stack[k]
  <2>1. /\ call # NoCall /\ call.file \in Files /\ call.layer \in Nat
        /\ dependencies' = dependencies
        /\ layer' = [layer EXCEPT ![call.file] = call.layer]
    BY <1>6, ImportGraphAssumption DEF FoundDeeper, Revisit, Load, FirstVisit,
      Typed, NoCall
  <2> QED
    BY <1>6, <2>1, Steps DEF Pushed
<1>7. ASSUME FoundDeeper \/ Load, f \in known, f # call.file,
             g = call.file => call.layer > layer[f]
      PROVE  Deeper(f, g)'
  <2>1. Deeper(f, g)
    BY <1>3, <1>6, <1>7
  <2>2. layer'[f] = layer[f]
    BY <1>0, <1>6, <1>7
  <2>3. CASE g = call.file
    <3>1. layer'[g] = call.layer
      BY <1>0, <1>6, <1>7, <2>3
    <3> QED
      BY <1>1, <1>7, <2>2, <2>3, <3>1
  <2>4. CASE g # call.file
    <3>1. layer'[g] = layer[g]
      BY <1>0, <1>6, <1>7, <2>4
    <3>2. CASE layer[g] > layer[f]
      BY <1>1, <2>2, <3>1, <3>2
    <3>3. CASE \E k \in 1 .. Len(stack) : Moves(k, f) /\ g \in stack[k].todo
      BY <1>0, <1>2, <1>6, <1>7, <3>3 DEF Moves
    <3> QED
      BY <2>1, <2>4, <3>2, <3>3 DEF Deeper, CallOn
  <2> QED
    BY <2>3, <2>4
<1>8. CASE FoundDeeper
  <2>1. /\ call.file \in known /\ known' = known /\ call.layer > layer[call.file]
        /\ Pushed(Deepening(call.file, call.layer))
    BY <1>8, Steps DEF FoundDeeper, Revisit
  <2>2. CASE f = call.file
    <3>1. /\ Len(stack) + 1 \in 1 .. Len(stack')
          /\ stack'[Len(stack) + 1].does = "deepen"
          /\ stack'[Len(stack) + 1].file = f
          /\ stack'[Len(stack) + 1].todo = dependencies[f]
      BY <1>0, <2>1, <2>2 DEF Pushed, Deepening
    <3> QED
      BY <1>2, <1>6, <1>8, <3>1
  <2>3. CASE f # call.file
    <3>1. CASE g = call.file /\ ~(call.layer > layer[f])
      <4>1. Deeper(f, g) /\ ~(layer[g] > layer[f])
        BY <1>0, <1>3, <1>6, <1>8, <2>1, <3>1
      <4>2. CASE \E k \in 1 .. Len(stack) : Moves(k, f) /\ g \in stack[k].todo
        BY <1>0, <1>2, <1>6, <1>8, <4>2 DEF Moves
      <4>3. CASE call = CallOn(g, layer[f] + 1)
        BY <1>0, <3>1, <4>3 DEF CallOn
      <4> QED
        BY <4>1, <4>2, <4>3 DEF Deeper
    <3> QED
      BY <1>7, <1>8, <2>1, <2>3, <3>1
  <2> QED
    BY <2>2, <2>3
<1>9. CASE Load
  <2>1. call.file \in Files \ known /\ known' = known \cup {call.file}
    BY <1>9 DEF Load, FirstVisit
  <2>2. f # call.file
    BY <1>6, <1>9, <2>1 DEF KnownAreNeeded
  <2>3. g # call.file
    BY <1>3, <1>6, <1>9, <2>1, <2>2
  <2> QED
    BY <1>7, <1>9, <2>1, <2>2, <2>3
<1>10. ASSUME ~Load, ~FoundDeeper, call = NoCall, known' = known,
              g \in dependencies[f],
              \A k \in 1 .. Len(stack) : Moves(k, f) /\ g \in stack[k].todo =>
                k \in 1 .. Len(stack') /\ stack'[k].does = "deepen"
                  /\ stack'[k].file = f /\ g \in stack'[k].todo
       PROVE  Deeper(f, g)'
  <2>1. layer' = layer
    BY <1>10, LayersStay
  <2>2. Deeper(f, g) /\ CallOn(g, layer[f] + 1) # NoCall
    BY <1>0, <1>3, <1>10, ImportGraphAssumption DEF CallOn, NoCall
  <2>3. CASE layer[g] > layer[f]
    BY <1>1, <2>1, <2>3
  <2>4. CASE \E k \in 1 .. Len(stack) : Moves(k, f) /\ g \in stack[k].todo
    BY <1>2, <1>10, <2>4
  <2> QED
    BY <1>10, <2>2, <2>3, <2>4 DEF Deeper
<1>11. ASSUME SkipDirective \/ Follow \/ Followed \/ EndWalk \/ Deepen \/ EndDeepen
       PROVE  /\ call = NoCall /\ stack # <<>> /\ known' = known
              /\ Len(stack) \in 1 .. Len(stack) /\ Top = stack[Len(stack)]
              /\ \A k \in 1 .. Len(stack) : k = Len(stack) \/ k \in 1 .. Len(stack) - 1
  <2>1. call = NoCall /\ stack # <<>> /\ known' = known
    BY <1>11 DEF SkipDirective, Follow, Followed, EndWalk, Deepen, EndDeepen,
                 AtDirective, Running, found
  <2> QED
    BY <1>0, <2>1, EmptySeq, StackTypes
<1>12. CASE ~Load /\ ~FoundDeeper /\ EndWalk /\ Popped
  <2>1. Top.does = "walk" /\ dependencies' = dependencies
    BY <1>12 DEF EndWalk, Running
  <2> QED
    BY <1>0, <1>10, <1>11, <1>12, <2>1 DEF Popped, Moves
<1>13. CASE ~Load /\ ~FoundDeeper /\ EndDeepen /\ Popped
  <2>1. Top.todo = {} /\ dependencies' = dependencies
    BY <1>13 DEF EndDeepen, found
  <2> QED
    BY <1>0, <1>10, <1>11, <1>13, <2>1 DEF Popped, Moves
<1>14. ASSUME ~Load, ~FoundDeeper, SkipDirective \/ Follow \/ Followed,
              Top.does = "walk", NEW frame, Updated(frame), g \in dependencies[f]
       PROVE  Deeper(f, g)'
  BY <1>0, <1>10, <1>11, <1>14 DEF Updated, Moves
<1>15. CASE ~Load /\ ~FoundDeeper /\ SkipDirective /\ Updated(Advanced)
  BY <1>14, <1>15 DEF SkipDirective, AtDirective, Running, found
<1>16. CASE ~Load /\ ~FoundDeeper /\ Follow /\ Updated(Called)
  BY <1>14, <1>16 DEF Follow, AtDirective, Running, found
<1>17. CASE ~Load /\ ~FoundDeeper /\ Followed /\ Updated(Answered)
  <2>1. Top.does = "walk" /\ Top.file \in Files
    BY <1>11, <1>17, FrameFields DEF Followed, AtDirective, Running
  <2>2. CASE g \in dependencies[f]
    BY <1>14, <1>17, <2>1, <2>2
  <2>3. CASE g \notin dependencies[f]
    <3>1. Import \in known
      BY <1>17, <2>3 DEF Followed
    <3>2. dependencies' = [dependencies EXCEPT ![Top.file] = @ \cup {Import}]
      BY <1>17, <3>1 DEF Followed
    <3>3. f = Top.file /\ g = Import
      BY <1>0, <2>1, <2>3, <3>2 DEF Typed
    <3>4. layer[g] > layer[f]
      BY <1>11, <1>17, <3>1, <3>3, FollowedLiesDeeper DEF LayersGrow, FramesKnowTheirLayer
    <3>5. layer' = layer
      BY <1>17, LayersStay
    <3> QED
      BY <1>1, <3>4, <3>5
  <2> QED
    BY <2>2, <2>3
<1>18. CASE ~Load /\ ~FoundDeeper /\ Deepen
         /\ \E h \in Top.todo : call' = CallOn(h, Top.layer + 1) /\ Updated(Without(h))
  <2>1. PICK h \in Top.todo : call' = CallOn(h, Top.layer + 1) /\ Updated(Without(h))
    BY <1>18
  <2>2. /\ Without(h).does = Top.does /\ Without(h).file = Top.file
        /\ Without(h).todo = Top.todo \ {h} /\ dependencies' = dependencies
        /\ Top.does = "deepen" /\ Top.file \in Files
    BY <1>11, <1>18, FrameFields DEF Deepen, Running, found
  <2>3. CASE f = Top.file /\ g = h
    <3>1. layer' = layer /\ Top.layer = layer[f]
      BY <1>11, <1>18, <2>3, LayersStay DEF LayersGrow, FramesKnowTheirLayer
    <3>2. /\ Len(stack') = Len(stack)
          /\ stack'[Len(stack)].does = "deepen" /\ stack'[Len(stack)].file = f
      BY <2>1, <2>2, <2>3 DEF Updated
    <3>3. stack' # <<>> /\ call' = CallOn(g, layer'[f] + 1)
      <4>1. Len(stack') # 0
        BY <1>0, <1>11, <1>18, <3>2
      <4>2. stack' # <<>>
        BY <4>1
      <4>3. Top.layer + 1 = layer'[f] + 1
        BY <3>1
      <4> QED
        BY <2>1, <2>3, <4>2, <4>3
    <3>4. Moves(Len(stack), f)'
      BY <3>2 DEF Moves
    <3> QED
      BY <3>2, <3>3, <3>4 DEF Deeper, Moves, CallOn
  <2>4. CASE ~(f = Top.file /\ g = h)
    BY <1>0, <1>10, <1>11, <1>18, <2>1, <2>2, <2>4 DEF Updated, Moves
  <2> QED
    BY <2>3, <2>4
<1> QED
  BY Steps, <1>4, <1>5, <1>8, <1>9, <1>12, <1>13, <1>15, <1>16, <1>17, <1>18

(* Every step keeps the layers growing along the dependencies. *)
LEMMA LayersKept ==
  ASSUME Typed, KnownAreNeeded, CallsFollowImports, ProcessingIsWalked, WalksServe,
         LayersGrow, [Next]_vars
  PROVE  LayersGrow'
<1>1. CASE UNCHANGED vars
  <2>1. /\ graph' = graph /\ stack' = stack /\ call' = call /\ known' = known
        /\ layer' = layer /\ dependencies' = dependencies
    BY <1>1 DEF vars, found
  <2>2. IsCyclic' = IsCyclic
    BY <2>1, GraphFacts
  <2> QED
    BY <2>1, <2>2 DEF LayersGrow, FramesKnowTheirLayer, Deeper, Moves, CallOn
<1>2. CASE Next
  <2>1. IsCyclic' = IsCyclic
    BY <1>2, Steps, GraphFacts
  <2> QED
    BY <1>2, <2>1, FramesKeepTheirLayer, DeeperStays DEF LayersGrow
<1> QED
  BY <1>1, <1>2

-----------------------------------------------------------------------------
(* Kahn's algorithm.                                                       *)

(* Taking a file none waits for lowers the degrees of its dependencies. *)
LEMMA TakeNextPeels ==
  ASSUME Typed, KnownAreNeeded, Peeled, TakeNext
  PROVE  Peeled'
<1>1. PICK f \in zero_incoming :
        /\ in_degree' = [g \in Files |->
             IF g \in dependencies[f] THEN in_degree[g] - 1 ELSE in_degree[g]]
        /\ zero_incoming' = (zero_incoming \ {f}) \cup
             {g \in dependencies[f] : in_degree'[g] = 0}
        /\ sorted' = Append(sorted, f)
  BY DEF TakeNext
<1>2. /\ phase = "order" /\ phase' = "order" /\ known' = known
      /\ dependencies' = dependencies
  BY DEF TakeNext, found
<1>3. /\ sorted \in Seq(Files) /\ in_degree \in [Files -> Int]
      /\ Taken \subseteq known /\ Len(sorted) = Cardinality(Taken)
      /\ \A g \in Files : in_degree[g] = Cardinality(Waiting(g))
      /\ zero_incoming = {g \in known \ Taken : in_degree[g] = 0}
      /\ known \subseteq Files /\ IsFiniteSet(known)
  BY <1>2 DEF Peeled, Typed
<1>4. f \in known \ Taken /\ f \in Files /\ in_degree[f] = 0
  BY <1>3
<1>5. \A g \in Files : dependencies[g] \subseteq known /\ dependencies[g] \subseteq Files
  BY DEF KnownAreNeeded, Typed
<1>6. \A g \in Files : IsFiniteSet(Waiting(g)) /\ Cardinality(Waiting(g)) \in Nat
  BY <1>3, FS_Subset, FS_CardinalityType DEF Waiting
<1>7. Waiting(f) = {}
  BY <1>3, <1>4, <1>6, FS_EmptySet
<1>8. Taken' = Taken \cup {f} /\ sorted' \in Seq(Files) /\ Len(sorted') = Len(sorted) + 1
  <2>1. /\ sorted' \in Seq(Files) /\ Len(sorted') = Len(sorted) + 1
        /\ Len(sorted) \in Nat /\ sorted'[Len(sorted) + 1] = f
        /\ \A i \in 1 .. Len(sorted) : sorted'[i] = sorted[i]
    BY <1>1, <1>3, <1>4, AppendProperties
  <2>2. DOMAIN sorted = 1 .. Len(sorted) /\ DOMAIN sorted' = 1 .. Len(sorted) + 1
    BY <1>3, <2>1
  <2>3. Taken' = {sorted'[i] : i \in 1 .. Len(sorted) + 1}
    BY <2>2 DEF Taken, ToSet
  <2>4. Taken = {sorted[i] : i \in 1 .. Len(sorted)}
    BY <2>2 DEF Taken, ToSet
  <2>5. /\ \A i \in 1 .. Len(sorted) + 1 : i = Len(sorted) + 1 \/ i \in 1 .. Len(sorted)
        /\ \A i \in 1 .. Len(sorted) : i \in 1 .. Len(sorted) + 1
        /\ Len(sorted) + 1 \in 1 .. Len(sorted) + 1
    BY <2>1
  <2>6. Taken' = Taken \cup {f}
    BY <2>1, <2>3, <2>4, <2>5
  <2> QED
    BY <2>1, <2>6
<1>9. \A g \in Files : Waiting(g)' = Waiting(g) \ {f}
  BY <1>2, <1>8 DEF Waiting
<1>10. ASSUME NEW g \in Files
       PROVE  in_degree'[g] = Cardinality(Waiting(g) \ {f})
  <2>1. f \in Waiting(g) <=> g \in dependencies[f]
    BY <1>4 DEF Waiting
  <2>2. Cardinality(Waiting(g) \ {f}) =
          IF f \in Waiting(g) THEN Cardinality(Waiting(g)) - 1
          ELSE Cardinality(Waiting(g))
    BY <1>6, FS_RemoveElement
  <2> QED
    BY <1>1, <1>3, <2>1, <2>2
<1>11. Len(sorted') = Cardinality(Taken') /\ Taken' \subseteq known'
  <2>1. IsFiniteSet(Taken)
    BY <1>3, FS_Subset
  <2>2. Cardinality(Taken \cup {f}) = Cardinality(Taken) + 1
    BY <1>4, <2>1, FS_AddElement
  <2> QED
    BY <1>2, <1>3, <1>4, <1>8, <2>2
<1>12. zero_incoming' = {g \in known' \ Taken' : in_degree'[g] = 0}
  <2>1. ASSUME NEW g \in zero_incoming'
        PROVE  g \in known \ Taken' /\ in_degree'[g] = 0
    <3>1. CASE g \in zero_incoming \ {f}
      <4>1. g \in known \ Taken /\ g \in Files /\ g # f /\ in_degree[g] = 0
        BY <1>3, <3>1
      <4>2. g \notin dependencies[f]
        <5>1. Waiting(g) = {}
          BY <1>3, <1>6, <4>1, FS_EmptySet
        <5> QED
          BY <1>4, <5>1 DEF Waiting
      <4> QED
        BY <1>1, <1>8, <4>1, <4>2
    <3>2. CASE g \in dependencies[f] /\ in_degree'[g] = 0
      <4>1. g \in known /\ g # f
        BY <1>4, <1>5, <1>7, <3>2 DEF Waiting
      <4>2. g \notin Taken
        BY <1>4, <3>2 DEF Peeled
      <4> QED
        BY <1>8, <3>2, <4>1, <4>2
    <3> QED
      BY <1>1, <2>1, <3>1, <3>2
  <2>2. ASSUME NEW g \in known \ Taken', in_degree'[g] = 0
        PROVE  g \in zero_incoming'
    <3>1. g \in known \ Taken /\ g # f /\ g \in Files
      BY <1>3, <1>8, <2>2
    <3>2. CASE g \in dependencies[f]
      BY <1>1, <2>2, <3>2
    <3>3. CASE g \notin dependencies[f]
      <4>1. in_degree[g] = 0
        BY <1>1, <2>2, <3>1, <3>3
      <4> QED
        BY <1>1, <1>3, <3>1, <4>1
    <3> QED
      BY <3>2, <3>3
  <2> QED
    BY <1>2, <2>1, <2>2
<1>13. \A h \in known' : \A g \in dependencies'[h] : g \in Taken' => h \in Taken'
  <2>1. ASSUME NEW h \in known, NEW g \in dependencies[h], g \in Taken \cup {f}
        PROVE  h \in Taken \cup {f}
    <3>1. CASE g \in Taken
      BY <3>1 DEF Peeled
    <3>2. CASE g = f
      BY <1>7, <3>2 DEF Waiting
    <3> QED
      BY <2>1, <3>1, <3>2
  <2> QED
    BY <1>2, <1>8, <2>1
<1>14. ASSUME NEW S \in SUBSET Taken', S # {}
       PROVE  \E h \in S : dependencies'[h] \cap S = {}
  <2>1. CASE f \notin S
    <3>1. S \in SUBSET Taken
      BY <1>8, <2>1
    <3> QED
      BY <1>2, <1>14, <3>1 DEF Peeled
  <2>2. CASE f \in S
    <3>1. \A g \in dependencies[f] : g \notin Taken
      BY <1>4 DEF Peeled
    <3>2. f \notin dependencies[f]
      BY <1>4, <1>7 DEF Waiting
    <3> QED
      BY <1>2, <1>8, <2>2, <3>1, <3>2
  <2> QED
    BY <2>1, <2>2
<1>15. in_degree' \in [Files -> Int]
  BY <1>1, <1>3
<1>16. \A g \in Files : in_degree'[g] = Cardinality(Waiting(g)')
  BY <1>9, <1>10
<1> QED
  BY <1>2, <1>8, <1>11, <1>12, <1>13, <1>14, <1>15, <1>16 DEF Peeled

(* The degrees begin as the numbers of importers. *)
LEMMA StartOrderingPeels ==
  ASSUME Typed, Peeled, StartOrdering
  PROVE  Peeled'
<1>1. /\ sorted = <<>> /\ sorted' = <<>> /\ phase' = "order"
      /\ known' = known /\ dependencies' = dependencies
      /\ in_degree' = [f \in Files |-> Degree(f)]
      /\ zero_incoming' = {f \in known : Degree(f) = 0}
  BY DEF StartOrdering, found, Peeled
<1>2. Taken = {} /\ Taken' = {}
  BY <1>1 DEF Taken, ToSet
<1>3. \A g \in Files : Waiting(g)' = {f \in known : g \in dependencies[f]}
  BY <1>1, <1>2 DEF Waiting
<1>4. ASSUME NEW g \in Files
      PROVE  Degree(g) \in Int
  <2>1. IsFiniteSet({f \in known : g \in dependencies[f]})
    BY FS_Subset DEF Typed
  <2>2. Cardinality({f \in known : g \in dependencies[f]}) \in Nat
    BY <2>1, FS_CardinalityType
  <2> QED
    BY <2>2 DEF Degree
<1>5. in_degree' \in [Files -> Int] /\ \A g \in Files : in_degree'[g] = Degree(g)
  BY <1>1, <1>4
<1>6. \A g \in Files : in_degree'[g] = Cardinality(Waiting(g)')
  BY <1>3, <1>5 DEF Degree
<1>7. zero_incoming' = {g \in known' \ Taken' : in_degree'[g] = 0}
  BY <1>1, <1>2, <1>5 DEF Typed
<1>8. sorted' \in Seq(Files) /\ Len(sorted') = 0 /\ Cardinality(Taken') = 0
  BY <1>1, <1>2, EmptySeq, FS_EmptySet
<1> QED
  BY <1>1, <1>2, <1>5, <1>6, <1>7, <1>8 DEF Peeled

(* Every step keeps what Kahn's algorithm has done in order. *)
LEMMA PeeledKept ==
  ASSUME Typed, KnownAreNeeded, Peeled, [Next]_vars
  PROVE  Peeled'
<1>1. ASSUME sorted' = sorted, in_degree' = in_degree, zero_incoming' = zero_incoming,
             known' = known, dependencies' = dependencies,
             phase' \in {"analyze", "order"} => phase' = phase
      PROVE  Peeled'
  <2>1. Taken' = Taken /\ \A g \in Files : Waiting(g)' = Waiting(g)
    BY <1>1, Zenon DEF Taken, Waiting
  <2> QED
    BY <1>1, <2>1 DEF Peeled
<1>2. CASE UNCHANGED vars
  BY <1>1, <1>2 DEF vars, found, kahn
<1>3. CASE TakeNext
  BY <1>3, TakeNextPeels
<1>4. CASE StartOrdering
  BY <1>4, StartOrderingPeels
<1>5. CASE FindCycle \/ Sort
  BY <1>1, <1>5 DEF FindCycle, Sort, found, kahn
<1>6. CASE Next /\ ~TakeNext /\ ~StartOrdering /\ ~FindCycle /\ ~Sort
  <2>1. phase = "analyze"
    BY <1>6, Orders
  <2>2. sorted = <<>> /\ UNCHANGED kahn /\ phase' # "order"
    BY <1>6, <2>1 DEF Peeled, Next, Cyclic, Overflow, FoundDeeper, FoundAgain, Revisit,
         LoadNothing, Load, FirstVisit, SkipDirective, FollowMissing, Follow, Followed,
         AtDirective, EndWalk, Deepen, EndDeepen, Running
  <2>3. /\ sorted' = <<>> /\ in_degree' = in_degree
        /\ Taken = {} /\ Taken' = {}
    BY <2>2 DEF kahn, Taken, ToSet
  <2>4. sorted' \in Seq(Files) /\ Len(sorted') = 0 /\ Cardinality(Taken') = 0
    BY <2>3, EmptySeq, FS_EmptySet
  <2> QED
    BY <2>2, <2>3, <2>4 DEF Peeled
<1> QED
  BY <1>2, <1>3, <1>4, <1>5, <1>6

-----------------------------------------------------------------------------
(* What the algorithm finds.                                               *)

(* Among finitely many files of which each is imported by another one of   *)
(* them there is a cycle: the fewest such files each import one of them.   *)
LEMMA CycleAmong ==
  ASSUME NEW R \in SUBSET Reachable, IsFiniteSet(R), R # {},
         \A g \in R : \E f \in R : g \in Imports(f)
  PROVE  IsCyclic
<1> DEFINE Served(S) == S # {} /\ \A g \in S : \E f \in S : g \in Imports(f)
           Sizes == {Cardinality(S) : S \in {S \in SUBSET R : Served(S)}}
<1>1. \A S \in SUBSET R : IsFiniteSet(S) /\ Cardinality(S) \in Nat
  BY FS_Subset, FS_CardinalityType
<1>2. Sizes \subseteq Nat /\ Sizes # {}
  BY <1>1
<1>3. PICK n \in Sizes : \A m \in Sizes : n <= m
  <2> HIDE DEF Sizes
  <2> QED
    BY <1>2, LeastNatural
<1>4. PICK S \in SUBSET R : Served(S) /\ n = Cardinality(S)
  OBVIOUS
<1>5. ASSUME NEW f \in S, Imports(f) \cap S = {}
      PROVE  FALSE
  <2>1. Served(S \ {f})
    <3>1. PICK g \in S : f \in Imports(g)
      BY <1>4
    <3>2. g \in S \ {f}
      BY <1>5, <3>1
    <3>3. \A h \in S \ {f} : \E g1 \in S \ {f} : h \in Imports(g1)
      BY <1>4, <1>5
    <3> QED
      BY <3>2, <3>3
  <2>2. Cardinality(S \ {f}) = Cardinality(S) - 1
    BY <1>1, FS_RemoveElement
  <2>3. Cardinality(S \ {f}) \in Sizes
    BY <2>1
  <2>4. n \in Nat /\ Cardinality(S) - 1 < Cardinality(S)
    BY <1>1, <1>4
  <2> HIDE DEF Sizes
  <2> QED
    BY <1>2, <1>3, <1>4, <2>2, <2>3, <2>4
<1> QED
  BY <1>4, <1>5 DEF IsCyclic

(* What is known when the walk is over is what is needed. *)
LEMMA KnownAreReachable ==
  ASSUME Typed, KnownAreNeeded, ProcessingIsWalked, WalksServe,
         stack = <<>>, call = NoCall
  PROVE  /\ \A f \in known : dependencies[f] = Imports(f) /\ Imports(f) \subseteq known
         /\ \/ known = Reachable /\ graph.file[Main] = "text"
            \/ known = {} /\ graph.file[Main] = "empty"
<1>1. currently_processing = {}
  BY EmptySeq DEF ProcessingIsWalked, Typed
<1>2. \A f \in known : dependencies[f] = Imports(f) /\ Imports(f) \subseteq known
  <2> SUFFICES ASSUME NEW f \in known
               PROVE  dependencies[f] = Imports(f) /\ Imports(f) \subseteq known
    OBVIOUS
  <2>1. Imports(f) \subseteq dependencies[f]
    BY <1>1 DEF WalksServe
  <2>2. dependencies[f] \subseteq Imports(f) \cap known
    BY DEF KnownAreNeeded, Typed
  <2> QED
    BY <2>1, <2>2
<1>3. \/ Main \in known
      \/ known = {} /\ graph.file[Main] = "empty"
  BY ImportGraphAssumption DEF KnownAreNeeded, CallOn, NoCall
<1>4. CASE Main \in known
  <2>1. Closed(known) /\ known \in SUBSET Files
    BY <1>2 DEF Closed, Typed
  <2>2. Reachable \subseteq known
    BY <1>4, <2>1 DEF Reachable
  <2>3. known \subseteq Reachable /\ graph.file[Main] = "text"
    BY <1>4 DEF KnownAreNeeded, Text
  <2> QED
    BY <1>2, <2>2, <2>3
<1> QED
  BY <1>2, <1>3, <1>4

(* What FindCycle refuses has a cycle. *)
LEMMA RefusedIsCyclic ==
  ASSUME Typed, KnownAreNeeded, Peeled, FindCycle
  PROVE  IsCyclic
<1> DEFINE R == known \ Taken
<1>1. /\ phase = "order" /\ Taken \subseteq known /\ Len(sorted) = Cardinality(Taken)
      /\ {g \in R : in_degree[g] = 0} = {}
      /\ \A g \in Files : in_degree[g] = Cardinality(Waiting(g))
      /\ Len(sorted) # Cardinality(known)
      /\ known \subseteq Files /\ IsFiniteSet(known)
  BY DEF FindCycle, Peeled, Typed
<1>2. R \in SUBSET Reachable /\ IsFiniteSet(R)
  <2>1. IsFiniteSet(R)
    BY <1>1, FS_Subset
  <2> QED
    BY <2>1 DEF KnownAreNeeded
<1>3. R # {}
  <2>1. Taken # known
    BY <1>1
  <2> QED
    BY <1>1, <2>1
<1>4. ASSUME NEW g \in R
      PROVE  \E f \in R : g \in Imports(f)
  <2>1. Cardinality(Waiting(g)) # 0
    BY <1>1
  <2>2. Waiting(g) # {}
    BY <2>1, FS_EmptySet
  <2>3. PICK f \in R : g \in dependencies[f]
    BY <2>2 DEF Waiting
  <2> QED
    BY <1>1, <2>3 DEF KnownAreNeeded
<1> HIDE DEF R
<1> QED
  BY <1>2, <1>3, <1>4, CycleAmong

(* What Sort orders has none. *)
LEMMA OrderedIsAcyclic ==
  ASSUME Typed, KnownAreNeeded, ProcessingIsWalked, WalksServe, Peeled, Sort
  PROVE  known = {} \/ ~IsCyclic
<1>1. /\ phase = "order" /\ stack = <<>> /\ call = NoCall
      /\ Taken \subseteq known /\ Len(sorted) = Cardinality(Taken)
      /\ Len(sorted) = Cardinality(known) /\ IsFiniteSet(known)
  BY DEF Sort, Peeled, Typed
<1>2. Taken = known
  BY <1>1, FS_Subset
<1>3. SUFFICES ASSUME known = Reachable,
                      NEW S \in SUBSET Reachable, S # {},
                      \A f \in S : Imports(f) \cap S # {}
               PROVE  FALSE
  BY <1>1, KnownAreReachable DEF IsCyclic
<1>4. PICK f \in S : dependencies[f] \cap S = {}
  BY <1>2, <1>3 DEF Peeled
<1>5. dependencies[f] = Imports(f)
  BY <1>1, <1>3, KnownAreReachable
<1> QED
  BY <1>3, <1>4, <1>5

(* A sequence of SetToSeqs has every element of the set once. *)
LEMMA SequencesOfSet ==
  ASSUME NEW S, IsFiniteSet(S), NEW order \in SetToSeqs(S)
  PROVE  /\ Cardinality(S) \in Nat
         /\ order \in [1 .. Cardinality(S) -> S]
         /\ order \in Seq(S) /\ Len(order) = Cardinality(S)
         /\ \A i, j \in 1 .. Cardinality(S) : i # j => order[i] # order[j]
         /\ ToSet(order) = S
<1> DEFINE n == Cardinality(S)
<1>1. n \in Nat
  BY FS_CardinalityType
<1>2. /\ order \in [1 .. n -> S]
      /\ \A i, j \in 1 .. n : i # j => order[i] # order[j]
  BY DEF SetToSeqs
<1> HIDE DEF n
<1>3. order \in Seq(S) /\ Len(order) = n
  BY <1>1, <1>2
<1>4. order \in Injection(1 .. n, S)
  BY <1>2 DEF Injection, IsInjective
<1>5. Cardinality(1 .. n) = n
  BY <1>1, FS_Interval
<1>6. order \in Surjection(1 .. n, S)
  BY <1>4, <1>5, FS_Injection DEF n
<1>7. ToSet(order) = S
  BY <1>2, <1>6 DEF ToSet, Surjection
<1> QED
  BY <1>1, <1>2, <1>3, <1>7 DEF n

(* The order that Sort makes puts a file after all it imports. *)
LEMMA SortServes ==
  ASSUME Typed, KnownAreNeeded, ProcessingIsWalked, WalksServe, LayersGrow, Peeled, Sort
  PROVE  OrderServesImports'
<1>1. /\ stack = <<>> /\ call = NoCall /\ graph' = graph /\ phase' = "done"
      /\ known \subseteq Files /\ IsFiniteSet(known) /\ layer \in [Files -> Nat]
  BY DEF Sort, Typed
<1>2. PICK order \in SetToSeqs(known) :
        /\ \A i, j \in 1 .. Len(order) : i < j => layer[order[i]] >= layer[order[j]]
        /\ processing_order' = order
  BY DEF Sort
<1>3. /\ order \in Seq(known) /\ Len(order) = Cardinality(known) /\ Len(order) \in Nat
      /\ \A i, j \in 1 .. Len(order) : i # j => order[i] # order[j]
      /\ ToSet(order) = known
  BY <1>1, <1>2, SequencesOfSet
<1>4. /\ \A f \in known : dependencies[f] = Imports(f) /\ Imports(f) \subseteq known
      /\ \/ known = Reachable /\ graph.file[Main] = "text"
         \/ known = {} /\ graph.file[Main] = "empty"
  BY <1>1, KnownAreReachable
<1>5. /\ Reachable' = Reachable /\ IsCyclic' = IsCyclic
      /\ \A f \in known : (Imports(f))' = Imports(f)
  BY <1>1, GraphFacts
<1>6. OrderUnlessCyclic'
  <2>1. CASE known = {}
    <3>1. order = <<>>
      BY <1>1, <1>3, <2>1, FS_EmptySet, EmptySeq
    <3>2. graph.file[Main] = "empty"
      BY <1>4, <2>1, NeededIsClosed
    <3> QED
      BY <1>1, <1>2, <3>1, <3>2 DEF OrderUnlessCyclic
  <2>2. CASE known # {}
    <3>1. ~IsCyclic /\ known = Reachable /\ graph.file[Main] # "empty"
      BY <1>4, <2>2, OrderedIsAcyclic
    <3> QED
      BY <1>1, <1>2, <1>3, <1>5, <3>1 DEF OrderUnlessCyclic
  <2> QED
    BY <2>1, <2>2
<1>7. ASSUME NEW f \in known, NEW g \in Imports(f)
      PROVE  /\ g \in ToSet(order)
             /\ (PositionOf(g))' < (PositionOf(f))'
  <2>1. g \in known /\ g \in dependencies[f] /\ f \in Files /\ g \in Files
    BY <1>1, <1>4, <1>7
  <2>2. layer[g] > layer[f]
    <3>1. ~IsCyclic
      BY <1>7, OrderedIsAcyclic
    <3>2. Deeper(f, g) /\ Len(stack) = 0
      BY <1>1, <2>1, <3>1, EmptySeq DEF LayersGrow
    <3> QED
      BY <1>1, <3>2 DEF Deeper
  <2> DEFINE At(h) == CHOOSE i \in 1 .. Len(order) : order[i] = h
  <2>3. ASSUME NEW h \in known
        PROVE  At(h) \in 1 .. Len(order) /\ order[At(h)] = h
    <3>1. \E i \in 1 .. Len(order) : order[i] = h
      BY <1>3 DEF ToSet
    <3> QED
      BY <3>1
  <2>4. (PositionOf(g))' = At(g) /\ (PositionOf(f))' = At(f)
    BY <1>2 DEF PositionOf
  <2> HIDE DEF At
  <2>5. /\ At(f) \in 1 .. Len(order) /\ order[At(f)] = f
        /\ At(g) \in 1 .. Len(order) /\ order[At(g)] = g
    BY <2>1, <2>3
  <2>6. layer[f] \in Nat /\ layer[g] \in Nat
    BY <1>1, <2>1
  <2>7. ~(At(f) < At(g))
    BY <1>2, <2>2, <2>5, <2>6
  <2>8. At(f) # At(g)
    BY <2>2, <2>5, <2>6
  <2>9. At(g) < At(f)
    BY <1>3, <2>5, <2>7, <2>8
  <2> QED
    BY <1>3, <2>1, <2>4, <2>9
<1>8. DependenciesComeFirst'
  BY <1>2, <1>3, <1>5, <1>7 DEF DependenciesComeFirst
<1> QED
  BY <1>6, <1>8 DEF OrderServesImports

(* A refusal serves the imports: they do form a cycle. *)
LEMMA RefusalServes ==
  ASSUME Typed, KnownAreNeeded, Peeled, FindCycle
  PROVE  OrderServesImports'
<1>1. graph' = graph /\ processing_order' = <<>> /\ phase' = "done"
  BY DEF FindCycle
<1>2. IsCyclic'
  BY <1>1, RefusedIsCyclic, GraphFacts
<1> QED
  BY <1>1, <1>2 DEF OrderServesImports, DependenciesComeFirst, OrderUnlessCyclic

ImportInv ==
  /\ Typed
  /\ KnownAreNeeded
  /\ CallsFollowImports
  /\ ProcessingIsWalked
  /\ WalksServe
  /\ LayersGrow
  /\ Peeled
  /\ OrderServesImports

(* Once there is an order, nothing happens to it. *)
LEMMA OrderKeepsServing ==
  ASSUME ImportInv, [Next]_vars
  PROVE  OrderServesImports'
<1>1. CASE UNCHANGED vars
  <2>1. graph' = graph /\ phase' = phase /\ processing_order' = processing_order
    BY <1>1 DEF vars
  <2>2. /\ Reachable' = Reachable /\ IsCyclic' = IsCyclic
        /\ \A f \in Files : (PositionOf(f))' = PositionOf(f)
    BY <2>1, GraphFacts DEF PositionOf
  <2>3. \A f : (Imports(f))' = Imports(f) /\ (PositionOf(f))' = PositionOf(f)
    BY <2>1, Zenon DEF Imports, PositionOf
  <2> QED
    BY <2>1, <2>2, <2>3
    DEF ImportInv, OrderServesImports, DependenciesComeFirst, OrderUnlessCyclic
<1>2. CASE Sort
  BY <1>2, SortServes DEF ImportInv
<1>3. CASE FindCycle
  BY <1>3, RefusalServes DEF ImportInv
<1>4. CASE Next /\ ~Sort /\ ~FindCycle
  <2>1. phase' # "done"
    BY <1>4 DEF Next, Cyclic, Overflow, FoundDeeper, FoundAgain, Revisit,
         LoadNothing, Load, FirstVisit, SkipDirective, FollowMissing, Follow, Followed,
         AtDirective, EndWalk, Deepen, EndDeepen, Running, StartOrdering, TakeNext
  <2> QED
    BY <2>1 DEF OrderServesImports, DependenciesComeFirst, OrderUnlessCyclic
<1> QED
  BY <1>1, <1>2, <1>3, <1>4

(* The walk begins with nothing but the call on main. *)
LEMMA InitImportInv == Init => ImportInv
<1> SUFFICES ASSUME Init
             PROVE  ImportInv
  OBVIOUS
<1>0. /\ stack = <<>> /\ Len(stack) = 0 /\ known = {} /\ sorted = <<>>
      /\ phase = "analyze" /\ currently_processing = {} /\ call = CallOn(Main, 0)
      /\ call # NoCall /\ call.file = Main
      /\ dependencies = [f \in Files |-> {}]
  BY ImportGraphAssumption, EmptySeq DEF Init, CallOn, NoCall
<1>1. Typed
  <2>1. stack \in Seq(Frame)
    BY <1>0, EmptySeq
  <2>2. call \in [file : Files, layer : Nat]
    BY <1>0, ImportGraphAssumption DEF CallOn
  <2> QED
    BY <1>0, <2>1, <2>2, FS_EmptySet DEF Typed, Init
<1>2. KnownAreNeeded
  BY <1>0 DEF KnownAreNeeded
<1>3. CallsFollowImports
  BY <1>0, NeededIsClosed DEF CallsFollowImports, FramesFollow, CallFollows
<1>4. ProcessingIsWalked
  BY <1>0 DEF ProcessingIsWalked
<1>5. WalksServe
  BY <1>0 DEF WalksServe
<1>6. LayersGrow
  BY <1>0 DEF LayersGrow, FramesKnowTheirLayer
<1>7. Peeled
  <2>1. Taken = {}
    BY <1>0 DEF Taken, ToSet
  <2>2. sorted \in Seq(Files) /\ Len(sorted) = 0 /\ Cardinality(Taken) = 0
    BY <1>0, <2>1, EmptySeq, FS_EmptySet
  <2>3. in_degree \in [Files -> Int]
    BY DEF Init
  <2> QED
    BY <1>0, <2>1, <2>2, <2>3 DEF Peeled
<1>8. OrderServesImports
  BY <1>0 DEF OrderServesImports, DependenciesComeFirst, OrderUnlessCyclic
<1> QED
  BY <1>1, <1>2, <1>3, <1>4, <1>5, <1>6, <1>7, <1>8 DEF ImportInv

(* The invariant is inductive. *)
LEMMA ImportInvKept == ImportInv /\ [Next]_vars => ImportInv'
<1> SUFFICES ASSUME ImportInv, [Next]_vars
             PROVE  ImportInv'
  OBVIOUS
<1>1. Typed' /\ KnownAreNeeded' /\ CallsFollowImports'
  BY TypedKept, KnownKept, CallsKept DEF ImportInv
<1>2. ProcessingIsWalked' /\ WalksServe' /\ LayersGrow'
  BY ProcessingKept, WalksKept, LayersKept DEF ImportInv
<1>3. Peeled' /\ OrderServesImports'
  BY PeeledKept, OrderKeepsServing DEF ImportInv
<1> QED
  BY <1>1, <1>2, <1>3 DEF ImportInv

(* What AnalyzeRecursive and BuildProcessingOrder order comes after all it *)
(* imports, and is all that main needs, exactly when no imports of what    *)
(* main needs form a cycle: for every project, and whatever the order in   *)
(* which hash sets are walked and files of a layer are sorted.             *)
THEOREM OrderServes == Spec => []OrderServesImports
<1>1. ImportInv => OrderServesImports
  BY DEF ImportInv
<1> QED
  BY <1>1, InitImportInv, ImportInvKept, PTL DEF Spec

(* The walk of a project without cycles never runs out of room when there  *)
(* is room for a call for each file: the calls of AnalyzeRecursive in      *)
(* progress, and the one to be begun, are for different files.             *)
RoomSuffices ==
  ~IsCyclic /\ IsFiniteSet(Files) /\ MaxStack >= Cardinality(Files) => phase # "overflown"

(* Without a cycle, the calls in progress and the next are for different   *)
(* files.                                                                  *)
LEMMA CallsAreDistinct ==
  ASSUME ImportInv, ~IsCyclic, IsFiniteSet(Files), call # NoCall
  PROVE  Len(stack) < Cardinality(Files)
<1> DEFINE n == Len(stack)
           file == [k \in 1 .. n + 1 |-> IF k = n + 1 THEN call.file ELSE stack[k].file]
<1>1. /\ n \in Nat /\ call.file \in Files
      /\ \A k \in 1 .. n : stack[k].file \in Files
  BY StackTypes DEF ImportInv, Typed
<1>2. ASSUME NEW j \in 1 .. n, NEW k \in 1 .. n, j < k
      PROVE  stack[j].file # stack[k].file
  <2>1. k - 1 \in j .. n /\ k - 1 \in 1 .. n - 1 /\ k - 1 + 1 = k
    BY <1>1, <1>2
  <2>2. stack[k].file \in Imports(stack[k - 1].file)
    BY <2>1 DEF ImportInv, CallsFollowImports, FramesFollow
  <2> QED
    BY <2>1, <2>2, CycleOnStack DEF ImportInv
<1>3. ASSUME NEW j \in 1 .. n
      PROVE  stack[j].file # call.file
  <2>1. CASE Text(call.file)
    BY <2>1, CallIsNotOnStack DEF ImportInv
  <2>2. CASE ~Text(call.file)
    <3>1. Text(stack[j].file)
      BY DEF ImportInv, CallsFollowImports, FramesFollow, KnownAreNeeded
    <3> QED
      BY <2>2, <3>1
  <2> QED
    BY <2>1, <2>2
<1>4. ASSUME NEW j \in 1 .. n + 1, NEW k \in 1 .. n + 1, j < k
      PROVE  file[j] # file[k]
  BY <1>1, <1>2, <1>3, <1>4
<1>5. file \in Injection(1 .. n + 1, Files)
  <2>1. file \in [1 .. n + 1 -> Files]
    BY <1>1
  <2>2. \A j, k \in 1 .. n + 1 : file[j] = file[k] => j = k
    <3> HIDE DEF file
    <3> QED
      BY <1>1, <1>4
  <2> HIDE DEF file
  <2> QED
    BY <2>1, <2>2 DEF Injection, IsInjective
<1> HIDE DEF file, n
<1>6. Cardinality(1 .. n + 1) <= Cardinality(Files)
  BY <1>5, FS_Injection
<1>7. Cardinality(1 .. n + 1) = n + 1 /\ Cardinality(Files) \in Nat
  BY <1>1, FS_Interval, FS_CardinalityType
<1> QED
  BY <1>1, <1>6, <1>7 DEF n

(* AnalyzeRecursive needs no more room than a call for each file.          *)
THEOREM RoomForEachFile == Spec => []RoomSuffices
<1>1. Init => RoomSuffices
  BY DEF Init, RoomSuffices
<1>2. ASSUME ImportInv, RoomSuffices, [Next]_vars
      PROVE  RoomSuffices'
  <2>1. CASE UNCHANGED vars
    <3>1. graph' = graph /\ phase' = phase
      BY <2>1 DEF vars
    <3> QED
      BY <1>2, <3>1, GraphFacts DEF RoomSuffices
  <2>2. CASE Overflow
    <3>1. graph' = graph /\ call # NoCall /\ ~(Len(stack) < MaxStack)
      BY <2>2 DEF Overflow, RoomForCall
    <3>2. Len(stack) \in Nat
      BY <1>2, StackTypes DEF ImportInv
    <3>3. ASSUME ~IsCyclic, IsFiniteSet(Files), MaxStack >= Cardinality(Files)
          PROVE  FALSE
      <4>1. Len(stack) < Cardinality(Files) /\ Cardinality(Files) \in Nat
        BY <1>2, <3>1, <3>3, CallsAreDistinct, FS_CardinalityType
      <4> QED
        BY <3>1, <3>2, <3>3, <4>1, ImportGraphAssumption
    <3> QED
      BY <3>1, <3>3, GraphFacts DEF RoomSuffices
  <2>3. CASE Next /\ ~Overflow
    <3>1. phase' = "overflown" => phase = "overflown"
      BY <2>3 DEF Next, Cyclic, FoundDeeper, FoundAgain, LoadNothing, Load,
           SkipDirective, FollowMissing, Follow, Followed, EndWalk, Deepen, EndDeepen,
           StartOrdering, TakeNext, FindCycle, Sort
    <3>2. graph' = graph
      BY <1>2, <2>3, Steps DEF ImportInv
    <3> QED
      BY <1>2, <3>1, <3>2, GraphFacts DEF RoomSuffices
  <2> QED
    BY <1>2, <2>1, <2>2, <2>3
<1> QED
  BY <1>1, <1>2, InitImportInv, ImportInvKept, PTL DEF Spec
=============
