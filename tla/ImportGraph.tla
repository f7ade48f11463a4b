---------------------------- MODULE ImportGraph ----------------------------
(***************************************************************************)
(* The compiler's order of modules: AMGBuilder::AnalyzeRecursive, which    *)
(* walks the imports from the main file and gives every file a layer, and  *)
(* BuildProcessingOrder, which refuses cycles (Kahn's algorithm) and sorts *)
(* by layer (AMGBuilder.cpp).                                              *)
(*                                                                         *)
(* The recursion is a stack of frames.  A frame is either walking the      *)
(* import directives of a file, or moving down the dependencies of a file  *)
(* that was found deeper than before.  Sets and maps of the code are keyed *)
(* by paths or by the ids that stand for them; both are Files here.  The   *)
(* main file may have been named by a path that no import resolves to;     *)
(* that is a graph in which nothing imports Main.                          *)
(***************************************************************************)
EXTENDS Integers, Sequences, FiniteSets, SequencesExt

CONSTANTS Files, Main, NoFile,
  MaxStack,   (* calls the machine's stack has room for                     *)
  Graphs      (* the projects: the import directives of each file, in order, *)
              (* and whether the file has text, is empty or does not exist   *)

Graph ==
  [imports : [Files -> Seq(Files \cup {NoFile})],
   file : [Files -> {"text", "empty", "missing"}]]

ASSUME ImportGraphAssumption ==
  /\ Main \in Files /\ NoFile \notin Files
  /\ MaxStack \in Nat \ {0}
  /\ Graphs \subseteq Graph
  /\ \A g \in Graphs : g.file[Main] # "missing"

VARIABLES
  graph,
  stack,                   (* the calls of AnalyzeRecursive in progress     *)
  call,                    (* the call to be begun, or none                 *)
  known, layer, dependencies, currently_processing,    (* HandlingOrder     *)
  in_degree, zero_incoming, sorted,                    (* Kahn's algorithm  *)
  processing_order,
  phase

found == <<known, layer, dependencies, currently_processing>>
kahn == <<in_degree, zero_incoming, sorted>>
vars == <<graph, stack, call, found, kahn, processing_order, phase>>

NoCall == [file |-> NoFile, layer |-> 0]
CallOn(f, l) == [file |-> f, layer |-> l]

Walking(f, l) ==
  [does |-> "walk", file |-> f, layer |-> l, line |-> 1, waits |-> FALSE, todo |-> {}]
Deepening(f, l) ==
  [does |-> "deepen", file |-> f, layer |-> l, line |-> 1, waits |-> FALSE,
   todo |-> dependencies[f]]

Top == stack[Len(stack)]
Pop == SubSeq(stack, 1, Len(stack) - 1)
Update(frame) == Append(Pop, frame)

RoomForCall == Len(stack) < MaxStack

Init ==
  /\ graph \in Graphs
  /\ stack = <<>> /\ call = CallOn(Main, 0)
  /\ known = {} /\ layer = [f \in Files |-> 0]
  /\ dependencies = [f \in Files |-> {}]
  /\ currently_processing = {}
  /\ in_degree = [f \in Files |-> 0] /\ zero_incoming = {} /\ sorted = <<>>
  /\ processing_order = <<>>
  /\ phase = "analyze"

-----------------------------------------------------------------------------
(* A file whose directives are being walked is not entered again.          *)
Cyclic ==
  /\ phase = "analyze" /\ RoomForCall /\ call.file \in currently_processing
  /\ call' = NoCall
  /\ UNCHANGED <<graph, stack, found, kahn, processing_order, phase>>

Revisit ==
  phase = "analyze" /\ RoomForCall /\ call.file \in known \ currently_processing

(* Mutation: the file's own layer grows, its dependencies' do not. *)
FoundDeeper_NotBelow ==
  /\ Revisit /\ call.layer > layer[call.file]
  /\ layer' = [layer EXCEPT ![call.file] = call.layer]
  /\ call' = NoCall
  /\ UNCHANGED <<graph, stack, known, dependencies, currently_processing, kahn,
                 processing_order, phase>>

(* A call for which there is no room left ends the compiler. *)
Overflow ==
  /\ phase = "analyze" /\ call # NoCall /\ ~RoomForCall
  /\ phase' = "overflown"
  /\ UNCHANGED <<graph, stack, call, found, kahn, processing_order>>

(* A file that was handled is found further down than before: it moves     *)
(* down, and its dependencies below it.                                    *)
FoundDeeper ==
  /\ Revisit /\ call.layer > layer[call.file]
  /\ layer' = [layer EXCEPT ![call.file] = call.layer]
  /\ stack' = Append(stack, Deepening(call.file, call.layer))
  /\ call' = NoCall
  /\ UNCHANGED <<graph, known, dependencies, currently_processing, kahn,
                 processing_order, phase>>

FoundAgain ==
  /\ Revisit /\ call.layer <= layer[call.file]
  /\ call' = NoCall
  /\ UNCHANGED <<graph, stack, found, kahn, processing_order, phase>>

FirstVisit ==
  phase = "analyze" /\ RoomForCall /\ call.file \in Files \ known

(* A file without text leaves no trace. *)
LoadNothing ==
  /\ FirstVisit
  /\ graph.file[call.file] = "empty"
  /\ call' = NoCall
  /\ UNCHANGED <<graph, stack, found, kahn, processing_order, phase>>

Load ==
  /\ FirstVisit
  /\ graph.file[call.file] = "text"
  /\ known' = known \cup {call.file}
  /\ layer' = [layer EXCEPT ![call.file] = call.layer]
  /\ currently_processing' = currently_processing \cup {call.file}
  /\ stack' = Append(stack, Walking(call.file, call.layer))
  /\ call' = NoCall
  /\ UNCHANGED <<graph, dependencies, kahn, processing_order, phase>>

-----------------------------------------------------------------------------
(* The frame on top of the stack goes on when the call it made is over. *)
Running(does) ==
  /\ phase = "analyze" /\ call = NoCall
  /\ stack # <<>> /\ Top.does = does

Directives == graph.imports[Top.file]
AtDirective == Running("walk") /\ Top.line <= Len(Directives)
Import == Directives[Top.line]

(* A directive without a path is reported and skipped.                     *)
SkipDirective ==
  /\ AtDirective /\ ~Top.waits /\ Import = NoFile
  /\ stack' = Update([Top EXCEPT !.line = @ + 1])
  /\ UNCHANGED <<graph, call, found, kahn, processing_order, phase>>

(* ResolvePath throws for a path that does not exist, and nothing catches. *)
FollowMissing ==
  /\ AtDirective /\ ~Top.waits
  /\ Import \in Files /\ graph.file[Import] = "missing"
  /\ phase' = "crashed"
  /\ UNCHANGED <<graph, stack, call, found, kahn, processing_order>>

Follow ==
  /\ AtDirective /\ ~Top.waits
  /\ Import \in Files /\ graph.file[Import] # "missing"
  /\ call' = CallOn(Import, Top.layer + 1)
  /\ stack' = Update([Top EXCEPT !.waits = TRUE])
  /\ UNCHANGED <<graph, found, kahn, processing_order, phase>>

(* Mutation: the directive is read again.                                  *)
Followed_SameLine ==
  /\ AtDirective /\ Top.waits
  /\ stack' = Update([Top EXCEPT !.waits = FALSE])
  /\ UNCHANGED <<graph, call, found, kahn, processing_order, phase>>

(* A file that is known by now is a dependency, and lies below.            *)
Followed ==
  /\ AtDirective /\ Top.waits
  /\ IF Import \in known
     THEN /\ dependencies' = [dependencies EXCEPT ![Top.file] = @ \cup {Import}]
          /\ layer' = [layer EXCEPT
               ![Import] = IF Top.layer + 1 > @ THEN Top.layer + 1 ELSE @]
     ELSE UNCHANGED <<dependencies, layer>>
  /\ stack' = Update([Top EXCEPT !.line = @ + 1, !.waits = FALSE])
  /\ UNCHANGED <<graph, call, known, currently_processing, kahn,
                 processing_order, phase>>

EndWalk ==
  /\ Running("walk") /\ Top.line > Len(Directives)
  /\ currently_processing' = currently_processing \ {Top.file}
  /\ stack' = Pop
  /\ UNCHANGED <<graph, call, known, layer, dependencies, kahn,
                 processing_order, phase>>

(* The dependencies of a file that moved down, in the order of a hash set. *)
Deepen ==
  /\ Running("deepen")
  /\ \E f \in Top.todo :
       /\ call' = CallOn(f, Top.layer + 1)
       /\ stack' = Update([Top EXCEPT !.todo = @ \ {f}])
  /\ UNCHANGED <<graph, found, kahn, processing_order, phase>>

EndDeepen ==
  /\ Running("deepen") /\ Top.todo = {}
  /\ stack' = Pop
  /\ UNCHANGED <<graph, call, found, kahn, processing_order, phase>>

-----------------------------------------------------------------------------
(* How many of the files import f. *)
Degree(f) == Cardinality({g \in known : f \in dependencies[g]})

StartOrdering ==
  /\ phase = "analyze" /\ call = NoCall /\ stack = <<>>
  /\ in_degree' = [f \in Files |-> Degree(f)]
  /\ zero_incoming' = {f \in known : Degree(f) = 0}
  /\ phase' = "order"
  /\ UNCHANGED <<graph, stack, call, found, sorted, processing_order>>

(* The queue begins in the order of a hash map; what is taken from it is   *)
(* sorted again, so that it is kept as a set.                              *)
TakeNext ==
  /\ phase = "order"
  /\ \E f \in zero_incoming :
       LET lower == [g \in Files |->
             IF g \in dependencies[f] THEN in_degree[g] - 1 ELSE in_degree[g]]
       IN /\ in_degree' = lower
          /\ zero_incoming' = (zero_incoming \ {f}) \cup
               {g \in dependencies[f] : lower[g] = 0}
          /\ sorted' = Append(sorted, f)
  /\ UNCHANGED <<graph, stack, call, found, processing_order, phase>>

FindCycle ==
  /\ phase = "order" /\ zero_incoming = {}
  /\ Len(sorted) # Cardinality(known)
  /\ processing_order' = <<>>
  /\ phase' = "done"
  /\ UNCHANGED <<graph, stack, call, found, kahn>>

(* Deep layers come first; the order within a layer is the sort's.         *)
Sort ==
  /\ phase = "order" /\ zero_incoming = {}
  /\ Len(sorted) = Cardinality(known)
  /\ \E order \in SetToSeqs(known) :
       /\ \A i, j \in 1 .. Len(order) : i < j => layer[order[i]] >= layer[order[j]]
       /\ processing_order' = order
  /\ phase' = "done"
  /\ UNCHANGED <<graph, stack, call, found, kahn>>

Next ==
  \/ Cyclic \/ Overflow \/ FoundDeeper \/ FoundAgain \/ LoadNothing \/ Load
  \/ SkipDirective \/ FollowMissing \/ Follow \/ Followed \/ EndWalk
  \/ Deepen \/ EndDeepen
  \/ StartOrdering \/ TakeNext \/ FindCycle \/ Sort

(* The compiler is one thread that runs until it is done.                  *)
Spec == Init /\ [][Next]_vars /\ WF_vars(Next)

-----------------------------------------------------------------------------
(* The files f imports that have text. *)
Imports(f) ==
  {g \in ToSet(graph.imports[f]) : g \in Files /\ graph.file[g] = "text"}

Closed(S) == \A f \in S : Imports(f) \subseteq S
Reachable ==
  {f \in Files : \A S \in SUBSET Files : Main \in S /\ Closed(S) => f \in S}
IsCyclic ==
  \E S \in SUBSET Reachable : S # {} /\ \A f \in S : Imports(f) \cap S # {}

PositionOf(f) == CHOOSE i \in 1 .. Len(processing_order) : processing_order[i] = f

(* A module is compiled, and linked, after every module it imports, at     *)
(* whatever depth and in whatever order the walk first met them.           *)
DependenciesComeFirst ==
  phase = "done" /\ processing_order # <<>> =>
    \A f \in ToSet(processing_order) : \A g \in Imports(f) :
      g \in ToSet(processing_order) /\ PositionOf(g) < PositionOf(f)

(* Exactly the projects whose imports form a cycle, or that have no text   *)
(* at all, get no order; the others get one with every module they need    *)
(* once and no other.                                                      *)
OrderUnlessCyclic ==
  phase = "done" =>
    IF graph.file[Main] = "empty" \/ IsCyclic THEN processing_order = <<>>
    ELSE /\ ToSet(processing_order) = Reachable
         /\ Len(processing_order) = Cardinality(Reachable)

(* The order is complete and serves every import.                          *)
OrderServesImports == DependenciesComeFirst /\ OrderUnlessCyclic

(* Without a cycle the walk ends, although files are found deeper again    *)
(* and again, and needs no more room than a call for each file.            *)
AnalysisEnds ==
  ~IsCyclic /\ MaxStack >= Cardinality(Files) => <>(phase \in {"done", "crashed"})
=============================================================================
