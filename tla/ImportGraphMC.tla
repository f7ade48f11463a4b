--------------------------- MODULE ImportGraphMC ---------------------------
(* Four files.  Main imports the others in any order, the others import    *)
(* each other and Main in enough ways for diamonds whose long side is      *)
(* found last, for a chain, for cycles of one, two, three and four files,  *)
(* and for a directive without a path; one file may be empty or missing.   *)
EXTENDS ImportGraph, TLC

CONSTANTS A, B, C

UpTo(n, S) == UNION {{s \in [1 .. k -> S] : IsInjective(s)} : k \in 0 .. n}

MCGraphs ==
  {[imports |-> (Main :> m @@ A :> a @@ B :> b @@ C :> c),
    file |-> (Main :> "text" @@ A :> "text" @@ B :> "text" @@ C :> last)] :
     m \in UpTo(3, {A, B, C}), a \in UpTo(2, {Main, B, C}),
     b \in UpTo(2, {A, B, C}), c \in {<<>>, <<NoFile>>, <<B>>},
     last \in {"text", "empty"}} \cup
  {[imports |-> [f \in Files |-> <<>>], file |-> [f \in Files |-> "empty"]]}

MissingGraphs ==
  {[imports |-> (Main :> m @@ A :> <<C>> @@ B :> <<>> @@ C :> <<>>),
    file |-> (Main :> "text" @@ A :> "text" @@ B :> "text" @@ C :> "missing")] :
     m \in UpTo(3, {A, B, C})}

AllGraphs == MCGraphs \cup MissingGraphs
=============================================================================
