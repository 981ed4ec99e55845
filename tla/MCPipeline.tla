----------------------------- MODULE MCPipeline -----------------------------
(***************************************************************************)
(* Pipeline for TLC: windows of two and four seconds over a feed of at     *)
(* most five bars a symbol.                                                *)
(***************************************************************************)
EXTENDS Pipeline

CONSTANTS A, B

MCWindowsAgg == <<"2s", "4s">>
MCWindowSeconds == [w \in {"2s", "4s"} |-> IF w = "2s" THEN 2 ELSE 4]
MCWindow == {"2s", "4s"}

Bar(t, p, v) == [timestamp |-> t, price |-> p, volume |-> v]

\* A has a bar every second; B misses some, once a whole window of two seconds,
\* and has a bar without volume.
MCFeeds == {
  A :> << Bar(1, 3, 1), Bar(2, 1, 2), Bar(3, 4, 1), Bar(4, 2, 3), Bar(5, 5, 1) >> @@
  B :> << Bar(2, 2, 0), Bar(5, 1, 2) >> }
=============================================================================
