-------------------------- MODULE MCSourceManager --------------------------
(***************************************************************************)
(* SourceManager for TLC: a1 and b1 are configured; a2 is what a gRPC      *)
(* AddSource makes after the source named a was removed.                   *)
(***************************************************************************)
EXTENDS SourceManager

CONSTANTS a1, a2, b1, a, b

MCNameOf == [o \in Object |-> IF o \in {a1, a2} THEN a ELSE b]
=============================================================================
