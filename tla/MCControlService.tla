-------------------------- MODULE MCControlService --------------------------
(***************************************************************************)
(* ControlService for TLC: two names, one of them unknown to setup.go, and *)
(* files with a reference to a full and to an empty table.                 *)
(***************************************************************************)
EXTENDS ControlService

CONSTANTS S1, S2, Full, Empty, Other, r1, r2

\* The goroutines are alike and never compared.
Symmetry == Permutations({r1, r2})

MCTable == [ref \in {Full, Empty} |-> IF ref = Full THEN {S1, S2} ELSE {}]

MCFirstFile == {
  << Entry(Yahoo, {S1}) >>,
  << Entry(Yahoo, {S1, Full}), Entry(Other, {S2}) >>,
  << Entry(Other, {Empty}), Entry(Yahoo, {S1}) >>,
  << Entry(Yahoo, {Empty}) >> }
=============================================================================
