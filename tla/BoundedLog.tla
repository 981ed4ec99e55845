----------------------------- MODULE BoundedLog -----------------------------
(***************************************************************************)
(* What a per-symbol history buffer of the market observer promises: a     *)
(* sequence of the newest points, at most cap of them, oldest first.       *)
(*                                                                         *)
(* This is the abstract specification RingBuffer implements.               *)
(***************************************************************************)
EXTENDS Integers, Sequences

CONSTANTS Point,          \* data points (models.MStockPrice)
          Capacity        \* capacities a buffer can have

VARIABLES log,            \* the retained points, oldest first
          cap             \* how many points are retained at most

vars == <<log, cap>>

\* The n newest entries of s, or all of s when it is shorter.
Newest(s, n) ==
  IF n >= Len(s) THEN s ELSE SubSeq(s, Len(s) - n + 1, Len(s))

Init ==
  /\ log = << >>
  /\ cap \in Capacity

\* A point enters; the oldest one leaves when the log is full.
Add(p) ==
  /\ log' = Newest(Append(log, p), cap)
  /\ UNCHANGED cap

\* A smaller capacity drops the oldest points, a larger one drops nothing.
SetCapacity(n) ==
  /\ log' = Newest(log, n)
  /\ cap' = n

Empty ==
  /\ log' = << >>
  /\ UNCHANGED cap

Next ==
  \/ \E p \in Point : Add(p)
  \/ \E n \in Capacity : SetCapacity(n)
  \/ Empty

Spec == Init /\ [][Next]_vars
=============================================================================
