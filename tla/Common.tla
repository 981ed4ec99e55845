------------------------------- MODULE Common -------------------------------
(***************************************************************************)
(* What Go's library does for several of the modules: rows sorted by time  *)
(* and entries of one map written over another.  The two are written out   *)
(* here, as the provers know no definition of SortSeq and @@.              *)
(***************************************************************************)
EXTENDS Integers, FiniteSets, Sequences

\* The order sort.Slice establishes; rows of one time, which it may leave in any
\* order, stay in theirs.
Earlier(rows, i, j) ==
  \/ rows[i].timestamp < rows[j].timestamp
  \/ rows[i].timestamp = rows[j].timestamp /\ i < j

\* The chosen rows, each at the place it has by the number of those before it.
\* (SubSeq leaves it as it is and has TLC evaluate it once.)
InOrderOfTime(rows, chosen) ==
  LET size == Cardinality(chosen)
      place == [j \in chosen |-> Cardinality({i \in chosen : Earlier(rows, i, j)}) + 1]
  IN  SubSeq([n \in 1..size |-> rows[CHOOSE j \in chosen : place[j] = n]], 1, size)

Over(new, old) ==
  [x \in DOMAIN new \union DOMAIN old |-> IF x \in DOMAIN new THEN new[x] ELSE old[x]]
=============================================================================
