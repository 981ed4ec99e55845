--------------------------- MODULE MemoryManager ---------------------------
(***************************************************************************)
(* src/utils/memory_manager.go: one history buffer per symbol behind one   *)
(* mutex, and the limit check that halves the buffers when the heap is too *)
(* large.                                                                  *)
(*                                                                         *)
(* A buffer is taken by what RingBuffer is proved to implement, the bounded*)
(* log.  The points of a symbol are numbered in the order they are added,  *)
(* so that a history shows which points it has lost.  How large the heap   *)
(* is when it is measured is a free choice.                                *)
(***************************************************************************)
EXTENDS Integers, Sequences, FiniteSets

CONSTANTS
  Caller,        \* goroutines that use the manager
  NoCaller,      \* holder of a free mutex
  Symbol,        \* symbols data arrives for
  MaxDataPoints, \* capacity of a new buffer
  CheckEvery,    \* the check runs when a size is a multiple of this (100)
  ResizeAbove,   \* smaller buffers are not halved (100)
  MinCapacity,   \* a halved buffer keeps this many at least (50)
  MaxAdds        \* bound: points added per symbol

ASSUME MemoryAssumption ==
  /\ NoCaller \notin Caller
  /\ {MaxDataPoints, CheckEvery, MinCapacity} \subseteq Nat \ {0}
  /\ ResizeAbove \in Nat
  /\ MinCapacity <= ResizeAbove
  /\ MaxAdds \in Nat

VARIABLES
  streams, \* DataStreams: the history and capacity of each symbol that has an entry
  holder,  \* who holds mm.mu
  pc,      \* where each caller is: "idle", or "limit" while it waits to clean up
  added,   \* points added so far, per symbol
  dropped  \* points added before the last Cleanup, per symbol

vars == <<streams, holder, pc, added, dropped>>

Buffers == INSTANCE BoundedLog WITH
  log <- << >>, cap <- MaxDataPoints,
  Point <- 1..MaxAdds, Capacity <- 1..MaxDataPoints

NewRingBuffer == [log |-> << >>, cap |-> MaxDataPoints]

\* The buffer AddDataPoint appends to: a new one for a symbol without an entry.
Entry(s) == IF s \in DOMAIN streams THEN streams[s] ELSE NewRingBuffer

Init ==
  /\ streams = << >>
  /\ holder = NoCaller
  /\ pc = [c \in Caller |-> "idle"]
  /\ added = [s \in Symbol |-> 0]
  /\ dropped = [s \in Symbol |-> 0]

WithPoint(b, point) == [b EXCEPT !.log = Buffers!Newest(Append(@, point), b.cap)]

\* The entries with the point of a symbol appended to its own.
Appended(s, point) ==
  [t \in DOMAIN streams \union {s} |-> IF t = s THEN WithPoint(Entry(s), point) ELSE streams[t]]

CanLock(c) == pc[c] = "idle" /\ holder = NoCaller

\* Error: a path that returns without unlocking.
AddDataPointKeepsLock(c, s) ==
  /\ CanLock(c)
  /\ added[s] < MaxAdds
  /\ added' = [added EXCEPT ![s] = @ + 1]
  /\ streams' = Appended(s, added'[s])
  /\ holder' = IF Len(streams'[s].log) % CheckEvery = 0 THEN c ELSE NoCaller
  /\ UNCHANGED <<pc, dropped>>

\* Under the mutex: append, and every CheckEvery points check the limit.  When
\* the heap is over it the caller goes on to CheckMemoryLimits' own Lock with the
\* mutex still in its hands; otherwise it unlocks and returns.
AddDataPoint(c, s) ==
  /\ CanLock(c)
  /\ added[s] < MaxAdds
  /\ added' = [added EXCEPT ![s] = @ + 1]
  /\ streams' = Appended(s, added'[s])
  /\ \/ UNCHANGED <<holder, pc>>
     \/ /\ Len(streams'[s].log) % CheckEvery = 0
        /\ holder' = c
        /\ pc' = [pc EXCEPT ![c] = "limit"]
  /\ UNCHANGED dropped

\* The exported CheckMemoryLimits, called on its own, finds the heap over the
\* limit and is about to Lock.
CheckMemoryLimits(c) ==
  /\ pc[c] = "idle"
  /\ pc' = [pc EXCEPT ![c] = "limit"]
  /\ UNCHANGED <<streams, holder, added, dropped>>

\* Error: every buffer is halved, however small.
HalvedAlways(b) ==
  LET half == b.cap \div 2
  IN IF half = 0 THEN b ELSE [log |-> Buffers!Newest(b.log, half), cap |-> half]

\* A buffer after the limit check.
Halved(b) ==
  LET half == IF b.cap \div 2 < MinCapacity THEN MinCapacity ELSE b.cap \div 2
  IN IF b.cap > ResizeAbove
       THEN [log |-> Buffers!Newest(b.log, half), cap |-> half]
       ELSE b

\* The rest of CheckMemoryLimits, from its Lock to its Unlock: it ranges over the
\* entries there are.
CleansUp(c) ==
  /\ pc[c] = "limit"
  /\ holder = NoCaller
  /\ streams' = [s \in DOMAIN streams |-> Halved(streams[s])]
  /\ pc' = [pc EXCEPT ![c] = "idle"]
  /\ UNCHANGED <<holder, added, dropped>>

Cleanup(c) ==
  /\ CanLock(c)
  /\ streams' = << >>
  /\ dropped' = added
  /\ UNCHANGED <<holder, pc, added>>

Next ==
  \E c \in Caller :
    \/ \E s \in Symbol : AddDataPoint(c, s)
    \/ CheckMemoryLimits(c)
    \/ CleansUp(c)
    \/ Cleanup(c)

Spec == Init /\ [][Next]_vars

\* A caller that waits for a mutex nobody holds gets it.
FairSpec == Spec /\ \A c \in Caller : SF_vars(CleansUp(c))

-----------------------------------------------------------------------------
(* Properties. *)

\* The state is well formed, and between two steps only a caller on its way
\* through the limit check holds the mutex: no call returns with it.
TypeOK ==
  /\ DOMAIN streams \subseteq Symbol
  /\ streams \in [DOMAIN streams -> [log : Seq(1..MaxAdds), cap : 1..MaxDataPoints]]
  /\ holder \in Caller \union {NoCaller}
  /\ pc \in [Caller -> {"idle", "limit"}]
  /\ holder # NoCaller => pc[holder] = "limit"
  /\ added \in [Symbol -> 0..MaxAdds]
  /\ dropped \in [Symbol -> 0..MaxAdds]

Least(m, n) == IF m <= n THEN m ELSE n

\* Whatever the order of appends, halvings and Cleanups, a history is the newest
\* points without a hole; it never falls below MinCapacity points (or all points
\* there were, or MaxDataPoints), however often the limit check runs, and is
\* never longer than MaxDataPoints.
KeepsNewest ==
  \A s \in Symbol :
    LET log == Entry(s).log
    IN /\ \A i \in 1..Len(log) : log[i] = added[s] - Len(log) + i
       /\ Len(log) >= Least(added[s] - dropped[s], Least(MinCapacity, MaxDataPoints))
       /\ Len(log) <= Least(added[s] - dropped[s], MaxDataPoints)

\* A caller that found the heap over the limit gets its memory back
\* (memory_manager.go:164, "Reduce data retention by half to free memory").
LimitCheckReturns == \A c \in Caller : pc[c] = "limit" ~> pc[c] = "idle"
=============================================================================
