----------------------------- MODULE RingBuffer -----------------------------
(***************************************************************************)
(* src/utils/ring_buffer.go: the circular buffer that keeps the history of *)
(* one symbol.  data is the Go slice (0-based), index the next slot to     *)
(* write, size the number of rows in use.  A row is one member of Point.   *)
(***************************************************************************)
EXTENDS Integers, Sequences

CONSTANTS Point,            \* rows the program can append
          Blank,            \* the zero row of a freshly made slice
          MaxCapacity,      \* bound: the largest capacity asked for
          DefaultCapacity   \* capacity used when a non-positive one is asked for

ASSUME CapacityAssumption ==
  /\ MaxCapacity \in Nat \ {0}
  /\ DefaultCapacity \in 1..MaxCapacity

ASSUME BlankAssumption == Blank \notin Point

VARIABLES data, capacity, index, size

vars == <<data, capacity, index, size>>

\* What a caller may ask NewRingBuffer and Resize for.
Request == -1..MaxCapacity

\* The slice made by make([][5]float64, n).
Fresh(n) == [i \in 0..(n - 1) |-> Blank]

-----------------------------------------------------------------------------
(* Reading the buffer. *)

\* n rows, going round the buffer from slot start, as the three read loops do.
RowsFrom(start, n) == [i \in 1..n |-> data[(start + i - 1) % capacity]]

\* Error: the newest row taken to be at index, not at index - 1.
StartAfterLatest(count) == (index - count + 1 + capacity) % capacity

\* Slot of the oldest of the count newest rows (GetLatest and Resize).
StartOfLatest(count) == (index - count + capacity) % capacity

\* Error: the request is not clipped to what the buffer holds.
ClipToCapacity(n) == IF n > capacity THEN size ELSE n

\* How many of the rows a request for n gets.
Clip(n) == IF n > size THEN size ELSE n

IsFull == size = capacity

GetLatest(n) ==
  IF size = 0 \/ n <= 0
    THEN << >>
    ELSE RowsFrom(StartOfLatest(Clip(n)), Clip(n))

\* GetAll and GetSnapshot: the same rows in two Go types.
GetAll ==
  IF size = 0
    THEN << >>
    ELSE RowsFrom(IF IsFull THEN index ELSE 0, size)

-----------------------------------------------------------------------------

NewRingBuffer(requested) ==
  /\ capacity = IF requested <= 0 THEN DefaultCapacity ELSE requested
  /\ data = Fresh(capacity)
  /\ index = 0
  /\ size = 0

\* Error: the write position is not brought back to slot 0.
AppendWithoutWrap(point) ==
  /\ data' = [data EXCEPT ![index] = point]
  /\ index' = index + 1
  /\ size' = IF size < capacity THEN size + 1 ELSE size
  /\ UNCHANGED capacity

AppendRow(point) ==
  /\ data' = [data EXCEPT ![index] = point]
  /\ index' = (index + 1) % capacity
  /\ size' = IF size < capacity THEN size + 1 ELSE size
  /\ UNCHANGED capacity

\* Error: a shrinking buffer keeps its oldest rows.
ResizeKeepingOldest(newCapacity) ==
  /\ newCapacity > 0
  /\ newCapacity # capacity
  /\ data' = [i \in 0..(newCapacity - 1) |->
                IF i < Clip(newCapacity) THEN GetAll[i + 1] ELSE Blank]
  /\ size' = Clip(newCapacity)
  /\ index' = Clip(newCapacity) % newCapacity
  /\ capacity' = newCapacity

Resize(newCapacity) ==
  /\ newCapacity > 0
  /\ newCapacity # capacity
  /\ LET count == Clip(newCapacity)
     IN /\ data' = [i \in 0..(newCapacity - 1) |->
                      IF i < count
                        THEN data[(StartOfLatest(count) + i) % capacity]
                        ELSE Blank]
        /\ size' = count
        /\ index' = count % newCapacity
  /\ capacity' = newCapacity

\* Error: the write position survives a Clear.
ClearSizeOnly ==
  /\ size' = 0
  /\ UNCHANGED <<data, capacity, index>>

\* The rows stay in the slice; only the counters are reset.
Clear ==
  /\ index' = 0
  /\ size' = 0
  /\ UNCHANGED <<data, capacity>>

Init == \E requested \in Request : NewRingBuffer(requested)

Next ==
  \/ \E point \in Point : AppendRow(point)
  \/ \E newCapacity \in Request : Resize(newCapacity)
  \/ Clear

Spec == Init /\ [][Next]_vars

-----------------------------------------------------------------------------
(* Properties. *)

\* The slice has capacity slots, the counters stay in range and only slots
\* that were never written (or were zeroed by Resize) are blank.
TypeOK ==
  /\ capacity \in 1..MaxCapacity
  /\ data \in [0..(capacity - 1) -> Point \union {Blank}]
  /\ index \in 0..(capacity - 1)
  /\ size \in 0..capacity

\* Until it wraps the buffer is written from slot 0 on: the test of GetAll
\* (size == capacity) is a correct test for "has wrapped", after any mixture
\* of Append, Resize and Clear.
WrapsOnlyWhenFull == size < capacity => index = size

\* No read ever returns a zero row: every slot the read loops visit was
\* written since the last Clear or copied by Resize.
NoBlankRead ==
  \A i \in 1..size : GetAll[i] \in Point

\* GetLatest(n) and GetAll, which compute their start slot differently, agree:
\* the n latest rows are the tail of the whole history.
Log == INSTANCE BoundedLog WITH log <- GetAll, cap <- capacity,
                                Capacity <- 1..MaxCapacity

LatestIsTail ==
  \A n \in 1..MaxCapacity : GetLatest(n) = Log!Newest(GetAll, n)

\* The buffer implements the bounded log: Append keeps the newest capacity
\* points, Resize the newest that fit (its comment: "If newCapacity < size,
\* oldest data is dropped"), Clear nothing.
ImplementsBoundedLog == Log!Spec
=============================================================================
