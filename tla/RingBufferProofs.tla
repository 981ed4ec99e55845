-------------------------- MODULE RingBufferProofs --------------------------
(***************************************************************************)
(* Theorems about RingBuffer, for every set of points and every bound on   *)
(* the capacity.  Slot(start, k) is the linear form of the modulo          *)
(* arithmetic of the code: once (start + k) % capacity is known to be      *)
(* Slot(start, k) no proof needs to reason about % again.                  *)
(***************************************************************************)
EXTENDS RingBuffer, TLAPS

\* The slot k places after start, going round.
Slot(start, k) ==
  IF start + k < capacity THEN start + k ELSE start + k - capacity

\* Every slot in use holds a point: size counts no zero row.
RowsInUse == \A i \in 0..(size - 1) : data[i] \in Point

IInv == TypeOK /\ WrapsOnlyWhenFull /\ RowsInUse

\* Slot of the oldest row in use.
First == IF IsFull THEN index ELSE 0

-----------------------------------------------------------------------------
(* Modulo arithmetic. *)

\* A position that has not passed the end is its own slot.
LEMMA ModSmall ==
  ASSUME NEW a \in Int, NEW c \in Nat \ {0}, 0 <= a, a < c
  PROVE  a % c = a
  BY SMTT(30)

\* A position that has gone round once is one capacity further on.
LEMMA ModWrap ==
  ASSUME NEW a \in Int, NEW c \in Nat \ {0}, c <= a, a < 2 * c
  PROVE  a % c = a - c
  BY SMTT(30)

\* The % of the read loops, of Append and of Resize is Slot.
LEMMA ModIsSlot ==
  ASSUME TypeOK, NEW s \in 0..(capacity - 1), NEW k \in 0..capacity
  PROVE  /\ (s + k) % capacity = Slot(s, k)
         /\ Slot(s, k) \in 0..(capacity - 1)
<1>1. capacity \in Nat \ {0}
  BY CapacityAssumption DEF TypeOK
<1>2. CASE s + k < capacity
  BY <1>1, <1>2, ModSmall DEF Slot
<1>3. CASE s + k >= capacity
  BY <1>1, <1>3, ModWrap DEF Slot
<1>4. QED
  BY <1>1, <1>2, <1>3

-----------------------------------------------------------------------------
(* The inductive invariant. *)

\* A fresh buffer satisfies the invariant, whatever capacity was asked for.
LEMMA InitInv == Init => IInv
<1> SUFFICES ASSUME NEW requested \in Request, NewRingBuffer(requested)
             PROVE  IInv
  BY DEF Init
<1>1. capacity \in 1..MaxCapacity
  BY CapacityAssumption DEF NewRingBuffer, Request
<1>2. QED
  BY <1>1 DEF NewRingBuffer, IInv, TypeOK, WrapsOnlyWhenFull, RowsInUse, Fresh

\* Append keeps it: the slot written is the one after the rows in use, or,
\* once the buffer is full, the slot of the oldest row.
LEMMA AppendInv ==
  ASSUME IInv, NEW point \in Point, AppendRow(point)
  PROVE  IInv'
<1> USE DEF IInv, TypeOK, AppendRow
<1>1. index' = Slot(index, 1)
  BY ModIsSlot
<1>2. TypeOK'
  BY <1>1 DEF Slot
<1>3. WrapsOnlyWhenFull'
  BY <1>1 DEF Slot, WrapsOnlyWhenFull
<1>4. RowsInUse'
  BY DEF RowsInUse, WrapsOnlyWhenFull
<1>5. QED
  BY <1>2, <1>3, <1>4

\* The rows Resize copies are rows in use.
LEMMA CopiedRows ==
  ASSUME IInv, NEW count \in 0..size, NEW i \in 0..(count - 1)
  PROVE  /\ StartOfLatest(count) \in 0..(capacity - 1)
         /\ (StartOfLatest(count) + i) % capacity
              = Slot(First, size - count + i)
         /\ data[(StartOfLatest(count) + i) % capacity] \in Point
<1> USE DEF IInv, TypeOK
<1>1. capacity \in Nat \ {0}
  BY CapacityAssumption
<1>2. StartOfLatest(count) = IF count <= index
                               THEN index - count ELSE index - count + capacity
  <2> DEFINE a == index - count + capacity
  <2>1. a \in Int /\ 0 <= a /\ a < 2 * capacity
    BY <1>1
  <2>2. CASE count <= index
    <3>1. capacity <= a /\ a - capacity = index - count
      BY <2>2, <1>1
    <3>2. a % capacity = a - capacity
      BY <1>1, <2>1, <3>1, ModWrap
    <3>3. QED
      BY <2>2, <3>1, <3>2 DEF StartOfLatest
  <2>3. CASE ~(count <= index)
    <3>1. a < capacity
      BY <2>3, <1>1
    <3>2. a % capacity = a
      BY <1>1, <2>1, <3>1, ModSmall
    <3>3. QED
      BY <2>3, <3>2 DEF StartOfLatest
  <2>4. QED
    BY <2>2, <2>3
<1>3. StartOfLatest(count) \in 0..(capacity - 1)
  BY <1>2
<1>4. (StartOfLatest(count) + i) % capacity = Slot(StartOfLatest(count), i)
  BY <1>3, ModIsSlot
<1>5. Slot(StartOfLatest(count), i) = Slot(First, size - count + i)
  BY <1>2 DEF Slot, First, IsFull, WrapsOnlyWhenFull
<1>6. Slot(StartOfLatest(count), i) \in 0..(size - 1)
  BY <1>2 DEF Slot, WrapsOnlyWhenFull
<1>7. QED
  BY <1>3, <1>4, <1>5, <1>6 DEF RowsInUse

\* Resize keeps it: it lays the rows it keeps out from slot 0 on.
LEMMA ResizeInv ==
  ASSUME IInv, NEW newCapacity \in Request, Resize(newCapacity)
  PROVE  IInv'
<1> DEFINE count == Clip(newCapacity)
<1>1. /\ newCapacity \in 1..MaxCapacity
      /\ count \in 0..size
      /\ count <= newCapacity
  BY DEF Resize, Request, Clip, IInv, TypeOK
<1>2. /\ capacity' = newCapacity
      /\ size' = count
      /\ index' = count % newCapacity
      /\ data' = [i \in 0..(newCapacity - 1) |->
                    IF i < count
                      THEN data[(StartOfLatest(count) + i) % capacity]
                      ELSE Blank]
  BY DEF Resize
<1>3. index' = IF count < newCapacity THEN count ELSE 0
  <2>1. newCapacity \in Nat \ {0} /\ count \in Int
    BY <1>1, CapacityAssumption DEF IInv, TypeOK
  <2>2. QED
    BY <1>1, <1>2, <2>1, ModSmall, ModWrap
<1>4. \A i \in 0..(count - 1) :
         data[(StartOfLatest(count) + i) % capacity] \in Point
  BY <1>1, CopiedRows
<1> HIDE DEF count
<1>5. TypeOK'
  BY <1>1, <1>2, <1>3, <1>4 DEF IInv, TypeOK
<1>6. WrapsOnlyWhenFull'
  BY <1>1, <1>2, <1>3 DEF WrapsOnlyWhenFull
<1>7. RowsInUse'
  BY <1>1, <1>2, <1>4 DEF RowsInUse, IInv, TypeOK
<1>8. QED
  BY <1>5, <1>6, <1>7 DEF IInv

\* Every operation keeps the invariant.
LEMMA StepInv == IInv /\ [Next]_vars => IInv'
<1> SUFFICES ASSUME IInv, [Next]_vars
             PROVE  IInv'
  OBVIOUS
<1>1. CASE \E point \in Point : AppendRow(point)
  BY <1>1, AppendInv
<1>2. CASE \E newCapacity \in Request : Resize(newCapacity)
  BY <1>2, ResizeInv
<1>3. CASE Clear
  BY <1>3 DEF Clear, IInv, TypeOK, WrapsOnlyWhenFull, RowsInUse
<1>4. CASE UNCHANGED vars
  BY <1>4 DEF vars, IInv, TypeOK, WrapsOnlyWhenFull, RowsInUse
<1>5. QED
  BY <1>1, <1>2, <1>3, <1>4 DEF Next

\* The invariant holds in every reachable state.
LEMMA AlwaysInv == Spec => []IInv
  BY InitInv, StepInv, PTL DEF Spec

\* The counters stay in range and every slot holds a row or the zero row.
THEOREM TypeCorrect == Spec => []TypeOK
<1>1. IInv => TypeOK
  BY DEF IInv
<1>2. QED
  BY <1>1, AlwaysInv, PTL

\* size == capacity, the test of GetAll and GetSnapshot, tells a buffer that
\* has wrapped from one that has not.
THEOREM WrapTestCorrect == Spec => []WrapsOnlyWhenFull
<1>1. IInv => WrapsOnlyWhenFull
  BY DEF IInv
<1>2. QED
  BY <1>1, AlwaysInv, PTL

-----------------------------------------------------------------------------
(* What the reads return. *)

\* GetAll lists the size rows in use from the oldest on.
OldestToNewest ==
  /\ GetAll = [i \in 1..size |-> data[Slot(First, i - 1)]]
  /\ GetAll \in Seq(Point)
  /\ Len(GetAll) = size

LEMMA GetAllRows == IInv => OldestToNewest
<1> SUFFICES ASSUME IInv
             PROVE  OldestToNewest
  OBVIOUS
<1> USE DEF IInv, TypeOK
<1>1. First \in 0..(capacity - 1)
  BY DEF First, IsFull
<1>2. \A i \in 1..size : (First + i - 1) % capacity = Slot(First, i - 1)
  <2> SUFFICES ASSUME NEW i \in 1..size
               PROVE  (First + i - 1) % capacity = Slot(First, i - 1)
    OBVIOUS
  <2>1. (First + (i - 1)) % capacity = Slot(First, i - 1)
    BY <1>1, ModIsSlot
  <2>2. First + (i - 1) = First + i - 1
    BY <1>1
  <2>3. QED
    BY <2>1, <2>2
<1>3. \A i \in 1..size : data[Slot(First, i - 1)] \in Point
  BY DEF Slot, First, IsFull, WrapsOnlyWhenFull, RowsInUse
<1>4. GetAll = [i \in 1..size |-> data[Slot(First, i - 1)]]
  <2>1. CASE size = 0
    BY <2>1 DEF GetAll
  <2>2. CASE size # 0
    BY <1>2, <2>2 DEF GetAll, First, RowsFrom
  <2>3. QED
    BY <2>1, <2>2
<1>5. QED
  BY <1>3, <1>4 DEF OldestToNewest

\* The same after a step.
LEMMA GetAllRowsNext == IInv' => OldestToNewest'
  BY GetAllRows, PTL

\* Newest(s, n), the abstract log's operator, entry by entry.
LEMMA NewestRows ==
  ASSUME NEW s \in Seq(Point), NEW n \in Nat,
         NEW kept \in Nat, kept = IF n >= Len(s) THEN Len(s) ELSE n
  PROVE  Log!Newest(s, n) = [i \in 1..kept |-> s[Len(s) - kept + i]]
<1>1. CASE n >= Len(s)
  BY <1>1 DEF Log!Newest
<1>2. CASE ~(n >= Len(s))
  BY <1>2 DEF Log!Newest
<1>3. QED
  BY <1>1, <1>2

\* No read returns a zero row.
THEOREM NoBlankReadHolds == Spec => []NoBlankRead
<1>1. IInv => NoBlankRead
  BY GetAllRows DEF OldestToNewest, NoBlankRead
<1>2. QED
  BY <1>1, AlwaysInv, PTL

\* GetLatest(n) and GetAll agree although they find their first slot in two
\* different ways.
THEOREM LatestIsTailHolds == Spec => []LatestIsTail
<1>1. ASSUME IInv, NEW n \in 1..MaxCapacity
      PROVE  GetLatest(n) = Log!Newest(GetAll, n)
  <2> DEFINE kept == IF n >= size THEN size ELSE n
  <2>1. /\ GetAll = [i \in 1..size |-> data[Slot(First, i - 1)]]
        /\ GetAll \in Seq(Point)
        /\ Len(GetAll) = size
    BY <1>1, GetAllRows DEF OldestToNewest
  <2>2. size \in Nat /\ n \in Nat \ {0} /\ kept \in 0..size /\ kept = Clip(n)
    BY <1>1 DEF IInv, TypeOK, Clip
  <2>3. Log!Newest(GetAll, n) = [i \in 1..kept |-> GetAll[size - kept + i]]
    <3>1. kept \in Nat /\ kept = IF n >= Len(GetAll) THEN Len(GetAll) ELSE n
      BY <2>1, <2>2
    <3>2. GetAll \in Seq(Point) /\ Len(GetAll) = size /\ n \in Nat
      BY <2>1, <2>2
    <3> HIDE DEF kept
    <3>3. Log!Newest(GetAll, n)
            = [i \in 1..kept |-> GetAll[Len(GetAll) - kept + i]]
      BY <3>1, <3>2, NewestRows
    <3>4. QED
      BY <3>2, <3>3
  <2>4. ASSUME NEW i \in 1..kept
        PROVE  data[(StartOfLatest(kept) + i - 1) % capacity]
                 = GetAll[size - kept + i]
    <3>1. (StartOfLatest(kept) + (i - 1)) % capacity
             = Slot(First, size - kept + (i - 1))
      BY <1>1, <2>2, CopiedRows
    <3>2. /\ StartOfLatest(kept) + (i - 1) = StartOfLatest(kept) + i - 1
          /\ size - kept + (i - 1) = (size - kept + i) - 1
          /\ size - kept + i \in 1..size
      BY <1>1, <2>2, CopiedRows
    <3>3. QED
      BY <2>1, <3>1, <3>2
  <2>5. CASE size = 0
    BY <2>2, <2>3, <2>5 DEF GetLatest
  <2>6. CASE size # 0
    <3> HIDE DEF kept
    <3>1. GetLatest(n) = RowsFrom(StartOfLatest(kept), kept)
      BY <2>2, <2>6 DEF GetLatest
    <3>2. QED
      BY <2>3, <2>4, <3>1 DEF RowsFrom
  <2>7. QED
    BY <2>5, <2>6
<1>2. IInv => LatestIsTail
  BY <1>1 DEF LatestIsTail
<1>3. QED
  BY <1>2, AlwaysInv, PTL

-----------------------------------------------------------------------------
(* The buffer implements the bounded log. *)

\* Append adds at the end of the history and drops the oldest row of a full
\* buffer.
LEMMA AppendMaps ==
  ASSUME IInv, NEW point \in Point, AppendRow(point)
  PROVE  Log!Add(point)
<1>1. IInv'
  BY AppendInv
<1>2. /\ GetAll = [i \in 1..size |-> data[Slot(First, i - 1)]]
      /\ GetAll \in Seq(Point)
      /\ Len(GetAll) = size
  BY GetAllRows DEF OldestToNewest
<1>3. GetAll' = [i \in 1..size' |-> data'[Slot(First, i - 1)']]
  BY <1>1, GetAllRowsNext DEF OldestToNewest
<1>4. index' = Slot(index, 1)
  BY ModIsSlot DEF AppendRow, IInv, TypeOK
<1>5. Log!Newest(Append(GetAll, point), capacity) = GetAll'
  <2> DEFINE s == Append(GetAll, point)
  <2>1. /\ s \in Seq(Point)
        /\ Len(s) = size + 1
        /\ \A i \in 1..(size + 1) : s[i] = IF i <= size THEN GetAll[i] ELSE point
    BY <1>2 DEF IInv, TypeOK
  <2>2. capacity \in Nat /\ size \in 0..capacity
    BY DEF IInv, TypeOK
  <2> HIDE DEF s
  <2>3. /\ size' \in Nat
        /\ size' = IF capacity >= Len(s) THEN Len(s) ELSE capacity
    <3>1. Len(s) = size + 1
      BY <2>1
    <3>2. size' = IF size < capacity THEN size + 1 ELSE size
      BY DEF AppendRow
    <3> QED BY <3>1, <3>2, <2>2
  <2>4. Log!Newest(s, capacity) = [i \in 1..size' |-> s[Len(s) - size' + i]]
    BY <2>1, <2>2, <2>3, NewestRows
  <2>5. ASSUME NEW i \in 1..size'
        PROVE  s[Len(s) - size' + i] = data'[Slot(First, i - 1)']
    <3>1. CASE size < capacity
      BY <1>2, <1>4, <2>1, <3>1 DEF AppendRow, IInv, TypeOK, Slot, First, IsFull,
                                    WrapsOnlyWhenFull
    <3>2. CASE size = capacity
      <4>1. size' = size /\ capacity' = capacity /\ i \in 1..size
        BY <2>2, <3>2 DEF AppendRow
      <4>2. s[Len(s) - size' + i] = IF i < size THEN GetAll[i + 1] ELSE point
        BY <2>1, <2>2, <4>1
      <4>3. i < size => GetAll[i + 1] = data[Slot(index, i)]
        BY <1>2, <2>2, <3>2, <4>1 DEF First, IsFull
      <4>4. Slot(First, i - 1)' = IF i < size THEN Slot(index, i) ELSE index
        BY <1>4, <3>2, <4>1 DEF IInv, TypeOK, Slot, First, IsFull
      <4>5. i < size => /\ Slot(index, i) # index
                        /\ Slot(index, i) \in 0..(capacity - 1)
        BY <3>2, <4>1 DEF IInv, TypeOK, Slot
      <4>6. data' = [data EXCEPT ![index] = point] /\ index \in DOMAIN data
              /\ DOMAIN data = 0..(capacity - 1)
        BY DEF AppendRow, IInv, TypeOK
      <4>7. CASE i < size
        BY <4>2, <4>3, <4>4, <4>5, <4>6, <4>7
      <4>8. CASE ~(i < size)
        BY <4>2, <4>4, <4>6, <4>8
      <4>9. QED
        BY <4>7, <4>8
    <3>3. size < capacity \/ size = capacity
      BY <2>2
    <3>4. QED
      BY <3>1, <3>2, <3>3
  <2>6. Log!Newest(s, capacity) = GetAll'
    BY <1>3, <2>4, <2>5, Zenon
  <2>7. QED
    BY <2>6 DEF s
<1>6. QED
  BY <1>5 DEF Log!Add, AppendRow

\* Resize keeps the newest rows that fit.
LEMMA ResizeMaps ==
  ASSUME IInv, NEW newCapacity \in Request, Resize(newCapacity)
  PROVE  /\ newCapacity \in 1..MaxCapacity
         /\ Log!SetCapacity(newCapacity)
<1> DEFINE count == Clip(newCapacity)
<1>1. /\ newCapacity \in 1..MaxCapacity
      /\ newCapacity \in Nat \ {0}
      /\ count \in 0..size
      /\ count = IF newCapacity >= size THEN size ELSE newCapacity
  BY DEF Resize, Request, Clip, IInv, TypeOK
<1>2. /\ capacity' = newCapacity
      /\ size' = count
      /\ index' = count % newCapacity
      /\ data' = [i \in 0..(newCapacity - 1) |->
                    IF i < count
                      THEN data[(StartOfLatest(count) + i) % capacity]
                      ELSE Blank]
  BY DEF Resize
<1>3. /\ GetAll = [i \in 1..size |-> data[Slot(First, i - 1)]]
      /\ GetAll \in Seq(Point)
      /\ Len(GetAll) = size
      /\ size \in Nat
  BY GetAllRows DEF OldestToNewest, IInv, TypeOK
<1>4. GetAll' = [i \in 1..size' |-> data'[Slot(First, i - 1)']]
  BY ResizeInv, GetAllRowsNext DEF OldestToNewest
<1>5. ASSUME NEW i \in 1..count
      PROVE  data[(StartOfLatest(count) + (i - 1)) % capacity]
               = GetAll[size - count + i]
  <2>1. i - 1 \in 0..(count - 1)
    BY <1>1, <1>3
  <2>2. (StartOfLatest(count) + (i - 1)) % capacity
          = Slot(First, size - count + (i - 1))
    BY <1>1, <2>1, CopiedRows
  <2>3. /\ size - count + (i - 1) = (size - count + i) - 1
        /\ size - count + i \in 1..size
    BY <1>1, <1>3
  <2>4. QED
    BY <1>3, <2>2, <2>3
<1> HIDE DEF count
<1>6. First' = 0
  <2>1. CASE count = newCapacity
    BY <1>1, <1>2, <2>1, ModWrap DEF First, IsFull
  <2>2. CASE count # newCapacity
    BY <1>2, <2>2 DEF First, IsFull
  <2>3. QED
    BY <2>1, <2>2
<1>7. ASSUME NEW i \in 1..count
      PROVE  data'[Slot(First, i - 1)'] = GetAll[size - count + i]
  <2>1. Slot(First, i - 1)' = i - 1
    BY <1>1, <1>2, <1>3, <1>6 DEF Slot
  <2>2. i - 1 \in 0..(newCapacity - 1) /\ i - 1 < count
    BY <1>1, <1>3
  <2>3. QED
    BY <1>2, <1>5, <2>1, <2>2
<1>8. GetAll' = [i \in 1..count |-> GetAll[size - count + i]]
  BY <1>2, <1>4, <1>7, Zenon
<1>9. Log!Newest(GetAll, newCapacity)
        = [i \in 1..count |-> GetAll[Len(GetAll) - count + i]]
  <2>1. count \in Nat /\ newCapacity \in Nat
    BY <1>1, <1>3
  <2>2. count = IF newCapacity >= Len(GetAll) THEN Len(GetAll) ELSE newCapacity
    BY <1>1, <1>3
  <2>3. GetAll \in Seq(Point)
    BY <1>3
  <2>4. QED
    BY <2>1, <2>2, <2>3, NewestRows
<1>10. QED
  BY <1>1, <1>2, <1>3, <1>8, <1>9 DEF Log!SetCapacity

\* A fresh buffer is an empty log.
LEMMA InitMaps == Init => Log!Init
<1> SUFFICES ASSUME Init
             PROVE  Log!Init
  OBVIOUS
<1>1. IInv
  BY InitInv
<1>2. size = 0
  BY DEF Init, NewRingBuffer
<1>3. QED
  BY <1>1, <1>2 DEF Log!Init, GetAll, IInv, TypeOK

\* Every operation is a step of the bounded log.
LEMMA StepMaps == IInv /\ [Next]_vars => [Log!Next]_(Log!vars)
<1> SUFFICES ASSUME IInv, [Next]_vars
             PROVE  [Log!Next]_(Log!vars)
  OBVIOUS
<1>1. CASE \E point \in Point : AppendRow(point)
  BY <1>1, AppendMaps DEF Log!Next
<1>2. CASE \E newCapacity \in Request : Resize(newCapacity)
  BY <1>2, ResizeMaps DEF Log!Next
<1>3. CASE Clear
  <2>1. GetAll' = << >>
    BY <1>3 DEF Clear, GetAll
  <2>2. QED
    BY <1>3, <2>1 DEF Clear, Log!Next, Log!Empty
<1>4. CASE UNCHANGED vars
  <2>1. GetAll' = GetAll
    BY <1>4 DEF vars, GetAll, RowsFrom, IsFull
  <2>2. QED
    BY <1>4, <2>1 DEF vars, Log!vars
<1>5. QED
  BY <1>1, <1>2, <1>3, <1>4 DEF Next

\* Whatever its capacity and whatever sequence of Append, Resize and Clear it
\* goes through, the circular buffer behaves as the bounded log.
THEOREM BufferImplementsLog == Spec => ImplementsBoundedLog
  BY InitMaps, AlwaysInv, StepMaps, PTL DEF Spec, ImplementsBoundedLog, Log!Spec
=============================================================================
