------------------------ MODULE MemoryManagerProofs ------------------------
(***************************************************************************)
(* Theorems about MemoryManager, for every set of callers and symbols and  *)
(* every capacity, threshold and minimum with MinCapacity <= ResizeAbove.  *)
(***************************************************************************)
EXTENDS MemoryManager, SequenceTheorems, TLAPS

Floor == Least(MinCapacity, MaxDataPoints)

\* No halving takes a buffer's capacity below the minimum, which is why no
\* append or halving takes its contents below it.
CapacityKept == \A s \in Symbol : Entry(s).cap >= Floor

\* A Cleanup drops points that were added.
DroppedWereAdded == \A s \in Symbol : dropped[s] <= added[s]

IInv == TypeOK /\ CapacityKept /\ DroppedWereAdded /\ KeepsNewest

\* What KeepsNewest says of a history log with capacity cap, a points added and
\* d of them dropped.
Kept(log, cap, a, d) ==
  /\ log \in Seq(1..MaxAdds)
  /\ cap \in 1..MaxDataPoints
  /\ cap >= Floor
  /\ \A i \in 1..Len(log) : log[i] = a - Len(log) + i
  /\ Len(log) >= Least(a - d, Floor)
  /\ Len(log) <= Least(a - d, MaxDataPoints)

Buffer == [log : Seq(1..MaxAdds), cap : 1..MaxDataPoints]

-----------------------------------------------------------------------------
(* Buffers. *)

\* The newest n entries: the tail of that length.
LEMMA NewestIsTail ==
  ASSUME NEW S, NEW q \in Seq(S), NEW n \in Nat
  PROVE  /\ Buffers!Newest(q, n) \in Seq(S)
         /\ Len(Buffers!Newest(q, n)) = Least(Len(q), n)
         /\ \A i \in 1..Least(Len(q), n) :
              Buffers!Newest(q, n)[i] = q[Len(q) - Least(Len(q), n) + i]
<1>1. Len(q) \in Nat /\ \A i \in 1..Len(q) : q[i] \in S
  BY LenProperties, ElementOfSeq
<1>2. CASE n >= Len(q)
  BY <1>1, <1>2 DEF Buffers!Newest, Least
<1>3. CASE n < Len(q)
  <2> DEFINE m == Len(q) - n + 1
  <2>1. m \in Int /\ Len(q) \in Int /\ \A i \in m..Len(q) : q[i] \in S
    BY <1>1, <1>3
  <2>2. /\ SubSeq(q, m, Len(q)) \in Seq(S)
        /\ Len(SubSeq(q, m, Len(q))) = IF m <= Len(q) THEN Len(q) - m + 1 ELSE 0
        /\ \A i \in 1..(Len(q) - m + 1) : SubSeq(q, m, Len(q))[i] = q[m + i - 1]
    BY <2>1, SubSeqProperties
  <2> QED BY <1>1, <1>3, <2>2 DEF Buffers!Newest, Least
<1> QED BY <1>1, <1>2, <1>3

\* A new buffer holds nothing and has the full capacity.
LEMMA NewKept ==
  ASSUME NEW a \in Nat
  PROVE  Kept(<< >>, MaxDataPoints, a, a)
  BY MemoryAssumption DEF Kept, Floor, Least

\* The newest n of a history: still without a hole, and not too few if n is not.
LEMMA NewestKept ==
  ASSUME NEW log, NEW cap, NEW a \in Nat, NEW d \in 0..a, Kept(log, cap, a, d),
         NEW n \in 1..MaxDataPoints, n >= Floor
  PROVE  Kept(Buffers!Newest(log, n), n, a, d)
<1> DEFINE q == Buffers!Newest(log, n)
           m == Least(Len(log), n)
<1>1. MaxDataPoints \in Nat \ {0} /\ MinCapacity \in Nat \ {0}
  BY MemoryAssumption
<1>2. /\ log \in Seq(1..MaxAdds) /\ Len(log) \in Nat
      /\ \A i \in 1..Len(log) : log[i] = a - Len(log) + i
      /\ Len(log) >= Least(a - d, Floor)
      /\ Len(log) <= Least(a - d, MaxDataPoints)
  BY LenProperties DEF Kept
<1>3. /\ q \in Seq(1..MaxAdds)
      /\ Len(q) = m
      /\ \A i \in 1..m : q[i] = log[Len(log) - m + i]
  BY <1>1, <1>2, NewestIsTail
<1> HIDE DEF q
<1>4. m \in Nat /\ m <= Len(log)
  BY <1>1, <1>2 DEF Least
<1>5. \A i \in 1..Len(q) : q[i] = a - Len(q) + i
  <2> SUFFICES ASSUME NEW i \in 1..m PROVE q[i] = a - m + i
    BY <1>3
  <2>1. Len(log) - m + i \in 1..Len(log)
    BY <1>2, <1>4
  <2> HIDE DEF m
  <2>2. q[i] = a - Len(log) + (Len(log) - m + i)
    BY <1>2, <1>3, <2>1
  <2> QED BY <1>2, <1>4, <2>2
<1>6. Len(q) >= Least(a - d, Floor) /\ Len(q) <= Least(a - d, MaxDataPoints)
  BY <1>1, <1>2, <1>3 DEF Floor, Least
<1> QED BY <1>3, <1>5, <1>6 DEF Kept, q

\* The point appended is number a + 1, and at most the oldest leaves.
LEMMA AppendedKept ==
  ASSUME NEW log, NEW cap, NEW a \in 0..MaxAdds, NEW d \in 0..a, a < MaxAdds,
         Kept(log, cap, a, d)
  PROVE  Kept(Buffers!Newest(Append(log, a + 1), cap), cap, a + 1, d)
<1> DEFINE q == Append(log, a + 1)
           n == Least(Len(q), cap)
           c == Buffers!Newest(q, cap)
<1>1. MaxAdds \in Nat /\ MaxDataPoints \in Nat \ {0} /\ MinCapacity \in Nat \ {0}
  BY MemoryAssumption
<1>2. /\ log \in Seq(1..MaxAdds) /\ Len(log) \in Nat
      /\ cap \in 1..MaxDataPoints /\ cap >= Floor
      /\ \A i \in 1..Len(log) : log[i] = a - Len(log) + i
      /\ Len(log) >= Least(a - d, Floor)
      /\ Len(log) <= Least(a - d, MaxDataPoints)
  BY LenProperties DEF Kept
<1>3. a + 1 \in 1..MaxAdds
  BY <1>1
<1>4. /\ q \in Seq(1..MaxAdds) /\ Len(q) = Len(log) + 1
      /\ \A i \in 1..Len(log) : q[i] = log[i]
      /\ q[Len(log) + 1] = a + 1
  BY <1>2, <1>3, AppendProperties
<1> HIDE DEF q
<1>5. \A i \in 1..Len(q) : q[i] = a + 1 - Len(q) + i
  <2> SUFFICES ASSUME NEW i \in 1..Len(q) PROVE q[i] = a + 1 - Len(q) + i
    OBVIOUS
  <2>1. CASE i \in 1..Len(log)
    <3>1. q[i] = a - Len(log) + i
      BY <1>2, <1>4, <2>1
    <3> QED BY <1>1, <1>2, <1>4, <3>1
  <2>2. CASE i = Len(log) + 1
    BY <1>1, <1>2, <1>4, <2>2
  <2> QED BY <1>2, <1>4, <2>1, <2>2
<1>6. /\ c \in Seq(1..MaxAdds)
      /\ Len(c) = n
      /\ \A i \in 1..n : c[i] = q[Len(q) - n + i]
  <2>1. q \in Seq(1..MaxAdds) /\ cap \in Nat
    BY <1>1, <1>2, <1>4
  <2> QED BY <2>1, NewestIsTail
<1> HIDE DEF c
<1>7. n \in Nat /\ n <= Len(q) /\ Len(q) \in Nat
  BY <1>1, <1>2, <1>4 DEF Least
<1>8. \A i \in 1..Len(c) : c[i] = a + 1 - Len(c) + i
  <2> SUFFICES ASSUME NEW i \in 1..n PROVE c[i] = a + 1 - n + i
    BY <1>6
  <2>1. Len(q) - n + i \in 1..Len(q)
    BY <1>7
  <2> HIDE DEF n
  <2>2. c[i] = a + 1 - Len(q) + (Len(q) - n + i)
    BY <1>5, <1>6, <2>1
  <2> QED BY <1>1, <1>7, <2>2
<1>9. Len(c) >= Least(a + 1 - d, Floor) /\ Len(c) <= Least(a + 1 - d, MaxDataPoints)
  <2>1. Len(q) \in Nat /\ Len(q) >= Least(a + 1 - d, Floor) /\ Len(q) <= a + 1 - d
        /\ cap \in Nat /\ cap >= Floor /\ cap <= MaxDataPoints /\ Floor \in Nat
        /\ a + 1 - d \in Nat
    BY <1>1, <1>2, <1>4 DEF Floor, Least
  <2> HIDE DEF n
  <2>2. n = Least(Len(q), cap)
    BY DEF n
  <2> QED BY <1>1, <1>6, <2>1, <2>2 DEF Least
<1> QED BY <1>2, <1>6, <1>8, <1>9 DEF Kept, c, q

\* A buffer above the threshold loses its older half but keeps the minimum.
LEMMA HalvedKept ==
  ASSUME NEW b \in Buffer, NEW a \in Nat, NEW d \in 0..a, Kept(b.log, b.cap, a, d)
  PROVE  Kept(Halved(b).log, Halved(b).cap, a, d) /\ Halved(b) \in Buffer
<1> DEFINE half == IF b.cap \div 2 < MinCapacity THEN MinCapacity ELSE b.cap \div 2
<1>1. /\ MaxDataPoints \in Nat \ {0} /\ MinCapacity \in Nat \ {0}
      /\ ResizeAbove \in Nat /\ MinCapacity <= ResizeAbove
  BY MemoryAssumption
<1>2. CASE b.cap > ResizeAbove
  <2>1. half \in 1..MaxDataPoints /\ half >= Floor
    BY <1>1, <1>2 DEF Floor, Least, Buffer
  <2>2. Kept(Buffers!Newest(b.log, half), half, a, d)
    BY <2>1, NewestKept
  <2>3. Halved(b) = [log |-> Buffers!Newest(b.log, half), cap |-> half]
    BY <1>2 DEF Halved
  <2> HIDE DEF half
  <2> QED BY <2>2, <2>3 DEF Kept, Buffer
<1>3. CASE ~(b.cap > ResizeAbove)
  BY <1>3 DEF Halved
<1> QED BY <1>2, <1>3

-----------------------------------------------------------------------------
(* The inductive invariant. *)

\* The invariant, symbol by symbol.
AllKept ==
  /\ DOMAIN streams \subseteq Symbol /\ streams \in [DOMAIN streams -> Buffer]
  /\ added \in [Symbol -> 0..MaxAdds]
  /\ dropped \in [Symbol -> 0..MaxAdds]
  /\ \A s \in Symbol : /\ dropped[s] <= added[s]
                       /\ Kept(Entry(s).log, Entry(s).cap, added[s], dropped[s])

\* The empty log.
LEMMA EmptyIsSeq ==
  ASSUME NEW S
  PROVE  << >> \in Seq(S)
OBVIOUS

\* The invariant says of every symbol what AllKept says.
LEMMA InvGivesKept == IInv => AllKept
<1> SUFFICES ASSUME IInv PROVE AllKept
  OBVIOUS
<1>1. /\ DOMAIN streams \subseteq Symbol /\ streams \in [DOMAIN streams -> Buffer]
      /\ added \in [Symbol -> 0..MaxAdds] /\ dropped \in [Symbol -> 0..MaxAdds]
  BY DEF IInv, TypeOK, Buffer
<1>2. NewRingBuffer \in Buffer
  BY MemoryAssumption, EmptyIsSeq DEF NewRingBuffer, Buffer
<1>3. \A s \in Symbol : Entry(s) \in Buffer
  BY <1>1, <1>2 DEF Entry
<1>4. ASSUME NEW s \in Symbol
      PROVE  dropped[s] <= added[s] /\ Kept(Entry(s).log, Entry(s).cap, added[s], dropped[s])
  <2>1. Entry(s) \in Buffer
    BY <1>3
  <2> QED BY <2>1 DEF IInv, CapacityKept, DroppedWereAdded, KeepsNewest, Kept, Floor, Buffer
<1> QED BY <1>1, <1>4 DEF AllKept

LEMMA KeptGivesInv ==
  AllKept => CapacityKept /\ DroppedWereAdded /\ KeepsNewest
  BY DEF AllKept, CapacityKept, DroppedWereAdded, KeepsNewest, Kept, Floor

\* The mutex and the callers: who holds the mutex is in the limit check.
MutexTypes ==
  /\ holder \in Caller \union {NoCaller}
  /\ pc \in [Caller -> {"idle", "limit"}]
  /\ holder # NoCaller => pc[holder] = "limit"

LEMMA MutexStep ==
  ASSUME TypeOK, [Next]_vars
  PROVE  MutexTypes'
<1> USE DEF TypeOK, MutexTypes
<1>1. ASSUME NEW c \in Caller, NEW s \in Symbol, AddDataPoint(c, s)
      PROVE  MutexTypes'
  BY <1>1, MemoryAssumption DEF AddDataPoint, CanLock
<1>2. ASSUME NEW c \in Caller, CheckMemoryLimits(c)
      PROVE  MutexTypes'
  BY <1>2 DEF CheckMemoryLimits
<1>3. ASSUME NEW c \in Caller, CleansUp(c)
      PROVE  MutexTypes'
  BY <1>3 DEF CleansUp
<1>4. ASSUME NEW c \in Caller, Cleanup(c)
      PROVE  MutexTypes'
  BY <1>4 DEF Cleanup
<1>5. CASE UNCHANGED vars
  BY <1>5 DEF vars
<1> QED BY <1>1, <1>2, <1>3, <1>4, <1>5 DEF Next

\* A step keeps every history when it keeps that of each symbol.
LEMMA KeptBySymbol ==
  ASSUME DOMAIN streams' \subseteq Symbol, streams' \in [DOMAIN streams' -> Buffer],
         added' \in [Symbol -> 0..MaxAdds], dropped' \in [Symbol -> 0..MaxAdds],
         \A s \in Symbol : /\ dropped'[s] <= added'[s]
                           /\ Kept(Entry(s)'.log, Entry(s)'.cap, added'[s], dropped'[s])
  PROVE  AllKept'
  BY DEF AllKept

\* Every step keeps every history.
LEMMA BufferStep ==
  ASSUME AllKept, [Next]_vars
  PROVE  AllKept'
<1>1. /\ DOMAIN streams \subseteq Symbol /\ streams \in [DOMAIN streams -> Buffer]
      /\ added \in [Symbol -> 0..MaxAdds]
      /\ dropped \in [Symbol -> 0..MaxAdds]
      /\ \A s \in Symbol : /\ dropped[s] <= added[s]
                           /\ Kept(Entry(s).log, Entry(s).cap, added[s], dropped[s])
      /\ MaxAdds \in Nat
  BY MemoryAssumption DEF AllKept
<1>2. NewRingBuffer = [log |-> << >>, cap |-> MaxDataPoints] /\ NewRingBuffer \in Buffer
  BY MemoryAssumption, EmptyIsSeq DEF NewRingBuffer, Buffer
<1>3. \A s \in Symbol : Entry(s) \in Buffer
  BY <1>1, <1>2 DEF Entry
<1>4. ASSUME NEW c \in Caller, NEW s \in Symbol, AddDataPoint(c, s)
      PROVE  AllKept'
  <2> DEFINE log == Buffers!Newest(Append(Entry(s).log, added[s] + 1), Entry(s).cap)
             new == [log |-> log, cap |-> Entry(s).cap]
  <2>1. WithPoint(Entry(s), added[s] + 1) = new
    BY <1>3 DEF WithPoint, Buffer
  <2> HIDE DEF new
  <2>2. /\ added' = [added EXCEPT ![s] = added[s] + 1]
        /\ dropped' = dropped
        /\ added[s] < MaxAdds
    BY <1>1, <1>4 DEF AddDataPoint
  <2>3. streams' = [t \in DOMAIN streams \union {s} |-> IF t = s THEN new ELSE streams[t]]
    BY <1>1, <1>4, <2>1 DEF AddDataPoint, Appended
  <2>4. Kept(log, Entry(s).cap, added[s] + 1, dropped[s])
    BY <1>1, <2>2, AppendedKept
  <2> HIDE DEF log
  <2>5. new \in Buffer /\ new.log = log /\ new.cap = Entry(s).cap
    BY <2>4 DEF Kept, Buffer, new
  <2>6. added[s] + 1 \in 0..MaxAdds /\ dropped[s] <= added[s] + 1
    BY <1>1, <2>2
  <2>7. DOMAIN streams' \subseteq Symbol /\ streams' \in [DOMAIN streams' -> Buffer]
    BY <1>1, <2>3, <2>5
  <2>8. Entry(s)' = new /\ \A t \in Symbol \ {s} : Entry(t)' = Entry(t)
    BY <2>3 DEF Entry
  <2> QED BY <1>1, <2>2, <2>4, <2>5, <2>6, <2>7, <2>8, KeptBySymbol
<1>5. ASSUME NEW c \in Caller, CleansUp(c)
      PROVE  AllKept'
  <2>1. streams' = [s \in DOMAIN streams |-> Halved(streams[s])] /\ added' = added /\ dropped' = dropped
    BY <1>5 DEF CleansUp
  <2>2. \A s \in Symbol : /\ Halved(Entry(s)) \in Buffer
                          /\ Kept(Halved(Entry(s)).log, Halved(Entry(s)).cap,
                                  added[s], dropped[s])
    BY <1>1, <1>3, HalvedKept
  <2>3. \A s \in DOMAIN streams : Halved(Entry(s)) = Halved(streams[s])
    BY DEF Entry
  <2>4. DOMAIN streams' \subseteq Symbol /\ streams' \in [DOMAIN streams' -> Buffer]
    BY <1>1, <2>1, <2>2, <2>3
  <2>5. \A s \in Symbol : Entry(s)' = IF s \in DOMAIN streams THEN Halved(Entry(s)) ELSE Entry(s)
    BY <2>1, <2>3 DEF Entry
  <2>6. \A s \in Symbol : Kept(Entry(s)'.log, Entry(s)'.cap, added[s], dropped[s])
    BY <1>1, <2>2, <2>5
  <2> QED BY <1>1, <2>1, <2>4, <2>6, KeptBySymbol
<1>6. ASSUME NEW c \in Caller, Cleanup(c)
      PROVE  AllKept'
  <2>1. streams' = << >> /\ added' = added /\ dropped' = added
    BY <1>6 DEF Cleanup
  <2>2. \A s \in Symbol : Kept(<< >>, MaxDataPoints, added[s], added[s])
    BY <1>1, NewKept
  <2>3. DOMAIN streams' = {} /\ streams' \in [DOMAIN streams' -> Buffer]
    BY <2>1
  <2>4. \A s \in Symbol : Entry(s)' = NewRingBuffer
    BY <2>3 DEF Entry, NewRingBuffer
  <2> QED BY <1>1, <1>2, <2>1, <2>2, <2>3, <2>4, KeptBySymbol
<1>7. ASSUME UNCHANGED <<streams, added, dropped>>
      PROVE  AllKept'
  BY <1>1, <1>7 DEF AllKept, Entry
<1> QED BY <1>4, <1>5, <1>6, <1>7 DEF Next, vars, CheckMemoryLimits

\* Nothing was added yet.
LEMMA InitInv == Init => IInv
<1> SUFFICES ASSUME Init PROVE IInv
  OBVIOUS
<1>1. Kept(<< >>, MaxDataPoints, 0, 0) /\ MaxAdds \in Nat
  BY NewKept, MemoryAssumption
<1>2. DOMAIN streams = {} /\ streams \in [DOMAIN streams -> Buffer]
  BY DEF Init
<1>3. AllKept
  BY <1>1, <1>2 DEF Init, AllKept, Entry, NewRingBuffer
<1>4. TypeOK
  BY <1>3, MemoryAssumption DEF Init, AllKept, TypeOK, Buffer
<1> QED BY <1>3, <1>4, KeptGivesInv DEF IInv

\* Every step keeps the invariant.
LEMMA NextInv == IInv /\ [Next]_vars => IInv'
<1> SUFFICES ASSUME IInv, [Next]_vars PROVE IInv'
  OBVIOUS
<1>1. AllKept'
  BY InvGivesKept, BufferStep
<1>2. MutexTypes'
  BY MutexStep DEF IInv
<1>3. TypeOK'
  BY <1>1, <1>2 DEF AllKept, MutexTypes, TypeOK, Buffer
<1>4. (CapacityKept /\ DroppedWereAdded /\ KeepsNewest)'
  BY <1>1, KeptGivesInv, PTL
<1> QED BY <1>3, <1>4 DEF IInv

-----------------------------------------------------------------------------
(* Theorems. *)

LEMMA Invariance == Spec => []IInv
  BY InitInv, NextInv, PTL DEF Spec

\* No operation returns with the mutex: whoever holds it between two steps is
\* in the limit check; capacities stay between one and MaxDataPoints.
THEOREM TypeCorrect == Spec => []TypeOK
<1>1. IInv => TypeOK
  BY DEF IInv
<1> QED BY <1>1, Invariance, PTL

\* Whatever the order of appends, halvings and Cleanups, a history is the
\* newest points without a hole and keeps the minimum (memory_manager.go:159).
THEOREM HistoriesKeepNewest == Spec => []KeepsNewest
<1>1. IInv => KeepsNewest
  BY DEF IInv
<1> QED BY <1>1, Invariance, PTL
=============================================================================
