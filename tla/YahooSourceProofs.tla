------------------------- MODULE YahooSourceProofs -------------------------
(***************************************************************************)
(* Theorems about YahooSource, for every set of symbols, every capacity of *)
(* the channel, every number of starts and every length of the market.     *)
(***************************************************************************)
EXTENDS YahooSource, FiniteSetTheorems, SequenceTheorems, TLAPS

Batch == [Symbol -> [from : 0..MaxTs, to : 0..MaxTs]]

\* TypeOK without the WaitGroup's counter, which is in range because it counts
\* the loops.
Types ==
  /\ market \in 1..MaxTs
  /\ symbols \subseteq Symbol
  /\ lastTimestamps \in [Symbol -> 0..MaxTs]
  /\ running \in BOOLEAN
  /\ current \in 0..MaxLoops
  /\ cancelled \subseteq Loop
  /\ quit \in BOOLEAN
  /\ pc \in [Loop -> {"off", "copy", "select", "sleep", "push", "pushing",
                      "aborting", "sync", "leave", "done"}]
  /\ local \in [Loop -> [Symbol -> 0..MaxTs]]
  /\ batch \in [Loop -> Batch]
  /\ waitsOn \in [Loop -> 0..MaxLoops]
  /\ channel \in Seq(Batch)
  /\ Len(channel) <= ChanCap
  /\ sent \in [Symbol -> Seq(1..MaxTs)]
  /\ mainPc \in {"loop", "waiting", "done"}

\* Loops that were started and have not returned.
Alive == {l \in Loop : pc[l] \notin {"off", "done"}}

\* Loops are numbered in the order of their starts; a source runs, and is
\* stopped, only after a start.
StartedInOrder ==
  /\ \A l \in Loop : pc[l] = "off" <=> l > current
  /\ running => current > 0

Counted == wg = Cardinality(Alive)

\* A batch is a stretch of points its loop has marked as seen.
BatchIsSeen ==
  \A l \in Loop : \A s \in Symbol :
    /\ batch[l][s].from <= batch[l][s].to
    /\ pc[l] \in {"push", "pushing"} => batch[l][s].to <= local[l][s]

\* Where a loop holds a copy it has still to write back.
Holding == {"select", "sleep", "push", "pushing", "aborting", "sync"}

\* Every point that was sent is covered by what the source remembers or by the
\* copy of a loop that will write its copy back.
SentIsCovered ==
  \A s \in Symbol : \A i \in 1..Len(sent[s]) :
    \/ sent[s][i] <= lastTimestamps[s]
    \/ \E l \in Loop : pc[l] \in Holding /\ sent[s][i] <= local[l][s]

\* Sequence q counts up by one; its last point is t when it has one.
CountsUpTo(q, t) ==
  /\ \A i \in 1..(Len(q) - 1) : q[i + 1] = q[i] + 1
  /\ Len(q) > 0 => q[Len(q)] = t

\* The newest point sent while the first loop is the only one: the point its
\* batch goes on from, or the one it has seen last.
LastSent(l, s) ==
  IF batch[l][s].to > batch[l][s].from THEN batch[l][s].from ELSE local[l][s]

\* Before the second start the points sent count up, and the only loop goes on
\* from the last one.
FirstLoopCountsUp ==
  current <= 1 =>
    \A s \in Symbol :
      /\ pc[1] \in {"off", "copy"} => sent[s] = << >>
      /\ pc[1] \in {"select", "sleep", "push", "pushing"} =>
           CountsUpTo(sent[s], LastSent(1, s))
      /\ pc[1] \in {"off", "copy", "select", "sleep"} => batch[1] = NoBatch
      /\ pc[1] \in {"push", "pushing"} =>
           (batch[1][s].to > batch[1][s].from => local[1][s] = batch[1][s].to)
      /\ pc[1] = "pushing" => waitsOn[1] = current
      /\ pc[1] = "aborting" => Done(current)
      /\ \A i \in 1..(Len(sent[s]) - 1) : sent[s][i + 1] = sent[s][i] + 1

IInv == /\ Types
        /\ StartedInOrder
        /\ Counted
        /\ ReturnsAfterLoops
        /\ BatchIsSeen
        /\ SentIsCovered
        /\ FirstLoopCountsUp

-----------------------------------------------------------------------------
(* Points. *)

\* The points of a batch are the timestamps after its start up to its end.
LEMMA PointsAreTimestamps ==
  ASSUME NEW b \in Batch, NEW s \in Symbol, b[s].from <= b[s].to
  PROVE  /\ Points(b, s) \in Seq(1..MaxTs)
         /\ Len(Points(b, s)) = b[s].to - b[s].from
         /\ \A i \in 1..(b[s].to - b[s].from) : Points(b, s)[i] = b[s].from + i
<1> DEFINE n == b[s].to - b[s].from
<1>1. b[s].from \in 0..MaxTs /\ b[s].to \in 0..MaxTs /\ MaxTs \in Nat
  BY YahooAssumption DEF Batch
<1>2. n \in Nat
  BY <1>1
<1>3. \A i \in 1..n : b[s].from + i \in 1..MaxTs
  BY <1>1
<1>4. Points(b, s) \in [1..n -> 1..MaxTs]
  BY <1>3 DEF Points
<1>5. Points(b, s) \in Seq(1..MaxTs)
  BY <1>2, <1>4, SeqDef
<1>6. Len(Points(b, s)) = n
  BY <1>2, <1>4, <1>5, LenProperties
<1>7. \A i \in 1..n : Points(b, s)[i] = b[s].from + i
  BY DEF Points
<1> QED BY <1>5, <1>6, <1>7

\* What a push makes of the points sent: the old ones, then the batch's.
LEMMA SentAfterPush ==
  ASSUME Types, BatchIsSeen, NEW l \in Loop, NEW s \in Symbol
  PROVE  LET q == sent[s]
             p == Points(batch[l], s)
         IN  /\ q \in Seq(1..MaxTs) /\ p \in Seq(1..MaxTs)
             /\ q \o p \in Seq(1..MaxTs)
             /\ Len(q) \in Nat
             /\ Len(q \o p) = Len(q) + (batch[l][s].to - batch[l][s].from)
             /\ \A i \in 1..Len(q) : (q \o p)[i] = q[i]
             /\ \A i \in (Len(q) + 1)..Len(q \o p) :
                  (q \o p)[i] = batch[l][s].from + (i - Len(q))
<1> DEFINE q == sent[s]
           p == Points(batch[l], s)
           n == batch[l][s].to - batch[l][s].from
<1>1. batch[l] \in Batch /\ batch[l][s].from <= batch[l][s].to
  BY DEF Types, BatchIsSeen
<1>2. /\ p \in Seq(1..MaxTs) /\ Len(p) = n
      /\ \A i \in 1..n : p[i] = batch[l][s].from + i
  BY <1>1, PointsAreTimestamps
<1>3. batch[l][s].from \in Nat /\ n \in Nat
  BY <1>1, YahooAssumption DEF Batch
<1>4. q \in Seq(1..MaxTs) /\ Len(q) \in Nat
  BY LenProperties DEF Types
<1> HIDE DEF q, p
<1>5. /\ q \o p \in Seq(1..MaxTs)
      /\ Len(q \o p) = Len(q) + Len(p)
      /\ \A i \in 1..(Len(q) + Len(p)) :
           (q \o p)[i] = IF i <= Len(q) THEN q[i] ELSE p[i - Len(q)]
  BY <1>2, <1>4, ConcatProperties
<1> HIDE DEF n
<1>6. \A i \in 1..Len(q) : (q \o p)[i] = q[i]
  BY <1>2, <1>3, <1>4, <1>5
<1>7. ASSUME NEW i \in (Len(q) + 1)..Len(q \o p)
      PROVE  (q \o p)[i] = batch[l][s].from + (i - Len(q))
  <2>1. i - Len(q) \in 1..n /\ i \in 1..(Len(q) + Len(p)) /\ ~(i <= Len(q))
    BY <1>2, <1>3, <1>4, <1>5
  <2> QED BY <1>2, <1>5, <2>1
<1> QED BY <1>2, <1>4, <1>5, <1>6, <1>7 DEF q, p, n

-----------------------------------------------------------------------------
(* The initial states. *)

\* No loop was started and nothing was sent.
LEMMA InitInv == Init => IInv
<1> SUFFICES ASSUME Init PROVE IInv
  OBVIOUS
<1>1. MaxTs \in Nat \ {0} /\ MaxLoops \in Nat \ {0} /\ ChanCap \in Nat \ {0}
  BY YahooAssumption
<1>2. NoBatch \in Batch
  BY <1>1 DEF NoBatch, Batch
<1>3. << >> \in Seq(Batch) /\ << >> \in Seq(1..MaxTs) /\ Len(<< >>) = 0
  BY EmptySeq
<1>4. Types
  <2>1. {0, 1} \subseteq 0..MaxTs /\ 1 \in 1..MaxTs /\ 0 \in 0..MaxTs /\ 0 \in 0..MaxLoops
    BY <1>1
  <2>2. /\ lastTimestamps \in [Symbol -> 0..MaxTs]
        /\ local \in [Loop -> [Symbol -> 0..MaxTs]]
        /\ batch \in [Loop -> Batch]
        /\ waitsOn \in [Loop -> 0..MaxLoops]
        /\ sent \in [Symbol -> Seq(1..MaxTs)]
    BY <1>2, <1>3, <2>1 DEF Init
  <2>3. channel \in Seq(Batch) /\ Len(channel) <= ChanCap
    BY <1>1, <1>3 DEF Init
  <2> QED BY <1>1, <2>1, <2>2, <2>3 DEF Init, Types
<1>5. StartedInOrder /\ ReturnsAfterLoops
  BY <1>1 DEF Init, StartedInOrder, ReturnsAfterLoops, Loop
<1>6. Counted
  <2>1. Alive = {}
    BY DEF Init, Alive
  <2> QED BY <2>1, FS_EmptySet DEF Init, Counted
<1>7. BatchIsSeen
  BY DEF Init, BatchIsSeen, NoBatch
<1>8. SentIsCovered /\ FirstLoopCountsUp
  BY <1>1, <1>3 DEF Init, SentIsCovered, FirstLoopCountsUp, Loop
<1> QED BY <1>4, <1>5, <1>6, <1>7, <1>8 DEF IInv

-----------------------------------------------------------------------------
(* The steps. *)

\* Every step keeps the types.
LEMMA TypesStep ==
  ASSUME Types, StartedInOrder, BatchIsSeen, [Next]_vars
  PROVE  Types'
<1>1. MaxTs \in Nat \ {0} /\ MaxLoops \in Nat \ {0} /\ ChanCap \in Nat \ {0}
  BY YahooAssumption
<1>2. NoBatch \in Batch
  BY <1>1 DEF NoBatch, Batch
<1> USE DEF Types
<1>3. CASE MarketMoves
  BY <1>1, <1>3 DEF MarketMoves, srcVars, loopVars, outVars
<1>4. CASE Start
  <2>1. current' \in Loop /\ current' \in 0..MaxLoops
    BY <1>1, <1>4 DEF Start, Loop
  <2> QED BY <1>4, <2>1 DEF Start, outVars
<1>5. CASE Stop
  <2>1. current \in Loop
    BY <1>1, <1>5 DEF Stop, StartedInOrder, Loop
  <2> QED BY <1>5, <2>1 DEF Stop, loopVars, outVars
<1>6. ASSUME NEW new \in SUBSET Symbol, UpdateSymbols(new)
      PROVE  Types'
  BY <1>6 DEF UpdateSymbols, loopVars, outVars
<1>7. ASSUME NEW l \in Loop, Copies(l)
      PROVE  Types'
  BY <1>7 DEF Copies, srcVars, outVars
<1>8. ASSUME NEW l \in Loop, SeesDone(l) \/ Sleeps(l) \/ Wakes(l)
      PROVE  Types'
  BY <1>8 DEF SeesDone, Sleeps, Wakes, srcVars, outVars
<1>9. ASSUME NEW l \in Loop, Fetches(l)
      PROVE  Types'
  <2>1. PICK ok \in SUBSET symbols :
          /\ batch' = [batch EXCEPT ![l] = Fresh(l, ok)]
          /\ local' = [local EXCEPT ![l] =
                         [s \in Symbol |-> IF batch'[l][s].to > @[s]
                                             THEN batch'[l][s].to ELSE @[s]]]
    BY <1>9 DEF Fetches
  <2>2. Fresh(l, ok) \in Batch
    BY <1>1 DEF Fresh, Batch
  <2>3. batch' \in [Loop -> Batch] /\ batch'[l] = Fresh(l, ok)
    BY <2>1, <2>2
  <2>4. \A s \in Symbol : batch'[l][s].to \in 0..MaxTs
    BY <2>2, <2>3 DEF Batch
  <2>5. local' \in [Loop -> [Symbol -> 0..MaxTs]]
    BY <2>1, <2>4
  <2> QED BY <1>9, <2>3, <2>5 DEF Fetches, srcVars, outVars
<1>10. ASSUME NEW l \in Loop, EntersPush(l)
       PROVE  Types'
  BY <1>10 DEF EntersPush, srcVars, outVars
<1>11. ASSUME NEW l \in Loop, Pushes(l)
       PROVE  Types'
  <2>1. channel' \in Seq(Batch) /\ Len(channel') <= ChanCap
    BY <1>1, <1>11, AppendProperties, LenProperties DEF Pushes
  <2>2. sent' \in [Symbol -> Seq(1..MaxTs)]
    BY <1>11, SentAfterPush DEF Pushes
  <2>3. batch' \in [Loop -> Batch] /\ waitsOn' \in [Loop -> 0..MaxLoops]
    BY <1>1, <1>2, <1>11 DEF Pushes
  <2> QED BY <1>11, <2>1, <2>2, <2>3 DEF Pushes, srcVars
<1>12. ASSUME NEW l \in Loop, Aborts(l)
       PROVE  Types'
  BY <1>1, <1>2, <1>12 DEF Aborts, srcVars, outVars
<1>18. ASSUME NEW l \in Loop, ReadsErr(l)
       PROVE  Types'
  BY <1>18 DEF ReadsErr, srcVars, outVars
<1>13. ASSUME NEW l \in Loop, Syncs(l)
       PROVE  Types'
  <2>1. lastTimestamps' \in [Symbol -> 0..MaxTs]
    BY <1>13 DEF Syncs
  <2> QED BY <1>13, <2>1 DEF Syncs, outVars
<1>14. ASSUME NEW l \in Loop, Leaves(l)
       PROVE  Types'
  BY <1>14 DEF Leaves, srcVars, outVars
<1>15. CASE MainReceives
  <2>1. channel' \in Seq(Batch) /\ Len(channel') <= ChanCap
    BY <1>1, <1>15, HeadTailProperties, LenProperties DEF MainReceives
  <2> QED BY <1>15, <2>1 DEF MainReceives, srcVars, loopVars
<1>16. CASE MainQuits \/ MainReturns
  BY <1>16 DEF MainQuits, MainReturns, srcVars, loopVars, outVars
<1>17. CASE UNCHANGED vars
  BY <1>17 DEF vars
<1> QED BY <1>3, <1>4, <1>5, <1>6, <1>7, <1>8, <1>9, <1>10, <1>11, <1>12, <1>13,
           <1>14, <1>15, <1>16, <1>17, <1>18 DEF Next, RunLoop, Main

\* How a step moves the program counters: a start takes the next loop from "off"
\* to "copy", and a loop only moves from a counter other than "off" and "done".
LEMMA CountersStep ==
  ASSUME Types, [Next]_vars
  PROVE  \/ pc' = pc /\ current' = current /\ wg' = wg
         \/ /\ current < MaxLoops /\ current' = current + 1
            /\ pc' = [pc EXCEPT ![current + 1] = "copy"]
            /\ wg' = wg + 1
         \/ /\ current' = current /\ wg' = wg
            /\ \E l \in Loop : \E to \in {"select", "sleep", "push", "pushing",
                                          "aborting", "sync", "leave"} :
                 /\ pc[l] \notin {"off", "done"}
                 /\ pc' = [pc EXCEPT ![l] = to]
         \/ /\ current' = current /\ wg' = wg - 1
            /\ \E l \in Loop : /\ pc[l] = "leave"
                               /\ pc' = [pc EXCEPT ![l] = "done"]
<1>1. CASE MarketMoves \/ Stop \/ Main \/ UNCHANGED vars
  BY <1>1 DEF MarketMoves, Stop, Main, MainReceives, MainQuits, MainReturns,
              vars, srcVars, loopVars, outVars
<1>2. ASSUME NEW new \in SUBSET Symbol, UpdateSymbols(new)
      PROVE  pc' = pc /\ current' = current /\ wg' = wg
  BY <1>2 DEF UpdateSymbols, loopVars
<1>3. CASE Start
  BY <1>3 DEF Start
<1>4. ASSUME NEW l \in Loop, RunLoop(l), ~Leaves(l)
      PROVE  /\ current' = current /\ wg' = wg
             /\ \E to \in {"select", "sleep", "push", "pushing", "aborting",
                             "sync", "leave"} :
                  /\ pc[l] \notin {"off", "done"}
                  /\ pc' = [pc EXCEPT ![l] = to]
  BY <1>4 DEF RunLoop, Copies, SeesDone, Sleeps, Wakes, Fetches, EntersPush,
              Pushes, Aborts, ReadsErr, Syncs, srcVars
<1>5. ASSUME NEW l \in Loop, Leaves(l)
      PROVE  /\ current' = current /\ wg' = wg - 1 /\ pc[l] = "leave"
             /\ pc' = [pc EXCEPT ![l] = "done"]
  BY <1>5 DEF Leaves, srcVars
<1> QED BY <1>1, <1>2, <1>3, <1>4, <1>5 DEF Next

\* Every step starts loops in order.
LEMMA StartedInOrderStep ==
  ASSUME Types, StartedInOrder, [Next]_vars
  PROVE  StartedInOrder'
<1>1. current \in 0..MaxLoops /\ MaxLoops \in Nat \ {0}
  BY YahooAssumption DEF Types
<1>2. ASSUME NEW k \in Loop
      PROVE  pc'[k] = "off" <=> k > current'
  <2>1. pc[k] = "off" <=> k > current
    BY DEF StartedInOrder
  <2>2. k \in Int /\ DOMAIN pc = Loop
    BY DEF Loop, Types
  <2>3. CASE /\ current < MaxLoops /\ current' = current + 1
             /\ pc' = [pc EXCEPT ![current + 1] = "copy"]
    <3>1. pc'[k] = IF k = current + 1 THEN "copy" ELSE pc[k]
      BY <2>2, <2>3
    <3> QED BY <1>1, <2>1, <2>2, <2>3, <3>1
  <2>4. CASE current' = current /\ pc'[k] = pc[k]
    BY <2>1, <2>4
  <2>5. CASE current' = current /\ pc[k] # "off" /\ pc'[k] # "off"
    BY <2>1, <2>5
  <2> QED BY <2>2, <2>3, <2>4, <2>5, CountersStep
<1>3. running' => (running /\ current' = current) \/ Start
  BY DEF Next, MarketMoves, Stop, UpdateSymbols, RunLoop, Copies, SeesDone, Sleeps,
         Wakes, Fetches, EntersPush, Pushes, Aborts, ReadsErr, Syncs, Leaves, Main,
         MainReceives, MainQuits, MainReturns, vars, srcVars
<1>4. Start => current' > 0
  BY <1>1 DEF Start
<1> QED BY <1>2, <1>3, <1>4 DEF StartedInOrder

\* The WaitGroup's counter is the number of loops alive, and is in range.
LEMMA CountedInRange ==
  ASSUME Counted
  PROVE  /\ IsFiniteSet(Alive)
         /\ wg \in 0..MaxLoops
         /\ wg = 0 => Alive = {}
<1>1. IsFiniteSet(Loop) /\ Cardinality(Loop) = MaxLoops
  BY YahooAssumption, FS_Interval DEF Loop
<1>2. Alive \in SUBSET Loop
  BY DEF Alive
<1>3. IsFiniteSet(Alive) /\ Cardinality(Alive) <= MaxLoops
  BY <1>1, <1>2, FS_Subset
<1>4. Cardinality(Alive) \in Nat
  BY <1>3, FS_CardinalityType
<1>5. Cardinality(Alive) = 0 => Alive = {}
  BY <1>3, FS_EmptySet
<1> QED BY <1>3, <1>4, <1>5, YahooAssumption DEF Counted

\* Every loop is counted when it starts and given back when it ends.
LEMMA CountedStep ==
  ASSUME Types, StartedInOrder, Counted, [Next]_vars
  PROVE  Counted'
<1>1. IsFiniteSet(Alive) /\ wg \in 0..MaxLoops
  BY CountedInRange
<1>2. current \in 0..MaxLoops /\ MaxLoops \in Nat \ {0}
  BY YahooAssumption DEF Types
<1>3. CASE pc' = pc /\ wg' = wg
  BY <1>3 DEF Counted, Alive
<1>4. CASE /\ current < MaxLoops
           /\ pc' = [pc EXCEPT ![current + 1] = "copy"]
           /\ wg' = wg + 1
  <2>1. current + 1 \in Loop /\ current + 1 \notin Alive
    BY <1>2, <1>4 DEF StartedInOrder, Alive, Loop
  <2>2. Alive' = Alive \union {current + 1}
    BY <1>4, <2>1 DEF Alive, Types
  <2> QED BY <1>1, <1>4, <2>1, <2>2, FS_AddElement DEF Counted
<1>5. CASE /\ wg' = wg
           /\ \E l \in Loop : \E to \in {"select", "sleep", "push", "pushing",
                                         "aborting", "sync", "leave"} :
                /\ pc[l] \notin {"off", "done"}
                /\ pc' = [pc EXCEPT ![l] = to]
  <2>1. Alive' = Alive
    BY <1>5 DEF Alive, Types
  <2> QED BY <1>5, <2>1 DEF Counted
<1>6. CASE /\ wg' = wg - 1
           /\ \E l \in Loop : pc[l] = "leave" /\ pc' = [pc EXCEPT ![l] = "done"]
  <2>1. PICK l \in Loop : pc[l] = "leave" /\ pc' = [pc EXCEPT ![l] = "done"]
    BY <1>6
  <2>2. l \in Alive /\ Alive' = Alive \ {l}
    BY <2>1 DEF Alive, Types
  <2> QED BY <1>1, <1>6, <2>2, FS_RemoveElement DEF Counted
<1> QED BY <1>3, <1>4, <1>5, <1>6, CountersStep

\* Main returns only when the counter is zero, and nothing starts afterwards.
LEMMA ReturnsStep ==
  ASSUME Types, Counted, ReturnsAfterLoops, [Next]_vars
  PROVE  ReturnsAfterLoops'
<1>1. CASE MainReturns
  <2>1. Alive = {}
    BY <1>1, CountedInRange DEF MainReturns
  <2> QED BY <1>1, <2>1 DEF MainReturns, ReturnsAfterLoops, Alive, loopVars
<1>2. CASE MainReceives \/ MainQuits
  BY <1>2 DEF MainReceives, MainQuits, ReturnsAfterLoops
<1>3. CASE UNCHANGED vars
  BY <1>3 DEF ReturnsAfterLoops, vars
<1>4. CASE Up /\ mainPc' = mainPc
  BY <1>4 DEF Up, ReturnsAfterLoops
<1>5. Next => MainReturns \/ MainReceives \/ MainQuits \/ (Up /\ mainPc' = mainPc)
  BY DEF Next, MarketMoves, Start, Stop, UpdateSymbols, RunLoop, Copies, SeesDone,
         Sleeps, Wakes, Fetches, EntersPush, Pushes, Aborts, ReadsErr, Syncs, Leaves, Main
<1> QED BY <1>1, <1>2, <1>3, <1>4, <1>5

\* A batch stays a stretch of points its loop has marked as seen.
LEMMA BatchStep ==
  ASSUME Types, BatchIsSeen, [Next]_vars
  PROVE  BatchIsSeen'
<1>1. \A l \in Loop : local[l] \in [Symbol -> 0..MaxTs] /\ batch[l] \in Batch
  BY DEF Types
<1>2. MaxTs \in Nat /\ market \in 0..MaxTs
  BY YahooAssumption DEF Types
<1>3. ASSUME UNCHANGED <<pc, local, batch>>
      PROVE  BatchIsSeen'
  BY <1>3 DEF BatchIsSeen
<1>4. CASE Start
  BY <1>4 DEF Start, BatchIsSeen, Types
<1>5. ASSUME NEW l \in Loop, Fetches(l)
      PROVE  BatchIsSeen'
  <2>1. PICK ok \in SUBSET symbols :
          /\ batch' = [batch EXCEPT ![l] = Fresh(l, ok)]
          /\ local' = [local EXCEPT ![l] =
                         [s \in Symbol |-> IF batch'[l][s].to > @[s]
                                             THEN batch'[l][s].to ELSE @[s]]]
    BY <1>5 DEF Fetches
  <2>2. pc' = [pc EXCEPT ![l] = "push"]
    BY <1>5 DEF Fetches
  <2> SUFFICES ASSUME NEW k \in Loop, NEW s \in Symbol
               PROVE  /\ batch'[k][s].from <= batch'[k][s].to
                      /\ pc'[k] \in {"push", "pushing"} => batch'[k][s].to <= local'[k][s]
    BY DEF BatchIsSeen
  <2>3. CASE k = l
    <3>1. batch'[l] = Fresh(l, ok)
      BY <2>1 DEF Types
    <3>2. local'[l][s] = IF batch'[l][s].to > local[l][s]
                           THEN batch'[l][s].to ELSE local[l][s]
      BY <2>1 DEF Types
    <3>3. local[l][s] \in 0..MaxTs
      BY <1>1
    <3>4. /\ batch'[l][s].from \in Nat /\ batch'[l][s].to \in Nat
          /\ batch'[l][s].from <= batch'[l][s].to
      BY <1>2, <3>1, <3>3 DEF Fresh
    <3> QED BY <2>3, <3>2, <3>3, <3>4
  <2>4. CASE k # l
    BY <2>1, <2>2, <2>4 DEF BatchIsSeen, Types
  <2> QED BY <2>3, <2>4
<1>6. ASSUME NEW l \in Loop, EntersPush(l)
      PROVE  BatchIsSeen'
  BY <1>6 DEF EntersPush, BatchIsSeen, Types
<1>7. ASSUME NEW l \in Loop, Pushes(l) \/ Aborts(l)
      PROVE  BatchIsSeen'
  <2>1. /\ batch' = [batch EXCEPT ![l] = NoBatch]
        /\ pc' = [pc EXCEPT ![l] = pc'[l]] /\ pc'[l] \in {"select", "aborting"}
        /\ local' = local
    BY <1>7 DEF Pushes, Aborts, ReadsErr, Types
  <2>2. \A s \in Symbol : NoBatch[s].from <= NoBatch[s].to
    BY DEF NoBatch
  <2> QED BY <2>1, <2>2 DEF BatchIsSeen, Types
<1>8. ASSUME NEW l \in Loop, Copies(l)
      PROVE  BatchIsSeen'
  BY <1>8 DEF Copies, BatchIsSeen, Types
<1>9. ASSUME NEW l \in Loop,
             \/ SeesDone(l) \/ Sleeps(l) \/ Wakes(l)
             \/ ReadsErr(l) \/ Syncs(l) \/ Leaves(l)
      PROVE  BatchIsSeen'
  BY <1>9 DEF SeesDone, Sleeps, Wakes, ReadsErr, Syncs, Leaves, BatchIsSeen, Types
<1>10. CASE MarketMoves \/ Stop \/ Main \/ UNCHANGED vars
  BY <1>3, <1>10 DEF MarketMoves, Stop, Main, MainReceives, MainQuits, MainReturns,
                     vars, loopVars
<1>11. ASSUME NEW new \in SUBSET Symbol, UpdateSymbols(new)
       PROVE  BatchIsSeen'
  BY <1>3, <1>11 DEF UpdateSymbols, loopVars
<1> QED BY <1>4, <1>5, <1>6, <1>7, <1>8, <1>9, <1>10, <1>11 DEF Next, RunLoop

\* Timestamps, the source's and those of a copy still to be written back, only
\* grow; a loop gives its copy up only by writing it back.
LEMMA TimestampsGrow ==
  ASSUME Types, StartedInOrder, [Next]_vars
  PROVE  /\ \A s \in Symbol : lastTimestamps'[s] >= lastTimestamps[s]
         /\ \A l \in Loop : pc[l] \in Holding =>
              /\ \A s \in Symbol : local[l][s] <= local'[l][s]
              /\ \/ pc'[l] \in Holding
                 \/ \A s \in Symbol : local[l][s] <= lastTimestamps'[s]
<1> DEFINE Grown == /\ \A s \in Symbol : lastTimestamps'[s] >= lastTimestamps[s]
                    /\ \A l \in Loop : pc[l] \in Holding =>
                         /\ \A s \in Symbol : local[l][s] <= local'[l][s]
                         /\ \/ pc'[l] \in Holding
                            \/ \A s \in Symbol : local[l][s] <= lastTimestamps'[s]
<1>1. /\ \A s \in Symbol : lastTimestamps[s] \in Nat
      /\ \A l \in Loop : \A s \in Symbol : local[l][s] \in Nat
      /\ DOMAIN pc = Loop /\ DOMAIN local = Loop
  BY YahooAssumption DEF Types
<1>2. ASSUME UNCHANGED <<lastTimestamps, pc, local>>
      PROVE  Grown
  BY <1>1, <1>2
<1>3. CASE Start
  <2>1. current' \in Loop /\ pc[current'] = "off"
    BY <1>3, YahooAssumption DEF Start, Loop, Types, StartedInOrder
  <2> QED BY <1>1, <1>3, <2>1 DEF Start, Holding
<1>4. ASSUME NEW l \in Loop, Copies(l)
      PROVE  Grown
  BY <1>1, <1>4 DEF Copies, srcVars, Holding
<1>5. ASSUME NEW l \in Loop,
             \/ SeesDone(l) \/ Sleeps(l) \/ Wakes(l) \/ EntersPush(l)
             \/ Pushes(l) \/ Aborts(l) \/ ReadsErr(l) \/ Leaves(l)
      PROVE  Grown
  <2>1. lastTimestamps' = lastTimestamps /\ local' = local
    BY <1>5 DEF SeesDone, Sleeps, Wakes, EntersPush, Pushes, Aborts, ReadsErr, Leaves, srcVars
  <2>2. \/ pc[l] \in Holding /\ \E to \in Holding : pc' = [pc EXCEPT ![l] = to]
        \/ pc[l] \notin Holding /\ pc' = [pc EXCEPT ![l] = "done"]
    BY <1>5 DEF SeesDone, Sleeps, Wakes, EntersPush, Pushes, Aborts, ReadsErr, Leaves, Holding
  <2>3. \A k \in Loop : pc[k] \in Holding => pc'[k] \in Holding
    BY <1>1, <2>2
  <2> QED BY <1>1, <2>1, <2>3
<1>6. ASSUME NEW l \in Loop, Fetches(l)
      PROVE  Grown
  <2>1. PICK ok \in SUBSET symbols :
          /\ batch' = [batch EXCEPT ![l] = Fresh(l, ok)]
          /\ local' = [local EXCEPT ![l] =
                         [s \in Symbol |-> IF batch'[l][s].to > @[s]
                                             THEN batch'[l][s].to ELSE @[s]]]
    BY <1>6 DEF Fetches
  <2>2. batch'[l] = Fresh(l, ok)
    BY <2>1 DEF Types
  <2>3. \A s \in Symbol : batch'[l][s].to \in Nat
    BY <2>2, YahooAssumption DEF Fresh, Types
  <2>4. \A k \in Loop : \A s \in Symbol : local[k][s] <= local'[k][s]
    BY <1>1, <2>1, <2>3
  <2> QED BY <1>1, <1>6, <2>4 DEF Fetches, srcVars, Holding
<1>7. ASSUME NEW l \in Loop, Syncs(l)
      PROVE  Grown
  <2>1. \A s \in Symbol : /\ lastTimestamps'[s] >= lastTimestamps[s]
                          /\ local[l][s] <= lastTimestamps'[s]
    BY <1>1, <1>7 DEF Syncs
  <2> QED BY <1>1, <1>7, <2>1 DEF Syncs, Holding
<1>8. CASE MarketMoves \/ Stop \/ Main \/ UNCHANGED vars
  BY <1>2, <1>8 DEF MarketMoves, Stop, Main, MainReceives, MainQuits, MainReturns,
                    vars, srcVars, loopVars
<1>9. ASSUME NEW new \in SUBSET Symbol, UpdateSymbols(new)
      PROVE  Grown
  BY <1>2, <1>9 DEF UpdateSymbols, loopVars
<1> QED BY <1>3, <1>4, <1>5, <1>6, <1>7, <1>8, <1>9 DEF Next, RunLoop

\* Only a push changes what was sent.
LEMMA SentChanges ==
  ASSUME [Next]_vars
  PROVE  sent' = sent \/ \E l \in Loop : Pushes(l)
BY DEF Next, MarketMoves, Start, Stop, UpdateSymbols, RunLoop, Copies, SeesDone,
       Sleeps, Wakes, Fetches, EntersPush, Aborts, ReadsErr, Syncs, Leaves, Main, MainReceives,
       MainQuits, MainReturns, vars, outVars

\* Every point sent stays covered.
LEMMA SentIsCoveredStep ==
  ASSUME Types, Types', StartedInOrder, BatchIsSeen, SentIsCovered, [Next]_vars
  PROVE  SentIsCovered'
<1>1. /\ \A s \in Symbol : lastTimestamps[s] \in Nat /\ lastTimestamps'[s] \in Nat
      /\ \A l \in Loop : \A s \in Symbol : local[l][s] \in Nat /\ local'[l][s] \in Nat
  BY YahooAssumption DEF Types
<1>2. \A s \in Symbol : \A t \in Nat :
        \/ t <= lastTimestamps[s]
        \/ \E l \in Loop : pc[l] \in Holding /\ t <= local[l][s]
        => \/ t <= lastTimestamps'[s]
           \/ \E l \in Loop : pc'[l] \in Holding /\ t <= local'[l][s]
  <2> SUFFICES ASSUME NEW s \in Symbol, NEW t \in Nat
               PROVE  /\ t <= lastTimestamps[s] => t <= lastTimestamps'[s]
                      /\ \A l \in Loop : pc[l] \in Holding /\ t <= local[l][s] =>
                           \/ t <= lastTimestamps'[s]
                           \/ pc'[l] \in Holding /\ t <= local'[l][s]
    OBVIOUS
  <2> QED BY <1>1, TimestampsGrow
<1>3. \A s \in Symbol : \A i \in 1..Len(sent[s]) : sent[s][i] \in Nat
  <2> SUFFICES ASSUME NEW s \in Symbol, NEW i \in 1..Len(sent[s])
               PROVE  sent[s][i] \in Nat
    OBVIOUS
  <2>1. sent[s] \in Seq(1..MaxTs)
    BY DEF Types
  <2>2. sent[s][i] \in 1..MaxTs
    BY <2>1, ElementOfSeq
  <2> QED BY <2>2, YahooAssumption
<1>4. CASE sent' = sent
  BY <1>2, <1>3, <1>4 DEF SentIsCovered
<1>5. ASSUME NEW l \in Loop, Pushes(l)
      PROVE  SentIsCovered'
  <2> SUFFICES ASSUME NEW s \in Symbol, NEW i \in 1..Len(sent'[s])
               PROVE  \/ sent'[s][i] <= lastTimestamps'[s]
                      \/ \E k \in Loop : pc'[k] \in Holding /\ sent'[s][i] <= local'[k][s]
    BY DEF SentIsCovered
  <2> DEFINE q == sent[s]
             p == Points(batch[l], s)
             n == batch[l][s].to - batch[l][s].from
  <2>1. sent'[s] = q \o p
    BY <1>5 DEF Pushes
  <2>2. /\ Len(q) \in Nat /\ Len(q \o p) = Len(q) + n
        /\ \A j \in 1..Len(q) : (q \o p)[j] = q[j]
        /\ \A j \in (Len(q) + 1)..Len(q \o p) :
             (q \o p)[j] = batch[l][s].from + (j - Len(q))
    BY SentAfterPush
  <2>3. batch[l][s].from \in Nat /\ batch[l][s].to \in Nat /\ batch[l][s].to <= local[l][s]
    BY <1>5, YahooAssumption DEF Types, Batch, BatchIsSeen, Pushes
  <2>4. pc'[l] \in Holding /\ local' = local
    BY <1>5 DEF Pushes, Types, Holding
  <2>5. CASE i \in 1..Len(q)
    <3>1. sent'[s][i] = sent[s][i]
      BY <2>1, <2>2, <2>5
    <3> QED BY <1>2, <1>3, <2>5, <3>1 DEF SentIsCovered
  <2>6. CASE i \in (Len(q) + 1)..Len(q \o p)
    <3>1. sent'[s][i] = batch[l][s].from + (i - Len(q))
      BY <2>1, <2>2, <2>6
    <3> HIDE DEF q, p
    <3>2. sent'[s][i] <= local[l][s]
      BY <1>1, <2>2, <2>3, <2>6, <3>1
    <3> QED BY <2>4, <3>2
  <2>7. i \in 1..Len(q \o p)
    BY <2>1
  <2> HIDE DEF q, p, n
  <2>8. n \in Int
    BY <2>3 DEF n
  <2> QED BY <2>2, <2>5, <2>6, <2>7, <2>8
<1> QED BY <1>4, <1>5, SentChanges

\* What a push makes of a sequence that counts up to where the batch begins.
LEMMA PushCountsUp ==
  ASSUME Types, BatchIsSeen, NEW l \in Loop, NEW s \in Symbol,
         CountsUpTo(sent[s], LastSent(l, s)),
         batch[l][s].to > batch[l][s].from => local[l][s] = batch[l][s].to
  PROVE  CountsUpTo(sent[s] \o Points(batch[l], s), local[l][s])
<1> DEFINE q == sent[s]
           p == Points(batch[l], s)
           from == batch[l][s].from
           n == batch[l][s].to - from
<1>1. /\ Len(q) \in Nat /\ Len(q \o p) = Len(q) + n
      /\ \A j \in 1..Len(q) : (q \o p)[j] = q[j]
      /\ \A j \in (Len(q) + 1)..Len(q \o p) : (q \o p)[j] = from + (j - Len(q))
  BY SentAfterPush
<1>2. from \in Nat /\ batch[l][s].to \in Nat /\ n \in Nat
  BY YahooAssumption DEF Types, Batch, BatchIsSeen
<1>3. /\ \A i \in 1..(Len(q) - 1) : q[i + 1] = q[i] + 1
      /\ Len(q) > 0 => q[Len(q)] = IF n > 0 THEN from ELSE local[l][s]
      /\ n > 0 => local[l][s] = from + n
  BY <1>2 DEF CountsUpTo, LastSent
<1> DEFINE r == q \o p
<1>4. SUFFICES /\ \A i \in 1..(Len(r) - 1) : r[i + 1] = r[i] + 1
               /\ Len(r) > 0 => r[Len(r)] = local[l][s]
  BY DEF CountsUpTo
<1>5. /\ Len(r) = Len(q) + n
      /\ \A j \in 1..Len(q) : r[j] = q[j]
      /\ \A j \in (Len(q) + 1)..Len(r) : r[j] = from + (j - Len(q))
  BY <1>1
<1> HIDE DEF q, p, from, n, r
<1>6. ASSUME NEW i \in 1..(Len(r) - 1)
      PROVE  r[i + 1] = r[i] + 1
  <2>1. CASE i < Len(q)
    <3>1. i \in 1..Len(q) /\ i + 1 \in 1..Len(q) /\ i \in 1..(Len(q) - 1)
      BY <1>1, <1>2, <1>5, <2>1
    <3> QED BY <1>3, <1>5, <3>1
  <2>2. CASE i = Len(q)
    <3>1. /\ Len(q) \in 1..Len(q) /\ Len(q) + 1 \in (Len(q) + 1)..Len(r)
          /\ n > 0 /\ Len(q) > 0
      BY <1>1, <1>2, <1>5, <2>2
    <3>2. r[Len(q)] = from /\ r[Len(q) + 1] = from + (Len(q) + 1 - Len(q))
      BY <1>3, <1>5, <3>1
    <3> QED BY <1>1, <1>2, <2>2, <3>2
  <2>3. CASE i > Len(q)
    <3>1. i \in (Len(q) + 1)..Len(r) /\ i + 1 \in (Len(q) + 1)..Len(r)
      BY <1>1, <1>2, <1>5, <2>3
    <3>2. r[i] = from + (i - Len(q)) /\ r[i + 1] = from + (i + 1 - Len(q))
      BY <1>5, <3>1
    <3> QED BY <1>1, <1>2, <3>2
  <2> QED BY <1>1, <1>2, <1>5, <2>1, <2>2, <2>3
<1>7. ASSUME Len(r) > 0
      PROVE  r[Len(r)] = local[l][s]
  <2>1. CASE n = 0
    BY <1>1, <1>2, <1>3, <1>5, <1>7, <2>1
  <2>2. CASE n > 0
    <3>1. Len(r) \in (Len(q) + 1)..Len(r)
      BY <1>1, <1>2, <1>5, <2>2
    <3>2. r[Len(r)] = from + (Len(r) - Len(q))
      BY <1>5, <3>1
    <3> QED BY <1>1, <1>2, <1>3, <1>5, <2>2, <3>2
  <2> QED BY <1>2, <2>1, <2>2
<1> QED BY <1>6, <1>7

\* Before the second start only the first loop moves.
LEMMA OnlyFirstLoop ==
  ASSUME Types, StartedInOrder, current <= 1, NEW l \in Loop, RunLoop(l)
  PROVE  l = 1 /\ pc[1] # "off"
<1>1. pc[l] # "off"
  BY DEF RunLoop, Copies, SeesDone, Sleeps, Wakes, Fetches, EntersPush, Pushes,
         Aborts, ReadsErr, Syncs, Leaves
<1> QED BY <1>1, YahooAssumption DEF StartedInOrder, Types, Loop

\* Until the second start the points sent count up.
LEMMA FirstLoopStep ==
  ASSUME Types, StartedInOrder, BatchIsSeen, FirstLoopCountsUp, [Next]_vars
  PROVE  FirstLoopCountsUp'
<1> SUFFICES ASSUME current' <= 1 PROVE FirstLoopCountsUp'
  BY DEF FirstLoopCountsUp
<1>1. /\ current \in 0..MaxLoops /\ MaxLoops \in Nat \ {0} /\ 1 \in Loop /\ 1 \in Nat
      /\ pc \in [Loop -> {"off", "copy", "select", "sleep", "push", "pushing",
                          "aborting", "sync", "leave", "done"}]
      /\ DOMAIN batch = Loop /\ DOMAIN local = Loop /\ DOMAIN waitsOn = Loop
  BY YahooAssumption DEF Types, Loop
<1>2. current <= 1
  <2>1. current' = current \/ current' = current + 1
    BY CountersStep
  <2> QED BY <1>1, <2>1
<1> DEFINE Inv(s) ==
      /\ pc[1] \in {"off", "copy"} => sent[s] = << >>
      /\ pc[1] \in {"select", "sleep", "push", "pushing"} =>
           CountsUpTo(sent[s], LastSent(1, s))
      /\ pc[1] \in {"off", "copy", "select", "sleep"} => batch[1] = NoBatch
      /\ pc[1] \in {"push", "pushing"} =>
           (batch[1][s].to > batch[1][s].from => local[1][s] = batch[1][s].to)
      /\ pc[1] = "pushing" => waitsOn[1] = current
      /\ pc[1] = "aborting" => Done(current)
      /\ \A i \in 1..(Len(sent[s]) - 1) : sent[s][i + 1] = sent[s][i] + 1
<1>3. \A s \in Symbol : Inv(s)
  BY <1>2 DEF FirstLoopCountsUp
<1>4. SUFFICES ASSUME NEW s \in Symbol PROVE Inv(s)'
  BY DEF FirstLoopCountsUp
<1>5. ASSUME UNCHANGED <<pc, batch, local, sent, waitsOn, current>>, Done(current) => Done(current)'
      PROVE  Inv(s)'
  BY <1>3, <1>5 DEF LastSent
<1>6. CASE Start
  <2>1. current = 0 /\ current' = 1
    BY <1>1, <1>6 DEF Start
  <2>2. pc[1] = "off" /\ pc'[1] = "copy"
    BY <1>1, <1>6, <2>1 DEF Start, StartedInOrder
  <2>3. sent' = sent /\ batch' = batch
    BY <1>6 DEF Start, outVars
  <2>4. sent[s] = << >> /\ batch[1] = NoBatch
    BY <1>3, <2>2
  <2> QED BY <1>3, <2>2, <2>3, <2>4
<1>7. CASE Copies(1)
  <2>1. pc[1] = "copy" /\ pc'[1] = "select" /\ sent' = sent /\ batch' = batch
    BY <1>1, <1>7 DEF Copies, outVars
  <2>2. sent[s] = << >> /\ batch[1] = NoBatch
    BY <1>3, <2>1
  <2>3. Len(<< >>) = 0
    OBVIOUS
  <2>4. CountsUpTo(<< >>, LastSent(1, s)')
    BY <2>3 DEF CountsUpTo
  <2> QED BY <1>3, <2>1, <2>2, <2>4
<1>8. CASE SeesDone(1) \/ Sleeps(1) \/ Wakes(1)
  <2>1. /\ pc[1] \in {"select", "sleep"} /\ pc'[1] \in {"select", "sleep", "sync"}
        /\ sent' = sent /\ batch' = batch /\ local' = local
    BY <1>1, <1>8 DEF SeesDone, Sleeps, Wakes, outVars
  <2>2. LastSent(1, s)' = LastSent(1, s)
    BY <2>1 DEF LastSent
  <2> QED BY <1>3, <2>1, <2>2
<1>9. CASE Fetches(1)
  <2>1. PICK ok \in SUBSET symbols :
          /\ batch' = [batch EXCEPT ![1] = Fresh(1, ok)]
          /\ local' = [local EXCEPT ![1] =
                         [t \in Symbol |-> IF batch'[1][t].to > @[t]
                                             THEN batch'[1][t].to ELSE @[t]]]
    BY <1>9 DEF Fetches
  <2>2. pc[1] = "select" /\ pc'[1] = "push" /\ sent' = sent
    BY <1>1, <1>9 DEF Fetches, outVars
  <2>3. CountsUpTo(sent[s], local[1][s])
    BY <1>3, <1>4, <2>2 DEF LastSent, NoBatch
  <2>4. local[1][s] \in Nat /\ market \in Nat
    BY <1>1, YahooAssumption DEF Types
  <2>5. /\ batch'[1] = Fresh(1, ok)
        /\ local'[1][s] = IF batch'[1][s].to > local[1][s]
                            THEN batch'[1][s].to ELSE local[1][s]
    BY <1>1, <2>1
  <2>6. LastSent(1, s)' = local[1][s]
    BY <2>4, <2>5 DEF LastSent, Fresh
  <2>7. batch'[1][s].to > batch'[1][s].from => local'[1][s] = batch'[1][s].to
    BY <2>4, <2>5 DEF Fresh
  <2> QED BY <1>3, <2>2, <2>3, <2>6, <2>7
<1>10. CASE EntersPush(1)
  <2>1. /\ pc[1] = "push" /\ pc'[1] = "pushing"
        /\ sent' = sent /\ batch' = batch /\ local' = local
        /\ waitsOn'[1] = current'
    BY <1>1, <1>10 DEF EntersPush, outVars, srcVars
  <2>2. LastSent(1, s)' = LastSent(1, s)
    BY <2>1 DEF LastSent
  <2> QED BY <1>3, <2>1, <2>2
<1>11. CASE Pushes(1)
  <2>1. /\ pc[1] = "pushing" /\ pc'[1] = "select" /\ batch'[1] = NoBatch
        /\ sent'[s] = sent[s] \o Points(batch[1], s) /\ local' = local
    BY <1>1, <1>11 DEF Pushes
  <2>2. CountsUpTo(sent'[s], local[1][s])
    BY <1>1, <1>3, <2>1, PushCountsUp
  <2>3. LastSent(1, s)' = local[1][s]
    BY <2>1 DEF LastSent, NoBatch
  <2> QED BY <2>1, <2>2, <2>3 DEF CountsUpTo
<1>12. CASE Aborts(1)
  <2>1. pc'[1] = "aborting" /\ sent' = sent /\ waitsOn[1] = current
    BY <1>1, <1>3, <1>12 DEF Aborts, outVars
  <2>2. Done(current)'
    BY <1>12, <2>1 DEF Aborts, Done, srcVars
  <2> QED BY <1>3, <2>1, <2>2
<1>16. CASE ReadsErr(1) \/ Syncs(1) \/ Leaves(1)
  <2>1. pc'[1] \in {"sync", "leave", "done"} /\ sent' = sent
    BY <1>1, <1>3, <1>16 DEF ReadsErr, Syncs, Leaves, outVars
  <2> QED BY <1>3, <2>1
<1>13. CASE MarketMoves \/ Stop \/ Main \/ UNCHANGED vars
  <2>1. UNCHANGED <<pc, batch, local, sent, waitsOn, current>>
    BY <1>13 DEF MarketMoves, Stop, Main, MainReceives, MainQuits, MainReturns,
                 vars, srcVars, loopVars, outVars
  <2>2. cancelled \subseteq cancelled' /\ (quit => quit')
    BY <1>13 DEF MarketMoves, Stop, Main, MainReceives, MainQuits, MainReturns,
                 vars, srcVars
  <2>3. Done(current) => Done(current)'
    BY <2>1, <2>2 DEF Done
  <2> HIDE DEF Inv
  <2> QED BY <1>5, <2>1, <2>3
<1>14. ASSUME NEW new \in SUBSET Symbol, UpdateSymbols(new)
       PROVE  Inv(s)'
  <2>1. UNCHANGED <<pc, batch, local, sent, waitsOn, current, cancelled, quit>>
    BY <1>14 DEF UpdateSymbols, loopVars, outVars
  <2>2. Done(current) => Done(current)'
    BY <2>1 DEF Done
  <2> HIDE DEF Inv
  <2> QED BY <1>5, <2>1, <2>2
<1>15. ASSUME NEW l \in Loop, RunLoop(l)
       PROVE  Inv(s)'
  <2>1. RunLoop(1)
    BY <1>2, <1>15, OnlyFirstLoop
  <2> HIDE DEF Inv
  <2> QED BY <1>7, <1>8, <1>9, <1>10, <1>11, <1>12, <1>16, <2>1 DEF RunLoop
<1> HIDE DEF Inv
<1> QED BY <1>6, <1>13, <1>14, <1>15 DEF Next

-----------------------------------------------------------------------------
(* The invariant, and the theorems. *)

\* Every step keeps the invariant.
LEMMA NextInv == IInv /\ [Next]_vars => IInv'
<1> SUFFICES ASSUME IInv, [Next]_vars PROVE IInv'
  OBVIOUS
<1>1. Types'
  BY TypesStep DEF IInv
<1>2. StartedInOrder' /\ Counted' /\ ReturnsAfterLoops'
  BY StartedInOrderStep, CountedStep, ReturnsStep DEF IInv
<1>3. BatchIsSeen' /\ SentIsCovered' /\ FirstLoopCountsUp'
  BY <1>1, BatchStep, SentIsCoveredStep, FirstLoopStep DEF IInv
<1> QED BY <1>1, <1>2, <1>3 DEF IInv

\* In every reachable state the invariant holds.
LEMMA Invariance == Spec => []IInv
BY InitInv, NextInv, PTL DEF Spec

\* Whatever is started, stopped and fetched, the state stays well formed, the
\* channel within its capacity and the WaitGroup's counter (yahoo_source.go:427)
\* between zero and the number of starts.
THEOREM TypeCorrect == Spec => []TypeOK
<1>1. IInv => TypeOK
  BY CountedInRange DEF IInv, Types, Batch, TypeOK
<1> QED BY <1>1, Invariance, PTL

\* main returns only after every loop has written its timestamps back.
THEOREM MainReturnsLast == Spec => []ReturnsAfterLoops
<1>1. IInv => ReturnsAfterLoops
  BY DEF IInv
<1> QED BY <1>1, Invariance, PTL

\* Once every loop has ended the source remembers every point it pushed, in
\* whatever order the loops of its starts ended.
THEOREM RestCoversSent == Spec => []RestRemembersSent
<1>1. IInv => RestRemembersSent
  BY DEF IInv, SentIsCovered, RestRemembersSent, Holding
<1> QED BY <1>1, Invariance, PTL

\* The first loop of a source sends every point once, in order, without a hole.
THEOREM FirstLoopSendsInOrder == Spec => []OnceInOrder
<1>1. IInv => OnceInOrder
  BY DEF IInv, FirstLoopCountsUp, OnceInOrder
<1> QED BY <1>1, Invariance, PTL

\* No step takes a remembered timestamp back, whichever loop it is of.
THEOREM RememberedOnlyGrows == Spec => LastTimestampsGrow
<1>1. IInv /\ [Next]_vars => [\A s \in Symbol : lastTimestamps'[s] >= lastTimestamps[s]]_vars
  BY TimestampsGrow DEF IInv
<1> QED BY <1>1, Invariance, PTL DEF Spec, LastTimestampsGrow
=============================================================================
