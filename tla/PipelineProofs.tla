--------------------------- MODULE PipelineProofs ---------------------------
(***************************************************************************)
(* Theorems about Pipeline, for every set of symbols and feeds, any        *)
(* retention and any number of failures.  The first part is about points   *)
(* and rows, from IInv; the second about candles, from CandleInv, which    *)
(* follows the bars of a candle from the feed to the tables and to the     *)
(* server: there the same bars give the same candle, whatever ComputeOHLCV *)
(* makes of them.  The third is about the analyses of any history, with    *)
(* repeated and disordered points; its last sections open ComputeOHLCV and *)
(* the sums, for the candles of longer windows.                            *)
(***************************************************************************)
EXTENDS Pipeline, FiniteSetTheorems, SequenceTheorems, WellFoundedInduction, TLAPS

Types ==
  /\ feed \in Feeds
  /\ now \in Nat \ {0}
  /\ fetched \in [Symbol -> 0..now]
  /\ \A s \in Symbol : remembered[s] \in 0..fetched[s]
  /\ DOMAIN aggregations = Window

\* The rows of the bars of an interval, and of all that was received.
Times(s, from, to) ==
  {i \in DOMAIN feed[s] : from < feed[s][i].timestamp /\ feed[s][i].timestamp <= to}
Bars(s, from, to) == {Row(s, feed[s][i]) : i \in Times(s, from, to)}
AllReceived == UNION {Bars(s, 0, fetched[s]) : s \in Symbol}

\* The initial load has everything in its hands until it saves it.
LoadIsComplete ==
  /\ stage \in {"fetch", "initial"} => stockPrices = {} /\ lost = {}
  /\ stage = "initial" => Rows(batch) = AllReceived

\* From then on each point is stored, expired or of a batch that was refused.
Stored ==
  stage \notin {"fetch", "initial"} =>
    /\ {r \in AllReceived : r.timestamp >= now - Retention} \ lost \subseteq stockPrices
    /\ stockPrices \subseteq AllReceived \ lost

IInv == Types /\ LoadIsComplete /\ Stored

------------------------------------------------------------------------------
(* The points of a feed. *)

\* Any numbers have a least one.
LEMMA LeastNumber ==
  ASSUME NEW T \in SUBSET Nat, T # {}
  PROVE  \E x \in T : \A k \in T : x <= k
<1> DEFINE R == OpToRel(<, Nat)
<1>1. IsWellFoundedOn(R, Nat)
  BY NatLessThanWellFounded, Zenon
<1>2. \A x, y \in Nat : <<y, x>> \in R <=> y < x
  BY Zenon DEF OpToRel
<1> HIDE DEF R
<1>3. PICK x \in T : \A y \in T : ~(<<y, x>> \in R)
  BY <1>1, WFMin
<1>4. ASSUME NEW k \in T
      PROVE  x <= k
  <2>1. x \in Nat /\ k \in Nat
    OBVIOUS
  <2>2. ~(<<k, x>> \in R)
    BY <1>3
  <2>3. <<k, x>> \in R <=> k < x
    BY <1>2, <2>1
  <2>4. ~(k < x)
    BY <2>2, <2>3
  <2> QED BY <2>1, <2>4
<1> QED BY <1>4

\* Points in the order of time.
Rising(f) ==
  /\ f \in Seq(ToSet(f))
  /\ \A i \in DOMAIN f : f[i].timestamp \in Nat
  /\ \A i, j \in DOMAIN f : i < j => f[i].timestamp < f[j].timestamp

\* The same when a time may come again.
InOrder(f) ==
  /\ f \in Seq(ToSet(f))
  /\ \A i \in DOMAIN f : f[i].timestamp \in Nat
  /\ \A i, j \in DOMAIN f : i < j => f[i].timestamp <= f[j].timestamp

LEMMA RisingInOrder == \A f : Rising(f) => InOrder(f)
<1>1. SUFFICES ASSUME NEW f, Rising(f)
               PROVE  InOrder(f)
  OBVIOUS
<1>2. \A i, j \in DOMAIN f : i < j => f[i].timestamp <= f[j].timestamp
  <2>1. \A i, j \in DOMAIN f : f[i].timestamp \in Nat /\ (i < j => f[i].timestamp < f[j].timestamp)
    BY <1>1 DEF Rising
  <2> QED BY <2>1
<1> QED BY <1>1, <1>2 DEF Rising, InOrder

\* A feed is a sequence of ascending timestamps.
LEMMA FeedFacts ==
  ASSUME feed \in Feeds, NEW s \in Symbol
  PROVE  /\ Rising(feed[s])
         /\ Len(feed[s]) \in Nat /\ DOMAIN feed[s] = 1..Len(feed[s])
         /\ \A i \in DOMAIN feed[s] : feed[s][i].timestamp \in Nat \ {0}
         /\ \A i, j \in DOMAIN feed[s] : i < j => feed[s][i].timestamp < feed[s][j].timestamp
<1>1. /\ feed[s] \in Seq(ToSet(feed[s]))
      /\ \A i \in DOMAIN feed[s] : feed[s][i].timestamp \in 1..MaxTime
      /\ \A i, j \in DOMAIN feed[s] : i < j => feed[s][i].timestamp < feed[s][j].timestamp
  BY FeedAssumption
<1>2. Len(feed[s]) \in Nat /\ DOMAIN feed[s] = 1..Len(feed[s])
  BY <1>1, LenProperties
<1>3. \A i \in DOMAIN feed[s] : feed[s][i].timestamp \in Nat \ {0}
  BY <1>1, PipelineAssumption
<1> QED BY <1>1, <1>2, <1>3 DEF Rising

\* Before counts: the points up to that number are the earlier ones.
LEMMA CountedBefore ==
  ASSUME NEW f, InOrder(f), NEW t \in Int
  PROVE  /\ Len(f) \in Nat /\ DOMAIN f = 1..Len(f)
         /\ Before(f, t) \in 0..Len(f)
         /\ \A i \in 1..Len(f) : i <= Before(f, t) <=> f[i].timestamp < t
<1> DEFINE L == Len(f)
           T == {n \in 0..L : \A i \in DOMAIN f : i > n => ~(f[i].timestamp < t)}
<1>1. /\ L \in Nat /\ DOMAIN f = 1..L
      /\ \A i \in DOMAIN f : f[i].timestamp \in Nat
      /\ \A i, j \in DOMAIN f : i < j => f[i].timestamp <= f[j].timestamp
  BY LenProperties DEF InOrder
<1>2. L \in T
  BY <1>1
<1>3. T \in SUBSET Nat /\ T # {}
  BY <1>1, <1>2
<1>4. PICK m \in T : \A k \in T : m <= k
  BY <1>3, LeastNumber
<1>5. m \in 0..L /\ \A i \in DOMAIN f : i > m => ~(f[i].timestamp < t)
  BY <1>4
<1>6. ASSUME NEW i \in DOMAIN f, i <= m
      PROVE  f[i].timestamp < t
  <2>1. i \in 1..L /\ m \in 1..L /\ m - 1 \in 0..L /\ m \in DOMAIN f
    BY <1>1, <1>5, <1>6
  <2>2. m - 1 \notin T
    BY <1>4, <1>5, <2>1
  <2>3. PICK j \in DOMAIN f : j > m - 1 /\ f[j].timestamp < t
    BY <2>1, <2>2
  <2>4. j = m
    BY <1>1, <1>5, <2>1, <2>3
  <2>5. i = m \/ f[i].timestamp <= f[m].timestamp
    BY <1>1, <1>6, <2>1
  <2> QED BY <1>1, <1>6, <2>1, <2>3, <2>4, <2>5
<1>7. \A i \in DOMAIN f : i <= m <=> f[i].timestamp < t
  <2>1. ASSUME NEW i \in DOMAIN f
        PROVE  i <= m <=> f[i].timestamp < t
    <3>1. i \in Nat /\ m \in Nat
      BY <1>1, <1>5
    <3> QED BY <1>5, <1>6, <3>1
  <2> QED BY <2>1
<1>8. {i \in DOMAIN f : f[i].timestamp < t} = 1..m
  BY <1>1, <1>5, <1>7
<1>9. Cardinality(1..m) = m
  BY <1>5, FS_Interval
<1> QED BY <1>1, <1>5, <1>7, <1>8, <1>9 DEF Before

LEMMA BeforeCounts ==
  ASSUME NEW f, Rising(f), NEW t \in Int
  PROVE  /\ Len(f) \in Nat /\ DOMAIN f = 1..Len(f)
         /\ Before(f, t) \in 0..Len(f)
         /\ \A i \in 1..Len(f) : i <= Before(f, t) <=> f[i].timestamp < t
BY RisingInOrder, CountedBefore

\* There are no fewer before a later time.
LEMMA BeforeGrows ==
  ASSUME NEW f, Rising(f), NEW t \in Int, NEW u \in Int, t <= u
  PROVE  Before(f, t) <= Before(f, u)
<1> DEFINE x == Before(f, t)
           y == Before(f, u)
<1>1. /\ Len(f) \in Nat /\ DOMAIN f = 1..Len(f) /\ x \in 0..Len(f)
      /\ \A i \in 1..Len(f) : i <= x <=> f[i].timestamp < t
  BY BeforeCounts
<1>2. /\ y \in 0..Len(f)
      /\ \A i \in 1..Len(f) : i <= y <=> f[i].timestamp < u
  BY BeforeCounts
<1> HIDE DEF x, y
<1>3. CASE x = 0
  <2>1. x <= y
    BY <1>1, <1>2, <1>3
  <2> QED BY <2>1 DEF x, y
<1>4. CASE x # 0
  <2>1. x \in 1..Len(f) /\ x \in DOMAIN f /\ x <= x
    BY <1>1, <1>4
  <2>2. f[x].timestamp \in Nat
    BY <2>1 DEF Rising
  <2>3. f[x].timestamp < u
    BY <1>1, <2>1, <2>2
  <2>4. x <= y
    BY <1>2, <2>1, <2>3
  <2> QED BY <2>4 DEF x, y
<1> QED BY <1>3, <1>4

\* Points are those of the bars of an interval, in order; the last of them is the
\* newest there is.
LEMMA PointsOfInterval ==
  ASSUME feed \in Feeds, NEW s \in Symbol, NEW from \in Nat, NEW to \in Nat, from <= to
  PROVE  LET points == Points(s, from, to)
         IN  /\ {Row(s, p) : p \in ToSet(points)} = Bars(s, from, to)
             /\ points = <<>> => Bars(s, from, to) = {}
             /\ points # <<>> =>
                  /\ Last(points).timestamp \in (from + 1)..to
                  /\ \A i \in DOMAIN feed[s] :
                       feed[s][i].timestamp <= to => feed[s][i].timestamp <= Last(points).timestamp
<1> DEFINE f == feed[s]
           L == Len(f)
           a == Before(f, from + 1)
           b == Before(f, to + 1)
           points == Points(s, from, to)
<1>1. /\ f \in Seq(ToSet(f)) /\ L \in Nat /\ DOMAIN f = 1..L
      /\ \A i \in DOMAIN f : f[i].timestamp \in Nat \ {0}
      /\ \A i, j \in DOMAIN f : i < j => f[i].timestamp < f[j].timestamp
      /\ Rising(f)
  BY FeedFacts DEF Rising
<1> HIDE DEF f
<1>2. /\ a \in 0..L /\ b \in 0..L
      /\ \A i \in DOMAIN f : i <= a <=> f[i].timestamp <= from
      /\ \A i \in DOMAIN f : i <= b <=> f[i].timestamp <= to
  <2>1. /\ a \in 0..L /\ b \in 0..L
        /\ \A i \in DOMAIN f : i <= a <=> f[i].timestamp < from + 1
        /\ \A i \in DOMAIN f : i <= b <=> f[i].timestamp < to + 1
    <3>1. from + 1 \in Int /\ to + 1 \in Int
      OBVIOUS
    <3>2. /\ a \in 0..L
          /\ \A i \in 1..L : i <= a <=> f[i].timestamp < from + 1
      BY <1>1, <3>1, BeforeCounts
    <3>3. /\ b \in 0..L
          /\ \A i \in 1..L : i <= b <=> f[i].timestamp < to + 1
      BY <1>1, <3>1, BeforeCounts
    <3> QED BY <1>1, <3>2, <3>3
  <2> HIDE DEF a, b
  <2> QED BY <1>1, <2>1
<1>3. Times(s, from, to) =
        {i \in DOMAIN f : from < f[i].timestamp /\ f[i].timestamp <= to}
  BY DEF Times, f
<1>4. points = SubSeq(f, a + 1, b)
  BY DEF Points, Between, f
<1> HIDE DEF a, b, points
<1>5. a <= b
  <2>1. from + 1 \in Int /\ to + 1 \in Int /\ from + 1 <= to + 1
    OBVIOUS
  <2> QED BY <1>1, <2>1, BeforeGrows DEF a, b
<1>6. Times(s, from, to) = (a + 1)..b
  <2>1. ASSUME NEW i \in DOMAIN f
        PROVE  i \in (a + 1)..b <=> from < f[i].timestamp /\ f[i].timestamp <= to
    <3>1. i \in Nat /\ f[i].timestamp \in Nat /\ a \in Nat /\ b \in Nat
      BY <1>1, <1>2
    <3>2. /\ i <= a <=> f[i].timestamp <= from
          /\ i <= b <=> f[i].timestamp <= to
      BY <1>2
    <3> QED BY <3>1, <3>2
  <2>2. (a + 1)..b \subseteq DOMAIN f
    BY <1>1, <1>2
  <2> QED BY <1>3, <2>1, <2>2
<1>7. /\ points \in Seq(ToSet(f)) /\ Len(points) = b - a
      /\ \A i \in 1..(b - a) : points[i] = f[a + i]
  <2>1. a + 1 \in 1..(L + 1) /\ b \in ((a + 1) - 1)..L
    BY <1>1, <1>2, <1>5
  <2>2. /\ SubSeq(f, a + 1, b) \in Seq(ToSet(f))
        /\ Len(SubSeq(f, a + 1, b)) = b - (a + 1) + 1
        /\ \A i \in 1..(b - (a + 1) + 1) : SubSeq(f, a + 1, b)[i] = f[(a + 1) + i - 1]
    BY <1>1, <2>1, SubSeqProperties
  <2>3. /\ b - (a + 1) + 1 = b - a
        /\ \A i \in 1..(b - a) : (a + 1) + i - 1 = a + i
    BY <1>2
  <2> QED BY <1>4, <2>2, <2>3
<1>8. DOMAIN points = 1..(b - a)
  BY <1>7, LenProperties
<1>9. {Row(s, p) : p \in ToSet(points)} = Bars(s, from, to)
  <2>1. ASSUME NEW i \in 1..(b - a)
        PROVE  points[i] = f[a + i] /\ a + i \in (a + 1)..b
    BY <1>2, <1>7
  <2>2. ASSUME NEW j \in (a + 1)..b
        PROVE  j - a \in 1..(b - a) /\ points[j - a] = f[j]
    <3>1. j - a \in 1..(b - a) /\ a + (j - a) = j
      BY <1>2
    <3> QED BY <1>7, <3>1
  <2>3. ToSet(points) = {f[j] : j \in (a + 1)..b}
    BY <1>8, <2>1, <2>2 DEF ToSet
  <2>4. Bars(s, from, to) = {Row(s, f[j]) : j \in (a + 1)..b}
    BY <1>6 DEF Bars, f
  <2> QED BY <2>3, <2>4
<1>10. ASSUME points = <<>>
       PROVE  Bars(s, from, to) = {}
  <2>1. ToSet(points) = {}
    BY <1>10, EmptySeq DEF ToSet
  <2> QED BY <1>9, <2>1
<1>11. ASSUME points # <<>>
       PROVE  /\ Last(points).timestamp \in (from + 1)..to
              /\ \A i \in DOMAIN f :
                   f[i].timestamp <= to => f[i].timestamp <= Last(points).timestamp
  <2>1. b - a \in Nat /\ b - a # 0
    BY <1>2, <1>5, <1>7, <1>11, EmptySeq
  <2>2. b - a \in 1..(b - a) /\ a + (b - a) = b /\ b \in (a + 1)..b /\ b \in 1..L
    BY <1>2, <2>1
  <2>3. Last(points) = f[b]
    BY <1>7, <2>2 DEF Last
  <2>4. f[b].timestamp \in Nat /\ from < f[b].timestamp /\ f[b].timestamp <= to
    BY <1>1, <1>3, <1>6, <2>2
  <2>5. ASSUME NEW i \in DOMAIN f, f[i].timestamp <= to
        PROVE  f[i].timestamp <= f[b].timestamp
    <3>1. i <= b /\ i \in 1..L /\ f[i].timestamp \in Nat /\ b \in DOMAIN f
      BY <1>1, <1>2, <2>2, <2>5
    <3>2. i = b \/ f[i].timestamp < f[b].timestamp
      BY <1>1, <1>2, <3>1
    <3> QED BY <2>4, <3>1, <3>2
  <2>6. f[b].timestamp \in (from + 1)..to
    BY <2>4
  <2> QED BY <2>3, <2>5, <2>6
<1> QED BY <1>9, <1>10, <1>11 DEF f, points

------------------------------------------------------------------------------
(* What is received and stored. *)

\* The rows of what was received are those of the bars up to the newest fetched.
LEMMA ReceivedRows ==
  ASSUME Types
  PROVE  Rows([s \in Symbol |-> Received(s)]) = AllReceived
<1> DEFINE data == [s \in Symbol |-> Received(s)]
<1>1. ASSUME NEW s \in Symbol
      PROVE  {Row(s, p) : p \in ToSet(data[s])} = Bars(s, 0, fetched[s])
  <2>1. feed \in Feeds /\ fetched[s] \in Nat /\ 0 <= fetched[s] /\ 0 \in Nat
    BY DEF Types
  <2>2. {Row(s, p) : p \in ToSet(Points(s, 0, fetched[s]))} = Bars(s, 0, fetched[s])
    BY <2>1, PointsOfInterval
  <2> QED BY <2>2 DEF Received
<1>2. DOMAIN data = Symbol
  OBVIOUS
<1> HIDE DEF data
<1>3. Rows(data) = UNION {Bars(s, 0, fetched[s]) : s \in Symbol}
  BY <1>1, <1>2 DEF Rows
<1> QED BY <1>3 DEF AllReceived, data

\* A save adds the rows of the batch or, when it is refused, nothing: then those of
\* its rows that are not there are lost.
LEMMA SavedOrLost ==
  ASSUME NEW failing, SavePrices(failing), NEW all, NEW all1,
         stockPrices \subseteq all \ lost, all1 = all \union Rows(batch')
  PROVE  /\ stockPrices' \subseteq all1 \ lost'
         /\ \A r \in all1 : r \notin stockPrices' => r \in lost' \/ (r \in all /\ r \notin stockPrices)
         /\ \A r \in all : r \in lost => r \in lost' \/ r \in stockPrices'
<1>1. CASE failing # {} \/ PriceClash(Rows(batch'))
  <2>1. /\ stockPrices' = stockPrices
        /\ lost' = lost \union (Rows(batch') \ stockPrices)
    BY <1>1 DEF SavePrices, SaveStockPricesBulk
  <2> QED BY <2>1
<1>2. CASE ~(failing # {} \/ PriceClash(Rows(batch')))
  <2>1. /\ stockPrices' = stockPrices \union Rows(batch')
        /\ lost' = lost \ Rows(batch')
    BY <1>2 DEF SavePrices, SaveStockPricesBulk
  <2> QED BY <2>1
<1> QED BY <1>1, <1>2

\* What was received has times.
LEMMA ReceivedTimes ==
  ASSUME Types
  PROVE  \A r \in AllReceived : r.timestamp \in Nat
<1>1. SUFFICES ASSUME NEW s \in Symbol, NEW r \in Bars(s, 0, fetched[s])
               PROVE  r.timestamp \in Nat
  BY DEF AllReceived
<1>2. PICK i \in DOMAIN feed[s] : r = Row(s, feed[s][i])
  BY <1>1 DEF Bars, Times
<1>3. feed[s][i].timestamp \in Nat
  BY FeedFacts DEF Types
<1> QED BY <1>2, <1>3 DEF Row

\* Time may pass, and rows may go once they have expired.
LEMMA StoredStays ==
  ASSUME Types, Stored, UNCHANGED <<feed, fetched, lost>>,
         now' \in Nat, now' >= now,
         stage \notin {"fetch", "initial"},
         stockPrices' \subseteq stockPrices,
         \A r \in stockPrices \ stockPrices' : r.timestamp < now' - Retention
  PROVE  Stored'
<1>1. AllReceived' = AllReceived
  BY DEF AllReceived, Bars, Times, Row
<1>2. /\ {r \in AllReceived : r.timestamp >= now - Retention} \ lost \subseteq stockPrices
      /\ stockPrices \subseteq AllReceived \ lost
  BY DEF Stored
<1>3. ASSUME NEW r \in AllReceived, r.timestamp >= now' - Retention, r \notin lost
      PROVE  r \in stockPrices'
  <2>1. r.timestamp \in Nat
    BY ReceivedTimes
  <2>2. r.timestamp >= now - Retention /\ ~(r.timestamp < now' - Retention)
    BY <1>3, <2>1, RetentionAssumption DEF Types
  <2> QED BY <1>2, <1>3, <2>2
<1> QED BY <1>1, <1>2, <1>3 DEF Stored

------------------------------------------------------------------------------
(* The steps. *)

\* The initial load receives the bars closed so far of the symbols that are answered.
LEMMA FetchInitialPreserves ==
  ASSUME IInv, NEW answered \in SUBSET Symbol, FetchInitialData(answered)
  PROVE  IInv'
<1> DEFINE D == {s \in answered : Points(s, 0, now) # <<>>}
<1>1. /\ stage = "fetch" /\ stage' = "initial"
      /\ batch' = [s \in D |-> Points(s, 0, now)]
      /\ fetched' = [s \in Symbol |-> IF s \in DOMAIN batch' THEN Last(batch'[s]).timestamp ELSE 0]
      /\ remembered' = fetched'
      /\ UNCHANGED <<feed, now, lost, stockPrices, aggregations>>
  BY DEF FetchInitialData, history, tables
<1>2. feed \in Feeds /\ now \in Nat \ {0} /\ 0 <= now /\ 0 \in Nat /\ DOMAIN aggregations = Window
  BY DEF IInv, Types
<1>3. D \subseteq Symbol /\ \A s \in D : Points(s, 0, now) # <<>>
  OBVIOUS
<1> HIDE DEF D
<1>4. DOMAIN batch' = D /\ \A s \in D : batch'[s] = Points(s, 0, now)
  BY <1>1
<1>5. ASSUME NEW s \in D
      PROVE  /\ fetched'[s] \in 1..now
             /\ {Row(s, p) : p \in ToSet(batch'[s])} = Bars(s, 0, fetched'[s])
  <2>1. s \in Symbol /\ batch'[s] = Points(s, 0, now) /\ fetched'[s] = Last(Points(s, 0, now)).timestamp
    BY <1>1, <1>3, <1>4
  <2>2. /\ {Row(s, p) : p \in ToSet(Points(s, 0, now))} = Bars(s, 0, now)
        /\ Last(Points(s, 0, now)).timestamp \in (0 + 1)..now
        /\ \A i \in DOMAIN feed[s] :
             feed[s][i].timestamp <= now =>
               feed[s][i].timestamp <= Last(Points(s, 0, now)).timestamp
    BY <1>2, <1>3, <2>1, PointsOfInterval
  <2>3. fetched'[s] \in 1..now
    BY <2>1, <2>2
  <2>4. \A i \in DOMAIN feed[s] : feed[s][i].timestamp \in Nat
    BY <1>2, <2>1, FeedFacts
  <2>5. Times(s, 0, now) = Times(s, 0, fetched'[s])
    BY <1>2, <2>1, <2>2, <2>3, <2>4 DEF Times
  <2> QED BY <2>1, <2>2, <2>3, <2>5 DEF Bars
<1>6. ASSUME NEW s \in Symbol, s \notin D
      PROVE  fetched'[s] = 0 /\ Bars(s, 0, fetched'[s]) = {}
  <2>1. fetched'[s] = 0
    BY <1>1, <1>4, <1>6
  <2>2. \A i \in DOMAIN feed[s] : feed[s][i].timestamp \in Nat \ {0}
    BY <1>2, FeedFacts
  <2>3. Times(s, 0, fetched'[s]) = {}
    BY <2>1, <2>2 DEF Times
  <2> QED BY <2>1, <2>3 DEF Bars
<1>7. Types'
  <2>1. \A s \in Symbol : fetched'[s] \in 0..now
    BY <1>2, <1>5, <1>6
  <2>2. fetched' \in [Symbol -> 0..now]
    BY <1>1, <2>1
  <2>3. \A s \in Symbol : remembered'[s] \in 0..fetched'[s]
    BY <1>1, <1>2, <2>1
  <2> QED BY <1>1, <1>2, <2>2, <2>3 DEF Types
<1>8. Rows(batch') = AllReceived'
  <2>1. Rows(batch') = UNION {Bars(s, 0, fetched'[s]) : s \in D}
    <3>1. {{Row(s, p) : p \in ToSet(batch'[s])} : s \in D} = {Bars(s, 0, fetched'[s]) : s \in D}
      BY <1>5
    <3> QED BY <1>4, <3>1 DEF Rows
  <2>2. UNION {Bars(s, 0, fetched'[s]) : s \in D} = UNION {Bars(s, 0, fetched'[s]) : s \in Symbol}
    BY <1>3, <1>6
  <2>3. AllReceived' = UNION {Bars(s, 0, fetched'[s]) : s \in Symbol}
    BY <1>1 DEF AllReceived, Bars, Times, Row
  <2> QED BY <2>1, <2>2, <2>3
<1>9. LoadIsComplete' /\ Stored'
  BY <1>1, <1>8 DEF IInv, LoadIsComplete, Stored, Rows, Row
<1> QED BY <1>7, <1>9 DEF IInv

\* The initial load ends with its points in the database or lost.
LEMMA FinishInitialPreserves ==
  ASSUME IInv, NEW failing, FinishInitialLoad(failing)
  PROVE  IInv'
<1>1. /\ stage = "initial" /\ stage' = "idle" /\ SavePrices(failing)
      /\ UNCHANGED <<feed, now, fetched, remembered, batch, aggregations>>
  BY DEF FinishInitialLoad, memory
<1>2. /\ AllReceived' = AllReceived /\ batch' = batch
      /\ Rows(batch) = AllReceived /\ stockPrices = {} /\ lost = {}
  BY <1>1 DEF AllReceived, Bars, Times, Row, IInv, LoadIsComplete
<1>3. /\ stockPrices \subseteq {} \ lost
      /\ AllReceived = {} \union Rows(batch')
  BY <1>2
<1>4. /\ stockPrices' \subseteq AllReceived \ lost'
      /\ \A r \in AllReceived : r \notin stockPrices' => r \in lost' \/ (r \in {} /\ r \notin stockPrices)
  BY <1>1, <1>3, SavedOrLost
<1>5. Stored'
  BY <1>2, <1>4 DEF Stored
<1>6. Types'
  BY <1>1 DEF IInv, Types
<1>7. LoadIsComplete'
  BY <1>1 DEF LoadIsComplete
<1> QED BY <1>5, <1>6, <1>7 DEF IInv

\* What an update brings is all that closed since the last one; what a source sends
\* again is part of what was received.
LEMMA ReceivedGrows ==
  ASSUME Types, NEW symbols \in SUBSET Symbol, NEW restarted \in BOOLEAN, NEW failing,
         Receive(symbols, restarted, failing)
  PROVE  /\ Types'
         /\ AllReceived' = AllReceived \union Rows(batch')
<1> DEFINE from == IF restarted THEN remembered ELSE fetched
<1>1. /\ batch' = [s \in symbols |-> Points(s, from[s], now)]
      /\ \A s \in symbols : batch'[s] # <<>>
      /\ remembered' = from
      /\ fetched' = [s \in Symbol |-> IF s \in symbols THEN Last(batch'[s]).timestamp ELSE fetched[s]]
      /\ UNCHANGED <<feed, now, aggregations>>
  BY DEF Receive
<1>2. feed \in Feeds /\ now \in Nat \ {0} /\ fetched \in [Symbol -> 0..now] /\ DOMAIN aggregations = Window
  BY DEF Types
<1>3. \A s \in Symbol : from[s] \in 0..fetched[s]
  <2>1. \A s \in Symbol : fetched[s] \in 0..fetched[s]
    BY <1>2
  <2> QED BY <2>1 DEF Types
<1> HIDE DEF from
<1>4. ASSUME NEW s \in symbols
      PROVE  /\ fetched'[s] \in 0..now /\ from[s] \in 0..fetched'[s]
             /\ {Row(s, p) : p \in ToSet(batch'[s])} = Bars(s, from[s], now)
             /\ Bars(s, 0, fetched'[s]) = Bars(s, 0, fetched[s]) \union Bars(s, from[s], now)
  <2>1. /\ s \in Symbol /\ batch'[s] = Points(s, from[s], now)
        /\ fetched'[s] = Last(Points(s, from[s], now)).timestamp
        /\ Points(s, from[s], now) # <<>>
    BY <1>1
  <2>2. /\ fetched[s] \in Nat /\ fetched[s] <= now /\ from[s] \in Nat /\ from[s] <= fetched[s]
        /\ now \in Nat /\ from[s] <= now
    BY <1>2, <1>3, <2>1
  <2>3. /\ {Row(s, p) : p \in ToSet(Points(s, from[s], now))} = Bars(s, from[s], now)
        /\ Last(Points(s, from[s], now)).timestamp \in (from[s] + 1)..now
        /\ \A i \in DOMAIN feed[s] :
             feed[s][i].timestamp <= now =>
               feed[s][i].timestamp <= Last(Points(s, from[s], now)).timestamp
    BY <1>2, <2>1, <2>2, PointsOfInterval
  <2>4. fetched'[s] \in (from[s] + 1)..now
    BY <2>1, <2>3
  <2>5. \A i \in DOMAIN feed[s] :
          /\ feed[s][i].timestamp \in Nat
          /\ feed[s][i].timestamp <= now => feed[s][i].timestamp <= fetched'[s]
    BY <1>2, <2>1, <2>3, FeedFacts
  <2>6. ASSUME NEW i \in DOMAIN feed[s]
        PROVE  i \in Times(s, 0, fetched'[s]) <=>
               i \in Times(s, 0, fetched[s]) \/ i \in Times(s, from[s], now)
    <3> DEFINE t == feed[s][i].timestamp
    <3>1. t \in Nat /\ (t <= now => t <= fetched'[s])
      BY <2>5
    <3>2. /\ i \in Times(s, 0, fetched'[s]) <=> 0 < t /\ t <= fetched'[s]
          /\ i \in Times(s, 0, fetched[s]) <=> 0 < t /\ t <= fetched[s]
          /\ i \in Times(s, from[s], now) <=> from[s] < t /\ t <= now
      BY DEF Times
    <3> HIDE DEF t
    <3>3. fetched'[s] \in Nat /\ fetched'[s] <= now
      BY <2>2, <2>4
    <3> QED BY <2>2, <3>1, <3>2, <3>3
  <2>7. Times(s, 0, fetched'[s]) = Times(s, 0, fetched[s]) \union Times(s, from[s], now)
    <3>1. \A f, g : Times(s, f, g) \subseteq DOMAIN feed[s]
      BY DEF Times
    <3> QED BY <2>6, <3>1
  <2>8. Bars(s, 0, fetched'[s]) = Bars(s, 0, fetched[s]) \union Bars(s, from[s], now)
    BY <2>7 DEF Bars
  <2>9. fetched'[s] \in 0..now /\ from[s] \in 0..fetched'[s]
    BY <2>2, <2>4
  <2> QED BY <2>1, <2>3, <2>8, <2>9
<1>5. \A s \in Symbol : s \notin symbols => fetched'[s] = fetched[s]
  BY <1>1
<1>6. Types'
  <2>1. \A s \in Symbol : fetched'[s] \in 0..now /\ from[s] \in 0..fetched'[s]
    BY <1>2, <1>3, <1>4, <1>5
  <2>2. fetched' \in [Symbol -> 0..now]
    BY <1>1, <2>1
  <2> QED BY <1>1, <1>2, <2>1, <2>2 DEF Types
<1>7. AllReceived' = AllReceived \union Rows(batch')
  <2>1. AllReceived' = UNION {Bars(s, 0, fetched'[s]) : s \in Symbol}
    BY <1>1 DEF AllReceived, Bars, Times, Row
  <2>2. Rows(batch') = UNION {Bars(s, from[s], now) : s \in symbols}
    <3>1. {{Row(s, p) : p \in ToSet(batch'[s])} : s \in symbols} = {Bars(s, from[s], now) : s \in symbols}
      <4>1. \A s \in symbols : {Row(s, p) : p \in ToSet(batch'[s])} = Bars(s, from[s], now)
        BY <1>4
      <4> QED BY <4>1
    <3>2. DOMAIN batch' = symbols
      BY <1>1
    <3> QED BY <3>1, <3>2 DEF Rows
  <2>3. \A s \in Symbol :
          Bars(s, 0, fetched'[s]) =
          Bars(s, 0, fetched[s]) \union (IF s \in symbols THEN Bars(s, from[s], now) ELSE {})
    <3>1. \A s \in symbols :
            Bars(s, 0, fetched'[s]) = Bars(s, 0, fetched[s]) \union Bars(s, from[s], now)
      BY <1>4
    <3> QED BY <1>5, <3>1
  <2>4. ASSUME NEW r
        PROVE  r \in AllReceived' <=> r \in AllReceived \/ r \in Rows(batch')
    <3>1. r \in AllReceived' <=> \E s \in Symbol : r \in Bars(s, 0, fetched'[s])
      BY <2>1
    <3>2. r \in AllReceived <=> \E s \in Symbol : r \in Bars(s, 0, fetched[s])
      BY DEF AllReceived
    <3>3. r \in Rows(batch') <=> \E s \in symbols : r \in Bars(s, from[s], now)
      BY <2>2
    <3> QED BY <2>3, <3>1, <3>2, <3>3
  <2> QED BY <2>4
<1> QED BY <1>6, <1>7

\* Each point of an update is stored with it or lost.
LEMMA ReceivePreserves ==
  ASSUME IInv, NEW symbols \in SUBSET Symbol, NEW restarted \in BOOLEAN, NEW failing,
         Receive(symbols, restarted, failing)
  PROVE  IInv'
<1>1. Types' /\ AllReceived' = AllReceived \union Rows(batch')
  BY ReceivedGrows DEF IInv
<1>2. stage = "idle" /\ stage' = "update" /\ SavePrices(failing) /\ now' = now
  BY DEF Receive
<1>3. /\ {r \in AllReceived : r.timestamp >= now - Retention} \ lost \subseteq stockPrices
      /\ stockPrices \subseteq AllReceived \ lost
  BY <1>2 DEF IInv, Stored
<1>4. /\ stockPrices' \subseteq AllReceived' \ lost'
      /\ \A r \in AllReceived' :
           r \notin stockPrices' => r \in lost' \/ (r \in AllReceived /\ r \notin stockPrices)
      /\ \A r \in AllReceived : r \in lost => r \in lost' \/ r \in stockPrices'
  BY <1>1, <1>2, <1>3, SavedOrLost
<1>5. {r \in AllReceived' : r.timestamp >= now - Retention} \ lost' \subseteq stockPrices'
  BY <1>3, <1>4
<1> QED BY <1>1, <1>2, <1>4, <1>5 DEF IInv, LoadIsComplete, Stored

\* The cleanup deletes what has expired and nothing else.
LEMMA CleanupKeeps ==
  ASSUME NEW fails, CleanupOldData(now, fails)
  PROVE  /\ stockPrices' \subseteq stockPrices
         /\ \A r \in stockPrices \ stockPrices' : r.timestamp < now - Retention
         /\ DOMAIN aggregations' = Window
         /\ \A w \in Window : \A r \in aggregations[w] \ aggregations'[w] : r.endTime < now - Retention
BY DEF CleanupOldData, Expired

\* Of the rest of the steps only the restart and the clock touch what the invariant
\* is about.
LEMMA OthersPreserve ==
  ASSUME IInv, [Next]_vars,
         \/ Tick \/ Serve \/ HubReplacesState \/ Restart \/ UNCHANGED vars
         \/ \E failing : InitialWindow(failing) \/ UpdateWindow(failing) \/ BroadcastAndClean(failing)
  PROVE  IInv'
<1>1. CASE Restart
  <2>1. /\ fetched' = [s \in Symbol |-> 0] /\ remembered' = fetched'
        /\ stage' = "fetch" /\ stockPrices' = {} /\ lost' = {}
        /\ aggregations' = [w \in Window |-> {}]
        /\ feed' = feed /\ now' = now
    BY <1>1 DEF Restart, Recreated
  <2>2. Types'
    BY <2>1 DEF IInv, Types
  <2> QED BY <2>1, <2>2 DEF IInv, LoadIsComplete, Stored
<1>2. ASSUME NEW failing, BroadcastAndClean(failing)
      PROVE  IInv'
  <2>1. /\ stage = "broadcast" /\ stage' = "idle" /\ CleanupOldData(now, failing)
        /\ UNCHANGED <<feed, now, fetched, remembered, lost>>
    BY <1>2 DEF BroadcastAndClean, memory
  <2>2. /\ stockPrices' \subseteq stockPrices
        /\ \A r \in stockPrices \ stockPrices' : r.timestamp < now - Retention
        /\ DOMAIN aggregations' = Window
    BY <2>1, CleanupKeeps
  <2>3. Types'
    BY <2>1, <2>2 DEF IInv, Types
  <2>4. now \in Nat /\ now' >= now
    BY <2>1 DEF IInv, Types
  <2>5. Stored'
    BY <2>1, <2>2, <2>4, StoredStays DEF IInv
  <2> QED BY <2>1, <2>3, <2>5 DEF IInv, LoadIsComplete
<1>3. CASE Tick
  <2>1. /\ stage' = stage /\ stage \in {"fetch", "idle"} /\ now' = now + 1
        /\ UNCHANGED <<feed, fetched, remembered, lost, stockPrices, aggregations>>
    BY <1>3 DEF Tick, memory, work, history, tables
  <2>2. now' \in Nat \ {0} /\ now' >= now
    BY <2>1 DEF IInv, Types
  <2>3. Types'
    <3>1. 0..now \subseteq 0..now'
      BY <2>1 DEF IInv, Types
    <3> QED BY <2>1, <2>2, <3>1 DEF IInv, Types
  <2>4. CASE stage = "fetch"
    BY <2>1, <2>3, <2>4 DEF IInv, LoadIsComplete, Stored
  <2>5. CASE stage = "idle"
    <3>1. Stored'
      BY <2>1, <2>2, <2>5, StoredStays DEF IInv
    <3> QED BY <2>1, <2>3, <2>5, <3>1 DEF IInv, LoadIsComplete
  <2> QED BY <2>1, <2>4, <2>5
<1>4. ASSUME UNCHANGED <<feed, now, fetched, remembered, lost, stockPrices>>,
             DOMAIN aggregations' = Window,
             \/ stage' = stage /\ batch' = batch
             \/ stage \notin {"fetch", "initial"} /\ stage' \notin {"fetch", "initial"}
      PROVE  IInv'
  <2>1. AllReceived' = AllReceived
    BY <1>4 DEF AllReceived, Bars, Times, Row
  <2>2. Types'
    BY <1>4 DEF IInv, Types
  <2>3. Stored'
    BY <1>4, <2>1 DEF IInv, Stored
  <2>4. LoadIsComplete'
    <3>1. CASE stage' = stage /\ batch' = batch
      BY <1>4, <2>1, <3>1 DEF IInv, LoadIsComplete
    <3>2. CASE stage' \notin {"fetch", "initial"}
      BY <3>2 DEF LoadIsComplete
    <3> QED BY <1>4, <3>1, <3>2
  <2> QED BY <2>2, <2>3, <2>4 DEF IInv
<1>5. DOMAIN aggregations = Window
  BY DEF IInv, Types
<1>6. ASSUME NEW failing, InitialWindow(failing)
      PROVE  IInv'
  <2>1. /\ UNCHANGED <<feed, now, fetched, remembered, lost, stockPrices, stage, batch>>
        /\ \E w, rows, fails : SaveAggregations(w, rows, fails)
    BY <1>6 DEF InitialWindow, memory
  <2>2. DOMAIN aggregations' = Window
    BY <1>5, <2>1 DEF SaveAggregations
  <2> QED BY <1>4, <2>1, <2>2
<1>7. ASSUME NEW failing, UpdateWindow(failing)
      PROVE  IInv'
  <2>1. /\ UNCHANGED <<feed, now, fetched, remembered, lost, stockPrices, stage, batch>>
        /\ \E w, rows, fails : SaveAggregations(w, rows, fails)
    BY <1>7 DEF UpdateWindow, memory
  <2>2. DOMAIN aggregations' = Window
    BY <1>5, <2>1 DEF SaveAggregations
  <2> QED BY <1>4, <2>1, <2>2
<1>8. CASE Serve
  <2>1. /\ UNCHANGED <<feed, now, fetched, remembered, lost, stockPrices, aggregations>>
        /\ stage = "update" /\ stage' = "broadcast"
    BY <1>8 DEF Serve, memory, history, tables
  <2> QED BY <1>4, <1>5, <2>1
<1>9. CASE HubReplacesState \/ UNCHANGED vars
  <2>1. UNCHANGED <<feed, now, fetched, remembered, lost, stockPrices, aggregations, stage, batch>>
    BY <1>9 DEF HubReplacesState, vars, memory, work, history, tables
  <2> QED BY <1>4, <1>5, <2>1
<1> QED BY <1>1, <1>2, <1>3, <1>6, <1>7, <1>8, <1>9

\* The invariant holds at the start.
LEMMA InitInv == Init => IInv
<1>1. SUFFICES ASSUME Init
               PROVE  IInv
  OBVIOUS
<1>2. /\ feed \in Feeds /\ now = 1 /\ fetched = [s \in Symbol |-> 0] /\ remembered = fetched
      /\ stage = "fetch" /\ stockPrices = {} /\ lost = {}
      /\ aggregations = [w \in Window |-> {}]
  BY <1>1 DEF Init, Recreated
<1> QED BY <1>2 DEF IInv, Types, LoadIsComplete, Stored

\* The invariant is inductive.
LEMMA StepInv == IInv /\ [Next]_vars => IInv'
<1>1. SUFFICES ASSUME IInv, [Next]_vars
               PROVE  IInv'
  OBVIOUS
<1>2. ASSUME NEW answered \in SUBSET Symbol, FetchInitialData(answered)
      PROVE  IInv'
  BY <1>1, <1>2, FetchInitialPreserves
<1>3. ASSUME NEW failing, FinishInitialLoad(failing)
      PROVE  IInv'
  BY <1>1, <1>3, FinishInitialPreserves
<1>4. ASSUME NEW symbols \in SUBSET Symbol, NEW restarted \in BOOLEAN, NEW failing,
             Receive(symbols, restarted, failing)
      PROVE  IInv'
  BY <1>1, <1>4, ReceivePreserves
<1>5. CASE \/ Tick \/ Serve \/ HubReplacesState \/ Restart \/ UNCHANGED vars
           \/ \E failing : InitialWindow(failing) \/ UpdateWindow(failing) \/ BroadcastAndClean(failing)
  BY <1>1, <1>5, OthersPreserve
<1> QED BY <1>1, <1>2, <1>3, <1>4, <1>5 DEF Next

------------------------------------------------------------------------------
(* Slices of a feed and the windows in them. *)

\* All of a sequence is the sequence.
LEMMA WholeSubSeq ==
  ASSUME NEW S, NEW n \in Nat, NEW g \in [1..n -> S]
  PROVE  SubSeq(g, 1, n) = g
<1>1. g \in Seq(S) /\ Len(g) = n /\ DOMAIN g = 1..n
  BY SeqDef, LenProperties
<1>2. /\ SubSeq(g, 1, n) \in Seq(S) /\ Len(SubSeq(g, 1, n)) = n
      /\ \A i \in 1..n : SubSeq(g, 1, n)[i] = g[i]
  <2>1. 1 \in 1..(Len(g) + 1) /\ n \in (1 - 1)..Len(g) /\ n - 1 + 1 = n /\ \A i \in 1..n : 1 + i - 1 = i
    BY <1>1
  <2> QED BY <1>1, <2>1, SubSeqProperties
<1> QED BY <1>1, <1>2, SeqEqual

\* A slice of points in the order of time is in that order.
LEMMA Slices ==
  ASSUME NEW f, Rising(f), NEW a \in 0..Len(f), NEW b \in a..Len(f)
  PROVE  LET g == SubSeq(f, a + 1, b)
         IN  /\ Rising(g)
             /\ Len(g) = b - a /\ DOMAIN g = 1..(b - a)
             /\ \A i \in 1..(b - a) : g[i] = f[a + i]
             /\ a < b => g # <<>> /\ Last(g) = f[b]
<1> DEFINE g == SubSeq(f, a + 1, b)
           S == ToSet(f)
<1>1. /\ f \in Seq(S) /\ Len(f) \in Nat /\ DOMAIN f = 1..Len(f)
      /\ \A i \in DOMAIN f : f[i].timestamp \in Nat
      /\ \A i, j \in DOMAIN f : i < j => f[i].timestamp < f[j].timestamp
  BY LenProperties DEF Rising
<1>2. \A i \in 1..Len(f) : f[i] \in S
  BY <1>1 DEF ToSet
<1> HIDE DEF S
<1>3. a \in Int /\ b \in Int /\ a <= b /\ b <= Len(f)
  BY <1>1
<1>4. g \in Seq(S) /\ Len(g) = b - a /\ \A i \in 1..(b - a) : g[i] = f[a + i]
  <2>1. a + 1 \in Int /\ \A i \in (a + 1)..b : f[i] \in S
    BY <1>2, <1>3
  <2>2. /\ SubSeq(f, a + 1, b) \in Seq(S)
        /\ Len(SubSeq(f, a + 1, b)) = IF a + 1 <= b THEN b - (a + 1) + 1 ELSE 0
        /\ \A i \in 1..(b - (a + 1) + 1) : SubSeq(f, a + 1, b)[i] = f[(a + 1) + i - 1]
    BY <1>3, <2>1, SubSeqProperties
  <2>3. /\ b - (a + 1) + 1 = b - a
        /\ \A i \in 1..(b - a) : (a + 1) + i - 1 = a + i
        /\ (IF a + 1 <= b THEN b - (a + 1) + 1 ELSE 0) = b - a
    BY <1>3
  <2> QED BY <2>2, <2>3
<1>5. DOMAIN g = 1..(b - a)
  BY <1>4, LenProperties
<1> HIDE DEF g
<1>6. \A i \in 1..(b - a) : a + i \in DOMAIN f
  BY <1>1, <1>3
<1>7. Rising(g)
  <2>1. g \in Seq(ToSet(g))
    <3>1. g \in [1..(b - a) -> ToSet(g)]
      BY <1>4, <1>5, LenProperties DEF ToSet
    <3>2. b - a \in Nat
      BY <1>3
    <3> QED BY <3>1, <3>2, SeqDef
  <2>2. ASSUME NEW i \in DOMAIN g, NEW j \in DOMAIN g
        PROVE  g[i].timestamp \in Nat /\ (i < j => g[i].timestamp < g[j].timestamp)
    <3>1. g[i] = f[a + i] /\ g[j] = f[a + j] /\ a + i \in DOMAIN f /\ a + j \in DOMAIN f
      BY <1>4, <1>5, <1>6
    <3>2. i < j => a + i < a + j
      BY <1>3, <1>5
    <3> QED BY <1>1, <3>1, <3>2
  <2> QED BY <2>1, <2>2 DEF Rising
<1>8. ASSUME a < b
      PROVE  g # <<>> /\ Last(g) = f[b]
  <2>1. b - a \in 1..(b - a) /\ a + (b - a) = b
    BY <1>3, <1>8
  <2>2. g # <<>>
    BY <1>5, <2>1
  <2> QED BY <1>4, <2>1, <2>2 DEF Last
<1> QED BY <1>4, <1>5, <1>7, <1>8 DEF g

\* A slice of a slice is a slice.
LEMMA SliceOfSlice ==
  ASSUME NEW f, Rising(f), NEW a \in 0..Len(f), NEW b \in a..Len(f),
         NEW c \in 0..(b - a), NEW d \in c..(b - a)
  PROVE  SubSeq(SubSeq(f, a + 1, b), c + 1, d) = SubSeq(f, (a + c) + 1, a + d)
<1> DEFINE g == SubSeq(f, a + 1, b)
           h == SubSeq(g, c + 1, d)
           k == SubSeq(f, (a + c) + 1, a + d)
<1>0. Len(f) \in Nat
  BY LenProperties DEF Rising
<1>1. /\ Rising(g) /\ Len(g) = b - a
      /\ \A i \in 1..(b - a) : g[i] = f[a + i]
  BY Slices
<1>2. c \in 0..Len(g) /\ d \in c..Len(g)
  BY <1>0, <1>1
<1>3. a + c \in 0..Len(f) /\ a + d \in (a + c)..Len(f)
  BY <1>0
<1> HIDE DEF g
<1>4. /\ Rising(h) /\ Len(h) = d - c /\ DOMAIN h = 1..(d - c)
      /\ \A i \in 1..(d - c) : h[i] = g[c + i]
  BY <1>1, <1>2, Slices
<1>5. /\ Rising(k) /\ Len(k) = (a + d) - (a + c) /\ DOMAIN k = 1..((a + d) - (a + c))
      /\ \A i \in 1..((a + d) - (a + c)) : k[i] = f[(a + c) + i]
  BY <1>3, Slices
<1> HIDE DEF h, k
<1>6. (a + d) - (a + c) = d - c
  BY <1>0
<1>7. ASSUME NEW i \in 1..(d - c)
      PROVE  h[i] = k[i]
  <2>1. c + i \in 1..(b - a) /\ a + (c + i) = (a + c) + i
    BY <1>0
  <2> QED BY <1>1, <1>4, <1>5, <1>6, <2>1
<1>8. h = [i \in 1..(d - c) |-> h[i]] /\ k = [i \in 1..(d - c) |-> k[i]]
  <2>1. h \in [1..(d - c) -> ToSet(h)] /\ k \in [1..(d - c) -> ToSet(k)]
    BY <1>4, <1>5, <1>6, LenProperties DEF Rising
  <2> QED BY <2>1
<1> QED BY <1>7, <1>8 DEF g, h, k

\* The number x, or the end of a..b it is beyond.
Within(a, x, b) == IF x < a THEN a ELSE IF x > b THEN b ELSE x

\* The points of a window in a slice are a slice: those of the window that the slice has.
LEMMA BetweenOfSlice ==
  ASSUME NEW f, Rising(f), NEW a \in 0..Len(f), NEW b \in a..Len(f),
         NEW from \in Int, NEW to \in Int, from <= to
  PROVE  LET c == Within(a, Before(f, from), b)
             d == Within(a, Before(f, to), b)
         IN  /\ c \in a..b /\ d \in c..b
             /\ Between(SubSeq(f, a + 1, b), from, to) = SubSeq(f, c + 1, d)
<1> DEFINE g == SubSeq(f, a + 1, b)
<1>1. /\ Rising(g) /\ Len(g) = b - a
      /\ \A i \in 1..(b - a) : g[i] = f[a + i]
  BY Slices
<1>2. /\ Len(f) \in Nat /\ DOMAIN f = 1..Len(f)
      /\ \A t \in Int : /\ Before(f, t) \in 0..Len(f)
                        /\ \A i \in 1..Len(f) : i <= Before(f, t) <=> f[i].timestamp < t
  <2>1. \A t \in Int : /\ Before(f, t) \in 0..Len(f)
                      /\ \A i \in 1..Len(f) : i <= Before(f, t) <=> f[i].timestamp < t
    BY BeforeCounts
  <2> QED BY <2>1, LenProperties DEF Rising
<1> HIDE DEF g
<1>3. ASSUME NEW t \in Int
      PROVE  /\ Within(a, Before(f, t), b) \in a..b
             /\ Before(g, t) = Within(a, Before(f, t), b) - a
  <2> DEFINE x == Before(f, t)
             m == Before(g, t)
             k == Within(a, x, b) - a
  <2>1. /\ m \in 0..(b - a)
        /\ \A i \in 1..(b - a) : i <= m <=> g[i].timestamp < t
    BY <1>1, <1>3, BeforeCounts
  <2>2. /\ x \in 0..Len(f)
        /\ \A i \in 1..Len(f) : i <= x <=> f[i].timestamp < t
    BY <1>2
  <2> HIDE DEF x, m
  <2>3. k \in 0..(b - a) /\ Within(a, x, b) \in a..b
    BY <1>2, <2>2 DEF Within
  <2>4. \A i \in 1..(b - a) : i <= k <=> a + i <= x
    <3>1. a \in Int /\ b \in Int /\ x \in Int /\ a <= b
      BY <1>2, <2>2
    <3> QED BY <3>1 DEF Within
  <2>5. \A i \in 1..(b - a) : a + i \in 1..Len(f)
    BY <1>2
  <2>6. \A i \in 1..(b - a) : i <= k <=> i <= m
    BY <1>1, <2>1, <2>2, <2>4, <2>5
  <2> HIDE DEF k
  <2>7. m = k
    <3>1. b - a \in Nat
      BY <1>2
    <3>2. CASE m < k
      <4>1. k \in 1..(b - a)
        BY <2>1, <2>3, <3>1, <3>2
      <4> QED BY <2>1, <2>3, <2>6, <3>2, <4>1
    <3>3. CASE k < m
      <4>1. m \in 1..(b - a)
        BY <2>1, <2>3, <3>1, <3>3
      <4> QED BY <2>1, <2>3, <2>6, <3>3, <4>1
    <3> QED BY <2>1, <2>3, <3>1, <3>2, <3>3
  <2> QED BY <2>3, <2>7 DEF x, m, k
<1> DEFINE c == Within(a, Before(f, from), b)
           d == Within(a, Before(f, to), b)
<1>4. c \in a..b /\ d \in a..b /\ Before(g, from) = c - a /\ Before(g, to) = d - a
  BY <1>3
<1>5. c <= d
  <2> DEFINE x == Before(f, from)
             y == Before(f, to)
  <2>1. x \in 0..Len(f) /\ y \in 0..Len(f)
    BY <1>2
  <2>2. x <= y
    BY BeforeGrows
  <2> HIDE DEF x, y
  <2>3. Within(a, x, b) <= Within(a, y, b)
    <3>1. a \in Int /\ b \in Int /\ x \in Int /\ y \in Int /\ a <= b
      BY <1>2, <2>1
    <3> QED BY <2>2, <3>1 DEF Within
  <2> QED BY <2>3 DEF x, y
<1> HIDE DEF c, d
<1>6. Between(g, from, to) = SubSeq(g, (c - a) + 1, d - a)
  BY <1>4 DEF Between
<1>7. c - a \in 0..(b - a) /\ d - a \in (c - a)..(b - a) /\ a + (c - a) = c /\ a + (d - a) = d
  <2>1. a \in Int /\ b \in Int /\ c \in a..b /\ d \in a..b /\ c <= d
    BY <1>2, <1>4, <1>5
  <2> QED BY <2>1
<1>8. SubSeq(g, (c - a) + 1, d - a) = SubSeq(f, c + 1, d)
  <2> DEFINE p == c - a
             q == d - a
  <2>1. p \in 0..(b - a) /\ q \in p..(b - a) /\ a + p = c /\ a + q = d
    BY <1>7
  <2> HIDE DEF p, q
  <2>2. SubSeq(SubSeq(f, a + 1, b), p + 1, q) = SubSeq(f, (a + p) + 1, a + q)
    BY <2>1, SliceOfSlice
  <2> QED BY <2>1, <2>2 DEF g, p, q
<1>9. d \in c..b
  BY <1>2, <1>4, <1>5
<1> QED BY <1>4, <1>6, <1>8, <1>9 DEF c, d, g

\* A counted interval.
LEMMA CountTo ==
  ASSUME NEW n \in Nat
  PROVE  IsFiniteSet(1..n) /\ Cardinality(1..n) = n
<1>1. 1 \in Int /\ n \in Int /\ (IF 1 > n THEN 0 ELSE n - 1 + 1) = n
  OBVIOUS
<1> QED BY <1>1, FS_Interval

\* Sorting leaves points that are in order as they are.
LEMMA SortedStays ==
  ASSUME NEW f, Rising(f)
  PROVE  SortByTimestamp(f) = f
<1> DEFINE L == Len(f)
           place == [j \in 1..L |-> Cardinality({i \in 1..L : Earlier(f, i, j)}) + 1]
           g == [n \in 1..L |-> f[CHOOSE j \in 1..L : place[j] = n]]
<1>1. /\ f \in Seq(ToSet(f)) /\ L \in Nat /\ DOMAIN f = 1..L
      /\ f \in [1..L -> ToSet(f)]
      /\ \A i \in 1..L : f[i].timestamp \in Nat
      /\ \A i, j \in 1..L : i < j => f[i].timestamp < f[j].timestamp
  BY LenProperties DEF Rising
<1>2. Cardinality(1..L) = L
  BY <1>1, CountTo
<1>3. SortByTimestamp(f) = SubSeq(g, 1, L)
  BY <1>1, <1>2 DEF SortByTimestamp, InOrderOfTime
<1> HIDE DEF L
<1>4. ASSUME NEW j \in 1..L
      PROVE  place[j] = j
  <2>1. {i \in 1..L : Earlier(f, i, j)} = 1..(j - 1)
    <3>1. ASSUME NEW i \in 1..L
          PROVE  Earlier(f, i, j) <=> i < j
      <4>1. i \in Nat /\ j \in Nat /\ f[i].timestamp \in Nat /\ f[j].timestamp \in Nat
        BY <1>1
      <4>2. i = j \/ (i < j /\ f[i].timestamp < f[j].timestamp) \/ (j < i /\ f[j].timestamp < f[i].timestamp)
        BY <1>1, <4>1
      <4> QED BY <4>1, <4>2 DEF Earlier
    <3>2. 1..(j - 1) \subseteq 1..L /\ \A i \in 1..L : i \in 1..(j - 1) <=> i < j
      BY <1>1
    <3> QED BY <3>1, <3>2
  <2>2. Cardinality(1..(j - 1)) = j - 1
    <3>1. j - 1 \in Nat
      BY <1>1
    <3> QED BY <3>1, CountTo
  <2>3. j - 1 + 1 = j
    BY <1>1
  <2> QED BY <2>1, <2>2, <2>3
<1> HIDE DEF place
<1>5. g = f
  <2>1. ASSUME NEW n \in 1..L
        PROVE  (CHOOSE j \in 1..L : place[j] = n) = n
    BY <1>4
  <2>2. ASSUME NEW n \in 1..L
        PROVE  g[n] = f[n]
    BY <2>1
  <2>3. g = [n \in 1..L |-> g[n]] /\ f = [n \in 1..L |-> f[n]]
    BY <1>1
  <2> HIDE DEF g
  <2> QED BY <2>2, <2>3
<1>6. SubSeq(f, 1, L) = f
  BY <1>1, WholeSubSeq
<1> QED BY <1>3, <1>5, <1>6

\* A set of times in ascending order.
LEMMA AscendingOrder ==
  ASSUME NEW S \in SUBSET Int, IsFiniteSet(S)
  PROVE  LET asc == Ascending(S)
             n == Cardinality(S)
         IN  /\ n \in Nat /\ asc = [k \in 1..n |-> asc[k]]
             /\ \A k \in 1..n : asc[k] \in S /\ Cardinality({u \in S : u < asc[k]}) = k - 1
             /\ \A k, l \in 1..n : asc[k] = asc[l] => k = l
             /\ \A k, l \in 1..n : k < l => asc[k] < asc[l]
             /\ \A t \in S : n # 0 /\ asc[n] >= t
             /\ \A t \in S : \E k \in 1..n : asc[k] = t
<1> DEFINE n == Cardinality(S)
           Less(t) == {u \in S : u < t}
           rank == [t \in S |-> Cardinality(Less(t)) + 1]
           asc == Ascending(S)
<1>1. n \in Nat
  BY FS_CardinalityType
<1>2. asc = [k \in 1..n |-> CHOOSE t \in S : Cardinality(Less(t)) = k - 1]
  BY DEF Ascending
<1>3. \A t \in S : IsFiniteSet(Less(t)) /\ Cardinality(Less(t)) \in Nat
  <2>1. ASSUME NEW t \in S
        PROVE  IsFiniteSet(Less(t)) /\ Cardinality(Less(t)) \in Nat
    <3>1. Less(t) \in SUBSET S
      OBVIOUS
    <3> HIDE DEF Less
    <3> QED BY <3>1, FS_Subset, FS_CardinalityType
  <2> QED BY <2>1
<1>4. ASSUME NEW t \in S, NEW u \in S, t < u
      PROVE  rank[t] < rank[u]
  <2>1. Less(t) \union {t} \subseteq Less(u) /\ t \notin Less(t)
    <3>1. t \in Int /\ u \in Int /\ \A v \in S : v \in Int
      OBVIOUS
    <3>2. ~(t < t) /\ \A v \in S : v < t => v < u
      BY <1>4, <3>1
    <3> QED BY <1>4, <3>2
  <2> HIDE DEF Less
  <2>2. Cardinality(Less(t) \union {t}) = Cardinality(Less(t)) + 1
    BY <1>3, <2>1, FS_AddElement
  <2>3. Cardinality(Less(t) \union {t}) <= Cardinality(Less(u))
    BY <1>3, <2>1, FS_Subset
  <2> QED BY <1>3, <2>2, <2>3
<1>5. rank \in [S -> 1..n]
  <2>1. ASSUME NEW t \in S
        PROVE  Cardinality(Less(t)) + 1 \in 1..n
    <3>1. Less(t) \union {t} \subseteq S /\ t \notin Less(t)
      OBVIOUS
    <3> HIDE DEF Less
    <3>2. Cardinality(Less(t) \union {t}) = Cardinality(Less(t)) + 1
      BY <1>3, <3>1, FS_AddElement
    <3>3. Cardinality(Less(t) \union {t}) <= n
      BY <3>1, FS_Subset
    <3> QED BY <1>1, <1>3, <3>2, <3>3
  <2> HIDE DEF Less
  <2> QED BY <2>1
<1>6. \A k \in 1..n : /\ asc[k] \in S /\ rank[asc[k]] = k
                      /\ Cardinality({u \in S : u < asc[k]}) = k - 1
  <2> HIDE DEF asc
  <2>1. \A t, u \in S : rank[t] = rank[u] => t = u
    <3>1. SUFFICES ASSUME NEW t \in S, NEW u \in S, rank[t] = rank[u]
                   PROVE  t = u
      OBVIOUS
    <3> HIDE DEF rank
    <3>2. rank[t] \in Nat /\ rank[u] \in Nat
      BY <1>1, <1>5
    <3>3. ~(t < u) /\ ~(u < t)
      BY <1>4, <3>1, <3>2
    <3> QED BY <3>3
  <2>2. rank \in Surjection(S, 1..n)
    <3> HIDE DEF rank
    <3>1. rank \in Injection(S, 1..n)
      BY <1>5, <2>1 DEF Injection, IsInjective
    <3>2. IsFiniteSet(1..n) /\ Cardinality(1..n) = n
      BY <1>1, CountTo
    <3> QED BY <3>1, <3>2, FS_Injection DEF n
  <2>3. ASSUME NEW k \in 1..n
        PROVE  /\ asc[k] \in S /\ rank[asc[k]] = k
               /\ Cardinality({u \in S : u < asc[k]}) = k - 1
    <3>1. PICK t \in S : rank[t] = k
      <4> HIDE DEF rank
      <4> QED BY <2>2 DEF Surjection
    <3> HIDE DEF Less
    <3>2. Cardinality(Less(t)) = k - 1
      BY <1>1, <1>3, <3>1
    <3>3. asc[k] \in S /\ Cardinality(Less(asc[k])) = k - 1
      BY <1>2, <3>2
    <3>4. rank[asc[k]] = k
      BY <1>1, <3>3
    <3> QED BY <3>3, <3>4 DEF Less
  <2> QED BY <2>3
<1> HIDE DEF rank
<1>7. ASSUME NEW t \in S
      PROVE  n # 0 /\ asc[n] >= t
  <2>1. rank[t] \in 1..n
    BY <1>5
  <2>2. n # 0 /\ n \in 1..n
    BY <1>1, <2>1
  <2>3. asc[n] \in S /\ rank[asc[n]] = n
    BY <1>6, <2>2
  <2> HIDE DEF n, asc
  <2>4. ~(asc[n] < t)
    <3>1. ASSUME asc[n] < t PROVE FALSE
      <4>1. n < rank[t]
        BY <1>4, <2>3, <3>1
      <4> QED BY <1>1, <2>1, <4>1
    <3> QED BY <3>1
  <2>5. asc[n] \in Int /\ t \in Int
    BY <2>3
  <2> QED BY <2>2, <2>4, <2>5
<1>8. \A k, l \in 1..n : asc[k] = asc[l] => k = l
  BY <1>6
<1>9. asc = [k \in 1..n |-> asc[k]]
  BY <1>2
<1> HIDE DEF n, asc
<1>10. \A t, u \in S : rank[t] <= rank[u] => t <= u
  <2>1. ASSUME NEW t \in S, NEW u \in S, rank[t] <= rank[u]
        PROVE  t <= u
    <3>1. rank[t] \in Int /\ rank[u] \in Int /\ t \in Int /\ u \in Int
      BY <1>1, <1>5
    <3>2. ~(u < t)
      BY <1>4, <2>1, <3>1
    <3> QED BY <3>1, <3>2
  <2> QED BY <2>1
<1>11. \A k, l \in 1..n : k < l => asc[k] < asc[l]
  <2>1. ASSUME NEW k \in 1..n, NEW l \in 1..n, k < l
        PROVE  asc[k] < asc[l]
    <3>1. asc[k] \in S /\ asc[l] \in S /\ rank[asc[k]] = k /\ rank[asc[l]] = l
      BY <1>6
    <3>2. k \in Int /\ l \in Int /\ k # l /\ k <= l
      BY <1>1, <2>1
    <3>3. asc[k] \in Int /\ asc[l] \in Int
      BY <3>1
    <3>4. asc[k] <= asc[l] /\ asc[k] # asc[l]
      BY <1>8, <1>10, <3>1, <3>2
    <3> QED BY <3>3, <3>4
  <2> QED BY <2>1
<1>12. ASSUME NEW t \in S
       PROVE  \E k \in 1..n : asc[k] = t
  <2> DEFINE k == rank[t]
             u == asc[k]
  <2>1. k \in 1..n
    BY <1>5
  <2>2. u \in S /\ rank[u] = k
    BY <1>6, <2>1
  <2>3. k \in Int /\ k <= k
    BY <1>1, <2>1
  <2>4. u <= t
    <3>1. rank[u] <= rank[t]
      BY <2>2, <2>3
    <3> HIDE DEF u
    <3> QED BY <1>10, <2>2, <3>1
  <2>5. t <= u
    <3>1. rank[t] <= rank[u]
      BY <2>2, <2>3
    <3> HIDE DEF u
    <3> QED BY <1>10, <2>2, <3>1
  <2>6. u \in Int /\ t \in Int
    BY <2>2
  <2> HIDE DEF u
  <2>7. u = t
    BY <2>4, <2>5, <2>6
  <2> QED BY <2>1, <2>7 DEF u
<1> QED BY <1>1, <1>6, <1>7, <1>8, <1>9, <1>11, <1>12 DEF n, asc

\* A time is in the window that starts where WindowStart says.
LEMMA WindowHolds ==
  ASSUME NEW t \in Nat, NEW seconds \in Nat \ {0}
  PROVE  /\ WindowStart(t, seconds) \in Nat
         /\ WindowStart(t, seconds) <= t /\ t < WindowStart(t, seconds) + seconds
<1>1. t % seconds \in 0..(seconds - 1)
  OBVIOUS
<1>2. t % seconds <= t
  OBVIOUS
<1> QED BY <1>1, <1>2 DEF WindowStart

------------------------------------------------------------------------------
(* The candles of a history that is in order. *)

\* Later times are in the same window or in a later one.
LEMMA WindowsAscend ==
  ASSUME NEW t \in Nat, NEW u \in Nat, t <= u, NEW seconds \in Nat \ {0}
  PROVE  WindowStart(t, seconds) <= WindowStart(u, seconds)
<1> DEFINE a == t \div seconds
           b == u \div seconds
<1>1. /\ a \in Nat /\ b \in Nat
      /\ t = seconds * a + (t % seconds) /\ u = seconds * b + (u % seconds)
      /\ t % seconds \in 0..(seconds - 1) /\ u % seconds \in 0..(seconds - 1)
  OBVIOUS
<1>2. WindowStart(t, seconds) = seconds * a /\ WindowStart(u, seconds) = seconds * b
  <2>1. \A x, y, z \in Int : x = y + z => x - z = y
    OBVIOUS
  <2>2. seconds * a \in Int /\ seconds * b \in Int /\ t % seconds \in Int /\ u % seconds \in Int
    BY <1>1
  <2> DEFINE p == seconds * a
             q == seconds * b
             r == t % seconds
             v == u % seconds
  <2>3. p \in Int /\ q \in Int /\ r \in Int /\ v \in Int /\ t = p + r /\ u = q + v
    BY <1>1, <2>2
  <2>4. WindowStart(t, seconds) = t - r /\ WindowStart(u, seconds) = u - v
    BY DEF WindowStart
  <2> HIDE DEF p, q, r, v
  <2>5. t - r = p /\ u - v = q
    BY <2>1, <2>3
  <2> QED BY <2>4, <2>5 DEF p, q
<1> HIDE DEF a, b
<1>3. a <= b
  <2>1. ASSUME b < a PROVE FALSE
    <3>1. PICK c \in Nat : a = b + 1 + c
      <4>1. a - b - 1 \in Nat /\ a = b + 1 + (a - b - 1)
        BY <1>1, <2>1
      <4> QED BY <4>1
    <3>2. seconds * a = seconds * b + seconds + seconds * c /\ seconds * c \in Nat /\ seconds * b \in Nat
      BY <1>1, <3>1
    <3> QED BY <1>1, <3>2
  <2> QED BY <1>1, <2>1
<1>4. seconds * a <= seconds * b
  <2>1. PICK c \in Nat : b = a + c
    <3>1. b - a \in Nat /\ b = a + (b - a)
      BY <1>1, <1>3
    <3> QED BY <3>1
  <2>2. seconds * b = seconds * a + seconds * c /\ seconds * c \in Nat /\ seconds * a \in Nat
    BY <1>1, <2>1
  <2> QED BY <2>2
<1> QED BY <1>2, <1>4

\* The candle of the points of a window says so.
CandleOf(c, points, start, seconds) ==
  /\ c.startTime = start /\ c.endTime = start + seconds
  /\ Shape(c) = Shape(ComputeOHLCV(points))

\* A candle says its window and has the shape of its points.
LEMMA CandleSays ==
  ASSUME NEW points, NEW start, NEW seconds, NEW average, NEW change, NEW volumeChange
  PROVE  CandleOf(Candle(points, start, seconds, average, change, volumeChange), points, start, seconds)
BY DEF CandleOf, Candle, Shape

\* The real-time candle is of the window of the newest point.
LEMMA LatestCandleOf ==
  ASSUME NEW f, Rising(f), NEW seconds, NEW average
  PROVE  LET start == WindowStart(Last(f).timestamp, seconds)
         IN  CandleOf(LatestCandle(f, seconds, average), Between(f, start, start + seconds), start, seconds)
BY SortedStays, CandleSays DEF LatestCandle

\* The newest point comes last.
LEMMA LastIsNewest ==
  ASSUME NEW f, InOrder(f), f # <<>>
  PROVE  /\ Len(f) \in DOMAIN f /\ Last(f) = f[Len(f)]
         /\ \A i \in DOMAIN f : f[i].timestamp \in Nat /\ f[i].timestamp <= Last(f).timestamp
<1>1. Len(f) \in Nat /\ DOMAIN f = 1..Len(f) /\ Len(f) # 0
  BY LenProperties, EmptySeq DEF InOrder
<1>2. Len(f) \in DOMAIN f
  BY <1>1
<1>3. \A i \in DOMAIN f : f[i].timestamp \in Nat /\ (i = Len(f) \/ f[i].timestamp <= f[Len(f)].timestamp)
  BY <1>1, <1>2 DEF InOrder
<1> QED BY <1>2, <1>3 DEF Last

\* The historical candles are those of the windows with a point, each of one window,
\* and the last of them is that of the newest point.
AreCandlesOf(all, n, f, seconds) ==
  /\ n \in Nat \ {0} /\ all = [k \in 1..n |-> all[k]] /\ Last(all) = all[n]
  /\ \A k \in 1..n : \E i \in DOMAIN f :
       LET start == WindowStart(f[i].timestamp, seconds)
       IN  CandleOf(all[k], Between(f, start, start + seconds), start, seconds)
  /\ \A k, l \in 1..n : all[k].startTime = all[l].startTime => k = l
  /\ all[n].startTime = WindowStart(Last(f).timestamp, seconds)

\* All candles of a history in order are of its windows, one each, the newest last.
LEMMA AllCandlesOf ==
  ASSUME NEW f, Rising(f), f # <<>>, NEW seconds \in Nat \ {0}, NEW average
  PROVE  \E n : AreCandlesOf(AllCandles(f, seconds, average), n, f, seconds)
<1> DEFINE all == AllCandles(f, seconds, average)
           S == {WindowStart(p.timestamp, seconds) : p \in ToSet(f)}
           n == Cardinality(S)
           starts == Ascending(S)
<1>1. S = {WindowStart(f[i].timestamp, seconds) : i \in DOMAIN f}
  BY DEF ToSet
<1>2. /\ Len(f) \in DOMAIN f /\ Last(f) = f[Len(f)]
      /\ \A i \in DOMAIN f : f[i].timestamp \in Nat /\ f[i].timestamp <= Last(f).timestamp
  BY RisingInOrder, LastIsNewest
<1>3. ASSUME NEW i \in DOMAIN f
      PROVE  /\ WindowStart(f[i].timestamp, seconds) \in Nat
             /\ WindowStart(f[i].timestamp, seconds) <= WindowStart(Last(f).timestamp, seconds)
  BY <1>2, WindowHolds, WindowsAscend
<1>4. S \in SUBSET Nat /\ IsFiniteSet(S)
  <2>1. S \in SUBSET Nat
    BY <1>1, <1>3
  <2>2. WindowStart(Last(f).timestamp, seconds) \in Nat
    BY <1>2, <1>3
  <2>3. \A t \in S : t <= WindowStart(Last(f).timestamp, seconds)
    BY <1>1, <1>3
  <2> HIDE DEF S
  <2> QED BY <2>1, <2>2, <2>3, FS_BoundedSetOfNaturals
<1>5. /\ n \in Nat /\ starts = [k \in 1..n |-> starts[k]]
      /\ \A k \in 1..n : starts[k] \in S
      /\ \A k, l \in 1..n : starts[k] = starts[l] => k = l
      /\ \A t \in S : n # 0 /\ starts[n] >= t
  <2>1. S \in SUBSET Int
    BY <1>4
  <2> HIDE DEF S
  <2> QED BY <1>4, <2>1, AscendingOrder
<1>6. ASSUME NEW k \in 1..n
      PROVE  CandleOf(all[k], Between(f, starts[k], starts[k] + seconds), starts[k], seconds)
  <2> HIDE DEF S, n
  <2>1. DOMAIN starts = 1..n
    BY <1>5
  <2> HIDE DEF starts
  <2> DEFINE window(i) == Between(f, starts[i], starts[i] + seconds)
  <2>2. all[k] = IF k = 1
                 THEN Candle(window(k), starts[k], seconds, average, Zero, Zero)
                 ELSE Candle(window(k), starts[k], seconds, average,
                        CalculateChangePercent(Last(window(k)).price, Last(window(k - 1)).price),
                        CalculateChangePercent(TotalVolume(window(k)), TotalVolume(window(k - 1))))
    BY <2>1, SortedStays DEF AllCandles, starts, S
  <2> QED BY <2>2, CandleSays
<1>7. all = [k \in 1..n |-> all[k]]
  <2>1. DOMAIN starts = 1..n
    BY <1>5
  <2> HIDE DEF n
  <2> QED BY <2>1, SortedStays DEF AllCandles
<1> HIDE DEF all, starts, n
<1>8. WindowStart(Last(f).timestamp, seconds) \in S
  BY <1>1, <1>2
<1>9. n \in Nat \ {0} /\ n \in 1..n
  BY <1>5, <1>8
<1>10. starts[n] = WindowStart(Last(f).timestamp, seconds)
  <2>1. PICK i \in DOMAIN f : starts[n] = WindowStart(f[i].timestamp, seconds)
    BY <1>1, <1>5, <1>9
  <2>2. starts[n] >= WindowStart(Last(f).timestamp, seconds)
    BY <1>5, <1>8
  <2>3. WindowStart(Last(f).timestamp, seconds) \in Nat
    BY <1>2, <1>3
  <2> QED BY <1>3, <2>1, <2>2, <2>3
<1>11. Last(all) = all[n]
  <2> DEFINE T == {all[k] : k \in 1..n}
  <2>1. all \in [1..n -> T]
    BY <1>7
  <2>2. all \in Seq(T)
    BY <1>9, <2>1, SeqDef
  <2> HIDE DEF T
  <2>3. Len(all) \in Nat /\ DOMAIN all = 1..Len(all)
    BY <2>2, LenProperties
  <2>4. Len(all) = n
    BY <1>7, <1>9, <2>3
  <2> QED BY <2>4 DEF Last
<1>12. \A k \in 1..n : \E i \in DOMAIN f :
         LET start == WindowStart(f[i].timestamp, seconds)
         IN  CandleOf(all[k], Between(f, start, start + seconds), start, seconds)
  BY <1>1, <1>5, <1>6
<1>13. \A k \in 1..n : all[k].startTime = starts[k]
  BY <1>6 DEF CandleOf
<1>14. \A k, l \in 1..n : all[k].startTime = all[l].startTime => k = l
  BY <1>5, <1>13
<1>15. all[n].startTime = WindowStart(Last(f).timestamp, seconds)
  BY <1>9, <1>10, <1>13
<1>16. AreCandlesOf(all, n, f, seconds)
  BY <1>7, <1>9, <1>11, <1>12, <1>14, <1>15 DEF AreCandlesOf
<1> QED BY <1>16 DEF all

------------------------------------------------------------------------------
(* Of which bars the points of a window are. *)

\* The bars up to a time.
LEMMA NewestBar ==
  ASSUME NEW f, Rising(f), \A i \in DOMAIN f : f[i].timestamp # 0, NEW t \in Nat
  PROVE  LET n == Before(f, t + 1)
         IN  /\ Len(f) \in Nat /\ DOMAIN f = 1..Len(f) /\ n \in 0..Len(f)
             /\ \A i \in 1..Len(f) : i <= n <=> f[i].timestamp <= t
             /\ Between(f, 1, t + 1) = SubSeq(f, 1, n)
             /\ (\E i \in DOMAIN f : f[i].timestamp = t) => n \in 1..Len(f) /\ f[n].timestamp = t
<1> DEFINE n == Before(f, t + 1)
           m == Before(f, 1)
<1>1. /\ Len(f) \in Nat /\ DOMAIN f = 1..Len(f)
      /\ \A i \in 1..Len(f) : f[i].timestamp \in Nat /\ f[i].timestamp # 0
      /\ \A i, j \in 1..Len(f) : i < j => f[i].timestamp < f[j].timestamp
  BY LenProperties DEF Rising
<1>2. t + 1 \in Int /\ 1 \in Int
  OBVIOUS
<1>3. n \in 0..Len(f) /\ \A i \in 1..Len(f) : i <= n <=> f[i].timestamp < t + 1
  BY <1>2, BeforeCounts
<1>4. m \in 0..Len(f) /\ \A i \in 1..Len(f) : i <= m <=> f[i].timestamp < 1
  BY <1>2, BeforeCounts
<1>5. Between(f, 1, t + 1) = SubSeq(f, m + 1, n)
  BY DEF Between
<1> HIDE DEF n, m
<1>6. \A i \in 1..Len(f) : i <= n <=> f[i].timestamp <= t
  BY <1>1, <1>3
<1>7. m = 0
  <2>1. CASE m # 0
    <3>1. m \in 1..Len(f) /\ m <= m
      BY <1>1, <1>4, <2>1
    <3>2. f[m].timestamp < 1
      BY <1>4, <3>1
    <3> QED BY <1>1, <3>1, <3>2
  <2> QED BY <2>1
<1>8. ASSUME NEW i \in DOMAIN f, f[i].timestamp = t
      PROVE  n \in 1..Len(f) /\ f[n].timestamp = t
  <2>1. i \in 1..Len(f) /\ i <= n
    BY <1>1, <1>6, <1>8
  <2>2. n \in 1..Len(f) /\ n <= n
    BY <1>1, <1>3, <2>1
  <2>3. f[n].timestamp <= t
    BY <1>6, <2>2
  <2>4. i = n \/ f[i].timestamp < f[n].timestamp
    BY <1>1, <2>1, <2>2
  <2> QED BY <1>1, <1>8, <2>1, <2>2, <2>3, <2>4
<1> QED BY <1>1, <1>3, <1>5, <1>6, <1>7, <1>8 DEF n

\* Up to the time of a bar there are as many as its place says.
LEMMA PlaceOfBar ==
  ASSUME NEW f, Rising(f), NEW b \in 1..Len(f)
  PROVE  /\ f[b].timestamp \in Nat
         /\ Before(f, f[b].timestamp + 1) = b
<1> DEFINE t == f[b].timestamp
           n == Before(f, t + 1)
<1>1. /\ Len(f) \in Nat /\ DOMAIN f = 1..Len(f)
      /\ \A i \in 1..Len(f) : f[i].timestamp \in Nat
      /\ \A i, j \in 1..Len(f) : i < j => f[i].timestamp < f[j].timestamp
  BY LenProperties DEF Rising
<1>2. t \in Nat /\ t + 1 \in Int
  BY <1>1
<1>3. n \in 0..Len(f) /\ \A i \in 1..Len(f) : i <= n <=> f[i].timestamp < t + 1
  BY <1>2, BeforeCounts
<1> HIDE DEF n
<1>4. b <= n
  BY <1>2, <1>3
<1>5. ~(b < n)
  <2>1. ASSUME b < n PROVE FALSE
    <3>1. n \in 1..Len(f) /\ n <= n
      BY <1>1, <1>3, <2>1
    <3>2. f[n].timestamp < t + 1 /\ t < f[n].timestamp
      BY <1>1, <1>3, <2>1, <3>1
    <3> QED BY <1>1, <1>2, <3>1, <3>2
  <2> QED BY <2>1
<1> QED BY <1>1, <1>2, <1>3, <1>4, <1>5 DEF n, t

\* What a source sends is a slice that ends with the newest bar that has closed.
LEMMA NewPoints ==
  ASSUME feed \in Feeds, NEW s \in Symbol, NEW from \in Nat, NEW to \in Nat, from <= to,
         Points(s, from, to) # <<>>
  PROVE  LET f == feed[s]
             a == Before(f, from + 1)
             b == Before(f, to + 1)
             last == Last(Points(s, from, to)).timestamp
         IN  /\ b \in 1..Len(f) /\ a \in 0..(b - 1) /\ last \in Nat
             /\ Points(s, from, to) = SubSeq(f, a + 1, b)
             /\ f[b].timestamp = last /\ Before(f, last + 1) = b
<1> DEFINE f == feed[s]
           a == Before(f, from + 1)
           b == Before(f, to + 1)
<1>1. Rising(f) /\ Len(f) \in Nat
  BY FeedFacts
<1>2. Points(s, from, to) = SubSeq(f, a + 1, b)
  BY DEF Points, Between
<1> HIDE DEF f
<1>3. from + 1 \in Int /\ to + 1 \in Int /\ from + 1 <= to + 1
  OBVIOUS
<1>4. a \in 0..Len(f) /\ b \in 0..Len(f) /\ a <= b
  BY <1>1, <1>3, BeforeCounts, BeforeGrows
<1> HIDE DEF a, b
<1>5. a # b
  <2>1. ASSUME a = b PROVE FALSE
    <3>1. a + 1 \in Int /\ b \in Int /\ b < a + 1
      BY <1>4, <2>1
    <3> QED BY <1>2, <3>1, SubSeqEmpty
  <2> QED BY <2>1
<1>6. b \in 1..Len(f) /\ a \in 0..(b - 1) /\ b \in a..Len(f) /\ a < b
  BY <1>1, <1>4, <1>5
<1>7. Last(SubSeq(f, a + 1, b)) = f[b]
  BY <1>1, <1>4, <1>6, Slices
<1>8. f[b].timestamp \in Nat /\ Before(f, f[b].timestamp + 1) = b
  BY <1>1, <1>6, PlaceOfBar
<1> QED BY <1>2, <1>6, <1>7, <1>8 DEF f, a, b

\* Of the bars up to n a history holds those after lo; what it holds of the window of
\* bar j is a run, from the first bar of the window on or from the first one it has.
IsRun(f, n, lo, j, seconds) ==
  LET g == SubSeq(f, lo + 1, n)
      start == WindowStart(f[j].timestamp, seconds)
      x == Before(f, start)
      y == Within(0, Before(f, start + seconds), n)
      c == Within(lo, x, n)
  IN  /\ start \in Nat /\ x \in 0..Len(f)
      /\ start <= f[j].timestamp /\ f[j].timestamp < start + seconds
      /\ Between(g, start, start + seconds) = SubSeq(f, c + 1, y)
      /\ x < c + 1 /\ c + 1 <= y /\ y <= n /\ c \in Nat /\ y \in Nat
      /\ lo <= x => c = x
      /\ j = n => y = n

\* The points that a slice of the feed has in a window are a run of its bars.
LEMMA WindowIsRun ==
  ASSUME NEW f, Rising(f), NEW n \in 0..Len(f), NEW lo \in 0..n, NEW j \in (lo + 1)..n,
         NEW seconds \in Nat \ {0}
  PROVE  IsRun(f, n, lo, j, seconds)
<1> DEFINE g == SubSeq(f, lo + 1, n)
           start == WindowStart(f[j].timestamp, seconds)
           end == start + seconds
           x == Before(f, start)
           z == Before(f, end)
           y == Within(0, z, n)
           c == Within(lo, x, n)
           d == Within(lo, z, n)
<1>1. /\ Len(f) \in Nat /\ DOMAIN f = 1..Len(f)
      /\ \A i \in 1..Len(f) : f[i].timestamp \in Nat
  BY LenProperties DEF Rising
<1>2. lo \in 0..Len(f) /\ n \in lo..Len(f)
  BY <1>1
<1>3. j \in 1..Len(f) /\ f[j].timestamp \in Nat
  BY <1>1, <1>2
<1> HIDE DEF g
<1>4. start \in Nat /\ start <= f[j].timestamp /\ f[j].timestamp < end
  BY <1>3, WindowHolds
<1>5. start \in Int /\ end \in Int /\ start <= end
  BY <1>4
<1> HIDE DEF start, end
<1>6. x \in 0..Len(f) /\ \A i \in 1..Len(f) : i <= x <=> f[i].timestamp < start
  BY <1>5, BeforeCounts
<1>7. z \in 0..Len(f) /\ \A i \in 1..Len(f) : i <= z <=> f[i].timestamp < end
  BY <1>5, BeforeCounts
<1>8. c \in lo..n /\ d \in c..n /\ Between(g, start, end) = SubSeq(f, c + 1, d)
  BY <1>2, <1>5, BetweenOfSlice DEF g
<1> HIDE DEF x, z
<1>9. x < j
  <2>1. ~(j <= x)
    BY <1>3, <1>4, <1>6
  <2> QED BY <1>1, <1>3, <1>6, <2>1
<1>10. j <= z
  BY <1>3, <1>4, <1>7
<1>11. /\ lo \in Int /\ n \in Int /\ j \in Int /\ x \in Int /\ z \in Int
       /\ 0 <= lo /\ lo + 1 <= j /\ j <= n /\ 0 <= x /\ 0 <= z
  BY <1>1, <1>6, <1>7
<1>12. d = y /\ y \in Nat /\ y <= n /\ j <= y
  BY <1>10, <1>11 DEF Within
<1>13. c \in Nat /\ x < c + 1 /\ c < j /\ (lo <= x => c = x)
  BY <1>9, <1>11 DEF Within
<1>14. j = n => y = n
  BY <1>10, <1>11 DEF Within
<1> HIDE DEF c, d, y
<1>15. c + 1 <= y
  BY <1>11, <1>12, <1>13
<1> QED BY <1>4, <1>6, <1>8, <1>12, <1>13, <1>14, <1>15 DEF IsRun, g, start, end, x, z, c, y

\* A history that holds as many points as a window has seconds holds the current window.
LEMMA WindowFits ==
  ASSUME NEW f, Rising(f), NEW n \in 1..Len(f), NEW start \in Nat, NEW seconds \in Nat \ {0},
         start <= f[n].timestamp, f[n].timestamp < start + seconds
  PROVE  n - seconds <= Before(f, start)
<1> DEFINE x == Before(f, start)
           S == (x + 1)..n
           T == start..(start + seconds - 1)
           time == [j \in S |-> f[j].timestamp]
<1>1. /\ Len(f) \in Nat /\ DOMAIN f = 1..Len(f)
      /\ \A j \in 1..Len(f) : f[j].timestamp \in Nat
      /\ \A i, j \in 1..Len(f) : i < j => f[i].timestamp < f[j].timestamp
  BY LenProperties DEF Rising
<1>2. x \in 0..Len(f) /\ \A j \in 1..Len(f) : j <= x <=> f[j].timestamp < start
  BY BeforeCounts
<1> HIDE DEF x
<1>3. \A j \in S : j \in 1..Len(f) /\ ~(j <= x) /\ j <= n
  BY <1>1, <1>2
<1>4. ASSUME NEW j \in S
      PROVE  f[j].timestamp \in T
  <2>1. j \in 1..Len(f) /\ ~(j <= x) /\ j <= n
    BY <1>3
  <2>2. j = n \/ f[j].timestamp < f[n].timestamp
    BY <1>1, <2>1
  <2>3. f[j].timestamp \in Nat /\ ~(f[j].timestamp < start) /\ f[n].timestamp \in Nat
    BY <1>1, <1>2, <2>1
  <2> QED BY <2>2, <2>3
<1>5. time \in [S -> T]
  BY <1>4
<1>6. ~(\E i, j \in S : i # j /\ time[i] = time[j])
  <2>1. ASSUME NEW i \in S, NEW j \in S, i # j
        PROVE  f[i].timestamp # f[j].timestamp
    <3>1. i \in 1..Len(f) /\ j \in 1..Len(f)
      BY <1>3
    <3>2. i < j \/ j < i
      BY <2>1, <3>1
    <3> QED BY <1>1, <3>1, <3>2
  <2> QED BY <2>1
<1>7. IsFiniteSet(S) /\ (x < n => Cardinality(S) = n - x)
  <2>1. x + 1 \in Int /\ n \in Int /\ (x < n => (IF x + 1 > n THEN 0 ELSE n - (x + 1) + 1) = n - x)
    BY <1>1, <1>2
  <2> QED BY <2>1, FS_Interval
<1>8. IsFiniteSet(T) /\ Cardinality(T) = seconds
  <2>1. /\ start \in Int /\ start + seconds - 1 \in Int
        /\ (IF start > start + seconds - 1 THEN 0 ELSE (start + seconds - 1) - start + 1) = seconds
    OBVIOUS
  <2> QED BY <2>1, FS_Interval
<1> HIDE DEF S, T, time
<1>9. ~(Cardinality(T) < Cardinality(S))
  BY <1>5, <1>6, <1>7, <1>8, FS_PigeonHole
<1>10. n - seconds <= x
  BY <1>1, <1>2, <1>7, <1>8, <1>9
<1> QED BY <1>10 DEF x

------------------------------------------------------------------------------
(* The invariant of the candles. *)

\* How many bars of a symbol were received, and how many of them are no longer in memory.
Newest(s) == Before(feed[s], fetched[s] + 1)
Oldest(s) == IF Newest(s) > MaxPoints THEN Newest(s) - MaxPoints ELSE 0

\* Main's position, and the sizes of what it keeps.
Control ==
  /\ now \in 1..MaxTime
  /\ stage \in {"fetch", "initial", "idle", "update", "broadcast"}
  /\ \E k \in 0..Len(WindowsAgg) : windowsLeft = SubSeq(WindowsAgg, k + 1, Len(WindowsAgg))
  /\ stage = "fetch" => windowsLeft = WindowsAgg /\ fetched = [s \in Symbol |-> 0]
  /\ stage = "broadcast" => windowsLeft = <<>>
  /\ DOMAIN candles = Window
  /\ broadcast \in Seq(ToSet(broadcast)) /\ Len(broadcast) <= BroadcastCap
  /\ faults \in 0..MaxFaults
  /\ resent \in BOOLEAN /\ (resent => faults > 0)

\* Histories are of bars; without a repetition they are the newest ones.
History ==
  /\ DOMAIN buffers = Symbol
  /\ \A s \in Symbol :
       /\ buffers[s] \in Seq(ToSet(feed[s])) /\ Len(buffers[s]) <= MaxPoints
       /\ ~resent => buffers[s] = SubSeq(feed[s], Oldest(s) + 1, Newest(s))
       /\ fetched[s] = 0 \/ \E i \in DOMAIN feed[s] : feed[s][i].timestamp = fetched[s]

\* A batch is of the newest bars, that of the initial load of all of them.
BatchIsNewest ==
  /\ DOMAIN batch \subseteq Symbol
  /\ stage = "update" => DOMAIN batch # {}
  /\ \A s \in DOMAIN batch : \E a \in 0..(Newest(s) - 1) :
       /\ batch[s] = SubSeq(feed[s], a + 1, Newest(s))
       /\ stage = "initial" => a = 0

\* A row of candles is of a run of bars of its window.
RunOf(w, row) ==
  LET f == feed[row.symbol]
      x == Before(f, row.startTime)
      y == Within(0, Before(f, row.endTime), Newest(row.symbol))
  IN  \E a, b \in 1..y :
        /\ x < a /\ a <= b
        /\ Shape(row) = Shape(ComputeOHLCV(SubSeq(f, a, b)))
        /\ program = "test" /\ WindowSeconds[w] <= MaxPoints => a = x + 1

GoodRow(w, row) ==
  /\ w \in Parsed /\ row.symbol \in Symbol
  /\ ~resent =>
       /\ row.startTime \in Nat /\ row.endTime = row.startTime + WindowSeconds[w]
       /\ RunOf(w, row)

CandleRows ==
  /\ DOMAIN aggregations = Window
  /\ \A w \in Window :
       /\ \A r, t \in aggregations[w] : SameCandleKey(r, t) => r = t
       /\ \A row \in aggregations[w] : GoodRow(w, row)

\* A candle for what was received last.
IsCurrent(s, c) == c.startTime <= fetched[s] /\ fetched[s] < c.endTime
Whole(s, c) ==
  /\ IsCurrent(s, c)
  /\ Shape(c) = Shape(ComputeOHLCV(Between(Received(s), c.startTime, c.endTime)))

\* What main has computed so far and what is or will be served.
CandlesCurrent ==
  program = "test" /\ ~resent /\ stage \in {"initial", "update", "broadcast"} =>
    \A w \in Parsed \ ToSet(windowsLeft) : WindowSeconds[w] <= MaxPoints =>
      DOMAIN candles[w] = DOMAIN batch /\ \A s \in DOMAIN batch : Whole(s, candles[w][s])

Shown == IF broadcast = <<>> THEN latestState ELSE Last(broadcast)

ServedCurrent ==
  /\ stage \in {"fetch", "initial"} =>
       broadcast = <<>> /\ latestState.aggregations = [w \in Window |-> <<>>]
  /\ program = "test" /\ ~resent /\ stage = "idle" =>
       \A w \in Parsed : WindowSeconds[w] <= MaxPoints =>
         /\ DOMAIN batch \subseteq DOMAIN Shown.aggregations[w]
         /\ \A s \in DOMAIN Shown.aggregations[w] : s \in Symbol /\ Whole(s, Shown.aggregations[w][s])

CandleInv ==
  /\ Control /\ History /\ BatchIsNewest /\ CandleRows
  /\ CandlesCurrent /\ ServedCurrent /\ UpdateLeavesACandle

\* The newest of a history that has room for so many.
LEMMA KeptPoints ==
  ASSUME NEW S, NEW all \in Seq(S)
  PROVE  LET kept == IF Len(all) > MaxPoints
                     THEN SubSeq(all, Len(all) - MaxPoints + 1, Len(all)) ELSE all
         IN  kept \in Seq(S) /\ Len(kept) \in Nat /\ Len(kept) <= MaxPoints
<1>1. Len(all) \in Nat /\ MaxPoints \in Nat \ {0} /\ \A i \in 1..Len(all) : all[i] \in S
  BY LenProperties, ElementOfSeq, PipelineAssumption
<1>2. CASE Len(all) > MaxPoints
  <2> DEFINE m == Len(all) - MaxPoints + 1
             n == Len(all)
  <2>1. /\ m \in Int /\ n \in Int /\ m <= n /\ n - m + 1 = MaxPoints
        /\ \A i \in m..n : all[i] \in S
    BY <1>1, <1>2
  <2> HIDE DEF m, n
  <2>2. SubSeq(all, m, n) \in Seq(S) /\ Len(SubSeq(all, m, n)) = MaxPoints
    BY <2>1, SubSeqProperties
  <2> QED BY <1>1, <1>2, <2>2 DEF m, n
<1>3. CASE ~(Len(all) > MaxPoints)
  BY <1>1, <1>3
<1> QED BY <1>2, <1>3

\* A batch moves the newest bar on, and the history of its symbol with it.
LEMMA HistoryMoves ==
  ASSUME feed \in Feeds, now \in Nat, fetched \in [Symbol -> 0..now], History, NEW from,
         NEW symbols \in SUBSET Symbol, feed' = feed,
         \A s \in symbols : from[s] \in 0..fetched[s] /\ Points(s, from[s], now) # <<>>,
         ~resent' => ~resent /\ \A s \in symbols : from[s] = fetched[s],
         batch' = [s \in symbols |-> Points(s, from[s], now)],
         fetched' = [s \in Symbol |->
                       IF s \in symbols THEN Last(batch'[s]).timestamp ELSE fetched[s]],
         Remember(batch')
  PROVE  /\ History'
         /\ \A s \in Symbol : Newest(s) <= Newest(s)'
         /\ \A s \in symbols : \E a \in 0..(Newest(s)' - 1) :
              /\ batch'[s] = SubSeq(feed[s], a + 1, Newest(s)')
              /\ from[s] = 0 => a = 0
<1>1. DOMAIN batch' = symbols /\ DOMAIN buffers = Symbol /\ MaxPoints \in Nat \ {0}
  BY PipelineAssumption DEF History
<1>2. ASSUME NEW s \in symbols
      PROVE  /\ Newest(s) <= Newest(s)'
             /\ \E a \in 0..(Newest(s)' - 1) :
                  /\ batch'[s] = SubSeq(feed[s], a + 1, Newest(s)')
                  /\ from[s] = 0 => a = 0
             /\ buffers'[s] \in Seq(ToSet(feed[s])) /\ Len(buffers'[s]) <= MaxPoints
             /\ ~resent' => buffers'[s] = SubSeq(feed[s], Oldest(s)' + 1, Newest(s)')
             /\ \E i \in DOMAIN feed[s] : feed[s][i].timestamp = fetched'[s]
  <2> DEFINE f == feed[s]
             a == Before(f, from[s] + 1)
             b == Before(f, now + 1)
             m == Newest(s)
             o == Oldest(s)
             all == buffers[s] \o batch'[s]
  <2>1. s \in Symbol /\ batch'[s] = Points(s, from[s], now)
        /\ fetched'[s] = Last(Points(s, from[s], now)).timestamp
    OBVIOUS
  <2>2. /\ Rising(f) /\ Len(f) \in Nat /\ DOMAIN f = 1..Len(f)
        /\ \A i \in DOMAIN f : f[i].timestamp # 0
    BY <2>1, FeedFacts
  <2>3. /\ from[s] \in Nat /\ from[s] <= now /\ fetched[s] \in Nat /\ fetched[s] <= now
        /\ fetched[s] + 1 \in Int /\ now + 1 \in Int /\ fetched[s] + 1 <= now + 1
    <3>1. fetched[s] \in 0..now /\ from[s] \in 0..fetched[s]
      BY <2>1
    <3> QED BY <3>1
  <2>4. /\ b \in 1..Len(f) /\ a \in 0..(b - 1)
        /\ batch'[s] = SubSeq(f, a + 1, b)
        /\ f[b].timestamp = fetched'[s] /\ Before(f, fetched'[s] + 1) = b
    BY <2>1, <2>3, NewPoints
  <2>5. m \in 0..Len(f) /\ m <= b
    <3>1. m = Before(f, fetched[s] + 1)
      BY DEF Newest
    <3> HIDE DEF f, m
    <3> QED BY <2>2, <2>3, <3>1, BeforeCounts, BeforeGrows
  <2>6. Newest(s)' = b
    <3>1. Newest(s)' = Before(f, fetched'[s] + 1)
      BY DEF Newest, Before
    <3> QED BY <2>4, <3>1
  <2>7. from[s] = 0 => a = 0
    <3>1. ASSUME from[s] = 0, a # 0 PROVE FALSE
      <4>0. from[s] + 1 \in Int
        BY <2>3
      <4> HIDE DEF f
      <4>1. \A i \in 1..Len(f) : i <= a <=> f[i].timestamp < from[s] + 1
        BY <2>2, <4>0, BeforeCounts
      <4> HIDE DEF a
      <4>5. a \in 1..Len(f) /\ a <= a
        BY <2>2, <2>4, <3>1
      <4>2. f[a].timestamp < 1
        BY <3>1, <4>1, <4>5
      <4>3. f[a].timestamp \in Nat /\ f[a].timestamp # 0
        BY <2>2, <4>5 DEF Rising
      <4> QED BY <4>2, <4>3
    <3> QED BY <3>1
  <2>8. from[s] = fetched[s] => a = m
    BY DEF Newest
  <2>9. /\ buffers'[s] = IF Len(all) > MaxPoints
                         THEN SubSeq(all, Len(all) - MaxPoints + 1, Len(all)) ELSE all
    BY <1>1, <2>1 DEF Remember
  <2>10. all \in Seq(ToSet(f))
    <3>1. buffers[s] \in Seq(ToSet(f))
      BY <2>1 DEF History
    <3>2. batch'[s] \in Seq(ToSet(f))
      <4> DEFINE S == ToSet(f)
      <4> HIDE DEF f, a, b
      <4>1. \A i \in 1..Len(f) : f[i] \in S
        BY <2>2 DEF ToSet
      <4>2. a + 1 \in Int /\ b \in Int /\ \A i \in (a + 1)..b : i \in 1..Len(f)
        BY <2>2, <2>4
      <4> HIDE DEF S
      <4>3. \A i \in (a + 1)..b : f[i] \in S
        BY <4>1, <4>2
      <4>4. SubSeq(f, a + 1, b) \in Seq(S)
        BY <4>2, <4>3, SubSeqProperties
      <4> QED BY <2>4, <4>4 DEF S
    <3> QED BY <3>1, <3>2, ConcatProperties
  <2>11. buffers'[s] \in Seq(ToSet(f)) /\ Len(buffers'[s]) <= MaxPoints
    <3> HIDE DEF all, f
    <3> QED BY <2>9, <2>10, KeptPoints
  <2>12. o = IF m > MaxPoints THEN m - MaxPoints ELSE 0
    BY DEF Oldest
  <2>13. Oldest(s)' = IF b > MaxPoints THEN b - MaxPoints ELSE 0
    BY <2>6 DEF Oldest
  <2>14. ASSUME ~resent'
         PROVE  buffers'[s] = SubSeq(f, Oldest(s)' + 1, b)
    <3>1. a = m /\ buffers[s] = SubSeq(f, o + 1, m)
      BY <2>1, <2>8, <2>14 DEF History
    <3>2. /\ all = SubSeq(f, o + 1, m) \o SubSeq(f, m + 1, b)
          /\ m < b
      <4>1. a < b
        <5> HIDE DEF a, b, f
        <5> QED BY <2>2, <2>4
      <4>2. batch'[s] = SubSeq(f, m + 1, b)
        <5> HIDE DEF b, f, m
        <5> QED BY <2>4, <3>1
      <4> QED BY <3>1, <4>1, <4>2
    <3> HIDE DEF all, f, a, b, m, o
    <3>3. o \in 0..m /\ o \in 0..Len(f) /\ b \in o..Len(f) /\ m \in o..Len(f) /\ b \in m..Len(f)
      BY <1>1, <2>2, <2>4, <2>5, <2>12
    <3>4. all = SubSeq(f, o + 1, b)
      <4>1. o + 1 \in 1..(Len(f) + 1) /\ m \in ((o + 1) - 1)..Len(f) /\ b \in m..Len(f)
        BY <2>2, <3>3
      <4>2. f \in Seq(ToSet(f))
        BY <2>2 DEF Rising
      <4> QED BY <3>2, <4>1, <4>2, ConcatAdjacentSubSeq
    <3>5. Len(all) = b - o
      BY <2>2, <3>3, <3>4, Slices
    <3>6. CASE b - o > MaxPoints
      <4>1. Oldest(s)' = b - MaxPoints
        BY <1>1, <2>2, <2>4, <2>13, <3>3, <3>6
      <4> DEFINE c == b - o - MaxPoints
                 d == b - o
      <4>2. c \in 0..(b - o) /\ d \in c..(b - o) /\ o + c = b - MaxPoints /\ o + d = b
            /\ b - o - MaxPoints + 1 = c + 1
        BY <1>1, <2>2, <3>3, <3>6
      <4>3. buffers'[s] = SubSeq(all, c + 1, d)
        BY <2>9, <3>5, <3>6, <4>2
      <4> HIDE DEF c, d
      <4>4. SubSeq(SubSeq(f, o + 1, b), c + 1, d) = SubSeq(f, (o + c) + 1, o + d)
        BY <2>2, <3>3, <4>2, SliceOfSlice
      <4> QED BY <3>4, <4>1, <4>2, <4>3, <4>4
    <3>7. CASE ~(b - o > MaxPoints)
      <4>1. buffers'[s] = all
        BY <2>9, <3>5, <3>7
      <4>2. Oldest(s)' = o
        <5>1. b \in Nat /\ o \in Nat /\ m \in Nat /\ m < b /\ b - o <= MaxPoints
          BY <1>1, <2>2, <3>2, <3>3, <3>7
        <5> QED BY <1>1, <2>12, <2>13, <5>1
      <4> QED BY <3>4, <4>1, <4>2
    <3> QED BY <3>6, <3>7
  <2>15. b \in DOMAIN f
    BY <2>2, <2>4
  <2>16. \E k \in 0..(Newest(s)' - 1) :
           /\ batch'[s] = SubSeq(f, k + 1, Newest(s)')
           /\ from[s] = 0 => k = 0
    BY <2>4, <2>6, <2>7
  <2> QED BY <2>4, <2>5, <2>6, <2>11, <2>14, <2>15, <2>16
<1>3. ASSUME NEW s \in Symbol, s \notin symbols
      PROVE  fetched'[s] = fetched[s] /\ buffers'[s] = buffers[s] /\ Newest(s)' = Newest(s)
  <2>1. fetched'[s] = fetched[s] /\ buffers'[s] = buffers[s]
    BY <1>1, <1>3 DEF Remember
  <2> QED BY <2>1 DEF Newest, Before
<1>4. \A s \in Symbol : Newest(s) <= Newest(s)'
  <2>1. ASSUME NEW s \in Symbol
        PROVE  Newest(s) <= Newest(s)
    <3>1. Rising(feed[s]) /\ fetched[s] + 1 \in Int
      BY FeedFacts
    <3>2. Newest(s) \in 0..Len(feed[s])
      BY <3>1, BeforeCounts DEF Newest
    <3> QED BY <3>2
  <2> QED BY <1>2, <1>3, <2>1
<1>5. History'
  <2>1. DOMAIN buffers' = Symbol
    BY DEF Remember
  <2>2. ASSUME NEW s \in Symbol
        PROVE  /\ buffers'[s] \in Seq(ToSet(feed[s])) /\ Len(buffers'[s]) <= MaxPoints
               /\ ~resent' => buffers'[s] = SubSeq(feed[s], Oldest(s)' + 1, Newest(s)')
               /\ fetched'[s] = 0 \/ \E i \in DOMAIN feed[s] : feed[s][i].timestamp = fetched'[s]
    <3>1. CASE s \in symbols
      BY <1>2, <3>1
    <3>2. CASE s \notin symbols
      <4>1. Oldest(s)' = Oldest(s)
        BY <1>3, <3>2 DEF Oldest
      <4> QED BY <1>3, <3>2, <4>1 DEF History
    <3> QED BY <3>1, <3>2
  <2> QED BY <2>1, <2>2 DEF History
<1> QED BY <1>2, <1>4, <1>5

------------------------------------------------------------------------------
(* What it says of a symbol and of a table of candles. *)

\* The newest bar of a symbol and what is in memory of it.
LEMMA NewestFacts ==
  ASSUME feed \in Feeds, now \in Nat, fetched \in [Symbol -> 0..now], History, NEW s \in Symbol
  PROVE  LET f == feed[s]
             n == Newest(s)
         IN  /\ Rising(f) /\ Len(f) \in Nat /\ n \in 0..Len(f)
             /\ Received(s) = SubSeq(f, 0 + 1, n)
             /\ Oldest(s) \in 0..n
             /\ n # 0 => /\ n \in 1..Len(f) /\ f[n].timestamp = fetched[s] /\ Oldest(s) < n
<1> DEFINE f == feed[s]
           n == Newest(s)
<1>1. Rising(f) /\ Len(f) \in Nat /\ \A i \in DOMAIN f : f[i].timestamp # 0 /\ f[i].timestamp \in Nat
  BY FeedFacts
<1>2. fetched[s] \in Nat /\ MaxPoints \in Nat \ {0}
  BY PipelineAssumption
<1>3. fetched[s] = 0 \/ \E i \in DOMAIN f : f[i].timestamp = fetched[s]
  BY DEF History
<1>4. Received(s) = Between(f, 0 + 1, fetched[s] + 1) /\ n = Before(f, fetched[s] + 1)
  BY DEF Received, Points, Newest
<1> HIDE DEF f, n
<1>5. 0 + 1 = 1
  OBVIOUS
<1>6. /\ DOMAIN f = 1..Len(f) /\ n \in 0..Len(f)
      /\ \A i \in 1..Len(f) : i <= n <=> f[i].timestamp <= fetched[s]
      /\ Received(s) = SubSeq(f, 0 + 1, n)
      /\ (\E i \in DOMAIN f : f[i].timestamp = fetched[s]) => n \in 1..Len(f) /\ f[n].timestamp = fetched[s]
  BY <1>1, <1>2, <1>4, <1>5, NewestBar
<1>7. Oldest(s) = IF n > MaxPoints THEN n - MaxPoints ELSE 0
  BY DEF Oldest, n
<1>8. Oldest(s) \in 0..n /\ (n # 0 => Oldest(s) < n)
  BY <1>1, <1>2, <1>6, <1>7
<1>9. ASSUME n # 0
      PROVE  n \in 1..Len(f) /\ f[n].timestamp = fetched[s]
  <2>1. n \in 1..Len(f) /\ n <= n
    BY <1>1, <1>6, <1>9
  <2>2. f[n].timestamp <= fetched[s] /\ f[n].timestamp \in Nat /\ f[n].timestamp # 0
    BY <1>1, <1>6, <2>1
  <2>3. fetched[s] # 0
    BY <2>2
  <2> QED BY <1>3, <1>6, <2>3
<1> QED BY <1>1, <1>6, <1>8, <1>9 DEF f, n

\* A window of as many seconds as the history has room for is in it from its start on.
LEMMA HistoryFits ==
  ASSUME feed \in Feeds, now \in Nat, fetched \in [Symbol -> 0..now], History,
         NEW s \in Symbol, Newest(s) # 0, NEW seconds \in Nat \ {0}, seconds <= MaxPoints
  PROVE  Oldest(s) <= Before(feed[s], WindowStart(fetched[s], seconds))
<1> DEFINE f == feed[s]
           n == Newest(s)
           start == WindowStart(fetched[s], seconds)
           x == Before(f, start)
<1>1. Rising(f) /\ Len(f) \in Nat /\ n \in 1..Len(f) /\ f[n].timestamp = fetched[s]
  BY NewestFacts
<1>2. fetched[s] \in Nat /\ MaxPoints \in Nat \ {0}
  BY PipelineAssumption
<1>3. start \in Nat /\ start <= fetched[s] /\ fetched[s] < start + seconds
  BY <1>2, WindowHolds
<1>4. Oldest(s) = IF n > MaxPoints THEN n - MaxPoints ELSE 0
  BY DEF Oldest
<1> HIDE DEF f, n, start
<1>5. x \in 0..Len(f)
  <2>1. start \in Int
    BY <1>3
  <2> QED BY <1>1, <2>1, BeforeCounts
<1>6. n - seconds <= x
  BY <1>1, <1>3, WindowFits
<1> HIDE DEF x
<1>7. Oldest(s) <= x
  BY <1>1, <1>2, <1>4, <1>5, <1>6
<1> QED BY <1>7 DEF f, start, x

\* A candle of points at hand makes a row of a run of bars.
LEMMA RowIsRun ==
  ASSUME feed \in Feeds, now \in Nat, fetched \in [Symbol -> 0..now], History,
         NEW s \in Symbol, NEW w \in Parsed, NEW lo \in 0..Newest(s),
         NEW j \in (lo + 1)..Newest(s), NEW c,
         LET g == SubSeq(feed[s], lo + 1, Newest(s))
             start == WindowStart(feed[s][j].timestamp, WindowSeconds[w])
         IN  /\ CandleOf(c, Between(g, start, start + WindowSeconds[w]), start, WindowSeconds[w])
             /\ program = "test" /\ WindowSeconds[w] <= MaxPoints => lo <= Before(feed[s], start)
  PROVE  LET row == CandleRow(s, c)
         IN  /\ row.symbol = s /\ row.startTime = c.startTime
             /\ row.startTime \in Nat /\ row.endTime = row.startTime + WindowSeconds[w]
             /\ RunOf(w, row)
<1> DEFINE f == feed[s]
           n == Newest(s)
           seconds == WindowSeconds[w]
           g == SubSeq(f, lo + 1, n)
           start == WindowStart(f[j].timestamp, seconds)
           end == start + seconds
           x == Before(f, start)
           y == Within(0, Before(f, end), n)
           k == Within(lo, x, n)
           row == CandleRow(s, c)
<1>1. Rising(f) /\ n \in 0..Len(f) /\ seconds \in Nat \ {0}
  BY NewestFacts, WindowAssumption DEF Parsed
<1>2. /\ CandleOf(c, Between(g, start, end), start, seconds)
      /\ program = "test" /\ seconds <= MaxPoints => lo <= x
  OBVIOUS
<1>3. /\ row.symbol = s /\ row.startTime = c.startTime /\ row.endTime = c.endTime
      /\ Shape(row) = Shape(c)
  BY DEF CandleRow, Shape
<1>4. lo \in 0..n /\ j \in (lo + 1)..n
  OBVIOUS
<1> HIDE DEF f, n, seconds
<1>5. /\ start \in Nat /\ x \in 0..Len(f)
      /\ Between(g, start, end) = SubSeq(f, k + 1, y)
      /\ x < k + 1 /\ k + 1 <= y /\ y <= n /\ k \in Nat /\ y \in Nat
      /\ lo <= x => k = x
  <2>1. IsRun(f, n, lo, j, seconds)
    BY <1>1, <1>4, WindowIsRun
  <2> QED BY <2>1 DEF IsRun
<1>6. row.startTime = start /\ row.endTime = end /\ Shape(row) = Shape(ComputeOHLCV(SubSeq(f, k + 1, y)))
  BY <1>2, <1>3, <1>5 DEF CandleOf
<1> HIDE DEF start, end, x, y, k, row
<1>7. k + 1 \in 1..y /\ y \in 1..y /\ x < k + 1 /\ k + 1 <= y
  BY <1>5
<1>8. program = "test" /\ seconds <= MaxPoints => k + 1 = x + 1
  BY <1>2, <1>5
<1>9. RunOf(w, row)
  <2>1. feed[row.symbol] = f /\ Before(f, row.startTime) = x
        /\ Within(0, Before(f, row.endTime), Newest(row.symbol)) = y /\ WindowSeconds[w] = seconds
    BY <1>3, <1>6 DEF f, x, y, n, seconds
  <2>2. \E a, b \in 1..y :
          /\ x < a /\ a <= b
          /\ Shape(row) = Shape(ComputeOHLCV(SubSeq(f, a, b)))
          /\ program = "test" /\ seconds <= MaxPoints => a = x + 1
    BY <1>6, <1>7, <1>8
  <2> QED BY <2>1, <2>2 DEF RunOf
<1> QED BY <1>3, <1>5, <1>6, <1>9 DEF row, end, seconds

\* A candle of the window of the newest point is current, and whole if the points at
\* hand have the window from its start on.
LEMMA CandleIsWhole ==
  ASSUME feed \in Feeds, now \in Nat, fetched \in [Symbol -> 0..now], History,
         NEW s \in Symbol, NEW lo \in 0..(Newest(s) - 1), NEW seconds \in Nat \ {0}, NEW c,
         LET g == SubSeq(feed[s], lo + 1, Newest(s))
             start == WindowStart(fetched[s], seconds)
         IN  CandleOf(c, Between(g, start, start + seconds), start, seconds)
  PROVE  /\ c.startTime = WindowStart(fetched[s], seconds) /\ c.endTime = c.startTime + seconds
         /\ IsCurrent(s, c)
         /\ lo <= Before(feed[s], WindowStart(fetched[s], seconds)) => Whole(s, c)
<1> DEFINE f == feed[s]
           n == Newest(s)
           g == SubSeq(f, lo + 1, n)
           start == WindowStart(fetched[s], seconds)
           end == start + seconds
           x == Before(f, start)
<1>1. /\ Rising(f) /\ Len(f) \in Nat /\ n \in 0..Len(f)
      /\ Received(s) = SubSeq(f, 0 + 1, n)
      /\ n # 0 => n \in 1..Len(f) /\ f[n].timestamp = fetched[s]
  BY NewestFacts
<1>2. n # 0 /\ lo \in 0..n /\ n \in (lo + 1)..n /\ 0 \in 0..n /\ n \in (0 + 1)..n
  <2> HIDE DEF f
  <2> QED BY <1>1
<1>3. CandleOf(c, Between(g, start, end), start, seconds)
  OBVIOUS
<1>4. fetched[s] \in Nat
  OBVIOUS
<1>5. start \in Nat /\ start <= fetched[s] /\ fetched[s] < end
  BY <1>4, WindowHolds
<1>6. c.startTime = start /\ c.endTime = end /\ IsCurrent(s, c)
  BY <1>3, <1>5 DEF CandleOf, IsCurrent
<1> HIDE DEF f, n
<1>7. ASSUME NEW l \in 0..n, n \in (l + 1)..n, l <= x
      PROVE  Between(SubSeq(f, l + 1, n), start, end) = SubSeq(f, x + 1, n)
  <2>1. start = WindowStart(f[n].timestamp, seconds)
    BY <1>1, <1>2
  <2> HIDE DEF start
  <2> DEFINE y == Within(0, Before(f, end), n)
             k == Within(l, x, n)
  <2>2. Between(SubSeq(f, l + 1, n), start, end) = SubSeq(f, k + 1, y) /\ k = x /\ y = n
    <3>1. IsRun(f, n, l, n, seconds)
      BY <1>1, <1>7, WindowIsRun
    <3> QED BY <1>7, <2>1, <3>1 DEF IsRun
  <2> QED BY <2>2
<1>8. ASSUME lo <= x
      PROVE  Shape(c) = Shape(ComputeOHLCV(Between(Received(s), start, end)))
  <2>1. x \in Nat
    <3>1. start \in Int
      BY <1>5
    <3> QED BY <1>1, <3>1, BeforeCounts
  <2>2. 0 <= x
    BY <2>1
  <2>3. Between(g, start, end) = SubSeq(f, x + 1, n)
    BY <1>2, <1>7, <1>8
  <2>4. Between(SubSeq(f, 0 + 1, n), start, end) = SubSeq(f, x + 1, n)
    BY <1>2, <1>7, <2>2
  <2> QED BY <1>1, <1>3, <2>3, <2>4 DEF CandleOf
<1>9. lo <= x => Whole(s, c)
  BY <1>6, <1>8 DEF Whole
<1> QED BY <1>6, <1>9 DEF f, start, x, end

\* Of the windows that are left the first one is next.
LEMMA NextWindow ==
  ASSUME Control
  PROVE  /\ windowsLeft = <<>> => ToSet(windowsLeft) = {}
         /\ windowsLeft # <<>> =>
              /\ Head(windowsLeft) \in Window
              /\ ToSet(windowsLeft) \subseteq {Head(windowsLeft)} \union ToSet(Tail(windowsLeft))
              /\ \E k \in 0..Len(WindowsAgg) :
                   Tail(windowsLeft) = SubSeq(WindowsAgg, k + 1, Len(WindowsAgg))
<1> DEFINE W == WindowsAgg
           L == Len(W)
<1>1. W \in Seq(STRING) /\ L \in Nat /\ DOMAIN W = 1..L /\ Window = ToSet(W)
  BY WindowAssumption, PipelineAssumption, LenProperties
<1>2. PICK k \in 0..L : windowsLeft = SubSeq(W, k + 1, L)
  BY DEF Control
<1> HIDE DEF W
<1>3. ASSUME windowsLeft = <<>>
      PROVE  ToSet(windowsLeft) = {}
  <2>1. <<>> \in Seq({}) /\ Len(<<>>) = 0
    BY EmptySeq
  <2>2. DOMAIN <<>> = 1..0
    BY <2>1, LenProperties
  <2> QED BY <1>3, <2>2 DEF ToSet
<1>4. ASSUME windowsLeft # <<>>
      PROVE  /\ Head(windowsLeft) \in Window
             /\ ToSet(windowsLeft) \subseteq {Head(windowsLeft)} \union ToSet(Tail(windowsLeft))
             /\ \E l \in 0..L : Tail(windowsLeft) = SubSeq(W, l + 1, L)
  <2>1. k # L
    <3>1. ASSUME k = L PROVE FALSE
      <4>1. k + 1 \in Int /\ L \in Int /\ L < k + 1
        BY <1>1, <3>1
      <4> QED BY <1>2, <1>4, <4>1, SubSeqEmpty
    <3> QED BY <3>1
  <2>2. k + 1 \in 1..L /\ L \in (k + 1)..L /\ k + 1 \in 0..L
    <3>1. L \in Nat /\ k \in 0..L
      BY <1>1, <1>2
    <3> HIDE DEF L
    <3> QED BY <2>1, <3>1
  <2>3. /\ Head(windowsLeft) = W[k + 1]
        /\ Tail(windowsLeft) = SubSeq(W, (k + 1) + 1, L)
    BY <1>1, <1>2, <2>2, HeadTailOfSubSeq
  <2>4. W[k + 1] \in Window
    BY <1>1, <2>2 DEF ToSet
  <2>5. ToSet(windowsLeft) \subseteq {Head(windowsLeft)} \union ToSet(Tail(windowsLeft))
    <3> DEFINE u == windowsLeft
    <3>1. u \in Seq(STRING)
      <4>1. k + 1 \in Int /\ L \in Int /\ \A i \in (k + 1)..L : W[i] \in STRING
        <5>1. \A i \in (k + 1)..L : i \in 1..L
          BY <1>1
        <5> QED BY <1>1, <5>1, ElementOfSeq
      <4> QED BY <1>2, <4>1, SubSeqProperties
    <3> HIDE DEF u
    <3>2. /\ Tail(u) \in Seq(STRING) /\ Len(Tail(u)) = Len(u) - 1
          /\ \A i \in 1..Len(Tail(u)) : Tail(u)[i] = u[i + 1]
          /\ Len(u) \in Nat /\ DOMAIN u = 1..Len(u) /\ Head(u) = u[1]
      BY <1>4, <3>1, HeadTailProperties, LenProperties DEF u
    <3>3. DOMAIN Tail(u) = 1..(Len(u) - 1)
      BY <3>2, LenProperties
    <3>4. ASSUME NEW i \in DOMAIN u
          PROVE  u[i] \in {Head(u)} \union ToSet(Tail(u))
      <4>1. CASE i = 1
        BY <3>2, <4>1
      <4>2. CASE i # 1
        <5>1. i - 1 \in DOMAIN Tail(u) /\ Tail(u)[i - 1] = u[(i - 1) + 1] /\ (i - 1) + 1 = i
          BY <3>2, <3>3, <4>2
        <5> QED BY <5>1 DEF ToSet
      <4> QED BY <4>1, <4>2
    <3>5. ToSet(u) \subseteq {Head(u)} \union ToSet(Tail(u))
      BY <3>4 DEF ToSet
    <3> QED BY <3>5 DEF u
  <2> QED BY <2>2, <2>3, <2>4, <2>5
<1> QED BY <1>3, <1>4 DEF W

\* A row stays good while bars are received, and when nothing it depends on changes.
LEMMA GoodRowStays ==
  ASSUME NEW w, NEW row, GoodRow(w, row), feed \in Feeds,
         fetched \in [Symbol -> Nat], fetched' \in [Symbol -> Nat],
         program' = program, feed' = feed, ~resent' => ~resent,
         \A s \in Symbol : Newest(s) <= Newest(s)'
  PROVE  GoodRow(w, row)'
<1>1. w \in Parsed /\ row.symbol \in Symbol
  BY DEF GoodRow
<1>2. ASSUME ~resent'
      PROVE  RunOf(w, row)'
  <2> DEFINE s == row.symbol
             f == feed[s]
             x == Before(f, row.startTime)
             z == Before(f, row.endTime)
             y == Within(0, z, Newest(s))
             y1 == Within(0, z, Newest(s)')
  <2>1. RunOf(w, row) /\ row.startTime \in Nat /\ row.endTime = row.startTime + WindowSeconds[w]
    BY <1>2 DEF GoodRow
  <2>2. PICK a \in 1..y, b \in 1..y :
          /\ x < a /\ a <= b
          /\ Shape(row) = Shape(ComputeOHLCV(SubSeq(f, a, b)))
          /\ program = "test" /\ WindowSeconds[w] <= MaxPoints => a = x + 1
    BY <2>1 DEF RunOf
  <2>3. Rising(f) /\ WindowSeconds[w] \in Nat \ {0} /\ row.endTime \in Int
    BY <1>1, <2>1, FeedFacts, WindowAssumption DEF Parsed
  <2>4. z \in Nat
    <3> HIDE DEF f
    <3>1. z \in 0..Len(f) /\ Len(f) \in Nat
      BY <2>3, BeforeCounts
    <3> QED BY <3>1
  <2>5. Newest(s) \in Nat /\ Newest(s)' \in Nat
    <3>1. fetched[s] + 1 \in Int /\ fetched'[s] + 1 \in Int
      BY <1>1
    <3>2. Newest(s) = Before(f, fetched[s] + 1) /\ Newest(s)' = Before(f, fetched'[s] + 1)
      BY DEF Newest
    <3> HIDE DEF f
    <3>3. Len(f) \in Nat /\ Before(f, fetched[s] + 1) \in 0..Len(f) /\ Before(f, fetched'[s] + 1) \in 0..Len(f)
      BY <2>3, <3>1, BeforeCounts
    <3> QED BY <3>2, <3>3
  <2>6. a \in 1..y1 /\ b \in 1..y1
    <3>1. Newest(s) <= Newest(s)'
      BY <1>1
    <3> HIDE DEF z
    <3>2. y \in Int /\ y1 \in Int /\ y <= y1
      BY <2>4, <2>5, <3>1 DEF Within
    <3> HIDE DEF y, y1
    <3> QED BY <3>2
  <2>7. \E c, d \in 1..y1 :
          /\ x < c /\ c <= d
          /\ Shape(row) = Shape(ComputeOHLCV(SubSeq(f, c, d)))
          /\ program = "test" /\ WindowSeconds[w] <= MaxPoints => c = x + 1
    BY <2>2, <2>6
  <2> QED BY <2>7 DEF RunOf
<1> QED BY <1>1, <1>2 DEF GoodRow

\* Rows may leave, and bars may come.
LEMMA RowsStay ==
  ASSUME CandleRows, feed \in Feeds,
         fetched \in [Symbol -> Nat], fetched' \in [Symbol -> Nat],
         program' = program, feed' = feed, ~resent' => ~resent,
         \A s \in Symbol : Newest(s) <= Newest(s)',
         DOMAIN aggregations' = Window,
         \A w \in Window : aggregations'[w] \subseteq aggregations[w]
  PROVE  CandleRows'
<1>1. ASSUME NEW w \in Window, NEW row \in aggregations'[w]
      PROVE  GoodRow(w, row)'
  <2>1. GoodRow(w, row)
    BY <1>1 DEF CandleRows
  <2> QED BY <2>1, GoodRowStays
<1>2. \A w \in Window : \A r, t \in aggregations'[w] : SameCandleKey(r, t) => r = t
  BY DEF CandleRows
<1> QED BY <1>1, <1>2 DEF CandleRows

\* A save adds rows with keys of their own or nothing.
LEMMA RowsSaved ==
  ASSUME CandleRows, feed \in Feeds, fetched \in [Symbol -> Nat],
         UNCHANGED <<program, feed, fetched, resent>>,
         NEW w \in Window, NEW rows, NEW fails, SaveAggregations(w, rows, fails),
         \A r \in rows : GoodRow(w, r),
         \A r, t \in rows : SameCandleKey(r, t) => r = t
  PROVE  CandleRows'
<1>1. \A s \in Symbol : Newest(s) <= Newest(s)'
  <2>1. ASSUME NEW s \in Symbol
        PROVE  Newest(s)' = Newest(s) /\ Newest(s) \in Int
    <3>1. Rising(feed[s]) /\ fetched[s] + 1 \in Int /\ Len(feed[s]) \in Nat
      BY FeedFacts
    <3>2. Newest(s) \in 0..Len(feed[s])
      BY <3>1, BeforeCounts DEF Newest
    <3> QED BY <3>1, <3>2 DEF Newest
  <2> QED BY <2>1
<1>2. CASE fails \/ CandleClash(w, rows)
  <2>1. aggregations' = aggregations
    BY <1>2 DEF SaveAggregations
  <2> QED BY <1>1, <2>1, RowsStay DEF CandleRows
<1>3. CASE ~(fails \/ CandleClash(w, rows))
  <2>1. aggregations' = [aggregations EXCEPT ![w] = @ \union rows] /\ DOMAIN aggregations = Window
    BY <1>3 DEF SaveAggregations, CandleRows
  <2>2. ASSUME NEW v \in Window, NEW row \in aggregations'[v]
        PROVE  GoodRow(v, row)'
    <3>1. GoodRow(v, row)
      BY <2>1, <2>2 DEF CandleRows
    <3> QED BY <1>1, <3>1, GoodRowStays
  <2>3. ASSUME NEW v \in Window, NEW r \in aggregations'[v], NEW t \in aggregations'[v],
               SameCandleKey(r, t)
        PROVE  r = t
    <3>1. CASE v # w
      BY <2>1, <2>3, <3>1 DEF CandleRows
    <3>2. CASE v = w
      <4>1. /\ r \in aggregations[w] \union rows /\ t \in aggregations[w] \union rows
            /\ \A p \in rows, q \in aggregations[w] : ~SameCandleKey(p, q)
        BY <1>3, <2>1, <2>3, <3>2 DEF CandleClash
      <4>2. SameCandleKey(t, r)
        BY <2>3 DEF SameCandleKey
      <4> QED BY <2>3, <4>1, <4>2 DEF CandleRows
    <3> QED BY <3>1, <3>2
  <2> QED BY <2>1, <2>2, <2>3 DEF CandleRows
<1> QED BY <1>2, <1>3

------------------------------------------------------------------------------
(* The windows of the initial load and of an update. *)

\* What the initial load computes for a window: rows of one key each, and the whole candle
\* of the current window last.
LEMMA InitialCandles ==
  ASSUME feed \in Feeds, now \in Nat, fetched \in [Symbol -> 0..now], History, BatchIsNewest,
         stage = "initial", NEW w \in Parsed, NEW computed, NEW s \in DOMAIN batch
  PROVE  LET all == AggregateHistorical(batch, w, computed)
         IN  /\ DOMAIN all = DOMAIN batch
             /\ \A c \in ToSet(all[s]) :
                  /\ GoodRow(w, CandleRow(s, c))
                  /\ \A d \in ToSet(all[s]) : c.startTime = d.startTime => c = d
             /\ Whole(s, Last(all[s]))
<1> DEFINE f == feed[s]
           n == Newest(s)
           seconds == WindowSeconds[w]
           average == AverageVolume(computed, s)
           g == SubSeq(f, 0 + 1, n)
           all == AllCandles(g, seconds, average)
<1>1. /\ s \in Symbol /\ w \in DOMAIN WindowSeconds /\ seconds \in Nat \ {0}
      /\ \A t \in DOMAIN batch : t \in Symbol
  BY WindowAssumption DEF Parsed, BatchIsNewest
<1>2. ASSUME NEW t \in DOMAIN batch
      PROVE  /\ batch[t] = SubSeq(feed[t], 0 + 1, Newest(t)) /\ Newest(t) \in 1..Len(feed[t])
             /\ feed[t][Newest(t)].timestamp = fetched[t] /\ Rising(feed[t])
             /\ Rising(batch[t]) /\ batch[t] # <<>> /\ Last(batch[t]) = feed[t][Newest(t)]
             /\ DOMAIN batch[t] = 1..Newest(t)
             /\ \A i \in 1..Newest(t) : batch[t][i] = feed[t][i]
  <2> DEFINE h == feed[t]
             m == Newest(t)
  <2>1. PICK a \in 0..(m - 1) : batch[t] = SubSeq(h, a + 1, m) /\ a = 0
    BY DEF BatchIsNewest
  <2>2. /\ Rising(h) /\ Len(h) \in Nat /\ m \in 0..Len(h)
        /\ m # 0 => m \in 1..Len(h) /\ h[m].timestamp = fetched[t]
    BY <1>1, <1>2, NewestFacts
  <2> HIDE DEF h, m
  <2>3. /\ batch[t] = SubSeq(h, a + 1, m)
        /\ m \in 1..Len(h) /\ a < m /\ a \in 0..Len(h) /\ m \in a..Len(h)
    BY <2>1, <2>2
  <2>4. batch[t] = SubSeq(h, 0 + 1, m)
    BY <2>1
  <2>5. /\ Rising(batch[t]) /\ DOMAIN batch[t] = 1..(m - a)
        /\ \A i \in 1..(m - a) : batch[t][i] = h[a + i]
        /\ batch[t] # <<>> /\ Last(batch[t]) = h[m]
    <3> DEFINE r == SubSeq(h, a + 1, m)
    <3>1. /\ Rising(r) /\ DOMAIN r = 1..(m - a)
          /\ \A i \in 1..(m - a) : r[i] = h[a + i]
          /\ r # <<>> /\ Last(r) = h[m]
      BY <2>2, <2>3, Slices
    <3> HIDE DEF r
    <3>2. batch[t] = r
      BY <2>3 DEF r
    <3> QED BY <3>1, <3>2
  <2>6. m - a = m /\ \A i \in 1..m : a + i = i
    BY <2>1, <2>2
  <2> QED BY <2>2, <2>3, <2>4, <2>5, <2>6 DEF h, m
<1>3. Nonempty(batch) = DOMAIN batch
  BY <1>2 DEF Nonempty
<1>4. /\ DOMAIN AggregateHistorical(batch, w, computed) = DOMAIN batch
      /\ AggregateHistorical(batch, w, computed)[s] = all
  BY <1>1, <1>2, <1>3 DEF AggregateHistorical
<1>5. /\ Rising(g) /\ g # <<>> /\ Last(g).timestamp = fetched[s] /\ DOMAIN g = 1..n
      /\ n \in 1..Len(f) /\ f[n].timestamp = fetched[s] /\ Rising(f)
      /\ \A i \in 1..n : g[i] = f[i]
  BY <1>2
<1> HIDE DEF g, all, f, n, seconds, average
<1>6. PICK k : AreCandlesOf(all, k, g, seconds)
  BY <1>1, <1>5, AllCandlesOf DEF all
<1>7. /\ k \in Nat \ {0} /\ all = [p \in 1..k |-> all[p]] /\ Last(all) = all[k]
      /\ \A p \in 1..k : \E i \in DOMAIN g :
           LET start == WindowStart(g[i].timestamp, seconds)
           IN  CandleOf(all[p], Between(g, start, start + seconds), start, seconds)
      /\ \A p, q \in 1..k : all[p].startTime = all[q].startTime => p = q
      /\ all[k].startTime = WindowStart(Last(g).timestamp, seconds)
  BY <1>6 DEF AreCandlesOf
<1>8. ASSUME NEW c \in ToSet(all)
      PROVE  /\ \E l \in 1..k : c = all[l]
             /\ GoodRow(w, CandleRow(s, c))
  <2>1. PICK l \in 1..k : c = all[l]
    BY <1>7, <1>8 DEF ToSet
  <2>2. PICK i \in 1..n :
          CandleOf(c, Between(g, WindowStart(f[i].timestamp, seconds),
                                 WindowStart(f[i].timestamp, seconds) + seconds),
                   WindowStart(f[i].timestamp, seconds), seconds)
    BY <1>5, <1>7, <2>1
  <2> DEFINE start == WindowStart(f[i].timestamp, seconds)
             row == CandleRow(s, c)
  <2>3. 0 <= Before(f, start)
    <3>1. i \in 1..Len(f)
      BY <1>5
    <3>2. f[i].timestamp \in Nat
      BY <1>5, <3>1, PlaceOfBar
    <3> DEFINE time == f[i].timestamp
    <3> HIDE DEF time
    <3>3. WindowStart(time, seconds) \in Nat
      BY <1>1, <3>2, WindowHolds DEF time
    <3>4. start \in Int
      BY <3>3 DEF time
    <3> HIDE DEF start
    <3> QED BY <1>5, <3>4, BeforeCounts
  <2>4. 0 \in 0..n /\ i \in (0 + 1)..n
    BY <1>5
  <2>5. /\ row.symbol = s /\ row.startTime \in Nat
        /\ row.endTime = row.startTime + seconds /\ RunOf(w, row)
    <3>1. /\ 0 \in 0..Newest(s) /\ i \in (0 + 1)..Newest(s)
          /\ LET h == SubSeq(feed[s], 0 + 1, Newest(s))
                 st == WindowStart(feed[s][i].timestamp, WindowSeconds[w])
             IN  /\ CandleOf(c, Between(h, st, st + WindowSeconds[w]), st, WindowSeconds[w])
                 /\ program = "test" /\ WindowSeconds[w] <= MaxPoints => 0 <= Before(feed[s], st)
      BY <2>2, <2>3, <2>4 DEF g, f, n, seconds
    <3> QED BY <1>1, <3>1, RowIsRun DEF seconds
  <2> QED BY <1>1, <2>1, <2>5 DEF GoodRow, seconds
<1>9. Whole(s, Last(all))
  <2> DEFINE c == Last(all)
             start == WindowStart(fetched[s], seconds)
  <2>1. k \in 1..k /\ c = all[k] /\ c.startTime = start
    BY <1>5, <1>7
  <2>2. PICK i \in DOMAIN g :
          LET st == WindowStart(g[i].timestamp, seconds)
          IN  CandleOf(c, Between(g, st, st + seconds), st, seconds)
    BY <1>7, <2>1
  <2>3. CandleOf(c, Between(g, start, start + seconds), start, seconds)
    BY <2>1, <2>2 DEF CandleOf
  <2>4. 0 <= Before(f, start)
    <3>1. start \in Int
      BY <1>1, WindowHolds
    <3> HIDE DEF start
    <3> QED BY <1>5, <3>1, BeforeCounts
  <2>5. 0 \in 0..(Newest(s) - 1)
    BY <1>5 DEF n
  <2>6. 0 <= Before(feed[s], WindowStart(fetched[s], seconds)) => Whole(s, c)
    BY <1>1, <2>3, <2>5, CandleIsWhole DEF g, f, n
  <2> QED BY <2>4, <2>6 DEF f
<1>10. \A c, d \in ToSet(all) : c.startTime = d.startTime => c = d
  BY <1>7, <1>8
<1> QED BY <1>4, <1>8, <1>9, <1>10

\* What an update computes for a window: the candle of the current one for every symbol,
\* whole if the program aggregates the history and the history has the window.
LEMMA UpdateCandles ==
  ASSUME feed \in Feeds, now \in Nat, fetched \in [Symbol -> 0..now], History, BatchIsNewest,
         ~resent, NEW w \in Parsed, NEW averages
  PROVE  LET new == AggregateRealTime(Aggregated, w, averages)
         IN  /\ DOMAIN new = DOMAIN batch
             /\ \A s \in DOMAIN batch :
                  /\ GoodRow(w, CandleRow(s, new[s]))
                  /\ IsCurrent(s, new[s])
                  /\ new[s].endTime = new[s].startTime + WindowSeconds[w]
                  /\ program = "test" /\ WindowSeconds[w] <= MaxPoints => Whole(s, new[s])
<1> DEFINE seconds == WindowSeconds[w]
           data == Aggregated
<1>1. /\ w \in DOMAIN WindowSeconds /\ seconds \in Nat \ {0}
      /\ \A s \in DOMAIN batch : s \in Symbol
  BY WindowAssumption DEF Parsed, BatchIsNewest
<1>2. DOMAIN data = DOMAIN batch
  BY DEF Aggregated
<1>3. ASSUME NEW s \in DOMAIN batch
      PROVE  \E lo \in 0..(Newest(s) - 1) :
               /\ data[s] = SubSeq(feed[s], lo + 1, Newest(s))
               /\ program = "test" => lo = Oldest(s)
  <2>1. CASE program = "main"
    BY <1>3, <2>1 DEF Aggregated, BatchIsNewest
  <2>2. CASE program # "main"
    <3>1. data[s] = buffers[s]
      BY <1>3, <2>2 DEF Aggregated
    <3>2. buffers[s] = SubSeq(feed[s], Oldest(s) + 1, Newest(s))
      BY <1>1, <1>3 DEF History
    <3>3. Newest(s) # 0
      <4>1. PICK a \in 0..(Newest(s) - 1) : TRUE
        BY <1>3 DEF BatchIsNewest
      <4> QED BY <4>1
    <3>4. Len(feed[s]) \in Nat /\ Newest(s) \in 0..Len(feed[s]) /\ Oldest(s) \in 0..Newest(s) /\ Oldest(s) < Newest(s)
      BY <1>1, <1>3, <3>3, NewestFacts
    <3>5. Oldest(s) \in 0..(Newest(s) - 1)
      BY <3>4
    <3> QED BY <3>1, <3>2, <3>5
  <2> QED BY <2>1, <2>2
<1> HIDE DEF data
<1>4. ASSUME NEW s \in DOMAIN batch, NEW average
      PROVE  LET c == LatestCandle(data[s], seconds, average)
             IN  /\ data[s] # <<>>
                 /\ GoodRow(w, CandleRow(s, c))
                 /\ IsCurrent(s, c)
                 /\ c.endTime = c.startTime + seconds
                 /\ program = "test" /\ seconds <= MaxPoints => Whole(s, c)
  <2> DEFINE f == feed[s]
             n == Newest(s)
             g == data[s]
             c == LatestCandle(g, seconds, average)
             start == WindowStart(fetched[s], seconds)
  <2>1. PICK lo \in 0..(n - 1) : g = SubSeq(f, lo + 1, n) /\ (program = "test" => lo = Oldest(s))
    BY <1>3
  <2>2. /\ s \in Symbol /\ Rising(f) /\ Len(f) \in Nat /\ n \in 0..Len(f)
        /\ n # 0 => n \in 1..Len(f) /\ f[n].timestamp = fetched[s]
    BY <1>1, NewestFacts
  <2>3. n # 0 /\ n \in 1..Len(f) /\ f[n].timestamp = fetched[s]
    <3> HIDE DEF f, n
    <3> QED BY <2>1, <2>2
  <2>4. Rising(g) /\ g # <<>> /\ Last(g) = f[n]
    <3> HIDE DEF f, n, g
    <3>1. lo \in 0..Len(f) /\ n \in lo..Len(f) /\ lo < n
      BY <2>1, <2>2, <2>3
    <3> QED BY <2>1, <2>2, <3>1, Slices
  <2>5. CandleOf(c, Between(g, start, start + seconds), start, seconds)
    <3> HIDE DEF f, n, g
    <3> QED BY <2>3, <2>4, LatestCandleOf
  <2> HIDE DEF c
  <2>6. program = "test" /\ seconds <= MaxPoints => lo <= Before(f, start)
    BY <1>1, <2>1, <2>2, <2>3, HistoryFits
  <2>7. /\ c.startTime = start /\ c.endTime = c.startTime + seconds
        /\ IsCurrent(s, c)
        /\ lo <= Before(f, start) => Whole(s, c)
    BY <1>1, <2>1, <2>2, <2>5, CandleIsWhole
  <2>8. GoodRow(w, CandleRow(s, c))
    <3>1. lo \in 0..Newest(s) /\ Newest(s) \in (lo + 1)..Newest(s)
      <4> HIDE DEF f, n, g
      <4>1. lo \in 0..n /\ n \in (lo + 1)..n
        BY <2>1, <2>2
      <4> QED BY <4>1 DEF n
    <3>2. LET h == SubSeq(feed[s], lo + 1, Newest(s))
              st == WindowStart(feed[s][Newest(s)].timestamp, WindowSeconds[w])
          IN  /\ CandleOf(c, Between(h, st, st + WindowSeconds[w]), st, WindowSeconds[w])
              /\ program = "test" /\ WindowSeconds[w] <= MaxPoints => lo <= Before(feed[s], st)
      BY <2>1, <2>3, <2>5, <2>6
    <3>3. LET row == CandleRow(s, c)
          IN  /\ row.symbol = s /\ row.startTime \in Nat
              /\ row.endTime = row.startTime + WindowSeconds[w] /\ RunOf(w, row)
      BY <2>2, <3>1, <3>2, RowIsRun
    <3> QED BY <2>2, <3>3 DEF GoodRow
  <2> QED BY <2>4, <2>6, <2>7, <2>8 DEF c
<1>5. Nonempty(data) = DOMAIN batch
  BY <1>2, <1>4 DEF Nonempty
<1> DEFINE new == AggregateRealTime(data, w, averages)
<1>6. /\ DOMAIN new = DOMAIN batch
      /\ \A s \in DOMAIN batch : new[s] = LatestCandle(data[s], seconds, AverageVolume(averages, s))
  BY <1>1, <1>5 DEF AggregateRealTime
<1> HIDE DEF new
<1>7. ASSUME NEW s \in DOMAIN batch
      PROVE  /\ GoodRow(w, CandleRow(s, new[s]))
             /\ IsCurrent(s, new[s])
             /\ new[s].endTime = new[s].startTime + seconds
             /\ program = "test" /\ seconds <= MaxPoints => Whole(s, new[s])
  BY <1>4, <1>6
<1> QED BY <1>6, <1>7 DEF new, data

------------------------------------------------------------------------------
(* The steps keep the invariant. *)

\* Failures count up to the bound.
LEMMA FaultsCount ==
  ASSUME Control, NEW failing, IsFiniteSet(failing), MayFail(failing)
  PROVE  /\ faults' \in 0..MaxFaults /\ faults <= faults'
         /\ failing # {} => faults' > 0
<1>1. Cardinality(failing) \in Nat /\ (failing # {} => Cardinality(failing) # 0)
  BY FS_CardinalityType, FS_EmptySet
<1>2. faults \in Nat /\ MaxFaults \in Nat
  BY PipelineAssumption DEF Control
<1> QED BY <1>1, <1>2 DEF MayFail

\* What may fail is a finite set.
LEMMA FiniteFailures ==
  /\ \A failing \in SUBSET {"stats", "candles"} : IsFiniteSet(failing)
  /\ \A failing \in SUBSET {"prices"} :
       IsFiniteSet(failing) /\ IsFiniteSet(failing \union {"restart"}) /\ IsFiniteSet(failing \union {})
  /\ \A failing \in SUBSET {"candles"} : IsFiniteSet(failing)
  /\ \A failing \in SUBSET (Window \union {"stock_prices"}) : IsFiniteSet(failing)
  /\ IsFiniteSet({"restart"})
<1>1. \A x : IsFiniteSet({x})
  BY FS_Singleton
<1>2. IsFiniteSet({"stats", "candles"})
  <2>1. {"stats", "candles"} = {"stats"} \union {"candles"}
    OBVIOUS
  <2>2. IsFiniteSet({"stats"}) /\ IsFiniteSet({"candles"})
    BY <1>1
  <2>3. IsFiniteSet({"stats"} \union {"candles"})
    BY <2>2, FS_Union
  <2> QED BY <2>1, <2>3
<1>3. IsFiniteSet(Window)
  <2> DEFINE W == WindowsAgg
             I == 1..Len(W)
             at == [i \in I |-> W[i]]
  <2>1. W \in Seq(STRING) /\ Len(W) \in Nat /\ DOMAIN W = I /\ Window = ToSet(W)
    BY WindowAssumption, PipelineAssumption, LenProperties
  <2>2. IsFiniteSet(I)
    BY <2>1, CountTo
  <2>3. Window = {W[i] : i \in I}
    BY <2>1 DEF ToSet
  <2> HIDE DEF I
  <2>4. at \in Surjection(I, Window)
    <3>1. at \in [I -> Window]
      BY <2>3
    <3>2. \A x \in Window : \E i \in I : at[i] = x
      BY <2>3
    <3> QED BY <3>1, <3>2 DEF Surjection
  <2> QED BY <2>2, <2>4, FS_Surjection
<1>4. IsFiniteSet(Window \union {"stock_prices"})
  BY <1>1, <1>3, FS_Union
<1>5. \A S : \A T \in SUBSET S : IsFiniteSet(S) => IsFiniteSet(T)
  BY FS_Subset
<1>6. \A T \in SUBSET {"prices"} : IsFiniteSet(T)
  BY <1>1, <1>5
<1>7. \A T \in SUBSET {"prices"} : IsFiniteSet(T \union {"restart"})
  BY <1>1, <1>6, FS_Union
<1>8. \A T \in SUBSET {"prices"} : T \union {} = T
  OBVIOUS
<1> QED BY <1>1, <1>2, <1>4, <1>5, <1>6, <1>7, <1>8

\* What depends on the bars received alone stays as it is while none come.
LEMMA NothingReceived ==
  ASSUME IInv, History, BatchIsNewest,
         UNCHANGED <<program, feed, fetched, buffers, resent>>
  PROVE  /\ History'
         /\ batch' = batch /\ (stage' = stage \/ stage' \notin {"initial", "update"}) => BatchIsNewest'
         /\ \A s \in Symbol : Newest(s) <= Newest(s)'
         /\ \A s, c : (IsCurrent(s, c)' <=> IsCurrent(s, c)) /\ (Whole(s, c)' <=> Whole(s, c))
<1>1. \A s : Newest(s)' = Newest(s) /\ Oldest(s)' = Oldest(s) /\ Received(s)' = Received(s)
  BY DEF Newest, Oldest, Received, Points
<1>2. History'
  BY <1>1 DEF History
<1>3. ASSUME batch' = batch, stage' = stage \/ stage' \notin {"initial", "update"}
      PROVE  BatchIsNewest'
  BY <1>1, <1>3 DEF BatchIsNewest
<1>4. ASSUME NEW s \in Symbol
      PROVE  Newest(s) <= Newest(s)'
  <2>1. Len(feed[s]) \in Nat /\ Newest(s) \in 0..Len(feed[s])
    BY NewestFacts DEF IInv, Types
  <2> QED BY <1>1, <2>1
<1>5. \A s, c : (IsCurrent(s, c)' <=> IsCurrent(s, c)) /\ (Whole(s, c)' <=> Whole(s, c))
  BY <1>1 DEF IsCurrent, Whole
<1> QED BY <1>2, <1>3, <1>4, <1>5

\* Before any window is aggregated there is nothing to say of their candles.
LEMMA AllWindowsLeft ==
  ASSUME windowsLeft' = WindowsAgg
  PROVE  /\ Parsed \ ToSet(windowsLeft') = {}
         /\ CandlesCurrent' /\ UpdateLeavesACandle'
         /\ \E k \in 0..Len(WindowsAgg) : windowsLeft' = SubSeq(WindowsAgg, k + 1, Len(WindowsAgg))
<1>1. WindowsAgg \in Seq(STRING) /\ Len(WindowsAgg) \in Nat /\ Parsed \subseteq ToSet(WindowsAgg)
  BY WindowAssumption, LenProperties DEF Parsed
<1>2. WindowsAgg = SubSeq(WindowsAgg, 0 + 1, Len(WindowsAgg))
  BY <1>1, SubSeqFull
<1>3. 0 \in 0..Len(WindowsAgg)
  BY <1>1
<1> QED BY <1>1, <1>2, <1>3 DEF CandlesCurrent, UpdateLeavesACandle

\* The initial load receives all there is.
LEMMA FetchInitialCandles ==
  ASSUME IInv, CandleInv, NEW answered \in SUBSET Symbol, FetchInitialData(answered)
  PROVE  CandleInv'
<1> DEFINE symbols == {s \in answered : Points(s, 0, now) # <<>>}
           from == [s \in Symbol |-> 0]
<1>1. /\ stage = "fetch" /\ stage' = "initial" /\ windowsLeft = WindowsAgg
      /\ batch' = [s \in symbols |-> Points(s, 0, now)]
      /\ fetched' = [s \in Symbol |-> IF s \in DOMAIN batch' THEN Last(batch'[s]).timestamp ELSE 0]
      /\ Remember(batch')
      /\ UNCHANGED <<program, feed, now, windowsLeft, candles, latestState, broadcast, faults, resent, aggregations>>
  BY DEF FetchInitialData, server, history, tables, CandleInv, Control
<1>2. fetched = from
  BY <1>1 DEF CandleInv, Control
<1>3. /\ feed \in Feeds /\ now \in Nat /\ fetched \in [Symbol -> 0..now]
      /\ symbols \in SUBSET Symbol /\ History
  BY DEF IInv, Types, CandleInv
<1>4. \A s \in symbols : from[s] = 0 /\ from[s] \in 0..fetched[s] /\ Points(s, from[s], now) # <<>>
  BY <1>2, <1>3
<1>5. /\ batch' = [s \in symbols |-> Points(s, from[s], now)]
      /\ fetched' = [s \in Symbol |-> IF s \in symbols THEN Last(batch'[s]).timestamp ELSE fetched[s]]
      /\ DOMAIN batch' = symbols
  BY <1>1, <1>2, <1>4
<1>6. /\ History'
      /\ \A s \in Symbol : Newest(s) <= Newest(s)'
      /\ \A s \in symbols : \E a \in 0..(Newest(s)' - 1) :
           batch'[s] = SubSeq(feed[s], a + 1, Newest(s)') /\ (from[s] = 0 => a = 0)
  <2> HIDE DEF symbols, from
  <2>1. /\ feed' = feed /\ Remember(batch')
        /\ ~resent' => ~resent /\ \A s \in symbols : from[s] = fetched[s]
        /\ \A s \in symbols : from[s] \in 0..fetched[s] /\ Points(s, from[s], now) # <<>>
    BY <1>1, <1>2, <1>4
  <2> QED BY <1>3, <1>5, <2>1, HistoryMoves
<1>7. BatchIsNewest'
  <2> HIDE DEF symbols
  <2> QED BY <1>1, <1>3, <1>4, <1>5, <1>6 DEF BatchIsNewest
<1>8. CandleRows'
  <2>1. fetched \in [Symbol -> Nat] /\ fetched' \in [Symbol -> Nat]
    <3>1. fetched' \in [Symbol -> 0..now']
      BY FetchInitialPreserves DEF IInv, Types
    <3> QED BY <1>1, <1>3, <3>1
  <2> QED BY <1>1, <1>3, <1>6, <2>1, RowsStay DEF CandleInv, CandleRows
<1>9. Control' /\ ServedCurrent' /\ CandlesCurrent' /\ UpdateLeavesACandle'
  BY <1>1, AllWindowsLeft DEF CandleInv, Control, ServedCurrent
<1> QED BY <1>6, <1>7, <1>8, <1>9 DEF CandleInv

\* An update brings what closed since the last one.
LEMMA ReceiveCandles ==
  ASSUME IInv, CandleInv, NEW symbols \in SUBSET Symbol, NEW restarted \in BOOLEAN,
         NEW failing \in SUBSET {"prices"}, Receive(symbols, restarted, failing)
  PROVE  CandleInv'
<1> DEFINE from == IF restarted THEN remembered ELSE fetched
<1>1. /\ stage = "idle" /\ stage' = "update" /\ windowsLeft' = WindowsAgg /\ symbols # {}
      /\ batch' = [s \in symbols |-> Points(s, from[s], now)]
      /\ \A s \in symbols : batch'[s] # <<>>
      /\ fetched' = [s \in Symbol |-> IF s \in symbols THEN Last(batch'[s]).timestamp ELSE fetched[s]]
      /\ Remember(batch')
      /\ resent' = (resent \/ restarted)
      /\ MayFail(failing \union IF restarted THEN {"restart"} ELSE {})
      /\ candles' = NoCandles
      /\ UNCHANGED <<program, feed, now, latestState, broadcast, aggregations>>
  BY DEF Receive, server
<1>2. /\ feed \in Feeds /\ now \in Nat /\ fetched \in [Symbol -> 0..now] /\ History
      /\ \A s \in Symbol : remembered[s] \in 0..fetched[s] /\ fetched[s] \in 0..fetched[s]
  BY DEF IInv, Types, CandleInv
<1>3. /\ \A s \in symbols : from[s] \in 0..fetched[s] /\ Points(s, from[s], now) # <<>>
      /\ ~resent' => ~resent /\ \A s \in symbols : from[s] = fetched[s]
  BY <1>1, <1>2
<1> HIDE DEF from
<1>4. /\ History'
      /\ \A s \in Symbol : Newest(s) <= Newest(s)'
      /\ \A s \in symbols : \E a \in 0..(Newest(s)' - 1) :
           batch'[s] = SubSeq(feed[s], a + 1, Newest(s)') /\ (from[s] = 0 => a = 0)
  BY <1>1, <1>2, <1>3, HistoryMoves
<1>5. BatchIsNewest'
  <2>1. DOMAIN batch' = symbols
    BY <1>1
  <2> QED BY <1>1, <1>4, <2>1 DEF BatchIsNewest
<1>6. CandleRows'
  <2>1. fetched \in [Symbol -> Nat] /\ fetched' \in [Symbol -> Nat]
    <3>1. fetched' \in [Symbol -> 0..now']
      BY ReceivedGrows DEF IInv, Types
    <3> QED BY <1>1, <1>2, <3>1
  <2> QED BY <1>1, <1>2, <1>3, <1>4, <2>1, RowsStay DEF CandleInv, CandleRows
<1>7. Control'
  <2>1. IsFiniteSet(failing \union IF restarted THEN {"restart"} ELSE {})
    BY FiniteFailures
  <2>2. /\ faults' \in 0..MaxFaults /\ faults <= faults'
        /\ restarted => faults' > 0
    BY <1>1, <2>1, FaultsCount DEF CandleInv
  <2>3. faults \in 0..MaxFaults /\ (resent => faults > 0) /\ MaxFaults \in Nat
    BY PipelineAssumption DEF CandleInv, Control
  <2>4. resent' \in BOOLEAN /\ (resent' => faults' > 0)
    BY <1>1, <2>2, <2>3 DEF CandleInv, Control
  <2> QED BY <1>1, <2>2, <2>4, AllWindowsLeft DEF CandleInv, Control, NoCandles
<1>8. ServedCurrent' /\ CandlesCurrent' /\ UpdateLeavesACandle'
  BY <1>1, AllWindowsLeft DEF ServedCurrent
<1> QED BY <1>4, <1>5, <1>6, <1>7, <1>8 DEF CandleInv

\* A window of the initial load saves rows of its own and keeps its last candles.
LEMMA InitialWindowCandles ==
  ASSUME IInv, CandleInv, NEW failing \in SUBSET {"stats", "candles"}, InitialWindow(failing)
  PROVE  CandleInv'
<1> DEFINE w == Head(windowsLeft)
           computed == CalculateStatsForWindow(batch, w)
           all == AggregateHistorical(batch, w, computed)
           rows == UNION {{CandleRow(s, c) : c \in ToSet(all[s])} : s \in DOMAIN all}
           last == [s \in DOMAIN all |-> Last(all[s])]
<1>1. /\ stage = "initial" /\ windowsLeft # <<>>
      /\ MayFail(failing)
      /\ SaveAggregations(w, rows, "candles" \in failing)
      /\ candles' = [candles EXCEPT ![w] = last]
      /\ windowsLeft' = Tail(windowsLeft)
      /\ UNCHANGED <<program, feed, now, fetched, buffers, stage, batch, latestState, broadcast, resent>>
  BY DEF InitialWindow, memory, server
<1>2. /\ feed \in Feeds /\ now \in Nat /\ fetched \in [Symbol -> 0..now]
      /\ Control /\ History /\ BatchIsNewest /\ CandleRows
  BY DEF IInv, Types, CandleInv
<1>3. /\ w \in Window
      /\ ToSet(windowsLeft) \subseteq {w} \union ToSet(windowsLeft')
      /\ \E k \in 0..Len(WindowsAgg) : windowsLeft' = SubSeq(WindowsAgg, k + 1, Len(WindowsAgg))
  BY <1>1, <1>2, NextWindow
<1>4. w \notin Parsed => DOMAIN all = {}
  BY DEF AggregateHistorical, Parsed
<1>5. ASSUME w \in Parsed
      PROVE  /\ DOMAIN all = DOMAIN batch
             /\ \A s \in DOMAIN batch :
                  /\ \A c \in ToSet(all[s]) :
                       /\ GoodRow(w, CandleRow(s, c))
                       /\ \A d \in ToSet(all[s]) : c.startTime = d.startTime => c = d
                  /\ Whole(s, Last(all[s]))
  <2> HIDE DEF w, computed
  <2>1. ASSUME NEW s \in DOMAIN batch
        PROVE  /\ DOMAIN all = DOMAIN batch
               /\ \A c \in ToSet(all[s]) :
                    /\ GoodRow(w, CandleRow(s, c))
                    /\ \A d \in ToSet(all[s]) : c.startTime = d.startTime => c = d
               /\ Whole(s, Last(all[s]))
    BY <1>1, <1>2, <1>5, <2>1, InitialCandles
  <2>2. CASE DOMAIN batch = {}
    <3>1. Nonempty(batch) = {}
      BY <2>2 DEF Nonempty
    <3> QED BY <2>2, <3>1 DEF AggregateHistorical
  <2> HIDE DEF all
  <2> QED BY <2>1, <2>2
<1> HIDE DEF w, computed, all
<1>6. CandleRows'
  <2>1. ASSUME NEW r \in rows
        PROVE  \E s \in DOMAIN all : \E c \in ToSet(all[s]) : r = CandleRow(s, c)
    OBVIOUS
  <2> HIDE DEF rows
  <2>2. ASSUME NEW r \in rows
        PROVE  GoodRow(w, r)
    BY <1>4, <1>5, <2>1
  <2>3. ASSUME NEW r \in rows, NEW t \in rows, SameCandleKey(r, t)
        PROVE  r = t
    <3>1. PICK s \in DOMAIN all : \E c \in ToSet(all[s]) : r = CandleRow(s, c)
      BY <2>1
    <3>2. PICK c \in ToSet(all[s]) : r = CandleRow(s, c)
      BY <3>1
    <3>3. PICK u \in DOMAIN all : \E d \in ToSet(all[u]) : t = CandleRow(u, d)
      BY <2>1
    <3>4. PICK d \in ToSet(all[u]) : t = CandleRow(u, d)
      BY <3>3
    <3>5. s = u /\ c.startTime = d.startTime
      BY <2>3, <3>2, <3>4 DEF SameCandleKey, CandleRow
    <3>6. c = d
      BY <1>4, <1>5, <3>1, <3>2, <3>4, <3>5
    <3> QED BY <3>2, <3>4, <3>5, <3>6
  <2>4. fetched \in [Symbol -> Nat]
    BY <1>2
  <2> QED BY <1>1, <1>2, <1>3, <2>2, <2>3, <2>4, RowsSaved
<1>7. History' /\ BatchIsNewest' /\ \A s, c : Whole(s, c)' <=> Whole(s, c)
  BY <1>1, <1>2, NothingReceived
<1>8. CandlesCurrent'
  <2>1. SUFFICES ASSUME program = "test", ~resent, NEW v \in Parsed \ ToSet(windowsLeft'),
                        WindowSeconds[v] <= MaxPoints
                 PROVE  /\ DOMAIN candles'[v] = DOMAIN batch
                        /\ \A s \in DOMAIN batch : Whole(s, candles'[v][s])
    BY <1>1, <1>7 DEF CandlesCurrent
  <2>2. CASE v = w
    <3>1. candles'[w] = last
      BY <1>1, <1>2, <1>3 DEF Control
    <3> QED BY <1>5, <2>1, <2>2, <3>1
  <2>3. CASE v # w
    <3>1. v \notin ToSet(windowsLeft) /\ candles'[v] = candles[v]
      <4> HIDE DEF last
      <4> QED BY <1>1, <1>3, <2>1, <2>3
    <3> QED BY <1>1, <2>1, <3>1 DEF CandleInv, CandlesCurrent
  <2> QED BY <2>2, <2>3
<1>9. Control'
  <2>1. faults' \in 0..MaxFaults /\ faults <= faults' /\ faults \in 0..MaxFaults /\ MaxFaults \in Nat
    BY <1>1, <1>2, FiniteFailures, FaultsCount, PipelineAssumption DEF Control
  <2>2. resent => faults' > 0
    BY <1>2, <2>1 DEF Control
  <2>3. DOMAIN candles' = Window
    BY <1>1, <1>2 DEF Control
  <2> QED BY <1>1, <1>2, <1>3, <2>1, <2>2, <2>3 DEF Control
<1>10. ServedCurrent' /\ UpdateLeavesACandle'
  BY <1>1 DEF CandleInv, ServedCurrent, UpdateLeavesACandle
<1> QED BY <1>6, <1>7, <1>8, <1>9, <1>10 DEF CandleInv

\* The server gets the last candles of the load.
LEMMA FinishInitialCandles ==
  ASSUME IInv, CandleInv, NEW failing \in SUBSET {"prices"}, FinishInitialLoad(failing)
  PROVE  CandleInv'
<1>1. /\ stage = "initial" /\ stage' = "idle" /\ windowsLeft = <<>> /\ MayFail(failing)
      /\ UpdateAllDatas([s \in DOMAIN batch |-> Last(batch[s])], candles)
      /\ UNCHANGED <<program, feed, now, fetched, buffers, windowsLeft, batch, candles, broadcast,
                     resent, aggregations>>
  BY DEF FinishInitialLoad, memory
<1>2. /\ feed \in Feeds /\ now \in Nat /\ fetched \in [Symbol -> 0..now]
      /\ Control /\ History /\ BatchIsNewest /\ CandleRows
  BY DEF IInv, Types, CandleInv
<1>3. /\ History' /\ BatchIsNewest' /\ \A s \in Symbol : Newest(s) <= Newest(s)'
      /\ \A s, c : Whole(s, c)' <=> Whole(s, c)
  BY <1>1, <1>2, NothingReceived
<1>4. CandleRows'
  <2>1. fetched \in [Symbol -> Nat] /\ fetched' \in [Symbol -> Nat]
    BY <1>1, <1>2
  <2> QED BY <1>1, <1>2, <1>3, <2>1, RowsStay DEF CandleRows
<1>5. Control'
  <2>1. faults' \in 0..MaxFaults /\ faults <= faults' /\ faults \in 0..MaxFaults /\ MaxFaults \in Nat
    BY <1>1, <1>2, FiniteFailures, FaultsCount, PipelineAssumption DEF Control
  <2>2. resent => faults' > 0
    BY <1>2, <2>1 DEF Control
  <2> QED BY <1>1, <1>2, <2>1, <2>2 DEF Control
<1>6. CandlesCurrent' /\ UpdateLeavesACandle'
  BY <1>1 DEF CandlesCurrent, UpdateLeavesACandle
<1>7. ServedCurrent'
  <2>1. SUFFICES ASSUME program = "test", ~resent, NEW w \in Parsed, WindowSeconds[w] <= MaxPoints
                 PROVE  /\ DOMAIN batch \subseteq DOMAIN Shown'.aggregations[w]
                        /\ \A s \in DOMAIN Shown'.aggregations[w] :
                             s \in Symbol /\ Whole(s, Shown'.aggregations[w][s])
    BY <1>1, <1>3 DEF ServedCurrent
  <2>2. broadcast' = <<>> /\ latestState.aggregations = [v \in Window |-> <<>>]
    BY <1>1 DEF CandleInv, ServedCurrent
  <2>3. Shown' = latestState'
    BY <2>2 DEF Shown
  <2>4. w \in Window
    BY WindowAssumption, PipelineAssumption DEF Parsed
  <2>5. latestState'.aggregations[w] = Over(candles[w], latestState.aggregations[w])
    BY <1>1, <2>4 DEF UpdateAllDatas
  <2>6. latestState.aggregations[w] = <<>> /\ DOMAIN <<>> = {}
    <3>1. <<>> \in Seq({}) /\ Len(<<>>) = 0
      BY EmptySeq
    <3>2. DOMAIN <<>> = 1..0
      BY <3>1, LenProperties
    <3> QED BY <2>2, <2>4, <3>2
  <2>7. /\ DOMAIN candles[w] = DOMAIN batch
        /\ \A s \in DOMAIN batch : s \in Symbol /\ Whole(s, candles[w][s])
    <3>1. w \in Parsed \ ToSet(windowsLeft)
      BY <1>1, <1>2, NextWindow
    <3> QED BY <1>1, <1>2, <2>1, <3>1 DEF CandleInv, CandlesCurrent, BatchIsNewest
  <2>8. /\ DOMAIN Shown'.aggregations[w] = DOMAIN batch
        /\ \A s \in DOMAIN batch : Shown'.aggregations[w][s] = candles[w][s]
    BY <2>3, <2>5, <2>6, <2>7 DEF Over
  <2> QED BY <2>7, <2>8
<1> QED BY <1>3, <1>4, <1>5, <1>6, <1>7 DEF CandleInv

\* A window of an update leaves a row of one of its symbols, new or there before.
LEMMA UpdateWindowCandles ==
  ASSUME IInv, CandleInv, NEW failing \in SUBSET {"candles"}, UpdateWindow(failing)
  PROVE  CandleInv'
<1> DEFINE w == Head(windowsLeft)
           new == AggregateRealTime(Aggregated, w, stats[w])
           rows == {CandleRow(s, new[s]) : s \in DOMAIN new}
<1>1. /\ stage = "update" /\ windowsLeft # <<>>
      /\ MayFail(failing)
      /\ SaveAggregations(w, rows, failing # {})
      /\ candles' = [candles EXCEPT ![w] = new]
      /\ windowsLeft' = Tail(windowsLeft)
      /\ UNCHANGED <<program, feed, now, fetched, buffers, stage, batch, latestState, broadcast, resent>>
  BY DEF UpdateWindow, memory, server
<1>2. /\ feed \in Feeds /\ now \in Nat /\ fetched \in [Symbol -> 0..now]
      /\ Control /\ History /\ BatchIsNewest /\ CandleRows
  BY DEF IInv, Types, CandleInv
<1>3. /\ w \in Window
      /\ ToSet(windowsLeft) \subseteq {w} \union ToSet(windowsLeft')
      /\ \E k \in 0..Len(WindowsAgg) : windowsLeft' = SubSeq(WindowsAgg, k + 1, Len(WindowsAgg))
  BY <1>1, <1>2, NextWindow
<1>4. /\ DOMAIN new \subseteq DOMAIN batch
      /\ w \notin Parsed => DOMAIN new = {}
  <2>1. DOMAIN Aggregated = DOMAIN batch
    BY DEF Aggregated
  <2> QED BY <2>1 DEF AggregateRealTime, Parsed, Nonempty
<1>5. ASSUME ~resent, w \in Parsed
      PROVE  /\ DOMAIN new = DOMAIN batch
             /\ \A s \in DOMAIN batch :
                  /\ GoodRow(w, CandleRow(s, new[s]))
                  /\ IsCurrent(s, new[s])
                  /\ new[s].endTime = new[s].startTime + WindowSeconds[w]
                  /\ program = "test" /\ WindowSeconds[w] <= MaxPoints => Whole(s, new[s])
  <2> HIDE DEF w
  <2> QED BY <1>2, <1>5, UpdateCandles
<1> HIDE DEF w, new
<1>6. \A s \in DOMAIN batch : s \in Symbol
  BY <1>2 DEF BatchIsNewest
<1>7. CandleRows'
  <2>1. ASSUME NEW r \in rows
        PROVE  \E s \in DOMAIN new : r = CandleRow(s, new[s])
    OBVIOUS
  <2> HIDE DEF rows
  <2>2. ASSUME NEW r \in rows
        PROVE  GoodRow(w, r)
    <3>1. PICK s \in DOMAIN new : r = CandleRow(s, new[s])
      BY <2>1
    <3>2. w \in Parsed /\ s \in DOMAIN batch /\ s \in Symbol
      BY <1>4, <1>6, <3>1
    <3>3. CASE resent
      <4>1. r.symbol = s
        BY <3>1 DEF CandleRow
      <4> QED BY <3>2, <3>3, <4>1 DEF GoodRow
    <3>4. CASE ~resent
      BY <1>5, <3>1, <3>2, <3>4
    <3> QED BY <3>3, <3>4
  <2>3. ASSUME NEW r \in rows, NEW t \in rows, SameCandleKey(r, t)
        PROVE  r = t
    <3>1. PICK s \in DOMAIN new : r = CandleRow(s, new[s])
      BY <2>1
    <3>2. PICK u \in DOMAIN new : t = CandleRow(u, new[u])
      BY <2>1
    <3>3. s = u
      BY <2>3, <3>1, <3>2 DEF SameCandleKey, CandleRow
    <3> QED BY <3>1, <3>2, <3>3
  <2>4. fetched \in [Symbol -> Nat]
    BY <1>2
  <2> QED BY <1>1, <1>2, <1>3, <2>2, <2>3, <2>4, RowsSaved
<1>8. /\ History' /\ BatchIsNewest'
      /\ \A s, c : (IsCurrent(s, c)' <=> IsCurrent(s, c)) /\ (Whole(s, c)' <=> Whole(s, c))
  BY <1>1, <1>2, NothingReceived
<1>9. CandlesCurrent'
  <2>1. SUFFICES ASSUME program = "test", ~resent, NEW v \in Parsed \ ToSet(windowsLeft'),
                        WindowSeconds[v] <= MaxPoints
                 PROVE  /\ DOMAIN candles'[v] = DOMAIN batch
                        /\ \A s \in DOMAIN batch : Whole(s, candles'[v][s])
    BY <1>1, <1>8 DEF CandlesCurrent
  <2>2. CASE v = w
    <3>1. candles'[w] = new
      BY <1>1, <1>2, <1>3 DEF Control
    <3> QED BY <1>5, <2>1, <2>2, <3>1
  <2>3. CASE v # w
    <3>1. v \notin ToSet(windowsLeft) /\ candles'[v] = candles[v]
      BY <1>1, <1>3, <2>1, <2>3
    <3> QED BY <1>1, <2>1, <3>1 DEF CandleInv, CandlesCurrent
  <2> QED BY <2>2, <2>3
<1>10. /\ faults' \in 0..MaxFaults /\ faults <= faults' /\ faults \in 0..MaxFaults /\ MaxFaults \in Nat
       /\ failing # {} => faults' > 0
  BY <1>1, <1>2, FiniteFailures, FaultsCount, PipelineAssumption DEF Control
<1>11. Control'
  <2>1. resent => faults' > 0
    BY <1>2, <1>10 DEF Control
  <2>2. DOMAIN candles' = Window
    BY <1>1, <1>2 DEF Control
  <2> QED BY <1>1, <1>2, <1>3, <1>10, <2>1, <2>2 DEF Control
<1>12. UpdateLeavesACandle'
  <2>1. SUFFICES ASSUME faults' = 0, NEW v \in Parsed \ ToSet(windowsLeft')
                 PROVE  \E s \in DOMAIN batch : \E row \in aggregations'[v] :
                          row.symbol = s /\ row.startTime <= fetched[s] /\ fetched[s] < row.endTime
    BY <1>1 DEF UpdateLeavesACandle
  <2>2. faults = 0 /\ failing = {} /\ ~resent
    BY <1>2, <1>10, <2>1 DEF Control
  <2>3. aggregations[v] \subseteq aggregations'[v]
    BY <1>1, <1>2 DEF SaveAggregations, CandleRows
  <2>4. CASE v # w
    <3>1. v \in Parsed \ ToSet(windowsLeft)
      BY <1>3, <2>1, <2>4
    <3>2. PICK s \in DOMAIN batch : \E row \in aggregations[v] :
            row.symbol = s /\ row.startTime <= fetched[s] /\ fetched[s] < row.endTime
      BY <1>1, <2>2, <3>1 DEF CandleInv, UpdateLeavesACandle
    <3> QED BY <2>3, <3>2
  <2>5. CASE v = w
    <3>1. /\ w \in Parsed /\ w \in Window /\ DOMAIN aggregations = Window
          /\ DOMAIN new = DOMAIN batch /\ DOMAIN batch # {}
      BY <1>1, <1>2, <1>3, <1>5, <2>1, <2>2, <2>5 DEF CandleRows, BatchIsNewest
    <3>2. CASE CandleClash(w, rows)
      <4>1. PICK r \in rows : \E t \in aggregations[w] : SameCandleKey(r, t)
        BY <3>2 DEF CandleClash
      <4>2. PICK t \in aggregations[w] : SameCandleKey(r, t)
        BY <4>1
      <4>3. PICK s \in DOMAIN new : r = CandleRow(s, new[s])
        BY <4>1
      <4>4. /\ s \in DOMAIN batch /\ t.symbol = s /\ t.startTime = new[s].startTime
        BY <3>1, <4>2, <4>3 DEF SameCandleKey, CandleRow
      <4>5. GoodRow(w, t)
        BY <1>2, <3>1, <4>2 DEF CandleRows
      <4>6. t.endTime = new[s].endTime /\ IsCurrent(s, new[s])
        BY <1>5, <2>2, <3>1, <4>4, <4>5 DEF GoodRow
      <4> QED BY <2>3, <2>5, <4>2, <4>4, <4>6 DEF IsCurrent
    <3>3. CASE ~CandleClash(w, rows)
      <4>1. rows \subseteq aggregations'[w]
        <5> HIDE DEF rows
        <5> QED BY <1>1, <2>2, <3>1, <3>3 DEF SaveAggregations
      <4>2. PICK s \in DOMAIN batch : TRUE
        BY <3>1
      <4>3. CandleRow(s, new[s]) \in aggregations'[w]
        BY <3>1, <4>1, <4>2
      <4>4. IsCurrent(s, new[s])
        BY <1>5, <2>2, <3>1, <4>2
      <4> DEFINE row == CandleRow(s, new[s])
      <4>5. row.symbol = s /\ row.startTime = new[s].startTime /\ row.endTime = new[s].endTime
        BY DEF CandleRow
      <4> HIDE DEF row
      <4> QED BY <2>5, <4>2, <4>3, <4>4, <4>5 DEF IsCurrent, row
    <3> QED BY <3>2, <3>3
  <2> QED BY <2>4, <2>5
<1>13. ServedCurrent'
  BY <1>1 DEF ServedCurrent
<1> QED BY <1>7, <1>8, <1>9, <1>11, <1>12, <1>13 DEF CandleInv

\* The candles go to the server and into the channel.
LEMMA ServeCandles ==
  ASSUME IInv, CandleInv, Serve
  PROVE  CandleInv'
<1>1. /\ stage = "update" /\ stage' = "broadcast" /\ windowsLeft = <<>>
      /\ UNCHANGED <<program, feed, now, fetched, buffers, windowsLeft, batch, candles, broadcast,
                     faults, resent, aggregations>>
  BY DEF Serve, memory, history, tables
<1>2. /\ feed \in Feeds /\ now \in Nat /\ fetched \in [Symbol -> 0..now]
      /\ Control /\ History /\ BatchIsNewest /\ CandleRows
  BY DEF IInv, Types, CandleInv
<1>3. /\ History' /\ BatchIsNewest' /\ \A s \in Symbol : Newest(s) <= Newest(s)'
      /\ \A s, c : Whole(s, c)' <=> Whole(s, c)
  BY <1>1, <1>2, NothingReceived
<1>4. CandleRows'
  <2>1. fetched \in [Symbol -> Nat] /\ fetched' \in [Symbol -> Nat]
    BY <1>1, <1>2
  <2> QED BY <1>1, <1>2, <1>3, <2>1, RowsStay DEF CandleRows
<1>5. Control'
  BY <1>1, <1>2 DEF Control
<1>6. CandlesCurrent'
  BY <1>1, <1>3 DEF CandleInv, CandlesCurrent
<1>7. ServedCurrent' /\ UpdateLeavesACandle'
  BY <1>1 DEF ServedCurrent, UpdateLeavesACandle
<1> QED BY <1>3, <1>4, <1>5, <1>6, <1>7 DEF CandleInv

\* What the hub will make the state are the candles of the update.
LEMMA BroadcastCandles ==
  ASSUME IInv, CandleInv, NEW failing \in SUBSET (Window \union {"stock_prices"}),
         BroadcastAndClean(failing)
  PROVE  CandleInv'
<1> DEFINE message == [raw |-> SafeStockPriceMap(batch), aggregations |-> candles]
<1>1. /\ stage = "broadcast" /\ stage' = "idle"
      /\ Len(broadcast) < BroadcastCap /\ broadcast' = Append(broadcast, message)
      /\ MayFail(failing) /\ CleanupOldData(now, failing)
      /\ UNCHANGED <<program, feed, now, fetched, buffers, windowsLeft, batch, candles, resent>>
  BY DEF BroadcastAndClean, memory
<1>2. /\ feed \in Feeds /\ now \in Nat /\ fetched \in [Symbol -> 0..now]
      /\ Control /\ History /\ BatchIsNewest /\ CandleRows /\ windowsLeft = <<>>
  BY <1>1 DEF IInv, Types, CandleInv, Control
<1>3. /\ History' /\ BatchIsNewest' /\ \A s \in Symbol : Newest(s) <= Newest(s)'
      /\ \A s, c : Whole(s, c)' <=> Whole(s, c)
  BY <1>1, <1>2, NothingReceived
<1>4. CandleRows'
  <2>1. fetched \in [Symbol -> Nat] /\ fetched' \in [Symbol -> Nat]
    BY <1>1, <1>2
  <2>2. DOMAIN aggregations' = Window /\ \A w \in Window : aggregations'[w] \subseteq aggregations[w]
    BY <1>1 DEF CleanupOldData
  <2> QED BY <1>1, <1>2, <1>3, <2>1, <2>2, RowsStay
<1> HIDE DEF message
<1>5. /\ broadcast' \in Seq(ToSet(broadcast')) /\ Len(broadcast') <= BroadcastCap
      /\ broadcast' # <<>> /\ Last(broadcast') = message
  <2> DEFINE S == ToSet(broadcast) \union {message}
  <2>1. broadcast \in Seq(ToSet(broadcast)) /\ ToSet(broadcast) \subseteq S
    BY <1>2 DEF Control
  <2>2. broadcast \in Seq(S) /\ message \in S
    BY <2>1, SeqMonotonic
  <2> HIDE DEF S
  <2>3. /\ broadcast' \in Seq(S) /\ Len(broadcast') = Len(broadcast) + 1
        /\ broadcast'[Len(broadcast) + 1] = message
    BY <1>1, <2>2, AppendProperties
  <2>4. /\ Len(broadcast) \in Nat /\ Len(broadcast') \in Nat
        /\ DOMAIN broadcast' = 1..Len(broadcast')
        /\ broadcast' \in [1..Len(broadcast') -> ToSet(broadcast')]
    <3>1. Len(broadcast) \in Nat /\ Len(broadcast') \in Nat /\ DOMAIN broadcast' = 1..Len(broadcast')
          /\ broadcast' \in [1..Len(broadcast') -> S]
      BY <2>2, <2>3, LenProperties
    <3> QED BY <3>1 DEF ToSet
  <2>5. broadcast' \in Seq(ToSet(broadcast'))
    BY <2>4, SeqDef
  <2>6. broadcast' # <<>>
    BY <2>3, <2>4, EmptySeq
  <2>7. Len(broadcast') <= BroadcastCap
    BY <1>1, <2>3, <2>4, PipelineAssumption
  <2> QED BY <2>3, <2>5, <2>6, <2>7 DEF Last
<1>6. Control'
  <2>1. faults' \in 0..MaxFaults /\ faults <= faults' /\ faults \in 0..MaxFaults /\ MaxFaults \in Nat
    BY <1>1, <1>2, FiniteFailures, FaultsCount, PipelineAssumption DEF Control
  <2>2. resent => faults' > 0
    BY <1>2, <2>1 DEF Control
  <2> QED BY <1>1, <1>2, <1>5, <2>1, <2>2 DEF Control
<1>7. CandlesCurrent' /\ UpdateLeavesACandle'
  BY <1>1 DEF CandlesCurrent, UpdateLeavesACandle
<1>8. ServedCurrent'
  <2>1. SUFFICES ASSUME program = "test", ~resent, NEW w \in Parsed, WindowSeconds[w] <= MaxPoints
                 PROVE  /\ DOMAIN batch \subseteq DOMAIN Shown'.aggregations[w]
                        /\ \A s \in DOMAIN Shown'.aggregations[w] :
                             s \in Symbol /\ Whole(s, Shown'.aggregations[w][s])
    BY <1>1, <1>3 DEF ServedCurrent
  <2>2. Shown'.aggregations = candles
    BY <1>5 DEF Shown, message
  <2>3. w \in Parsed \ ToSet(windowsLeft)
    BY <1>2, NextWindow
  <2> QED BY <1>1, <1>2, <2>1, <2>2, <2>3 DEF CandleInv, CandlesCurrent, BatchIsNewest
<1> QED BY <1>3, <1>4, <1>5, <1>6, <1>7, <1>8 DEF CandleInv

\* The hub serves next what it will serve last, or comes closer to it.
LEMMA HubCandles ==
  ASSUME IInv, CandleInv, HubReplacesState
  PROVE  CandleInv'
<1>1. /\ broadcast # <<>> /\ latestState' = Head(broadcast) /\ broadcast' = Tail(broadcast)
      /\ UNCHANGED <<program, feed, now, fetched, buffers, stage, windowsLeft, batch, candles,
                     faults, resent, aggregations>>
  BY DEF HubReplacesState, memory, work, history, tables
<1>2. /\ feed \in Feeds /\ now \in Nat /\ fetched \in [Symbol -> 0..now]
      /\ Control /\ History /\ BatchIsNewest /\ CandleRows
  BY DEF IInv, Types, CandleInv
<1>3. /\ History' /\ BatchIsNewest' /\ \A s \in Symbol : Newest(s) <= Newest(s)'
      /\ \A s, c : Whole(s, c)' <=> Whole(s, c)
  BY <1>1, <1>2, NothingReceived
<1>4. CandleRows'
  <2>1. fetched \in [Symbol -> Nat] /\ fetched' \in [Symbol -> Nat]
    BY <1>1, <1>2
  <2> QED BY <1>1, <1>2, <1>3, <2>1, RowsStay DEF CandleRows
<1>5. /\ broadcast' \in Seq(ToSet(broadcast')) /\ Len(broadcast') <= BroadcastCap
      /\ Shown' = Shown
  <2> DEFINE S == ToSet(broadcast)
  <2>1. broadcast \in Seq(S) /\ Len(broadcast) <= BroadcastCap
    BY <1>2 DEF Control
  <2> HIDE DEF S
  <2>2. /\ broadcast' \in Seq(S) /\ Len(broadcast') = Len(broadcast) - 1
        /\ \A i \in 1..Len(broadcast') : broadcast'[i] = broadcast[i + 1]
        /\ Len(broadcast) \in Nat \ {0} /\ Head(broadcast) = broadcast[1]
    BY <1>1, <2>1, HeadTailProperties, EmptySeq
  <2>3. /\ Len(broadcast') \in Nat /\ DOMAIN broadcast' = 1..Len(broadcast')
        /\ broadcast' \in [1..Len(broadcast') -> ToSet(broadcast')]
    <3>1. /\ Len(broadcast') \in Nat /\ DOMAIN broadcast' = 1..Len(broadcast')
          /\ broadcast' \in [1..Len(broadcast') -> S]
      BY <2>2, LenProperties
    <3> QED BY <3>1 DEF ToSet
  <2>4. broadcast' \in Seq(ToSet(broadcast'))
    BY <2>3, SeqDef
  <2>5. Len(broadcast') <= BroadcastCap
    BY <2>1, <2>2, PipelineAssumption
  <2>6. Shown = broadcast[Len(broadcast)]
    BY <1>1 DEF Shown, Last
  <2>7. CASE broadcast' = <<>>
    <3>1. Len(broadcast) = 1
      <4>1. Len(broadcast') = 0
        BY <2>7, EmptySeq
      <4> QED BY <2>2, <4>1
    <3>2. Shown' = latestState'
      BY <2>7 DEF Shown
    <3> QED BY <1>1, <2>2, <2>4, <2>5, <2>6, <3>1, <3>2
  <2>8. CASE broadcast' # <<>>
    <3>1. Len(broadcast') # 0
      BY <2>2, <2>8, EmptySeq
    <3>2. broadcast'[Len(broadcast')] = broadcast[Len(broadcast)]
      BY <2>2, <2>3, <3>1
    <3>3. Shown' = broadcast'[Len(broadcast')]
      BY <2>8 DEF Shown, Last
    <3> QED BY <2>4, <2>5, <2>6, <3>2, <3>3
  <2> QED BY <2>4, <2>5, <2>7, <2>8
<1>6. Control'
  BY <1>1, <1>2, <1>5 DEF Control
<1>7. CandlesCurrent'
  BY <1>1, <1>3 DEF CandleInv, CandlesCurrent
<1>8. ServedCurrent'
  BY <1>1, <1>3, <1>5 DEF CandleInv, ServedCurrent
<1>9. UpdateLeavesACandle'
  BY <1>1 DEF CandleInv, UpdateLeavesACandle
<1> QED BY <1>3, <1>4, <1>5, <1>6, <1>7, <1>8, <1>9 DEF CandleInv

\* Time passes.
LEMMA TickCandles ==
  ASSUME IInv, CandleInv, Tick \/ UNCHANGED vars
  PROVE  CandleInv'
<1>1. /\ now' \in 1..MaxTime
      /\ UNCHANGED <<program, feed, fetched, buffers, stage, windowsLeft, batch, candles, latestState,
                     broadcast, faults, resent, aggregations>>
  <2>1. now \in 1..MaxTime /\ MaxTime \in Nat
    BY PipelineAssumption DEF CandleInv, Control
  <2>2. now' = now \/ (now < MaxTime /\ now' = now + 1)
    BY DEF Tick, vars
  <2>3. now' \in 1..MaxTime
    BY <2>1, <2>2
  <2> QED BY <2>3 DEF Tick, vars, memory, work, server, history, tables
<1>2. /\ feed \in Feeds /\ now \in Nat /\ fetched \in [Symbol -> 0..now]
      /\ Control /\ History /\ BatchIsNewest /\ CandleRows
  BY DEF IInv, Types, CandleInv
<1>3. /\ History' /\ BatchIsNewest' /\ \A s \in Symbol : Newest(s) <= Newest(s)'
      /\ \A s, c : Whole(s, c)' <=> Whole(s, c)
  BY <1>1, <1>2, NothingReceived
<1>4. CandleRows'
  <2>1. fetched \in [Symbol -> Nat] /\ fetched' \in [Symbol -> Nat]
    BY <1>1, <1>2
  <2> QED BY <1>1, <1>2, <1>3, <2>1, RowsStay DEF CandleRows
<1>5. Control'
  BY <1>1, <1>2 DEF Control
<1>6. CandlesCurrent'
  BY <1>1, <1>3 DEF CandleInv, CandlesCurrent
<1>7. ServedCurrent'
  <2>1. Shown' = Shown
    BY <1>1 DEF Shown
  <2> QED BY <1>1, <1>3, <2>1 DEF CandleInv, ServedCurrent
<1>8. UpdateLeavesACandle'
  BY <1>1 DEF CandleInv, UpdateLeavesACandle
<1> QED BY <1>3, <1>4, <1>5, <1>6, <1>7, <1>8 DEF CandleInv

\* Of a feed nothing has come yet at time 0.
LEMMA NothingYet ==
  ASSUME feed \in Feeds, NEW s \in Symbol
  PROVE  /\ Before(feed[s], 0 + 1) = 0 /\ SubSeq(feed[s], 0 + 1, 0) = <<>>
         /\ <<>> \in Seq(ToSet(feed[s])) /\ Len(<<>>) = 0
<1> DEFINE f == feed[s]
           n == Before(f, 0 + 1)
<1>1. /\ Rising(f) /\ Len(f) \in Nat /\ DOMAIN f = 1..Len(f)
      /\ \A i \in DOMAIN f : f[i].timestamp \in Nat \ {0}
  BY FeedFacts
<1>2. 0 + 1 \in Int
  OBVIOUS
<1> HIDE DEF f
<1>3. n \in 0..Len(f) /\ \A i \in 1..Len(f) : i <= n <=> f[i].timestamp < 0 + 1
  BY <1>1, <1>2, BeforeCounts
<1> HIDE DEF n
<1>4. n = 0
  <2>1. ASSUME n # 0 PROVE FALSE
    <3>1. n \in 1..Len(f) /\ n <= n
      BY <1>1, <1>3, <2>1
    <3> QED BY <1>1, <1>3, <3>1
  <2> QED BY <2>1
<1>5. SubSeq(f, 0 + 1, 0) = <<>>
  <2>1. 0 + 1 \in Int /\ 0 \in Int /\ 0 < 0 + 1
    OBVIOUS
  <2> QED BY <2>1, SubSeqEmpty
<1>6. <<>> \in Seq(ToSet(f)) /\ Len(<<>>) = 0
  BY EmptySeq
<1> QED BY <1>4, <1>5, <1>6 DEF n, f

\* A start and a restart have nothing of any candle.
LEMMA EmptyFacts ==
  /\ DOMAIN <<>> = {} /\ <<>> \in Seq(ToSet(<<>>)) /\ Len(<<>>) = 0
  /\ \E k \in 0..Len(WindowsAgg) : WindowsAgg = SubSeq(WindowsAgg, k + 1, Len(WindowsAgg))
  /\ Parsed \ ToSet(WindowsAgg) = {}
<1>1. <<>> \in Seq({}) /\ Len(<<>>) = 0 /\ <<>> \in Seq(ToSet(<<>>))
  BY EmptySeq
<1>2. DOMAIN <<>> = 1..0
  BY <1>1, LenProperties
<1>3. WindowsAgg \in Seq(STRING) /\ Len(WindowsAgg) \in Nat /\ Parsed \subseteq ToSet(WindowsAgg)
  BY WindowAssumption, LenProperties DEF Parsed
<1>4. WindowsAgg = SubSeq(WindowsAgg, 0 + 1, Len(WindowsAgg)) /\ 0 \in 0..Len(WindowsAgg)
  BY <1>3, SubSeqFull
<1> QED BY <1>1, <1>2, <1>3, <1>4

\* The invariant of the candles holds at the start.
LEMMA InitCandles == Init => CandleInv
<1>1. SUFFICES ASSUME Init
               PROVE  CandleInv
  OBVIOUS
<1>2. /\ feed \in Feeds /\ now = 1 /\ fetched = [s \in Symbol |-> 0] /\ buffers = [s \in Symbol |-> <<>>]
      /\ stage = "fetch" /\ windowsLeft = WindowsAgg /\ batch = <<>> /\ candles = NoCandles
      /\ latestState = [raw |-> <<>>, aggregations |-> NoCandles] /\ broadcast = <<>>
      /\ faults = 0 /\ resent = FALSE /\ aggregations = [w \in Window |-> {}]
  BY <1>1 DEF Init, Recreated
<1>3. MaxPoints \in Nat \ {0} /\ BroadcastCap \in Nat \ {0} /\ MaxTime \in Nat \ {0} /\ MaxFaults \in Nat
  BY PipelineAssumption
<1>4. Control
  <2>1. \E k \in 0..Len(WindowsAgg) : windowsLeft = SubSeq(WindowsAgg, k + 1, Len(WindowsAgg))
    BY <1>2, EmptyFacts
  <2>2. DOMAIN candles = Window
    BY <1>2 DEF NoCandles
  <2>3. broadcast \in Seq(ToSet(broadcast)) /\ Len(broadcast) <= BroadcastCap
    BY <1>2, <1>3, EmptyFacts
  <2>4. now \in 1..MaxTime /\ faults \in 0..MaxFaults
    BY <1>2, <1>3
  <2> QED BY <1>2, <2>1, <2>2, <2>3, <2>4 DEF Control
<1>5. History
  <2>1. ASSUME NEW s \in Symbol
        PROVE  Newest(s) = 0 /\ Oldest(s) = 0
    BY <1>2, <1>3, NothingYet DEF Newest, Oldest
  <2> QED BY <1>2, <1>3, <2>1, NothingYet DEF History
<1>6. BatchIsNewest /\ CandleRows /\ CandlesCurrent /\ ServedCurrent /\ UpdateLeavesACandle
  BY <1>2, EmptyFacts
     DEF BatchIsNewest, CandleRows, CandlesCurrent, ServedCurrent, UpdateLeavesACandle, NoCandles
<1> QED BY <1>4, <1>5, <1>6 DEF CandleInv

\* A restart begins with no candles and recreated tables.
LEMMA RestartCandles ==
  ASSUME IInv, CandleInv, Restart
  PROVE  CandleInv'
<1>1. /\ feed' = feed /\ now' = now /\ fetched' = [s \in Symbol |-> 0] /\ buffers' = [s \in Symbol |-> <<>>]
      /\ stage' = "fetch" /\ windowsLeft' = WindowsAgg /\ batch' = <<>> /\ candles' = NoCandles
      /\ latestState' = [raw |-> <<>>, aggregations |-> NoCandles] /\ broadcast' = <<>>
      /\ MayFail({"restart"}) /\ resent' = FALSE /\ aggregations' = [w \in Window |-> {}]
  BY DEF Restart, Recreated
<1>2. MaxPoints \in Nat \ {0} /\ BroadcastCap \in Nat \ {0} /\ feed \in Feeds /\ Control
  BY PipelineAssumption DEF IInv, Types, CandleInv
<1>3. Control'
  <2>1. faults' \in 0..MaxFaults
    BY <1>1, <1>2, FiniteFailures, FaultsCount
  <2>2. \E k \in 0..Len(WindowsAgg) : windowsLeft' = SubSeq(WindowsAgg, k + 1, Len(WindowsAgg))
    BY <1>1, EmptyFacts
  <2>3. DOMAIN candles' = Window
    BY <1>1 DEF NoCandles
  <2>4. broadcast' \in Seq(ToSet(broadcast')) /\ Len(broadcast') <= BroadcastCap
    BY <1>1, <1>2, EmptyFacts
  <2>5. now' \in 1..MaxTime
    BY <1>1, <1>2 DEF Control
  <2> QED BY <1>1, <2>1, <2>2, <2>3, <2>4, <2>5 DEF Control
<1>4. History'
  <2>1. ASSUME NEW s \in Symbol
        PROVE  Newest(s)' = 0 /\ Oldest(s)' = 0
    BY <1>1, <1>2, NothingYet DEF Newest, Oldest
  <2> QED BY <1>1, <1>2, <2>1, NothingYet DEF History
<1>5. BatchIsNewest' /\ CandleRows' /\ CandlesCurrent' /\ ServedCurrent' /\ UpdateLeavesACandle'
  BY <1>1, EmptyFacts
     DEF BatchIsNewest, CandleRows, CandlesCurrent, ServedCurrent, UpdateLeavesACandle, NoCandles
<1> QED BY <1>3, <1>4, <1>5 DEF CandleInv

\* The invariant of the candles is inductive.
LEMMA StepCandles == IInv /\ CandleInv /\ [Next]_vars => CandleInv'
<1>1. SUFFICES ASSUME IInv, CandleInv, [Next]_vars
               PROVE  CandleInv'
  OBVIOUS
<1>2. CASE Tick \/ UNCHANGED vars
  BY <1>1, <1>2, TickCandles
<1>3. CASE \E answered \in SUBSET Symbol : FetchInitialData(answered)
  BY <1>1, <1>3, FetchInitialCandles
<1>4. CASE \E failing \in SUBSET {"stats", "candles"} : InitialWindow(failing)
  BY <1>1, <1>4, InitialWindowCandles
<1>5. CASE \E failing \in SUBSET {"prices"} : FinishInitialLoad(failing)
  BY <1>1, <1>5, FinishInitialCandles
<1>6. CASE \E symbols \in SUBSET Symbol, restarted \in BOOLEAN, failing \in SUBSET {"prices"} :
             Receive(symbols, restarted, failing)
  BY <1>1, <1>6, ReceiveCandles
<1>7. CASE \E failing \in SUBSET {"candles"} : UpdateWindow(failing)
  BY <1>1, <1>7, UpdateWindowCandles
<1>8. CASE Serve
  BY <1>1, <1>8, ServeCandles
<1>9. CASE \E failing \in SUBSET (Window \union {"stock_prices"}) : BroadcastAndClean(failing)
  BY <1>1, <1>9, BroadcastCandles
<1>10. CASE HubReplacesState
  BY <1>1, <1>10, HubCandles
<1>11. CASE Restart
  BY <1>1, <1>11, RestartCandles
<1> QED BY <1>1, <1>2, <1>3, <1>4, <1>5, <1>6, <1>7, <1>8, <1>9, <1>10, <1>11 DEF Next

------------------------------------------------------------------------------
(* What the properties add to the invariant. *)

\* An end of a sequence is a suffix of it.
LEMMA EndIsSuffix ==
  ASSUME NEW S, NEW W \in Seq(S), NEW k \in 0..Len(W)
  PROVE  IsSuffix(SubSeq(W, k + 1, Len(W)), W)
<1> DEFINE n == Len(W)
<1>1. n \in Nat /\ k \in 0..n /\ \A i \in 1..n : W[i] \in S
  BY LenProperties, ElementOfSeq
<1> DEFINE s == SubSeq(W, k + 1, n)
           m == n - k
<1>2. /\ s \in Seq(S) /\ Len(s) = m /\ m \in 0..n
      /\ \A i \in 1..m : s[i] = W[k + i]
  <2> DEFINE l == k + 1
  <2>1. /\ l \in Int /\ n \in Int /\ \A i \in l..n : W[i] \in S
        /\ n - l + 1 = n - k /\ n - k \in 0..n
        /\ (IF l <= n THEN n - l + 1 ELSE 0) = n - k
        /\ \A i \in 1..(n - k) : l + i - 1 = k + i
    BY <1>1
  <2> HIDE DEF n, l
  <2>2. /\ SubSeq(W, l, n) \in Seq(S)
        /\ Len(SubSeq(W, l, n)) = IF l <= n THEN n - l + 1 ELSE 0
        /\ \A i \in 1..(n - l + 1) : SubSeq(W, l, n)[i] = W[l + i - 1]
    BY <2>1, SubSeqProperties
  <2>3. s = SubSeq(W, l, n)
    BY DEF l
  <2> HIDE DEF s
  <2> QED BY <2>1, <2>2, <2>3
<1>3. k \in 0..n
  BY <1>1
<1> HIDE DEF s
<1>4. \A i \in 1..m : Reverse(s)[i] = Reverse(W)[i]
  <2>1. ASSUME NEW i \in 1..m
        PROVE  Reverse(s)[i] = Reverse(W)[i]
    <3>1. (m - i) + 1 \in 1..m /\ k + ((m - i) + 1) = (n - i) + 1 /\ i \in 1..n
      BY <1>1, <1>2, <1>3
    <3> HIDE DEF m, n
    <3>2. Reverse(s)[i] = s[(m - i) + 1]
      BY <1>2 DEF Reverse
    <3>3. Reverse(W)[i] = W[(n - i) + 1]
      BY <3>1 DEF Reverse, n
    <3> QED BY <1>2, <3>1, <3>2, <3>3
  <2> QED BY <2>1
<1>5. /\ Reverse(s) \in Seq(S) /\ Len(Reverse(s)) = m
      /\ Reverse(W) \in Seq(S) /\ Len(Reverse(W)) = n
  <2>1. Reverse(s) \in [1..m -> S] /\ Reverse(W) \in [1..n -> S]
    <3>1. \A i \in 1..m : s[(m - i) + 1] \in S
      <4>1. \A i \in 1..m : (m - i) + 1 \in 1..m
        BY <1>2
      <4> QED BY <1>2, <4>1, ElementOfSeq
    <3>2. \A i \in 1..n : W[(n - i) + 1] \in S
      <4>1. \A i \in 1..n : (n - i) + 1 \in 1..n
        BY <1>1
      <4> QED BY <1>1, <4>1
    <3> QED BY <1>2, <3>1, <3>2 DEF Reverse
  <2> DEFINE p == Reverse(s)
             q == Reverse(W)
  <2> HIDE DEF p, q, m, n
  <2>2. p \in Seq(S) /\ DOMAIN p = 1..m /\ q \in Seq(S) /\ DOMAIN q = 1..n
    <3>1. n \in Nat /\ m \in Nat
      BY <1>1, <1>2
    <3> QED BY <2>1, <3>1, SeqDef DEF p, q
  <2>3. Len(p) = m /\ Len(q) = n
    BY <1>1, <1>2, <2>2, LenProperties
  <2> QED BY <2>2, <2>3 DEF p, q
<1>6. SubSeq(Reverse(s), 1, m) = SubSeq(Reverse(W), 1, m)
  <2> DEFINE p == Reverse(s)
             q == Reverse(W)
  <2> HIDE DEF p, q
  <2>0. m \in Nat /\ m <= n
    BY <1>1, <1>2
  <2>1. /\ SubSeq(p, 1, m) \in Seq(S) /\ Len(SubSeq(p, 1, m)) = m
        /\ \A i \in 1..m : SubSeq(p, 1, m)[i] = p[i]
    <3>1. /\ 1 \in 1..(Len(p) + 1) /\ m \in (1 - 1)..Len(p) /\ m - 1 + 1 = m
          /\ \A i \in 1..m : 1 + i - 1 = i
      BY <1>5, <2>0 DEF p
    <3> QED BY <1>5, <3>1, SubSeqProperties DEF p
  <2>2. /\ SubSeq(q, 1, m) \in Seq(S) /\ Len(SubSeq(q, 1, m)) = m
        /\ \A i \in 1..m : SubSeq(q, 1, m)[i] = q[i]
    <3>1. /\ 1 \in 1..(Len(q) + 1) /\ m \in (1 - 1)..Len(q) /\ m - 1 + 1 = m
          /\ \A i \in 1..m : 1 + i - 1 = i
      BY <1>1, <1>5, <2>0 DEF q
    <3> QED BY <1>5, <3>1, SubSeqProperties DEF q
  <2>3. \A i \in 1..m : p[i] = q[i]
    BY <1>4 DEF p, q
  <2>4. SubSeq(p, 1, m) = SubSeq(q, 1, m)
    BY <2>1, <2>2, <2>3, SeqEqual
  <2> QED BY <2>4 DEF p, q
<1>7. m <= n
  BY <1>1, <1>2
<1>8. IsSuffix(s, W)
  BY <1>5, <1>6, <1>7 DEF IsSuffix, IsPrefix
<1> QED BY <1>8 DEF s

\* What is left of the windows is an end of them.
LEMMA LeftIsSuffix ==
  ASSUME Control
  PROVE  IsSuffix(windowsLeft, WindowsAgg)
<1>1. WindowsAgg \in Seq(STRING)
  BY WindowAssumption
<1>2. PICK k \in 0..Len(WindowsAgg) : windowsLeft = SubSeq(WindowsAgg, k + 1, Len(WindowsAgg))
  BY DEF Control
<1> QED BY <1>1, <1>2, EndIsSuffix

\* A stored candle is of points that were received in its window.
LEMMA RunWasReceived ==
  ASSUME feed \in Feeds, now \in Nat, fetched \in [Symbol -> 0..now], History,
         NEW w \in Parsed, NEW row, row.symbol \in Symbol,
         row.startTime \in Nat, row.endTime = row.startTime + WindowSeconds[w], RunOf(w, row)
  PROVE  LET points == Between(Received(row.symbol), row.startTime, row.endTime) IN
         \E i, j \in DOMAIN points :
           /\ i <= j
           /\ Shape(row) = Shape(ComputeOHLCV(SubSeq(points, i, j)))
           /\ program = "test" /\ WindowSeconds[w] <= MaxPoints => i = 1
<1> DEFINE s == row.symbol
           f == feed[s]
           n == Newest(s)
           x == Before(f, row.startTime)
           z == Before(f, row.endTime)
           y == Within(0, z, n)
           c == Within(0, x, n)
           points == Between(Received(s), row.startTime, row.endTime)
<1>1. Rising(f) /\ Len(f) \in Nat /\ n \in 0..Len(f) /\ Received(s) = SubSeq(f, 0 + 1, n)
  BY NewestFacts
<1>2. row.startTime \in Int /\ row.endTime \in Int /\ row.startTime <= row.endTime
  BY WindowAssumption DEF Parsed
<1>3. PICK a, b \in 1..y :
        /\ x < a /\ a <= b
        /\ Shape(row) = Shape(ComputeOHLCV(SubSeq(f, a, b)))
        /\ program = "test" /\ WindowSeconds[w] <= MaxPoints => a = x + 1
  BY DEF RunOf
<1>4. a \in 1..y /\ b \in 1..y
  BY <1>3
<1>5. x \in 0..Len(f) /\ z \in 0..Len(f)
  <2> HIDE DEF f
  <2> QED BY <1>1, <1>2, BeforeCounts
<1> HIDE DEF f, n, x, z
<1>6. y \in 0..n /\ c = x
  BY <1>1, <1>3, <1>4, <1>5 DEF Within
<1>7. c \in 0..n /\ y \in c..n /\ points = SubSeq(f, c + 1, y)
  <2>1. Between(SubSeq(f, 0 + 1, n), row.startTime, row.endTime) = SubSeq(f, c + 1, y)
        /\ c \in 0..n /\ y \in c..n
    <3>1. 0 \in 0..Len(f) /\ n \in 0..Len(f)
      BY <1>1
    <3> HIDE DEF s, y, c
    <3> QED BY <1>1, <1>2, <3>1, BetweenOfSlice DEF x, z, y, c
  <2> QED BY <1>1, <2>1
<1> HIDE DEF y, c, points
<1> DEFINE i == a - x
           j == b - x
<1>8. /\ x \in 0..Len(f) /\ y \in x..Len(f) /\ i - 1 \in 0..(y - x) /\ j \in (i - 1)..(y - x)
      /\ i \in 1..(y - x) /\ j \in 1..(y - x) /\ i <= j
      /\ (i - 1) + 1 = i /\ (x + (i - 1)) + 1 = a /\ x + j = b
  BY <1>1, <1>3, <1>4, <1>5, <1>6, <1>7
<1>9. SubSeq(points, i, j) = SubSeq(f, a, b)
  <2>1. points = SubSeq(f, x + 1, y)
    BY <1>6, <1>7
  <2> DEFINE h == i - 1
  <2>2. h \in 0..(y - x) /\ j \in h..(y - x)
    BY <1>8
  <2>3. h + 1 = i /\ (x + h) + 1 = a
    BY <1>8
  <2> HIDE DEF h, i, j
  <2>4. SubSeq(SubSeq(f, x + 1, y), h + 1, j) = SubSeq(f, (x + h) + 1, x + j)
    BY <1>1, <1>8, <2>2, SliceOfSlice
  <2> QED BY <1>8, <2>1, <2>3, <2>4
<1>10. DOMAIN points = 1..(y - x)
  <2> HIDE DEF i, j
  <2>1. DOMAIN SubSeq(f, x + 1, y) = 1..(y - x)
    BY <1>1, <1>8, Slices
  <2> QED BY <1>6, <1>7, <2>1
<1>11. i \in DOMAIN points /\ j \in DOMAIN points /\ i <= j
  BY <1>8, <1>10
<1>12. Shape(row) = Shape(ComputeOHLCV(SubSeq(points, i, j)))
  BY <1>3, <1>9
<1>13. program = "test" /\ WindowSeconds[w] <= MaxPoints => i = 1
  BY <1>3, <1>5, <1>8
<1> HIDE DEF i, j
<1>14. \E k, l \in DOMAIN points :
         /\ k <= l
         /\ Shape(row) = Shape(ComputeOHLCV(SubSeq(points, k, l)))
         /\ program = "test" /\ WindowSeconds[w] <= MaxPoints => k = 1
  BY <1>11, <1>12, <1>13
<1> QED BY <1>14 DEF points

------------------------------------------------------------------------------
(* Resampling. *)

\* The greatest multiple up to a number.
LEMMA Rounded ==
  ASSUME NEW a \in Nat, NEW d \in Nat \ {0}
  PROVE  \E m \in Nat : m <= a /\ a < m + d /\ m % d = 0
<1> DEFINE p == a \div d
           m == d * p
<1>1. p \in Nat /\ m <= a /\ a < m + d
  OBVIOUS
<1> HIDE DEF p
<1>2. m \in Nat
  BY <1>1
<1>3. m % d = 0
  <2>1. \A q \in Nat, r \in Nat : r < d => (d * q + r) % d = r
    OBVIOUS
  <2>2. (d * p + 0) % d = 0
    BY <1>1, <2>1
  <2>3. d * p + 0 = m
    BY <1>2
  <2> QED BY <2>2, <2>3
<1> HIDE DEF m
<1> QED BY <1>1, <1>2, <1>3

\* Multiples of a number are that number apart at least, and its next one is a multiple.
LEMMA Multiples ==
  ASSUME NEW d \in Nat \ {0}, NEW a \in Nat, a % d = 0
  PROVE  /\ (a + d) % d = 0
         /\ \A b \in Nat : b % d = 0 /\ a < b => a + d <= b
<1> DEFINE p == a \div d
<1>1. a = d * p /\ p \in Nat
  OBVIOUS
<1> HIDE DEF p
<1>2. (a + d) % d = 0
  <2>1. p + 1 \in Nat /\ 0 \in Nat /\ 0 < d
    BY <1>1
  <2>2. \A q \in Nat, r \in Nat : r < d => (d * q + r) % d = r
    OBVIOUS
  <2>3. (d * (p + 1) + 0) % d = 0
    BY <2>1, <2>2
  <2>4. d * (p + 1) + 0 = a + d
    BY <1>1
  <2> QED BY <2>3, <2>4
<1>3. ASSUME NEW b \in Nat, b % d = 0, a < b
      PROVE  a + d <= b
  <2> DEFINE q == b \div d
  <2>1. b = d * q /\ q \in Nat
    BY <1>3
  <2> HIDE DEF q
  <2>2. \A x \in Nat, y \in Nat : d * x < d * y => d * x + d <= d * y
    OBVIOUS
  <2> QED BY <1>1, <1>3, <2>1, <2>2
<1> QED BY <1>2, <1>3

\* What an upper or a lower bound of a set that is in it says.
LEMMA Bounds ==
  ASSUME NEW S \in SUBSET Int, NEW x \in S
  PROVE  /\ (\A y \in S : y <= x) => Max(S) = x
         /\ (\A y \in S : x <= y) => Min(S) = x
<1>1. ASSUME \A y \in S : y <= x PROVE Max(S) = x
  <2>1. \E z \in S : \A y \in S : z >= y
    BY <1>1
  <2>2. Max(S) \in S /\ \A y \in S : Max(S) >= y
    BY <2>1 DEF Max
  <2>3. Max(S) >= x /\ Max(S) <= x /\ Max(S) \in Int /\ x \in Int
    BY <1>1, <2>2
  <2> QED BY <2>3
<1>2. ASSUME \A y \in S : x <= y PROVE Min(S) = x
  <2>1. \E z \in S : \A y \in S : z <= y
    BY <1>2
  <2>2. Min(S) \in S /\ \A y \in S : Min(S) <= y
    BY <2>1 DEF Min
  <2>3. Min(S) <= x /\ Min(S) >= x /\ Min(S) \in Int /\ x \in Int
    BY <1>2, <2>2
  <2> QED BY <2>3
<1> QED BY <1>1, <1>2

\* A finite set of integers has a least and a greatest one.
LEMMA Extremes ==
  ASSUME NEW S \in SUBSET Int, IsFiniteSet(S), S # {}
  PROVE  /\ Min(S) \in S /\ Max(S) \in S
         /\ \A x \in S : Min(S) <= x /\ x <= Max(S)
<1> DEFINE asc == Ascending(S)
           n == Cardinality(S)
<1>1. /\ n \in Nat /\ \A k \in 1..n : asc[k] \in S
      /\ \A k, l \in 1..n : k < l => asc[k] < asc[l]
      /\ \A t \in S : n # 0 /\ asc[n] >= t
      /\ \A t \in S : \E k \in 1..n : asc[k] = t
  BY AscendingOrder
<1> HIDE DEF asc, n
<1>2. n # 0 /\ 1 \in 1..n /\ n \in 1..n
  <2>1. n # 0
    BY <1>1
  <2> QED BY <1>1, <2>1
<1>3. \A t \in S : asc[1] <= t
  <2>1. ASSUME NEW t \in S
        PROVE  asc[1] <= t
    <3>1. PICK k \in 1..n : asc[k] = t
      BY <1>1
    <3>2. k = 1 \/ 1 < k
      OBVIOUS
    <3>3. asc[1] = t \/ asc[1] < t
      BY <1>1, <1>2, <3>1, <3>2
    <3>4. asc[1] \in Int /\ t \in Int
      BY <1>1, <1>2
    <3> QED BY <3>3, <3>4
  <2> QED BY <2>1
<1>4. Min(S) = asc[1]
  BY <1>1, <1>2, <1>3, Bounds
<1>5. \A t \in S : t <= asc[n]
  BY <1>1
<1>6. Max(S) = asc[n]
  BY <1>1, <1>2, <1>5, Bounds
<1> QED BY <1>1, <1>2, <1>3, <1>4, <1>5, <1>6

\* A sequence of times has finitely many of them.
LEMMA TimesOf ==
  ASSUME NEW times \in Seq(Nat)
  PROVE  /\ Len(times) \in Nat /\ DOMAIN times = 1..Len(times)
         /\ ToSet(times) \in SUBSET Nat /\ IsFiniteSet(ToSet(times))
         /\ \A i \in DOMAIN times : times[i] \in Nat /\ times[i] \in ToSet(times)
         /\ \A I \in SUBSET (DOMAIN times) : IsFiniteSet(I) /\ IsFiniteSet({times[i] : i \in I})
<1> DEFINE L == Len(times)
<1>1. L \in Nat /\ DOMAIN times = 1..L /\ \A i \in 1..L : times[i] \in Nat
  BY LenProperties
<1>2. ToSet(times) = {times[i] : i \in DOMAIN times}
  BY DEF ToSet
<1>3. ASSUME NEW I \in SUBSET (DOMAIN times)
      PROVE  IsFiniteSet(I) /\ IsFiniteSet({times[i] : i \in I})
  <2> DEFINE T == {times[i] : i \in I}
             f == [i \in I |-> times[i]]
  <2>1. IsFiniteSet(I)
    <3>1. IsFiniteSet(1..L)
      BY <1>1, CountTo
    <3> QED BY <1>1, <3>1, FS_Subset
  <2>2. f \in Surjection(I, T)
    BY DEF Surjection
  <2>3. IsFiniteSet(T)
    BY <2>1, <2>2, FS_Surjection
  <2> QED BY <2>1, <2>3
<1>4. IsFiniteSet(ToSet(times))
  <2>1. DOMAIN times \in SUBSET (DOMAIN times)
    OBVIOUS
  <2> QED BY <1>2, <1>3, <2>1
<1> QED BY <1>1, <1>2, <1>3, <1>4

\* Sorting invents no time: each place has one of the sequence.
LEMMA SortedValues ==
  ASSUME NEW times \in Seq(Nat)
  PROVE  /\ DOMAIN Sorted(times) = DOMAIN times
         /\ \A k \in DOMAIN times : Sorted(times)[k] \in ToSet(times)
<1> DEFINE D == DOMAIN times
           L == Len(times)
           Less(t) == {i \in D : times[i] < t}
           UpTo(t) == {i \in D : times[i] <= t}
<1>1. /\ L \in Nat /\ D = 1..L
      /\ ToSet(times) \in SUBSET Nat /\ IsFiniteSet(ToSet(times))
      /\ \A i \in D : times[i] \in Nat /\ times[i] \in ToSet(times)
      /\ \A I \in SUBSET D : IsFiniteSet(I) /\ IsFiniteSet({times[i] : i \in I})
  BY TimesOf
<1>2. ASSUME NEW k \in D
      PROVE  \E t \in ToSet(times) : Cardinality(Less(t)) < k /\ k <= Cardinality(UpTo(t))
  <2> DEFINE T == {t \in ToSet(times) : k <= Cardinality(UpTo(t))}
  <2>1. T # {}
    <3> DEFINE m == Max(ToSet(times))
    <3>1. m \in ToSet(times) /\ \A x \in ToSet(times) : x <= m
      <4>1. ToSet(times) # {}
        BY <1>1
      <4> QED BY <1>1, <4>1, Extremes
    <3> HIDE DEF m
    <3>2. UpTo(m) = 1..L
      BY <1>1, <3>1
    <3>3. Cardinality(1..L) = L
      BY <1>1, CountTo
    <3> QED BY <1>1, <3>1, <3>2, <3>3
  <2>2. T \in SUBSET Nat
    BY <1>1
  <2>3. PICK t \in T : \A u \in T : t <= u
    BY <2>1, <2>2, LeastNumber
  <2>4. t \in ToSet(times) /\ t \in Nat /\ k <= Cardinality(UpTo(t)) /\ \A u \in T : t <= u
    BY <2>2, <2>3
  <2>5. Cardinality(Less(t)) < k
    <3> DEFINE V == {times[i] : i \in Less(t)}
               m == Max(V)
    <3>1. SUFFICES ASSUME ~(Cardinality(Less(t)) < k)
                   PROVE  FALSE
      OBVIOUS
    <3>2. Less(t) \in SUBSET D /\ IsFiniteSet(Less(t)) /\ Cardinality(Less(t)) \in Nat
      <4>1. Less(t) \in SUBSET D
        OBVIOUS
      <4> HIDE DEF Less, D
      <4>2. IsFiniteSet(Less(t))
        BY <1>1, <4>1
      <4> QED BY <4>1, <4>2, FS_CardinalityType
    <3>3. k \in Nat /\ k # 0 /\ k <= Cardinality(Less(t))
      <4> HIDE DEF Less
      <4> QED BY <1>1, <3>1, <3>2
    <3>4. Less(t) # {}
      <4> HIDE DEF Less
      <4>1. Cardinality({}) = 0
        BY FS_EmptySet
      <4>2. Cardinality(Less(t)) # 0
        BY <3>2, <3>3
      <4> QED BY <4>1, <4>2
    <3>5. V \in SUBSET Nat /\ IsFiniteSet(V) /\ V # {}
      <4>1. IsFiniteSet(V)
        <5> HIDE DEF Less, D
        <5> QED BY <1>1, <3>2
      <4> QED BY <1>1, <3>4, <4>1
    <3>6. m \in V /\ \A x \in V : x <= m
      <4> HIDE DEF V
      <4> QED BY <3>5, Extremes
    <3>7. m \in ToSet(times) /\ m < t /\ m \in Nat
      <4> HIDE DEF m
      <4> QED BY <1>1, <2>4, <3>6
    <3> HIDE DEF m
    <3>8. UpTo(m) = Less(t)
      <4>1. \A i \in D : times[i] < t => times[i] <= m
        BY <3>6
      <4>2. \A i \in D : times[i] <= m => times[i] < t
        BY <1>1, <2>4, <3>7
      <4> QED BY <4>1, <4>2
    <3>9. m \in T
      BY <3>3, <3>7, <3>8
    <3>10. t <= m
      BY <2>4, <3>9
    <3> QED BY <2>4, <3>7, <3>10
  <2> QED BY <2>4, <2>5
<1>3. Sorted(times) =
        [k \in D |-> CHOOSE t \in ToSet(times) : Cardinality(Less(t)) < k /\ k <= Cardinality(UpTo(t))]
  BY DEF Sorted
<1> HIDE DEF Less, UpTo
<1> QED BY <1>2, <1>3

\* The window starts are a window apart, and each time is in one of the windows.
LEMMA StartsFollow ==
  ASSUME NEW T \in SUBSET Nat, IsFiniteSet(T), T # {}, NEW seconds \in Nat \ {0}
  PROVE  LET starts == Ascending(WindowStarts(T, seconds))
             n == Len(starts)
         IN  /\ n \in Nat
             /\ \A i \in 1..(n - 1) : starts[i] \in Nat /\ starts[i + 1] = starts[i] + seconds
             /\ \A v \in T : \E i \in 1..(n - 1) : starts[i] <= v /\ v < starts[i] + seconds
<1> DEFINE S == WindowStarts(T, seconds)
           starts == Ascending(S)
           n == Cardinality(S)
           lo == Min(T)
           hi == Max(T)
<1>1. lo \in Nat /\ hi \in Nat /\ \A v \in T : v \in Nat /\ lo <= v /\ v <= hi
  <2>1. T \in SUBSET Int
    OBVIOUS
  <2>2. lo \in T /\ hi \in T /\ \A v \in T : lo <= v /\ v <= hi
    BY <2>1, Extremes
  <2> QED BY <2>2
<1>2. S = {start \in lo..(hi + seconds) : (start - lo) % seconds = 0}
  BY DEF WindowStarts
<1> HIDE DEF lo, hi, S
<1>3. S \in SUBSET Int /\ IsFiniteSet(S)
  <2>1. IsFiniteSet(lo..(hi + seconds))
    <3>1. lo \in Int /\ hi + seconds \in Int
      BY <1>1
    <3> QED BY <3>1, FS_Interval
  <2>2. S \in SUBSET (lo..(hi + seconds))
    BY <1>2
  <2>3. \A x \in lo..(hi + seconds) : x \in Int
    OBVIOUS
  <2> QED BY <2>1, <2>2, <2>3, FS_Subset
<1>4. /\ n \in Nat /\ starts = [k \in 1..n |-> starts[k]]
      /\ \A k \in 1..n : starts[k] \in S
      /\ \A k, l \in 1..n : k < l => starts[k] < starts[l]
      /\ \A t \in S : n # 0 /\ starts[n] >= t
      /\ \A t \in S : \E k \in 1..n : starts[k] = t
  BY <1>3, AscendingOrder
<1> HIDE DEF starts, n
<1>5. Len(starts) = n
  <2>1. starts \in Seq(S) /\ DOMAIN starts = 1..n
    <3>1. starts \in [1..n -> S]
      BY <1>4
    <3> QED BY <1>4, <3>1, SeqDef
  <2> QED BY <1>4, <2>1, LenProperties
<1>6. ASSUME NEW t \in S
      PROVE  /\ t \in Nat /\ lo <= t /\ t <= hi + seconds
             /\ t <= hi => t + seconds \in S
             /\ \A u \in S : t < u => t + seconds <= u
  <2>1. t \in Nat /\ lo <= t /\ t <= hi + seconds /\ (t - lo) % seconds = 0
    BY <1>1, <1>2
  <2> DEFINE a == t - lo
  <2>2. a \in Nat /\ a % seconds = 0
    BY <1>1, <2>1
  <2>3. t + seconds = lo + (a + seconds)
    BY <1>1, <2>1
  <2> HIDE DEF a
  <2>4. /\ (a + seconds) % seconds = 0
        /\ \A b \in Nat : b % seconds = 0 /\ a < b => a + seconds <= b
    BY <2>2, Multiples
  <2>5. ASSUME t <= hi
        PROVE  t + seconds \in S
    <3>1. t + seconds \in lo..(hi + seconds)
      BY <1>1, <2>1, <2>5
    <3>2. (t + seconds) - lo = a + seconds
      BY <1>1, <2>2, <2>3
    <3> QED BY <1>2, <2>4, <3>1, <3>2
  <2>6. ASSUME NEW u \in S, t < u
        PROVE  t + seconds <= u
    <3> DEFINE b == u - lo
    <3>1. u \in Nat /\ lo <= u /\ b % seconds = 0
      BY <1>1, <1>2
    <3>2. b \in Nat /\ a < b /\ u = lo + b
      BY <1>1, <2>1, <2>6, <3>1 DEF a
    <3> HIDE DEF b
    <3>3. a + seconds <= b
      BY <2>4, <3>1, <3>2 DEF b
    <3> QED BY <1>1, <2>2, <2>3, <3>2, <3>3
  <2> QED BY <2>1, <2>5, <2>6
<1>7. ASSUME NEW i \in 1..(n - 1)
      PROVE  starts[i] \in Nat /\ starts[i + 1] = starts[i] + seconds
  <2> DEFINE t == starts[i]
             u == starts[i + 1]
  <2>1. i \in 1..n /\ i + 1 \in 1..n /\ i < i + 1 /\ i \in Nat
    BY <1>4
  <2>2. t \in S /\ u \in S /\ t < u
    BY <1>4, <2>1
  <2> HIDE DEF t, u
  <2>3. t \in Nat /\ u \in Nat /\ t + seconds <= u /\ u <= hi + seconds
    BY <1>6, <2>2
  <2>4. t + seconds \in S
    BY <1>1, <1>6, <2>2, <2>3
  <2>5. PICK k \in 1..n : starts[k] = t + seconds
    BY <1>4, <2>4
  <2>6. k = i + 1
    <3>1. ~(k < i + 1)
      <4>1. ASSUME k < i + 1 PROVE FALSE
        <5>1. k = i \/ k < i
          BY <2>1, <2>5, <4>1
        <5>2. starts[k] = t \/ starts[k] < t
          BY <1>4, <2>1, <2>5, <5>1 DEF t
        <5> QED BY <2>3, <2>5, <5>2
      <4> QED BY <4>1
    <3>2. ~(i + 1 < k)
      <4>1. ASSUME i + 1 < k PROVE FALSE
        <5>1. u < starts[k]
          BY <1>4, <2>1, <2>5, <4>1 DEF u
        <5> QED BY <2>3, <2>5, <5>1
      <4> QED BY <4>1
    <3>3. k \in Int /\ i + 1 \in Int
      BY <2>1, <2>5
    <3> QED BY <3>1, <3>2, <3>3
  <2> QED BY <2>3, <2>5, <2>6 DEF t
<1>8. ASSUME NEW v \in T
      PROVE  \E i \in 1..(n - 1) : starts[i] <= v /\ v < starts[i] + seconds
  <2> DEFINE a == v - lo
  <2>1. a \in Nat /\ v = lo + a /\ v <= hi /\ v \in Nat
    BY <1>1
  <2> HIDE DEF a
  <2>2. PICK m \in Nat : m <= a /\ a < m + seconds /\ m % seconds = 0
    BY <2>1, Rounded
  <2> DEFINE t == lo + m
  <2>3. t \in Nat /\ t <= v /\ v < t + seconds /\ t \in S
    <3>1. t \in lo..(hi + seconds) /\ t - lo = m /\ t \in Nat /\ t <= v /\ v < t + seconds
      BY <1>1, <2>1, <2>2
    <3> QED BY <1>2, <2>2, <3>1
  <2> HIDE DEF t
  <2>4. t + seconds \in S
    BY <1>1, <1>6, <2>1, <2>3
  <2>5. PICK i \in 1..n : starts[i] = t
    BY <1>4, <2>3
  <2>6. i # n
    <3>1. starts[n] >= t + seconds
      BY <1>4, <2>4
    <3> QED BY <2>3, <2>5, <3>1
  <2>7. i \in 1..(n - 1)
    BY <1>4, <2>5, <2>6
  <2> QED BY <2>3, <2>5, <2>7
<1> QED BY <1>4, <1>5, <1>7, <1>8 DEF starts, S

\* Each time is in the groups of the windows that hold it, and in one at least.
IsPartition(times, seconds) ==
  LET sorted == Sorted(times)
      groups == ResampleIndices(times, seconds)
  IN  \A k \in DOMAIN sorted :
        {g \in groups : k \in g.indices} =
        {g \in groups : g.startTime <= sorted[k] /\ sorted[k] < g.startTime + seconds}
        /\ \E g \in groups : k \in g.indices

\* Resampling partitions the times.
LEMMA GroupsPartition ==
  ASSUME NEW times \in Seq(Nat), times # <<>>, NEW seconds \in Nat \ {0}
  PROVE  IsPartition(times, seconds)
<1> DEFINE sorted == Sorted(times)
           starts == Ascending(WindowStarts(ToSet(times), seconds))
           n == Len(starts)
           groups == ResampleIndices(times, seconds)
           group(i) == {k \in DOMAIN sorted : sorted[k] >= starts[i] /\ sorted[k] < starts[i + 1]}
<1>1. \A k \in DOMAIN sorted : sorted[k] \in ToSet(times)
  BY SortedValues
<1>2. ToSet(times) \in SUBSET Nat /\ IsFiniteSet(ToSet(times)) /\ ToSet(times) # {}
  <2>1. Len(times) # 0
    BY EmptySeq
  <2>2. 1 \in DOMAIN times
    BY <2>1, TimesOf
  <2> QED BY <2>2, TimesOf
<1>3. /\ n \in Nat
      /\ \A i \in 1..(n - 1) : starts[i] \in Nat /\ starts[i + 1] = starts[i] + seconds
      /\ \A v \in ToSet(times) : \E i \in 1..(n - 1) : starts[i] <= v /\ v < starts[i] + seconds
  BY <1>2, StartsFollow
<1>4. groups = {[indices |-> group(i), startTime |-> starts[i], endTime |-> starts[i + 1]] :
                  i \in {j \in 1..(n - 1) : group(j) # {}}}
  BY DEF ResampleIndices
<1> HIDE DEF sorted, starts, groups, n
<1>5. ASSUME NEW k \in DOMAIN sorted, NEW i \in 1..(n - 1)
      PROVE  k \in group(i) <=> starts[i] <= sorted[k] /\ sorted[k] < starts[i] + seconds
  <2>1. sorted[k] \in Nat /\ starts[i] \in Nat /\ starts[i + 1] = starts[i] + seconds
    BY <1>1, <1>2, <1>3
  <2> QED BY <2>1
<1> HIDE DEF group
<1>6. ASSUME NEW k \in DOMAIN sorted
      PROVE  /\ \A g \in groups :
                  k \in g.indices <=> g.startTime <= sorted[k] /\ sorted[k] < g.startTime + seconds
             /\ \E g \in groups : k \in g.indices
  <2>1. ASSUME NEW g \in groups
        PROVE  k \in g.indices <=> g.startTime <= sorted[k] /\ sorted[k] < g.startTime + seconds
    <3>1. PICK i \in 1..(n - 1) : g.indices = group(i) /\ g.startTime = starts[i]
      BY <1>4
    <3> QED BY <1>5, <3>1
  <2>2. PICK i \in 1..(n - 1) : starts[i] <= sorted[k] /\ sorted[k] < starts[i] + seconds
    BY <1>1, <1>3
  <2>3. k \in group(i)
    BY <1>5, <2>2
  <2> DEFINE g == [indices |-> group(i), startTime |-> starts[i], endTime |-> starts[i + 1]]
  <2>4. g \in groups /\ k \in g.indices
    BY <1>4, <2>3
  <2> QED BY <2>1, <2>4
<1> QED BY <1>6 DEF IsPartition, sorted, groups

------------------------------------------------------------------------------
(* The analyses of one history. *)

\* Sorting brings the points of a history into the order of time.
LEMMA SortedInOrder ==
  ASSUME NEW S, NEW f \in Seq(S), \A i \in DOMAIN f : f[i].timestamp \in Nat
  PROVE  LET g == SortByTimestamp(f)
         IN  InOrder(g) /\ Len(g) = Len(f) /\ \A k \in DOMAIN g : g[k] \in S
<1> DEFINE n == Len(f)
           V == 1..n
           Preceding(j) == {i \in V : Earlier(f, i, j)}
           place == [j \in V |-> Cardinality(Preceding(j)) + 1]
           at(k) == CHOOSE j \in V : place[j] = k
           g == [k \in V |-> f[at(k)]]
<1>1. /\ n \in Nat /\ DOMAIN f = V /\ IsFiniteSet(V) /\ Cardinality(V) = n
      /\ \A i \in V : f[i] \in S /\ f[i].timestamp \in Nat
  <2>1. n \in Nat /\ DOMAIN f = V /\ \A i \in V : f[i] \in S
    BY LenProperties
  <2> QED BY <2>1, CountTo
<1>2. SortByTimestamp(f) = SubSeq(g, 1, n)
  BY <1>1 DEF SortByTimestamp, InOrderOfTime
<1>3. \A i, j \in V :
        /\ i \in Int /\ f[i].timestamp \in Int
        /\ ~Earlier(f, i, i)
        /\ i = j \/ Earlier(f, i, j) \/ Earlier(f, j, i)
        /\ Earlier(f, i, j) => f[i].timestamp <= f[j].timestamp
  BY <1>1 DEF Earlier
<1>4. \A i, j, k \in V : Earlier(f, k, i) /\ Earlier(f, i, j) => Earlier(f, k, j)
  BY <1>1 DEF Earlier
<1> HIDE DEF V
<1>5. \A j \in V : IsFiniteSet(Preceding(j)) /\ Cardinality(Preceding(j)) \in Nat
  <2>1. ASSUME NEW j \in V
        PROVE  IsFiniteSet(Preceding(j)) /\ Cardinality(Preceding(j)) \in Nat
    <3>1. Preceding(j) \in SUBSET V
      OBVIOUS
    <3> HIDE DEF Preceding
    <3> QED BY <1>1, <3>1, FS_Subset, FS_CardinalityType
  <2> QED BY <2>1
<1>6. ASSUME NEW i \in V, NEW j \in V, Earlier(f, i, j)
      PROVE  place[i] < place[j]
  <2>1. Preceding(i) \union {i} \subseteq Preceding(j) /\ i \notin Preceding(i)
    BY <1>3, <1>4, <1>6
  <2> HIDE DEF Preceding
  <2>2. /\ IsFiniteSet(Preceding(i) \union {i})
        /\ Cardinality(Preceding(i) \union {i}) = Cardinality(Preceding(i)) + 1
    BY <1>5, <2>1, FS_AddElement
  <2>3. Cardinality(Preceding(i) \union {i}) <= Cardinality(Preceding(j))
    BY <1>5, <2>1, FS_Subset
  <2> QED BY <1>5, <2>2, <2>3
<1>7. place \in [V -> 1..n]
  <2>1. ASSUME NEW j \in V
        PROVE  Cardinality(Preceding(j)) + 1 \in 1..n
    <3>1. Preceding(j) \union {j} \subseteq V /\ j \notin Preceding(j)
      BY <1>3
    <3> HIDE DEF Preceding
    <3>2. Cardinality(Preceding(j) \union {j}) = Cardinality(Preceding(j)) + 1
      BY <1>5, <3>1, FS_AddElement
    <3>3. Cardinality(Preceding(j) \union {j}) <= n
      BY <1>1, <3>1, FS_Subset
    <3> QED BY <1>1, <1>5, <3>2, <3>3
  <2> HIDE DEF Preceding
  <2> QED BY <2>1
<1> HIDE DEF place, Preceding
<1>8. \A k \in 1..n : at(k) \in V /\ place[at(k)] = k
  <2>1. \A i, j \in V : place[i] = place[j] => i = j
    <3>1. SUFFICES ASSUME NEW i \in V, NEW j \in V, place[i] = place[j]
                   PROVE  i = j
      OBVIOUS
    <3>2. place[i] \in Int /\ place[j] \in Int
      <4>1. place[i] \in 1..n /\ place[j] \in 1..n
        BY <1>7, <3>1
      <4> QED BY <4>1
    <3>3. ~Earlier(f, i, j) /\ ~Earlier(f, j, i)
      BY <1>6, <3>1, <3>2
    <3> QED BY <1>3, <3>3
  <2>2. place \in Injection(V, 1..n)
    BY <1>7, <2>1 DEF Injection, IsInjective
  <2>3. IsFiniteSet(1..n) /\ Cardinality(1..n) = n
    BY <1>1, CountTo
  <2>4. place \in Surjection(V, 1..n)
    BY <1>1, <2>2, <2>3, FS_Injection
  <2>5. \A k \in 1..n : \E j \in V : place[j] = k
    BY <2>4 DEF Surjection
  <2> QED BY <2>5
<1>9. ASSUME NEW k \in 1..n
      PROVE  at(k) \in V /\ g[k] = f[at(k)] /\ g[k] \in S /\ g[k].timestamp \in Nat
  <2>1. at(k) \in V /\ k \in V
    BY <1>8 DEF V
  <2> HIDE DEF at
  <2> QED BY <1>1, <2>1
<1>10. ASSUME NEW k \in 1..n, NEW l \in 1..n, k < l
       PROVE  g[k].timestamp <= g[l].timestamp
  <2> DEFINE i == at(k)
             j == at(l)
  <2>1. i \in V /\ j \in V /\ place[i] = k /\ place[j] = l
    BY <1>8
  <2>2. g[k] = f[i] /\ g[l] = f[j]
    BY <1>9
  <2> HIDE DEF i, j, g
  <2>3. ~Earlier(f, j, i)
    <3>1. ~(l < k)
      BY <1>1, <1>10
    <3> QED BY <1>6, <2>1, <3>1
  <2>4. i # j
    BY <1>1, <1>10, <2>1
  <2> QED BY <1>3, <2>1, <2>2, <2>3, <2>4
<1>11. g \in [1..n -> S]
  BY <1>9 DEF V
<1>12. g \in [1..n -> ToSet(g)]
  <2>1. \A k \in 1..n : g[k] \in ToSet(g)
    BY <1>11 DEF ToSet
  <2> HIDE DEF g
  <2> QED BY <1>11, <2>1
<1> HIDE DEF at, g
<1>13. SubSeq(g, 1, n) = g
  BY <1>1, <1>11, WholeSubSeq
<1>14. g \in Seq(ToSet(g)) /\ DOMAIN g = 1..n /\ Len(g) = n
  <2>1. g \in Seq(ToSet(g)) /\ DOMAIN g = 1..n
    BY <1>1, <1>12, SeqDef
  <2>2. Len(g) \in Nat /\ DOMAIN g = 1..Len(g)
    BY <2>1, LenProperties
  <2> QED BY <1>1, <2>1, <2>2
<1>15. InOrder(g)
  BY <1>9, <1>10, <1>14 DEF InOrder
<1> QED BY <1>2, <1>9, <1>13, <1>14, <1>15

\* A window with a point has points.
LEMMA BetweenHas ==
  ASSUME NEW f, InOrder(f), NEW i \in DOMAIN f, NEW from \in Int, NEW to \in Int,
         from <= f[i].timestamp, f[i].timestamp < to
  PROVE  Between(f, from, to) # <<>>
<1> DEFINE x == Before(f, from)
           y == Before(f, to)
           g == SubSeq(f, x + 1, y)
<1>1. /\ Len(f) \in Nat /\ DOMAIN f = 1..Len(f)
      /\ x \in 0..Len(f)
      /\ \A j \in 1..Len(f) : j <= x <=> f[j].timestamp < from
  BY CountedBefore
<1>2. /\ y \in 0..Len(f)
      /\ \A j \in 1..Len(f) : j <= y <=> f[j].timestamp < to
  BY CountedBefore
<1>3. f[i].timestamp \in Nat /\ f \in Seq(ToSet(f)) /\ \A j \in 1..Len(f) : f[j] \in ToSet(f)
  BY <1>1 DEF InOrder, ToSet
<1> HIDE DEF x, y
<1>4. ~(i <= x) /\ i <= y
  BY <1>1, <1>2, <1>3
<1>5. x + 1 \in Int /\ y \in Int /\ x + 1 <= y /\ y - (x + 1) + 1 # 0 /\ \A j \in (x + 1)..y : j \in 1..Len(f)
  BY <1>1, <1>2, <1>4
<1>6. Len(g) = y - (x + 1) + 1
  <2> DEFINE m == x + 1
             S == ToSet(f)
  <2>1. m \in Int /\ y \in Int /\ m <= y /\ \A j \in m..y : f[j] \in S
    BY <1>3, <1>5
  <2> HIDE DEF m, S
  <2>2. Len(SubSeq(f, m, y)) = IF m <= y THEN y - m + 1 ELSE 0
    BY <2>1, SubSeqProperties
  <2> QED BY <2>1, <2>2 DEF m
<1>7. Len(<<>>) = 0
  BY EmptySeq
<1>8. g # <<>>
  BY <1>5, <1>6, <1>7
<1> QED BY <1>8 DEF Between, x, y

\* The starts of the windows with a point, in order.
StartsOf(f, seconds) == Ascending({WindowStart(p.timestamp, seconds) : p \in ToSet(f)})

\* Each of them is of a window with points, and the last is that of the newest point.
LEMMA StartsHavePoints ==
  ASSUME NEW f, InOrder(f), f # <<>>, NEW seconds \in Nat \ {0}
  PROVE  LET starts == StartsOf(f, seconds)
             n == Len(starts)
         IN  /\ n \in Nat \ {0} /\ starts = [k \in 1..n |-> starts[k]]
             /\ starts[n] = WindowStart(Last(f).timestamp, seconds)
             /\ \A k, l \in 1..n : k < l => starts[k] < starts[l]
             /\ \A i \in DOMAIN f : \E k \in 1..n : starts[k] = WindowStart(f[i].timestamp, seconds)
             /\ \A k \in 1..n : /\ starts[k] \in Nat
                                /\ \E i \in DOMAIN f : starts[k] = WindowStart(f[i].timestamp, seconds)
                                /\ Between(f, starts[k], starts[k] + seconds) # <<>>
<1> DEFINE S == {WindowStart(p.timestamp, seconds) : p \in ToSet(f)}
           n == Cardinality(S)
           starts == StartsOf(f, seconds)
<1>1. S = {WindowStart(f[i].timestamp, seconds) : i \in DOMAIN f}
  BY DEF ToSet
<1>2. /\ Len(f) \in DOMAIN f /\ Last(f) = f[Len(f)]
      /\ \A i \in DOMAIN f : f[i].timestamp \in Nat /\ f[i].timestamp <= Last(f).timestamp
  BY LastIsNewest
<1>3. ASSUME NEW i \in DOMAIN f
      PROVE  /\ WindowStart(f[i].timestamp, seconds) \in Nat
             /\ WindowStart(f[i].timestamp, seconds) <= WindowStart(Last(f).timestamp, seconds)
  BY <1>2, WindowHolds, WindowsAscend
<1>4. S \in SUBSET Nat /\ IsFiniteSet(S)
  <2>1. S \in SUBSET Nat
    BY <1>1, <1>3
  <2>2. WindowStart(Last(f).timestamp, seconds) \in Nat
    BY <1>2, <1>3
  <2>3. \A t \in S : t <= WindowStart(Last(f).timestamp, seconds)
    BY <1>1, <1>3
  <2> HIDE DEF S
  <2> QED BY <2>1, <2>2, <2>3, FS_BoundedSetOfNaturals
<1>5. /\ n \in Nat /\ starts = [k \in 1..n |-> starts[k]]
      /\ \A k \in 1..n : starts[k] \in S
      /\ \A k, l \in 1..n : k < l => starts[k] < starts[l]
      /\ \A t \in S : n # 0 /\ starts[n] >= t
      /\ \A t \in S : \E k \in 1..n : starts[k] = t
  <2>1. S \in SUBSET Int /\ starts = Ascending(S)
    BY <1>4 DEF StartsOf
  <2> HIDE DEF S, starts
  <2> QED BY <1>4, <2>1, AscendingOrder
<1> HIDE DEF starts, n
<1>6. WindowStart(Last(f).timestamp, seconds) \in S
  BY <1>1, <1>2
<1>7. n \in Nat \ {0} /\ n \in 1..n
  BY <1>5, <1>6
<1>8. starts[n] = WindowStart(Last(f).timestamp, seconds)
  <2>1. PICK i \in DOMAIN f : starts[n] = WindowStart(f[i].timestamp, seconds)
    BY <1>1, <1>5, <1>7
  <2>2. starts[n] >= WindowStart(Last(f).timestamp, seconds)
    BY <1>5, <1>6
  <2>3. WindowStart(Last(f).timestamp, seconds) \in Nat
    BY <1>2, <1>3
  <2> QED BY <1>3, <2>1, <2>2, <2>3
<1>9. Len(starts) = n
  <2> DEFINE T == {starts[k] : k \in 1..n}
  <2>1. starts \in [1..n -> T]
    BY <1>5
  <2> HIDE DEF T
  <2>2. starts \in Seq(T) /\ DOMAIN starts = 1..n
    BY <1>7, <2>1, SeqDef
  <2>3. Len(starts) \in Nat /\ DOMAIN starts = 1..Len(starts)
    BY <2>2, LenProperties
  <2> QED BY <1>7, <2>2, <2>3
<1>10. ASSUME NEW k \in 1..n
       PROVE  /\ starts[k] \in Nat
              /\ \E i \in DOMAIN f : starts[k] = WindowStart(f[i].timestamp, seconds)
              /\ Between(f, starts[k], starts[k] + seconds) # <<>>
  <2>1. PICK i \in DOMAIN f : starts[k] = WindowStart(f[i].timestamp, seconds)
    BY <1>1, <1>5
  <2>2. starts[k] \in Nat /\ starts[k] <= f[i].timestamp /\ f[i].timestamp < starts[k] + seconds
    BY <1>2, <2>1, WindowHolds
  <2>3. Between(f, starts[k], starts[k] + seconds) # <<>>
    <3>1. starts[k] \in Int /\ starts[k] + seconds \in Int
      BY <2>2
    <3> QED BY <2>2, <3>1, BetweenHas
  <2> QED BY <2>1, <2>2, <2>3
<1>11. \A i \in DOMAIN f : \E k \in 1..n : starts[k] = WindowStart(f[i].timestamp, seconds)
  BY <1>1, <1>5
<1> QED BY <1>5, <1>7, <1>8, <1>9, <1>10, <1>11 DEF starts

\* A candle with its changes replaced is the candle with those changes.
WithChanges(c, change, volumeChange) ==
  [c EXCEPT !.priceChange = change, !.volumeChange = volumeChange]

LEMMA ChangesReplaced ==
  ASSUME NEW points, NEW start, NEW seconds, NEW average, NEW x, NEW y, NEW z, NEW v
  PROVE  WithChanges(Candle(points, start, seconds, average, x, y), z, v) =
         Candle(points, start, seconds, average, z, v)
<1> DEFINE c == Candle(points, start, seconds, average, x, y)
           d == Candle(points, start, seconds, average, z, v)
           fields == {"open", "high", "low", "close", "volume", "avgPrice", "priceChange", "volumeChange",
                      "correlation", "anomaly", "startTime", "endTime", "dataPoints"}
<1>1. /\ c = [k \in fields |-> c[k]] /\ d = [k \in fields |-> d[k]]
      /\ d.priceChange = z /\ d.volumeChange = v
      /\ \A k \in fields \ {"priceChange", "volumeChange"} : c[k] = d[k]
  BY DEF Candle
<1>2. "priceChange" \in fields /\ "volumeChange" \in fields
  OBVIOUS
<1> HIDE DEF c, d, fields
<1>3. WithChanges(c, z, v) = d
  BY <1>1, <1>2 DEF WithChanges
<1> QED BY <1>3 DEF c, d

LEMMA CandleFields ==
  ASSUME NEW points, NEW start, NEW seconds, NEW average, NEW x, NEW y
  PROVE  LET c == Candle(points, start, seconds, average, x, y)
         IN  /\ c.startTime = start /\ c.endTime = start + seconds
             /\ c.priceChange = x /\ c.volumeChange = y
             /\ points # <<>> =>
                  /\ c.volume = TotalVolume(points)
                  /\ c.open = Head(points).price /\ c.close = Last(points).price
BY DEF Candle, ComputeOHLCV

\* What AnalysesAgree says of one history.
Adjacent(cs) == Len(cs) > 1 /\ cs[Len(cs) - 1].endTime = Last(cs).startTime

LatestChanges(real, all) ==
  IF Adjacent(all) THEN ChangedSince(real, all[Len(all) - 1])
  ELSE /\ real.priceChange = CalculateChangePercent(real.close, real.open)
       /\ real.volumeChange = Zero

Agree(real, all, counted) ==
  LET Volume(cs) == Total([i \in DOMAIN cs |-> cs[i].volume])
  IN  /\ [real EXCEPT !.priceChange = Last(all).priceChange,
                      !.volumeChange = Last(all).volumeChange] = Last(all)
      /\ LatestChanges(real, all)
      /\ all[1].priceChange = Zero /\ all[1].volumeChange = Zero
      /\ \A i \in 2..Len(all) : ChangedSince(all[i], all[i - 1])
      /\ counted.dataPoints = Len(all)
      /\ counted.mean = <<Volume(all), Len(all)>>

\* The historical candles, written out.
AreHistorical(all, f, starts, seconds, average) ==
  LET n == Len(starts)
      window(k) == Between(f, starts[k], starts[k] + seconds)
  IN  /\ Len(all) = n /\ DOMAIN all = 1..n /\ Last(all) = all[n]
      /\ \A k \in 1..n :
           all[k] = IF k = 1
                    THEN Candle(window(k), starts[k], seconds, average, Zero, Zero)
                    ELSE Candle(window(k), starts[k], seconds, average,
                           CalculateChangePercent(Last(window(k)).price, Last(window(k - 1)).price),
                           CalculateChangePercent(TotalVolume(window(k)), TotalVolume(window(k - 1))))

LEMMA AllCandlesAre ==
  ASSUME NEW S, NEW h \in Seq(S), h # <<>>, \A i \in DOMAIN h : h[i].timestamp \in Nat,
         NEW seconds \in Nat \ {0}, NEW average
  PROVE  AreHistorical(AllCandles(h, seconds, average), SortByTimestamp(h),
                       StartsOf(SortByTimestamp(h), seconds), seconds, average)
<1> DEFINE f == SortByTimestamp(h)
           starts == StartsOf(f, seconds)
           n == Len(starts)
           all == AllCandles(h, seconds, average)
           window(k) == Between(f, starts[k], starts[k] + seconds)
           candle(k) == IF k = 1
                        THEN Candle(window(k), starts[k], seconds, average, Zero, Zero)
                        ELSE Candle(window(k), starts[k], seconds, average,
                               CalculateChangePercent(Last(window(k)).price, Last(window(k - 1)).price),
                               CalculateChangePercent(TotalVolume(window(k)), TotalVolume(window(k - 1))))
<1>1. InOrder(f) /\ f # <<>>
  <2>1. InOrder(f) /\ Len(f) = Len(h)
    BY SortedInOrder
  <2>2. Len(h) # 0 /\ Len(<<>>) = 0
    BY EmptySeq
  <2> QED BY <2>1, <2>2
<1>2. n \in Nat \ {0} /\ starts = [k \in 1..n |-> starts[k]]
  <2> HIDE DEF f
  <2> QED BY <1>1, StartsHavePoints
<1>3. all = [k \in DOMAIN starts |-> candle(k)]
  BY DEF AllCandles, StartsOf
<1> HIDE DEF candle, all, n, starts
<1>4. DOMAIN starts = 1..n
  BY <1>2
<1>5. all = [k \in 1..n |-> candle(k)]
  BY <1>3, <1>4
<1>6. Len(all) = n /\ DOMAIN all = 1..n
  <2> DEFINE T == {candle(k) : k \in 1..n}
  <2>1. all \in [1..n -> T]
    BY <1>5
  <2>2. all \in Seq(T) /\ DOMAIN all = 1..n
    BY <1>2, <2>1, SeqDef
  <2> HIDE DEF T
  <2>3. Len(all) \in Nat /\ DOMAIN all = 1..Len(all)
    BY <2>2, LenProperties
  <2> QED BY <1>2, <2>2, <2>3
<1>7. \A k \in 1..n : all[k] = candle(k)
  BY <1>5
<1>8. Last(all) = all[n]
  BY <1>6 DEF Last
<1> QED BY <1>6, <1>7, <1>8 DEF AreHistorical, candle, n, starts, all

\* A sequence written out has the length it is written to.
LEMMA WrittenOut ==
  ASSUME NEW n \in Nat, NEW g, g = [k \in 1..n |-> g[k]]
  PROVE  Len(g) = n /\ DOMAIN g = 1..n
<1> DEFINE T == {g[k] : k \in 1..n}
<1>1. g \in [1..n -> T]
  OBVIOUS
<1> HIDE DEF T
<1>2. g \in Seq(T) /\ DOMAIN g = 1..n
  BY <1>1, SeqDef
<1>3. Len(g) \in Nat /\ DOMAIN g = 1..Len(g)
  BY <1>2, LenProperties
<1> QED BY <1>2, <1>3

\* A window start is a multiple of the window.
LEMMA StartIsMultiple ==
  ASSUME NEW t \in Nat, NEW d \in Nat \ {0}
  PROVE  WindowStart(t, d) % d = 0
<1> DEFINE p == t \div d
           r == t % d
           q == d * p
<1>1. p \in Nat /\ r \in Nat /\ t = q + r /\ q \in Nat
  OBVIOUS
<1>2. q % d = 0
  <2>1. \A x \in Nat, y \in Nat : y < d => (d * x + y) % d = y
    OBVIOUS
  <2> HIDE DEF p
  <2>2. (d * p + 0) % d = 0 /\ d * p + 0 = q
    BY <1>1, <2>1
  <2> QED BY <2>2
<1>3. WindowStart(t, d) = t - r
  BY DEF WindowStart
<1> HIDE DEF q, r
<1>4. t - r = q
  BY <1>1
<1> QED BY <1>2, <1>3, <1>4

\* As many points are before the end of a time without points as before its start.
LEMMA NoneBetween ==
  ASSUME NEW f, InOrder(f), NEW x \in Int, NEW y \in Int, x <= y,
         \A i \in DOMAIN f : ~(x <= f[i].timestamp /\ f[i].timestamp < y)
  PROVE  Before(f, x) = Before(f, y)
<1>1. \A i \in DOMAIN f : f[i].timestamp < x <=> f[i].timestamp < y
  <2>1. ASSUME NEW i \in DOMAIN f
        PROVE  f[i].timestamp < x <=> f[i].timestamp < y
    <3>1. f[i].timestamp \in Int /\ ~(x <= f[i].timestamp /\ f[i].timestamp < y)
      BY DEF InOrder
    <3> QED BY <3>1
  <2> QED BY <2>1
<1> QED BY <1>1 DEF Before

\* Points of a window are points of the history in it.
LEMMA BetweenIsOf ==
  ASSUME NEW f, InOrder(f), NEW x \in Int, NEW y \in Int, x <= y, Between(f, x, y) # <<>>
  PROVE  \E i \in DOMAIN f : x <= f[i].timestamp /\ f[i].timestamp < y
<1>1. SUFFICES ASSUME \A i \in DOMAIN f : ~(x <= f[i].timestamp /\ f[i].timestamp < y)
               PROVE  FALSE
  OBVIOUS
<1> DEFINE n == Before(f, x)
           S == ToSet(f)
           m == n + 1
<1>2. Before(f, y) = n
  BY <1>1, NoneBetween
<1>3. n \in Nat
  <2>1. n \in 0..Len(f) /\ Len(f) \in Nat
    BY CountedBefore
  <2> HIDE DEF n
  <2> QED BY <2>1
<1> HIDE DEF n
<1>4. m \in Int /\ n \in Int /\ ~(m <= n) /\ m - 1 = n
  BY <1>3
<1> HIDE DEF m, S
<1>5. \A i \in m..n : f[i] \in S
  BY <1>4
<1>6. SubSeq(f, m, n) \in Seq(S) /\ Len(SubSeq(f, m, n)) = 0
  BY <1>4, <1>5, SubSeqProperties
<1>7. SubSeq(f, m, n) = <<>>
  BY <1>6, EmptySeq
<1>8. Between(f, x, y) = SubSeq(f, m, n)
  BY <1>2 DEF Between, m, n
<1> QED BY <1>7, <1>8

\* When the window before that of the newest point has points, its candle comes just
\* before the last.
LEMMA PreviousHasPoints ==
  ASSUME NEW f, InOrder(f), f # <<>>, NEW seconds \in Nat \ {0},
         NEW n, n = Len(StartsOf(f, seconds)),
         PreviousWindow(f, StartsOf(f, seconds)[n], seconds) # <<>>
  PROVE  n > 1 /\ StartsOf(f, seconds)[n - 1] + seconds = StartsOf(f, seconds)[n]
<1> DEFINE starts == StartsOf(f, seconds)
           last == starts[n]
<1>1. /\ n \in Nat \ {0}
      /\ \A k, l \in 1..n : k < l => starts[k] < starts[l]
      /\ \A i \in DOMAIN f : \E k \in 1..n : starts[k] = WindowStart(f[i].timestamp, seconds)
      /\ \A k \in 1..n : /\ starts[k] \in Nat
                         /\ \E i \in DOMAIN f : starts[k] = WindowStart(f[i].timestamp, seconds)
  BY StartsHavePoints
<1>2. \A i \in DOMAIN f : f[i].timestamp \in Nat
  BY DEF InOrder
<1> HIDE DEF starts
<1>3. n \in 1..n /\ last \in Nat
  BY <1>1
<1>4. \A k \in 1..n : starts[k] % seconds = 0
  BY <1>1, <1>2, StartIsMultiple
<1>5. PICK i \in DOMAIN f : last - seconds <= f[i].timestamp /\ f[i].timestamp < last
  <2>1. Between(f, last - seconds, last) # <<>>
    BY DEF PreviousWindow, starts
  <2>2. last - seconds \in Int /\ last \in Int /\ last - seconds <= last
    BY <1>3
  <2> HIDE DEF last
  <2> QED BY <2>1, <2>2, BetweenIsOf
<1>6. PICK k \in 1..n : starts[k] = WindowStart(f[i].timestamp, seconds)
  BY <1>1
<1>7. starts[k] \in Nat /\ starts[k] <= f[i].timestamp /\ f[i].timestamp < starts[k] + seconds
  BY <1>2, <1>6, WindowHolds
<1>8. starts[k] < last /\ starts[k] + seconds <= last
  <2>1. starts[k] < last
    BY <1>2, <1>3, <1>5, <1>7
  <2>2. starts[k] % seconds = 0 /\ last % seconds = 0
    BY <1>3, <1>4
  <2> HIDE DEF last
  <2> QED BY <1>3, <1>7, <2>1, <2>2, Multiples
<1>9. starts[k] + seconds = last
  <2>1. SUFFICES ASSUME starts[k] + seconds < last
                 PROVE  FALSE
    BY <1>3, <1>7, <1>8
  <2>2. (starts[k] + seconds) % seconds = 0 /\ last % seconds = 0
    BY <1>3, <1>4, <1>7, Multiples
  <2>3. starts[k] + seconds \in Nat
    BY <1>7
  <2> HIDE DEF last
  <2>4. (starts[k] + seconds) + seconds <= last
    BY <1>3, <2>1, <2>2, <2>3, Multiples
  <2> QED BY <1>2, <1>3, <1>5, <1>7, <2>4
<1>10. k \in Nat /\ n \in Nat /\ 1 <= k /\ k <= n
  BY <1>1
<1>11. k # n
  BY <1>3, <1>7, <1>8
<1> HIDE DEF last
<1>12. n > 1 /\ n - 1 \in 1..n /\ k <= n - 1
  BY <1>10, <1>11
<1>13. k = n - 1
  <2>1. SUFFICES ASSUME k < n - 1
                 PROVE  FALSE
    BY <1>10, <1>12
  <2>2. n - 1 < n
    BY <1>10
  <2>3. starts[k] < starts[n - 1] /\ starts[n - 1] < starts[n] /\ starts[n - 1] \in Nat
    BY <1>1, <1>3, <1>12, <2>1, <2>2
  <2>4. starts[k] % seconds = 0 /\ starts[n - 1] % seconds = 0
    BY <1>4, <1>12
  <2>5. starts[k] + seconds <= starts[n - 1]
    BY <1>7, <2>3, <2>4, Multiples
  <2> QED BY <1>3, <1>7, <1>9, <2>3, <2>5 DEF last
<1> QED BY <1>9, <1>12, <1>13 DEF starts, last

\* The three analyses of one history agree.
LEMMA AnalysesMeet ==
  ASSUME NEW S, NEW h \in Seq(S), h # <<>>, \A i \in DOMAIN h : h[i].timestamp \in Nat,
         NEW seconds \in Nat \ {0}, NEW average
  PROVE  Agree(LatestCandle(h, seconds, average), AllCandles(h, seconds, average),
               WindowStats(h, seconds))
<1> DEFINE f == SortByTimestamp(h)
           starts == StartsOf(f, seconds)
           n == Len(starts)
           real == LatestCandle(h, seconds, average)
           all == AllCandles(h, seconds, average)
           counted == WindowStats(h, seconds)
           window(k) == Between(f, starts[k], starts[k] + seconds)
           previous == PreviousWindow(f, starts[n], seconds)
           volumes == [k \in DOMAIN starts |-> TotalVolume(window(k))]
<1>1. InOrder(f) /\ f # <<>>
  <2>1. InOrder(f) /\ Len(f) = Len(h)
    BY SortedInOrder
  <2>2. Len(h) # 0 /\ Len(<<>>) = 0
    BY EmptySeq
  <2> QED BY <2>1, <2>2
<1>2. /\ n \in Nat \ {0} /\ starts = [k \in 1..n |-> starts[k]]
      /\ starts[n] = WindowStart(Last(f).timestamp, seconds)
      /\ \A k \in 1..n : starts[k] \in Nat /\ window(k) # <<>>
  <2> HIDE DEF f
  <2> QED BY <1>1, StartsHavePoints
<1>3. /\ Len(all) = n /\ DOMAIN all = 1..n /\ Last(all) = all[n]
      /\ \A k \in 1..n :
           all[k] = IF k = 1
                    THEN Candle(window(k), starts[k], seconds, average, Zero, Zero)
                    ELSE Candle(window(k), starts[k], seconds, average,
                           CalculateChangePercent(Last(window(k)).price, Last(window(k - 1)).price),
                           CalculateChangePercent(TotalVolume(window(k)), TotalVolume(window(k - 1))))
  <2>1. AreHistorical(all, f, starts, seconds, average)
    BY AllCandlesAre
  <2> HIDE DEF f, starts, all
  <2> QED BY <2>1 DEF AreHistorical
<1>4. real = IF previous # <<>>
             THEN Candle(window(n), starts[n], seconds, average,
                         CalculateChangePercent(Last(window(n)).price, Last(previous).price),
                         CalculateChangePercent(TotalVolume(window(n)), TotalVolume(previous)))
             ELSE Candle(window(n), starts[n], seconds, average,
                         CalculateChangePercent(Last(window(n)).price, Head(window(n)).price), Zero)
  <2>1. starts[n] = WindowStart(Last(f).timestamp, seconds)
    BY <1>2
  <2> HIDE DEF starts, n
  <2> QED BY <2>1 DEF LatestCandle
<1>5. counted.dataPoints = Len(volumes) /\ counted.mean = CalculateMeanStd(volumes).mean
  BY DEF WindowStats, StartsOf
<1> HIDE DEF f, starts, n, real, all, counted
<1>6. DOMAIN starts = 1..n /\ n \in 1..n /\ n \in Nat
  BY <1>2
<1>7. \A k \in 1..n : /\ all[k].startTime = starts[k] /\ all[k].endTime = starts[k] + seconds
                      /\ all[k].volume = TotalVolume(window(k))
  <2>1. ASSUME NEW k \in 1..n
        PROVE  \E x, y : all[k] = Candle(window(k), starts[k], seconds, average, x, y)
    <3> HIDE DEF window
    <3> QED BY <1>3
  <2>2. \A k \in 1..n : window(k) # <<>>
    BY <1>2
  <2> HIDE DEF window
  <2>3. ASSUME NEW k \in 1..n
        PROVE  /\ all[k].startTime = starts[k] /\ all[k].endTime = starts[k] + seconds
               /\ all[k].volume = TotalVolume(window(k))
    <3>1. PICK x, y : all[k] = Candle(window(k), starts[k], seconds, average, x, y)
      BY <2>1
    <3> QED BY <2>2, <3>1, CandleFields
  <2> QED BY <2>3
<1>8. counted.dataPoints = Len(all) /\ Len(volumes) = n
  <2>1. volumes = [k \in 1..n |-> volumes[k]]
    BY <1>6
  <2> HIDE DEF volumes
  <2>2. Len(volumes) = n
    BY <1>6, <2>1, WrittenOut
  <2> QED BY <1>3, <1>5, <2>2
<1>9. counted.mean = <<Total([i \in DOMAIN all |-> all[i].volume]), Len(all)>>
  <2>1. volumes = [i \in DOMAIN all |-> all[i].volume]
    BY <1>3, <1>6, <1>7
  <2> HIDE DEF volumes, window
  <2>2. CalculateMeanStd(volumes).mean = <<Total(volumes), n>>
    BY <1>2, <1>8 DEF CalculateMeanStd
  <2> QED BY <1>3, <1>5, <2>1, <2>2
<1> HIDE DEF volumes
<1> DEFINE changed == [real EXCEPT !.priceChange = Last(all).priceChange,
                                   !.volumeChange = Last(all).volumeChange]
<1>10. \A k \in 1..n : /\ all[k].open = Head(window(k)).price
                       /\ all[k].close = Last(window(k)).price
  <2>1. ASSUME NEW k \in 1..n
        PROVE  \E x, y : all[k] = Candle(window(k), starts[k], seconds, average, x, y)
    <3> HIDE DEF window
    <3> QED BY <1>3
  <2>2. \A k \in 1..n : window(k) # <<>>
    BY <1>2
  <2> HIDE DEF window
  <2>3. ASSUME NEW k \in 1..n
        PROVE  all[k].open = Head(window(k)).price /\ all[k].close = Last(window(k)).price
    <3>1. PICK x, y : all[k] = Candle(window(k), starts[k], seconds, average, x, y)
      BY <2>1
    <3> QED BY <2>2, <3>1, CandleFields
  <2> QED BY <2>3
<1>11. changed = Last(all)
  <2> HIDE DEF previous, window
  <2>1. PICK x, y : real = Candle(window(n), starts[n], seconds, average, x, y)
    BY <1>4
  <2>2. PICK z, v : all[n] = Candle(window(n), starts[n], seconds, average, z, v)
    BY <1>3, <1>6
  <2>3. all[n].priceChange = z /\ all[n].volumeChange = v
    BY <2>2, CandleFields
  <2>4. WithChanges(real, z, v) = all[n]
    BY <2>1, <2>2, ChangesReplaced
  <2>5. changed = WithChanges(real, z, v)
    BY <1>3, <2>3 DEF WithChanges
  <2> QED BY <1>3, <2>4, <2>5
<1> HIDE DEF changed
<1>12. all[1].priceChange = Zero /\ all[1].volumeChange = Zero
  <2>1. 1 \in 1..n
    BY <1>2
  <2> HIDE DEF window
  <2>2. all[1] = Candle(window(1), starts[1], seconds, average, Zero, Zero)
    BY <1>3, <2>1
  <2> QED BY <2>2, CandleFields
<1>13. ASSUME NEW i \in 2..Len(all)
       PROVE  ChangedSince(all[i], all[i - 1])
  <2>1. i \in 1..n /\ i - 1 \in 1..n /\ i # 1
    BY <1>2, <1>3
  <2> DEFINE x == CalculateChangePercent(Last(window(i)).price, Last(window(i - 1)).price)
             y == CalculateChangePercent(TotalVolume(window(i)), TotalVolume(window(i - 1)))
  <2> HIDE DEF window
  <2>2. all[i] = Candle(window(i), starts[i], seconds, average, x, y)
    BY <1>3, <2>1
  <2>3. all[i].priceChange = x /\ all[i].volumeChange = y
    BY <2>2, CandleFields
  <2>4. x = CalculateChangePercent(all[i].close, all[i - 1].close)
    BY <1>10, <2>1
  <2>5. y = CalculateChangePercent(all[i].volume, all[i - 1].volume)
    BY <1>7, <2>1
  <2> HIDE DEF x, y
  <2> QED BY <2>3, <2>4, <2>5 DEF ChangedSince
<1>14. Adjacent(all) <=> n > 1 /\ starts[n - 1] + seconds = starts[n]
  <2>1. n > 1 => n - 1 \in 1..n
    BY <1>2
  <2> HIDE DEF window
  <2> QED BY <1>3, <1>6, <1>7, <2>1 DEF Adjacent
<1>15. window(n) # <<>> /\ all[n].close = Last(window(n)).price /\ all[n].open = Head(window(n)).price
       /\ all[n].volume = TotalVolume(window(n))
  BY <1>2, <1>6, <1>7, <1>10
<1>16. ASSUME Adjacent(all)
       PROVE  LatestChanges(real, all)
  <2>1. n > 1 /\ n - 1 \in 1..n
    BY <1>2, <1>14, <1>16
  <2>2. starts[n - 1] + seconds = starts[n] /\ starts[n - 1] \in Nat
    BY <1>2, <1>14, <1>16, <2>1
  <2>3. previous = window(n - 1) /\ window(n - 1) # <<>>
    <3>1. starts[n] - seconds = starts[n - 1]
      BY <2>2
    <3> QED BY <1>2, <2>1, <2>2, <3>1 DEF PreviousWindow
  <2> DEFINE x == CalculateChangePercent(Last(window(n)).price, Last(window(n - 1)).price)
             y == CalculateChangePercent(TotalVolume(window(n)), TotalVolume(window(n - 1)))
  <2> HIDE DEF previous, window
  <2>4. real = Candle(window(n), starts[n], seconds, average, x, y)
    BY <1>4, <2>3
  <2>5. /\ real.priceChange = x /\ real.volumeChange = y
        /\ real.close = Last(window(n)).price /\ real.volume = TotalVolume(window(n))
    <3> HIDE DEF x, y
    <3> QED BY <1>15, <2>4, CandleFields
  <2>6. x = CalculateChangePercent(real.close, all[n - 1].close)
    <3>1. all[n - 1].close = Last(window(n - 1)).price
      BY <1>10, <2>1
    <3> QED BY <2>5, <3>1
  <2>7. y = CalculateChangePercent(real.volume, all[n - 1].volume)
    <3>1. all[n - 1].volume = TotalVolume(window(n - 1))
      BY <1>7, <2>1
    <3> QED BY <2>5, <3>1
  <2> HIDE DEF x, y
  <2>8. ChangedSince(real, all[n - 1])
    BY <2>5, <2>6, <2>7 DEF ChangedSince
  <2>9. ChangedSince(real, all[Len(all) - 1])
    BY <1>3, <2>8
  <2> QED BY <1>16, <2>9 DEF LatestChanges
<1>17. ASSUME ~Adjacent(all)
       PROVE  LatestChanges(real, all)
  <2>1. previous = <<>>
    <3>1. previous # <<>> => n > 1 /\ starts[n - 1] + seconds = starts[n]
      BY <1>1, PreviousHasPoints DEF starts, n
    <3> QED BY <1>14, <1>17, <3>1
  <2> DEFINE x == CalculateChangePercent(Last(window(n)).price, Head(window(n)).price)
  <2> HIDE DEF previous, window
  <2>2. real = Candle(window(n), starts[n], seconds, average, x, Zero)
    BY <1>4, <2>1
  <2>3. /\ real.priceChange = x /\ real.volumeChange = Zero
        /\ real.close = Last(window(n)).price /\ real.open = Head(window(n)).price
    <3> HIDE DEF x
    <3> QED BY <1>15, <2>2, CandleFields
  <2>4. real.priceChange = CalculateChangePercent(real.close, real.open)
    BY <2>3
  <2> QED BY <1>17, <2>3, <2>4 DEF LatestChanges
<1>18. Agree(real, all, counted)
  <2>1. LatestChanges(real, all)
    BY <1>16, <1>17
  <2>2. [real EXCEPT !.priceChange = Last(all).priceChange,
                     !.volumeChange = Last(all).volumeChange] = Last(all)
    BY <1>11 DEF changed
  <2>3. counted.dataPoints = Len(all)
    BY <1>8
  <2> QED BY <1>9, <1>12, <1>13, <2>1, <2>2, <2>3 DEF Agree
<1> QED BY <1>18 DEF real, all, counted

------------------------------------------------------------------------------
(* Sums. *)

\* The function FoldLeft computes, on the subsets of the first m places.
IsFold(g, values, m) ==
  g = [s \in SUBSET (1..m) |-> IF s = {} THEN 0 ELSE g[s \ {Max(s)}] + values[Max(s)]]

LEMMA Places ==
  ASSUME NEW m \in Nat, NEW s \in SUBSET (1..m), s # {}
  PROVE  /\ Max(s) \in s /\ Max(s) \in 1..m /\ s \ {Max(s)} \in SUBSET (1..m)
         /\ m \in s => Max(s) = m
         /\ \A x \in s : x <= Max(s)
<1>1. s \in SUBSET Int /\ IsFiniteSet(s)
  <2> DEFINE T == 1..m
  <2>1. IsFiniteSet(T) /\ s \in SUBSET T
    BY CountTo
  <2>2. s \in SUBSET Int
    OBVIOUS
  <2> HIDE DEF T
  <2>3. IsFiniteSet(s)
    BY <2>1, FS_Subset
  <2> QED BY <2>2, <2>3
<1>2. Max(s) \in s /\ \A x \in s : x <= Max(s)
  BY <1>1, Extremes
<1>3. m \in s => Max(s) = m
  BY <1>1, Bounds
<1> QED BY <1>2, <1>3

\* There is such a function.
LEMMA FoldExists ==
  ASSUME NEW values, NEW m \in Nat
  PROVE  \E g : IsFold(g, values, m)
<1> DEFINE Bad == {k \in Nat : ~\E g : IsFold(g, values, k)}
<1>1. SUFFICES ASSUME Bad # {}
               PROVE  FALSE
  OBVIOUS
<1>2. PICK n \in Bad : \A k \in Bad : n <= k
  <2>1. Bad \in SUBSET Nat
    OBVIOUS
  <2> HIDE DEF Bad
  <2> QED BY <1>1, <2>1, LeastNumber
<1>3. n \in Nat /\ ~\E g : IsFold(g, values, n)
  OBVIOUS
<1>4. n # 0
  <2>1. ASSUME n = 0 PROVE FALSE
    <3> DEFINE g == [s \in SUBSET (1..0) |-> 0]
    <3>1. \A s \in SUBSET (1..0) : s = {}
      OBVIOUS
    <3>2. IsFold(g, values, 0)
      BY <3>1 DEF IsFold
    <3> QED BY <1>3, <2>1, <3>2
  <2> QED BY <2>1
<1>5. n - 1 \in Nat /\ n - 1 \notin Bad
  <2>1. n - 1 \in Nat /\ ~(n <= n - 1)
    BY <1>3, <1>4
  <2> HIDE DEF Bad
  <2> QED BY <1>2, <2>1
<1>6. PICK g : IsFold(g, values, n - 1)
  BY <1>5
<1> HIDE DEF Bad
<1> DEFINE h == [s \in SUBSET (1..n) |->
                   IF s = {} THEN 0 ELSE IF n \in s THEN g[s \ {n}] + values[n] ELSE g[s]]
<1>7. \A s \in SUBSET (1..n) : n \notin s => s \in SUBSET (1..(n - 1))
  BY <1>3
<1>8. \A s \in SUBSET (1..(n - 1)) : g[s] = IF s = {} THEN 0 ELSE g[s \ {Max(s)}] + values[Max(s)]
  BY <1>6, Zenon DEF IsFold
<1>9. \A s \in SUBSET (1..n) : n \notin s => h[s] = g[s]
  <2>1. {} \in SUBSET (1..(n - 1))
    OBVIOUS
  <2>2. g[{}] = 0
    BY <1>8, <2>1
  <2> QED BY <2>2
<1>10. ASSUME NEW s \in SUBSET (1..n), s # {}
       PROVE  h[s] = h[s \ {Max(s)}] + values[Max(s)]
  <2>1. /\ Max(s) \in s /\ s \ {Max(s)} \in SUBSET (1..n)
        /\ n \in s => Max(s) = n
    BY <1>3, <1>10, Places
  <2>2. CASE n \in s
    <3>1. Max(s) = n /\ n \notin s \ {n} /\ s \ {n} \in SUBSET (1..n)
      BY <2>1, <2>2
    <3>2. h[s] = g[s \ {n}] + values[n]
      BY <1>10, <2>2
    <3>3. h[s \ {n}] = g[s \ {n}]
      BY <1>9, <3>1
    <3> QED BY <3>1, <3>2, <3>3
  <2>3. CASE n \notin s
    <3> DEFINE t == s \ {Max(s)}
    <3>1. h[s] = g[s]
      BY <1>9, <2>3
    <3>2. g[s] = g[t] + values[Max(s)]
      BY <1>7, <1>8, <1>10, <2>3
    <3>3. h[t] = g[t]
      BY <1>9, <2>1, <2>3
    <3> QED BY <3>1, <3>2, <3>3
  <2> QED BY <2>2, <2>3
<1>11. IsFold(h, values, n)
  <2>1. {} \in SUBSET (1..n)
    OBVIOUS
  <2>2. h[{}] = 0
    BY <2>1
  <2>3. h = [s \in SUBSET (1..n) |-> h[s]]
    OBVIOUS
  <2> HIDE DEF h
  <2>4. \A s \in SUBSET (1..n) : h[s] = IF s = {} THEN 0 ELSE h[s \ {Max(s)}] + values[Max(s)]
    BY <1>10, <2>2
  <2>5. [s \in SUBSET (1..n) |-> h[s]] =
        [s \in SUBSET (1..n) |-> IF s = {} THEN 0 ELSE h[s \ {Max(s)}] + values[Max(s)]]
    BY <2>4
  <2> QED BY <2>3, <2>5 DEF IsFold
<1> QED BY <1>3, <1>11

\* Total is the last of the sums up to each place.
LEMMA Sums ==
  ASSUME NEW n \in Nat, NEW values, values = [k \in 1..n |-> values[k]],
         \A k \in 1..n : values[k] \in Int
  PROVE  \E sum : /\ sum[0] = 0 /\ \A k \in 0..n : sum[k] \in Int
                  /\ \A k \in 1..n : sum[k] = sum[k - 1] + values[k]
                  /\ Total(values) = sum[n]
<1> DEFINE iter == CHOOSE g : IsFold(g, values, n)
           sum == [k \in 0..n |-> iter[1..k]]
<1>1. IsFold(iter, values, n)
  BY FoldExists
<1>2. Total(values) = iter[1..n]
  <2>1. DOMAIN values = 1..n
    OBVIOUS
  <2> QED BY <2>1 DEF Total, FoldLeft, MapThenFoldSet, IsFold
<1> HIDE DEF iter
<1>3. \A s \in SUBSET (1..n) : iter[s] = IF s = {} THEN 0 ELSE iter[s \ {Max(s)}] + values[Max(s)]
  BY <1>1, Zenon DEF IsFold
<1>4. sum[0] = 0
  <2>1. 1..0 = {} /\ {} \in SUBSET (1..n) /\ 0 \in 0..n
    OBVIOUS
  <2> QED BY <1>3, <2>1
<1>5. ASSUME NEW k \in 1..n
      PROVE  sum[k] = sum[k - 1] + values[k]
  <2>1. /\ 1..k \in SUBSET (1..n) /\ k \in 1..k /\ k \in 0..n /\ k - 1 \in 0..n
        /\ (1..k) \ {k} = 1..(k - 1) /\ k \in Nat
    OBVIOUS
  <2>2. Max(1..k) = k
    BY <2>1, Places
  <2>3. iter[1..k] = iter[1..(k - 1)] + values[k]
    BY <1>3, <2>1, <2>2
  <2> QED BY <2>1, <2>3
<1>6. sum[n] = Total(values)
  BY <1>2
<1> HIDE DEF sum
<1>7. ASSUME NEW m \in 0..n
      PROVE  sum[m] \in Int
  <2> DEFINE Bad == {k \in 0..n : sum[k] \notin Int}
  <2>1. SUFFICES ASSUME Bad # {}
                 PROVE  FALSE
    OBVIOUS
  <2>2. PICK k \in Bad : \A l \in Bad : k <= l
    <3>1. Bad \in SUBSET Nat
      OBVIOUS
    <3> HIDE DEF Bad
    <3> QED BY <2>1, <3>1, LeastNumber
  <2>3. k # 0 /\ k \in 1..n
    BY <1>4
  <2>4. k - 1 \notin Bad /\ k - 1 \in 0..n
    <3>1. ~(k <= k - 1) /\ k - 1 \in 0..n
      BY <2>3
    <3> HIDE DEF Bad
    <3> QED BY <2>2, <3>1
  <2>5. sum[k - 1] \in Int
    BY <2>4
  <2> QED BY <1>5, <2>3, <2>5
<1> QED BY <1>4, <1>5, <1>6, <1>7

\* Whatever grows by the values has grown by their total.
LEMMA TotalIs ==
  ASSUME NEW n \in Nat, NEW values, values = [k \in 1..n |-> values[k]], NEW acc,
         \A k \in 0..n : acc[k] \in Int,
         \A k \in 1..n : values[k] \in Int /\ acc[k] = acc[k - 1] + values[k]
  PROVE  Total(values) = acc[n] - acc[0]
<1>1. PICK sum : /\ sum[0] = 0 /\ \A k \in 0..n : sum[k] \in Int
                 /\ \A k \in 1..n : sum[k] = sum[k - 1] + values[k]
                 /\ Total(values) = sum[n]
  BY Sums
<1> DEFINE Bad == {k \in 0..n : sum[k] # acc[k] - acc[0]}
<1>2. ASSUME Bad # {} PROVE FALSE
  <2>1. PICK k \in Bad : \A l \in Bad : k <= l
    <3>1. Bad \in SUBSET Nat
      OBVIOUS
    <3> HIDE DEF Bad
    <3> QED BY <1>2, <3>1, LeastNumber
  <2>2. k \in 0..n /\ sum[k] # acc[k] - acc[0]
    OBVIOUS
  <2>3. k # 0 /\ k \in 1..n
    <3>1. 0 \in 0..n /\ acc[0] \in Int
      OBVIOUS
    <3>2. acc[0] - acc[0] = 0
      BY <3>1
    <3> QED BY <1>1, <2>2, <3>2
  <2>4. k - 1 \in 0..n /\ k - 1 \notin Bad
    <3>1. ~(k <= k - 1) /\ k - 1 \in 0..n
      BY <2>3
    <3> HIDE DEF Bad
    <3> QED BY <2>1, <3>1
  <2>5. /\ sum[k - 1] = acc[k - 1] - acc[0]
        /\ sum[k] = sum[k - 1] + values[k] /\ acc[k] = acc[k - 1] + values[k]
        /\ acc[0] \in Int /\ acc[k - 1] \in Int /\ acc[k] \in Int /\ values[k] \in Int
    BY <1>1, <2>3, <2>4
  <2> QED BY <2>2, <2>5
<1>3. n \in 0..n /\ n \notin Bad
  BY <1>2
<1> QED BY <1>1, <1>3

------------------------------------------------------------------------------
(* Candles of runs. *)

\* A slice of points.
LEMMA SliceHas ==
  ASSUME NEW S, NEW f \in Seq(S), NEW a \in 0..Len(f), NEW b \in a..Len(f)
  PROVE  LET g == SubSeq(f, a + 1, b)
         IN  /\ g \in Seq(S) /\ Len(g) = b - a /\ DOMAIN g = 1..(b - a)
             /\ \A i \in 1..(b - a) : g[i] = f[a + i]
<1> DEFINE m == a + 1
           g == SubSeq(f, m, b)
<1>1. /\ Len(f) \in Nat /\ a \in Int /\ b \in Int /\ m \in Int
      /\ \A i \in m..b : f[i] \in S
      /\ (IF m <= b THEN b - m + 1 ELSE 0) = b - a /\ b - m + 1 = b - a
      /\ \A i \in 1..(b - a) : m + i - 1 = a + i
  <2>1. Len(f) \in Nat /\ \A i \in 1..Len(f) : f[i] \in S
    BY LenProperties
  <2>2. \A i \in m..b : i \in 1..Len(f)
    BY <2>1
  <2> QED BY <2>1, <2>2
<1>2. g \in Seq(S) /\ Len(g) = b - a /\ \A i \in 1..(b - a) : g[i] = f[a + i]
  <2> HIDE DEF m
  <2>1. /\ SubSeq(f, m, b) \in Seq(S)
        /\ Len(SubSeq(f, m, b)) = IF m <= b THEN b - m + 1 ELSE 0
        /\ \A i \in 1..(b - m + 1) : SubSeq(f, m, b)[i] = f[m + i - 1]
    BY <1>1, SubSeqProperties
  <2> QED BY <1>1, <2>1
<1> HIDE DEF g
<1>3. DOMAIN g = 1..(b - a)
  BY <1>2, LenProperties
<1> QED BY <1>2, <1>3 DEF g

\* Points with a price and a volume.
Priced(f) ==
  /\ f \in Seq(ToSet(f))
  /\ \A i \in DOMAIN f : f[i].price \in Int /\ f[i].volume \in Int

\* The volume of a slice is the difference of two sums.
LEMMA SliceVolume ==
  ASSUME NEW f, Priced(f)
  PROVE  \E sum : /\ \A k \in 0..Len(f) : sum[k] \in Int
                  /\ \A a \in 0..Len(f) : \A b \in a..Len(f) :
                       TotalVolume(SubSeq(f, a + 1, b)) = sum[b] - sum[a]
<1> DEFINE L == Len(f)
           volumes == [k \in 1..L |-> f[k].volume]
<1>1. /\ L \in Nat /\ DOMAIN f = 1..L /\ f \in Seq(ToSet(f))
      /\ \A k \in 1..L : f[k].volume \in Int
  BY LenProperties DEF Priced
<1>2. volumes = [k \in 1..L |-> volumes[k]] /\ \A k \in 1..L : volumes[k] \in Int
  BY <1>1
<1> HIDE DEF L
<1>3. PICK sum : /\ sum[0] = 0 /\ \A k \in 0..L : sum[k] \in Int
                 /\ \A k \in 1..L : sum[k] = sum[k - 1] + volumes[k]
                 /\ Total(volumes) = sum[L]
  <2> HIDE DEF volumes
  <2> QED BY <1>1, <1>2, Sums
<1>4. ASSUME NEW a \in 0..L, NEW b \in a..L
      PROVE  TotalVolume(SubSeq(f, a + 1, b)) = sum[b] - sum[a]
  <2> DEFINE g == SubSeq(f, a + 1, b)
             n == b - a
             values == Volumes(g)
             acc == [k \in 0..n |-> sum[a + k]]
  <2>1. Len(g) = n /\ DOMAIN g = 1..n /\ \A i \in 1..n : g[i] = f[a + i]
    BY <1>1, SliceHas DEF L
  <2>2. n \in Nat /\ a + n = b /\ a + 0 = a /\ \A k \in 0..n : a + k \in 0..L
    BY <1>1
  <2>3. \A k \in 1..n : a + k \in 1..L /\ (a + k) - 1 = a + (k - 1) /\ k - 1 \in 0..n /\ k \in 0..n
    BY <1>1
  <2> HIDE DEF g
  <2>4. values = [k \in 1..n |-> f[a + k].volume]
    BY <2>1 DEF Volumes
  <2> HIDE DEF n, values
  <2>5. values = [k \in 1..n |-> values[k]] /\ \A k \in 1..n : values[k] = f[a + k].volume
    BY <2>4
  <2>6. \A k \in 0..n : acc[k] \in Int
    BY <1>3, <2>2
  <2>7. ASSUME NEW k \in 1..n
        PROVE  values[k] \in Int /\ acc[k] = acc[k - 1] + values[k]
    <3>1. sum[a + k] = sum[(a + k) - 1] + volumes[a + k]
      BY <1>3, <2>3
    <3>2. volumes[a + k] = values[k] /\ values[k] \in Int
      BY <1>1, <2>3, <2>5
    <3> QED BY <2>3, <3>1, <3>2
  <2>8. acc[n] = sum[b] /\ acc[0] = sum[a]
    BY <2>2
  <2> HIDE DEF acc
  <2>9. Total(values) = acc[n] - acc[0]
    BY <2>2, <2>5, <2>6, <2>7, TotalIs
  <2> QED BY <2>8, <2>9 DEF TotalVolume, values, g
<1> QED BY <1>3, <1>4 DEF L

\* Consecutive runs of points: run k is from after e[k - 1] up to e[k].
Consecutive(f, e, m) ==
  /\ m \in Nat \ {0}
  /\ \A k \in 0..m : e[k] \in 0..Len(f)
  /\ \A k \in 1..m : e[k - 1] < e[k]

LEMMA RunsFollow ==
  ASSUME NEW f, NEW e, NEW m, Len(f) \in Nat, Consecutive(f, e, m)
  PROVE  /\ \A k \in 0..m : e[0] <= e[k] /\ e[k] <= e[m]
         /\ \A i \in (e[0] + 1)..e[m] : \E k \in 1..m : e[k - 1] < i /\ i <= e[k]
<1>1. /\ m \in Nat /\ m # 0 /\ \A k \in 0..m : e[k] \in Nat
      /\ \A k \in 1..m : e[k - 1] < e[k]
  BY DEF Consecutive
<1>2. \A k \in 0..m : e[0] <= e[k]
  <2> DEFINE Bad == {k \in 0..m : ~(e[0] <= e[k])}
  <2>1. SUFFICES ASSUME Bad # {} PROVE FALSE
    OBVIOUS
  <2>2. PICK k \in Bad : \A l \in Bad : k <= l
    <3>1. Bad \in SUBSET Nat
      OBVIOUS
    <3> HIDE DEF Bad
    <3> QED BY <2>1, <3>1, LeastNumber
  <2>3. k # 0 /\ k \in 1..m
    BY <1>1
  <2>4. k - 1 \notin Bad /\ k - 1 \in 0..m
    <3>1. ~(k <= k - 1) /\ k - 1 \in 0..m
      BY <1>1, <2>3
    <3> HIDE DEF Bad
    <3> QED BY <2>2, <3>1
  <2>5. e[0] <= e[k - 1] /\ e[k - 1] < e[k] /\ e[0] \in Nat /\ e[k - 1] \in Nat /\ e[k] \in Nat
    <3>1. 0 \in 0..m /\ k \in 0..m
      BY <1>1, <2>3
    <3> QED BY <1>1, <2>3, <2>4, <3>1
  <2> QED BY <2>5
<1>3. \A k \in 0..m : e[k] <= e[m]
  <2> DEFINE Bad == {d \in 0..m : ~(e[m - d] <= e[m])}
  <2>1. ASSUME Bad # {} PROVE FALSE
    <3>1. PICK d \in Bad : \A l \in Bad : d <= l
      <4>1. Bad \in SUBSET Nat
        OBVIOUS
      <4> HIDE DEF Bad
      <4> QED BY <2>1, <4>1, LeastNumber
    <3>2. d \in 0..m /\ ~(e[m - d] <= e[m])
      OBVIOUS
    <3>3. d # 0 /\ d \in 1..m
      <4>1. m - 0 = m /\ m \in 0..m
        BY <1>1
      <4>2. e[m] <= e[m]
        BY <1>1, <4>1
      <4> QED BY <3>2, <4>1, <4>2
    <3>4. d - 1 \notin Bad /\ d - 1 \in 0..m
      <4>1. ~(d <= d - 1) /\ d - 1 \in 0..m
        BY <1>1, <3>3
      <4> HIDE DEF Bad
      <4> QED BY <3>1, <4>1
    <3>5. e[m - (d - 1)] <= e[m]
      BY <3>4
    <3>6. /\ m - (d - 1) \in 1..m /\ (m - (d - 1)) - 1 = m - d /\ m - d \in 0..m /\ m \in 0..m
          /\ m - (d - 1) \in 0..m
      BY <1>1, <3>3
    <3>7. e[m - d] < e[m - (d - 1)] /\ e[m - d] \in Nat /\ e[m - (d - 1)] \in Nat /\ e[m] \in Nat
      BY <1>1, <3>6
    <3> QED BY <3>2, <3>5, <3>7
  <2>2. ASSUME NEW k \in 0..m
        PROVE  e[k] <= e[m]
    <3>1. m - k \in 0..m /\ m - (m - k) = k
      BY <1>1
    <3>2. m - k \notin Bad
      <4> HIDE DEF Bad
      <4> QED BY <2>1
    <3>3. e[m - (m - k)] <= e[m]
      BY <3>1, <3>2
    <3> QED BY <3>1, <3>3
  <2> QED BY <2>2
<1>4. ASSUME NEW i \in (e[0] + 1)..e[m]
      PROVE  \E k \in 1..m : e[k - 1] < i /\ i <= e[k]
  <2> DEFINE Up == {k \in 0..m : i <= e[k]}
  <2>1. PICK k \in Up : \A l \in Up : k <= l
    <3>1. Up \in SUBSET Nat /\ m \in Up
      BY <1>1
    <3> HIDE DEF Up
    <3> QED BY <3>1, LeastNumber
  <2>2. 0 \in 0..m /\ e[0] \in Nat /\ e[m] \in Nat /\ i \in Nat /\ ~(i <= e[0])
    BY <1>1
  <2>3. k # 0 /\ k \in 1..m /\ i <= e[k]
    BY <2>2
  <2>4. k - 1 \notin Up /\ k - 1 \in 0..m
    <3>1. ~(k <= k - 1) /\ k - 1 \in 0..m
      BY <1>1, <2>3
    <3> HIDE DEF Up
    <3> QED BY <2>1, <3>1
  <2>5. e[k - 1] < i
    BY <1>1, <2>2, <2>4
  <2> QED BY <2>3, <2>5
<1> QED BY <1>2, <1>3, <1>4

\* The candle c is that of the points after a up to b.
ShapeOfSlice(c, f, a, b) ==
  /\ c.open = f[a + 1].price /\ c.close = f[b].price
  /\ c.volume = TotalVolume(SubSeq(f, a + 1, b))
  /\ c.high \in Int /\ -1 <= c.high /\ \A i \in (a + 1)..b : f[i].price <= c.high
  /\ c.high = -1 \/ \E i \in (a + 1)..b : f[i].price = c.high
  /\ c.low \in Int /\ \A i \in (a + 1)..b : c.low <= f[i].price
  /\ \E i \in (a + 1)..b : f[i].price = c.low

LEMMA OHLCVOfSlice ==
  ASSUME NEW f, Priced(f), NEW a \in 0..Len(f), NEW b \in 0..Len(f), a < b,
         NEW c, Shape(c) = Shape(ComputeOHLCV(SubSeq(f, a + 1, b)))
  PROVE  ShapeOfSlice(c, f, a, b)
<1> DEFINE g == SubSeq(f, a + 1, b)
           n == b - a
           prices == {p.price : p \in ToSet(g)}
           o == ComputeOHLCV(g)
<1>1. /\ Len(f) \in Nat /\ DOMAIN f = 1..Len(f) /\ f \in Seq(ToSet(f))
      /\ \A i \in 1..Len(f) : f[i].price \in Int
  BY LenProperties DEF Priced
<1>2. g \in Seq(ToSet(f)) /\ Len(g) = n /\ DOMAIN g = 1..n /\ \A i \in 1..n : g[i] = f[a + i]
  <2>1. b \in a..Len(f)
    BY <1>1
  <2> QED BY <1>1, <2>1, SliceHas
<1>3. n \in Nat /\ n # 0 /\ a + n = b /\ 1 \in 1..n /\ n \in 1..n
  BY <1>1
<1>4. /\ \A i \in 1..n : a + i \in (a + 1)..b /\ a + i \in 1..Len(f)
      /\ \A i \in (a + 1)..b : i - a \in 1..n /\ a + (i - a) = i /\ i \in 1..Len(f)
  BY <1>1
<1> HIDE DEF g, n
<1>5. g # <<>>
  BY <1>2, <1>3, EmptySeq
<1>6. Head(g) = f[a + 1] /\ Last(g) = f[b]
  <2>1. Head(g) = g[1]
    BY <1>2, <1>5, HeadTailProperties
  <2> QED BY <1>2, <1>3, <2>1 DEF Last
<1>7. prices = {f[i].price : i \in (a + 1)..b}
  <2>1. ToSet(g) = {g[k] : k \in 1..n}
    BY <1>2 DEF ToSet
  <2>2. \A k \in 1..n : g[k] = f[a + k] /\ a + k \in (a + 1)..b
    BY <1>2, <1>4
  <2>3. \A i \in (a + 1)..b : i - a \in 1..n /\ g[i - a] = f[i]
    BY <1>2, <1>4
  <2>4. prices = {g[k].price : k \in 1..n}
    BY <2>1
  <2> HIDE DEF prices
  <2>5. \A x \in prices : \E i \in (a + 1)..b : x = f[i].price
    BY <2>2, <2>4
  <2>6. \A i \in (a + 1)..b : f[i].price \in prices
    BY <2>3, <2>4
  <2> QED BY <2>5, <2>6
<1>8. /\ c.open = f[a + 1].price /\ c.close = f[b].price /\ c.volume = TotalVolume(g)
      /\ c.high = Max(prices \union {-1}) /\ c.low = Min(prices)
  <2> HIDE DEF prices
  <2>1. /\ o.open = Head(g).price /\ o.close = Last(g).price /\ o.volume = TotalVolume(g)
        /\ o.high = Max(prices \union {-1}) /\ o.low = Min(prices)
    BY <1>5 DEF ComputeOHLCV, prices
  <2>2. /\ c.open = o.open /\ c.close = o.close /\ c.volume = o.volume
        /\ c.high = o.high /\ c.low = o.low
    <3> HIDE DEF o
    <3>1. Shape(c) = Shape(o)
      BY DEF o, g
    <3> QED BY <3>1 DEF Shape
  <2> QED BY <1>6, <2>1, <2>2
<1>9. prices \in SUBSET Int /\ IsFiniteSet(prices) /\ prices # {}
  <2>1. prices \in SUBSET Int
    BY <1>1, <1>4, <1>7
  <2>2. IsFiniteSet(prices)
    <3> DEFINE T == 1..n
               price == [k \in T |-> f[a + k].price]
    <3>1. IsFiniteSet(T)
      BY <1>3, CountTo
    <3>2. price \in Surjection(T, prices)
      <4>1. \A k \in T : f[a + k].price \in prices
        BY <1>4, <1>7
      <4>2. \A x \in prices : \E k \in T : f[a + k].price = x
        <5>1. ASSUME NEW x \in prices
              PROVE  \E k \in T : f[a + k].price = x
          <6>1. PICK i \in (a + 1)..b : f[i].price = x
            BY <1>7
          <6>2. i - a \in T /\ a + (i - a) = i
            BY <1>4
          <6> QED BY <6>1, <6>2
        <5> QED BY <5>1
      <4> HIDE DEF prices, T
      <4> QED BY <4>1, <4>2 DEF Surjection
    <3> HIDE DEF T, price, prices
    <3> QED BY <3>1, <3>2, FS_Surjection
  <2>3. prices # {}
    <3>1. a + 1 \in (a + 1)..b
      BY <1>3, <1>4
    <3>2. f[a + 1].price \in prices
      BY <1>7, <3>1
    <3> QED BY <3>2
  <2> QED BY <2>1, <2>2, <2>3
<1> HIDE DEF prices
<1>10. prices \union {-1} \in SUBSET Int /\ IsFiniteSet(prices \union {-1}) /\ prices \union {-1} # {}
  <2>1. IsFiniteSet(prices \union {-1})
    BY <1>9, FS_AddElement
  <2> QED BY <1>9, <2>1
<1>11. /\ c.high \in prices \union {-1} /\ \A x \in prices \union {-1} : x <= c.high
       /\ c.low \in prices /\ \A x \in prices : c.low <= x
  BY <1>8, <1>9, <1>10, Extremes
<1>12. c.high \in Int /\ c.low \in Int
  BY <1>9, <1>10, <1>11
<1>13. c.high = -1 \/ \E i \in (a + 1)..b : f[i].price = c.high
  BY <1>7, <1>11
<1>14. \E i \in (a + 1)..b : f[i].price = c.low
  BY <1>7, <1>11
<1>15. -1 <= c.high /\ \A i \in (a + 1)..b : f[i].price <= c.high /\ c.low <= f[i].price
  BY <1>7, <1>11
<1> QED BY <1>8, <1>12, <1>13, <1>14, <1>15 DEF ShapeOfSlice, g

\* The candles of the runs.
CandlesOfRuns(bars, f, e, m) ==
  /\ bars = [k \in 1..m |-> bars[k]]
  /\ \A k \in 1..m : Shape(bars[k]) = Shape(ComputeOHLCV(SubSeq(f, e[k - 1] + 1, e[k])))

\* The candle of consecutive runs rolls up the candles of the runs.
LEMMA RunsRollUp ==
  ASSUME NEW f, Priced(f), NEW e, NEW m, Consecutive(f, e, m),
         NEW bars, CandlesOfRuns(bars, f, e, m),
         NEW c, Shape(c) = Shape(ComputeOHLCV(SubSeq(f, e[0] + 1, e[m])))
  PROVE  Shape(c) = RolledUp(bars)
<1>1. Len(f) \in Nat
  BY LenProperties DEF Priced
<1>2. /\ m \in Nat /\ m # 0 /\ 0 \in 0..m /\ m \in 0..m /\ 1 \in 1..m /\ m \in 1..m
      /\ \A k \in 0..m : e[k] \in 0..Len(f) /\ e[k] \in Nat
      /\ \A k \in 1..m : e[k - 1] < e[k] /\ k - 1 \in 0..m /\ k \in 0..m
  BY <1>1 DEF Consecutive
<1>3. /\ \A k \in 0..m : e[0] <= e[k] /\ e[k] <= e[m]
      /\ \A i \in (e[0] + 1)..e[m] : \E k \in 1..m : e[k - 1] < i /\ i <= e[k]
  BY <1>1, RunsFollow
<1>4. \A k \in 1..m : ShapeOfSlice(bars[k], f, e[k - 1], e[k])
  BY <1>2, OHLCVOfSlice DEF CandlesOfRuns
<1>5. e[0] < e[m]
  <2>1. e[1 - 1] < e[1] /\ e[1] <= e[m] /\ 1 - 1 = 0 /\ e[0] \in Nat /\ e[1] \in Nat /\ e[m] \in Nat
    BY <1>2, <1>3
  <2> QED BY <2>1
<1>6. ShapeOfSlice(c, f, e[0], e[m])
  BY <1>2, <1>5, OHLCVOfSlice
<1>7. Len(bars) = m /\ DOMAIN bars = 1..m
  BY <1>2, WrittenOut DEF CandlesOfRuns
<1>8. ToSet(bars) = {bars[k] : k \in 1..m} /\ Head(bars) = bars[1] /\ Last(bars) = bars[m]
  <2>1. bars \in Seq({bars[k] : k \in 1..m})
    <3> DEFINE T == {bars[k] : k \in 1..m}
    <3>1. bars \in [1..m -> T]
      BY DEF CandlesOfRuns
    <3> HIDE DEF T
    <3>2. bars \in Seq(T)
      BY <1>2, <3>1, SeqDef
    <3> QED BY <3>2 DEF T
  <2>2. bars # <<>>
    BY <1>2, <1>7, EmptySeq
  <2>3. Head(bars) = bars[1]
    BY <2>1, <2>2, HeadTailProperties
  <2> QED BY <1>7, <2>3 DEF ToSet, Last
<1>9. \A k \in 1..m : \A i \in (e[k - 1] + 1)..e[k] : i \in (e[0] + 1)..e[m]
  <2>1. ASSUME NEW k \in 1..m, NEW i \in (e[k - 1] + 1)..e[k]
        PROVE  i \in (e[0] + 1)..e[m]
    <3>1. e[0] <= e[k - 1] /\ e[k] <= e[m] /\ e[0] \in Nat /\ e[k - 1] \in Nat /\ e[k] \in Nat /\ e[m] \in Nat
      BY <1>2, <1>3
    <3> QED BY <3>1
  <2> QED BY <2>1
<1>10. \A i \in (e[0] + 1)..e[m] : \E k \in 1..m : i \in (e[k - 1] + 1)..e[k]
  <2>1. ASSUME NEW i \in (e[0] + 1)..e[m]
        PROVE  \E k \in 1..m : i \in (e[k - 1] + 1)..e[k]
    <3>1. PICK k \in 1..m : e[k - 1] < i /\ i <= e[k]
      BY <1>3
    <3>2. e[0] \in Nat /\ e[k - 1] \in Nat /\ e[k] \in Nat /\ e[m] \in Nat
      BY <1>2
    <3> QED BY <3>1, <3>2
  <2> QED BY <2>1
<1>11. c.open = Head(bars).open
  <2>1. bars[1].open = f[e[1 - 1] + 1].price /\ 1 - 1 = 0
    BY <1>2, <1>4 DEF ShapeOfSlice
  <2> QED BY <1>6, <1>8, <2>1 DEF ShapeOfSlice
<1>12. c.close = Last(bars).close
  BY <1>2, <1>4, <1>6, <1>8 DEF ShapeOfSlice
<1>13. c.high = Max({b.high : b \in ToSet(bars)})
  <2> DEFINE H == {b.high : b \in ToSet(bars)}
  <2>1. H = {bars[k].high : k \in 1..m}
    BY <1>8
  <2>2. ASSUME NEW k \in 1..m
        PROVE  bars[k].high \in Int /\ bars[k].high <= c.high
    <3>1. /\ bars[k].high \in Int
          /\ bars[k].high = -1 \/ \E i \in (e[k - 1] + 1)..e[k] : f[i].price = bars[k].high
      BY <1>4 DEF ShapeOfSlice
    <3>2. -1 <= c.high /\ \A i \in (e[0] + 1)..e[m] : f[i].price <= c.high
      BY <1>6 DEF ShapeOfSlice
    <3> QED BY <1>9, <3>1, <3>2
  <2>3. \E k \in 1..m : bars[k].high = c.high
    <3>1. c.high \in Int /\ (c.high = -1 \/ \E i \in (e[0] + 1)..e[m] : f[i].price = c.high)
      BY <1>6 DEF ShapeOfSlice
    <3>2. CASE c.high = -1
      <4>1. -1 <= bars[1].high /\ bars[1].high \in Int /\ bars[1].high <= c.high
        BY <1>2, <1>4, <2>2 DEF ShapeOfSlice
      <4>2. bars[1].high = c.high
        BY <3>2, <4>1
      <4> QED BY <1>2, <4>2
    <3>3. ASSUME NEW i \in (e[0] + 1)..e[m], f[i].price = c.high
          PROVE  \E k \in 1..m : bars[k].high = c.high
      <4>1. PICK k \in 1..m : i \in (e[k - 1] + 1)..e[k]
        BY <1>10
      <4>2. f[i].price <= bars[k].high /\ bars[k].high \in Int /\ bars[k].high <= c.high
        BY <1>4, <2>2, <4>1 DEF ShapeOfSlice
      <4>3. bars[k].high = c.high
        BY <3>1, <3>3, <4>2
      <4> QED BY <4>3
    <3> QED BY <3>1, <3>2, <3>3
  <2>4. H \in SUBSET Int /\ c.high \in H /\ \A x \in H : x <= c.high
    BY <2>1, <2>2, <2>3
  <2> HIDE DEF H
  <2>5. Max(H) = c.high
    BY <2>4, Bounds
  <2> QED BY <2>5 DEF H
<1>14. c.low = Min({b.low : b \in ToSet(bars)})
  <2> DEFINE H == {b.low : b \in ToSet(bars)}
  <2>1. H = {bars[k].low : k \in 1..m}
    BY <1>8
  <2>2. ASSUME NEW k \in 1..m
        PROVE  bars[k].low \in Int /\ c.low <= bars[k].low
    <3>1. bars[k].low \in Int /\ \E i \in (e[k - 1] + 1)..e[k] : f[i].price = bars[k].low
      BY <1>4 DEF ShapeOfSlice
    <3>2. \A i \in (e[0] + 1)..e[m] : c.low <= f[i].price
      BY <1>6 DEF ShapeOfSlice
    <3> QED BY <1>9, <3>1, <3>2
  <2>3. \E k \in 1..m : bars[k].low = c.low
    <3>1. PICK i \in (e[0] + 1)..e[m] : f[i].price = c.low
      BY <1>6 DEF ShapeOfSlice
    <3>2. PICK k \in 1..m : i \in (e[k - 1] + 1)..e[k]
      BY <1>10
    <3>3. bars[k].low <= f[i].price /\ bars[k].low \in Int /\ c.low <= bars[k].low /\ c.low \in Int
      BY <1>4, <1>6, <2>2, <3>2 DEF ShapeOfSlice
    <3>4. bars[k].low = c.low
      BY <3>1, <3>3
    <3> QED BY <3>4
  <2>4. H \in SUBSET Int /\ c.low \in H /\ \A x \in H : c.low <= x
    BY <2>1, <2>2, <2>3
  <2> HIDE DEF H
  <2>5. Min(H) = c.low
    BY <2>4, Bounds
  <2> QED BY <2>5 DEF H
<1>15. c.volume = Total([i \in DOMAIN bars |-> bars[i].volume])
  <2> DEFINE values == [i \in DOMAIN bars |-> bars[i].volume]
  <2>1. PICK sum : /\ \A k \in 0..Len(f) : sum[k] \in Int
                   /\ \A a \in 0..Len(f) : \A b \in a..Len(f) :
                        TotalVolume(SubSeq(f, a + 1, b)) = sum[b] - sum[a]
    BY SliceVolume
  <2> DEFINE acc == [k \in 0..m |-> sum[e[k]]]
  <2>2. values = [k \in 1..m |-> bars[k].volume]
    BY <1>7
  <2>3. \A k \in 0..m : acc[k] \in Int /\ acc[k] = sum[e[k]]
    BY <1>2, <2>1
  <2>4. ASSUME NEW k \in 1..m
        PROVE  values[k] \in Int /\ acc[k] = acc[k - 1] + values[k]
    <3>1. e[k - 1] \in 0..Len(f) /\ e[k] \in e[k - 1]..Len(f) /\ k - 1 \in 0..m /\ k \in 0..m
      <4>1. e[k - 1] \in 0..Len(f) /\ e[k] \in 0..Len(f) /\ e[k - 1] < e[k] /\ k - 1 \in 0..m /\ k \in 0..m
        BY <1>2
      <4> QED BY <1>1, <4>1
    <3>2. bars[k].volume = sum[e[k]] - sum[e[k - 1]]
      BY <1>4, <2>1, <3>1 DEF ShapeOfSlice
    <3>3. values[k] = bars[k].volume
      BY <2>2
    <3>4. acc[k] \in Int /\ acc[k - 1] \in Int /\ acc[k] = sum[e[k]] /\ acc[k - 1] = sum[e[k - 1]]
      BY <2>3, <3>1
    <3> HIDE DEF acc, values
    <3> QED BY <3>2, <3>3, <3>4
  <2> HIDE DEF values, acc
  <2>5. values = [k \in 1..m |-> values[k]]
    BY <2>2
  <2>6. Total(values) = acc[m] - acc[0]
    <3>1. \A k \in 0..m : acc[k] \in Int
      BY <2>3
    <3>2. \A k \in 1..m : values[k] \in Int /\ acc[k] = acc[k - 1] + values[k]
      BY <2>4
    <3>3. m \in Nat
      BY <1>2
    <3> QED BY <2>5, <3>1, <3>2, <3>3, TotalIs
  <2>7. c.volume = sum[e[m]] - sum[e[0]]
    <3>1. e[0] \in 0..Len(f) /\ e[m] \in e[0]..Len(f)
      <4>1. e[0] \in 0..Len(f) /\ e[m] \in 0..Len(f) /\ e[0] < e[m]
        BY <1>2, <1>5
      <4> QED BY <1>1, <4>1
    <3> QED BY <1>6, <2>1, <3>1 DEF ShapeOfSlice
  <2>8. acc[m] = sum[e[m]] /\ acc[0] = sum[e[0]]
    BY <1>2, <2>3
  <2> QED BY <2>6, <2>7, <2>8 DEF values
<1> QED BY <1>11, <1>12, <1>13, <1>14, <1>15 DEF Shape, RolledUp

------------------------------------------------------------------------------
(* Candles of longer windows. *)

\* Multiples of a multiple.
LEMMA MultipleOfMultiple ==
  ASSUME NEW d \in Nat \ {0}, NEW v \in Nat \ {0}, v % d = 0, NEW t \in Nat, t % v = 0
  PROVE  t % d = 0
<1> DEFINE p == v \div d
           q == t \div v
<1>1. p \in Nat /\ v = d * p
  OBVIOUS
<1>2. q \in Nat /\ t = v * q
  OBVIOUS
<1> HIDE DEF p, q
<1>3. t = d * (p * q) /\ p * q \in Nat
  <2>1. \A x, y, z \in Nat : (x * y) * z = x * (y * z) /\ y * z \in Nat
    OBVIOUS
  <2> QED BY <1>1, <1>2, <2>1
<1> DEFINE z == p * q
<1>4. t = d * z + 0 /\ z \in Nat
  BY <1>3
<1> HIDE DEF z
<1>5. \A x \in Nat, y \in Nat : y < d => (d * x + y) % d = y
  OBVIOUS
<1>6. (d * z + 0) % d = 0
  BY <1>4, <1>5
<1> QED BY <1>4, <1>6

\* The numbers of the candles inside another one.
Inside(bars, c) ==
  {i \in DOMAIN bars : bars[i].startTime >= c.startTime /\ bars[i].endTime <= c.endTime}

\* A candle of the longer window is that of the candles of the shorter one inside it.
LEMMA LongerRollsUp ==
  ASSUME NEW f, InOrder(f), Priced(f), f # <<>>,
         NEW short \in Nat \ {0}, NEW long \in Nat \ {0}, long % short = 0,
         NEW bars, DOMAIN bars = 1..Len(StartsOf(f, short)),
         \A k \in DOMAIN bars :
           LET start == StartsOf(f, short)[k]
           IN  CandleOf(bars[k], Between(f, start, start + short), start, short),
         NEW t, NEW j \in DOMAIN f, t = WindowStart(f[j].timestamp, long),
         NEW c, CandleOf(c, Between(f, t, t + long), t, long)
  PROVE  LET inside == Ascending(Inside(bars, c))
         IN  Shape(c) = RolledUp([k \in DOMAIN inside |-> bars[inside[k]]])
<1> DEFINE starts == StartsOf(f, short)
           n == Len(starts)
           I == Inside(bars, c)
           at == Ascending(I)
           m == Cardinality(I)
<1>1. /\ Len(f) \in Nat /\ DOMAIN f = 1..Len(f)
      /\ \A i \in DOMAIN f : f[i].timestamp \in Nat
  BY LenProperties DEF InOrder
<1>2. /\ n \in Nat /\ DOMAIN bars = 1..n
      /\ \A k, l \in 1..n : k < l => starts[k] < starts[l]
      /\ \A i \in DOMAIN f : \E k \in 1..n : starts[k] = WindowStart(f[i].timestamp, short)
      /\ \A k \in 1..n : /\ starts[k] \in Nat
                         /\ \E i \in DOMAIN f : starts[k] = WindowStart(f[i].timestamp, short)
  <2>1. DOMAIN bars = 1..n
    OBVIOUS
  <2>2. /\ n \in Nat \ {0}
        /\ \A k, l \in 1..n : k < l => starts[k] < starts[l]
        /\ \A i \in DOMAIN f : \E k \in 1..n : starts[k] = WindowStart(f[i].timestamp, short)
        /\ \A k \in 1..n : /\ starts[k] \in Nat
                           /\ \E i \in DOMAIN f : starts[k] = WindowStart(f[i].timestamp, short)
                           /\ Between(f, starts[k], starts[k] + short) # <<>>
    BY StartsHavePoints
  <2> HIDE DEF n, starts
  <2> QED BY <2>1, <2>2
<1>3. \A k \in 1..n : CandleOf(bars[k], Between(f, starts[k], starts[k] + short), starts[k], short)
  BY <1>2
<1> HIDE DEF starts, n
<1>4. t \in Nat /\ t % short = 0 /\ (t + long) % short = 0
  <2>1. f[j].timestamp \in Nat
    BY <1>1
  <2>2. t \in Nat /\ t % long = 0
    BY <2>1, WindowHolds, StartIsMultiple
  <2>3. (t + long) % long = 0
    BY <2>2, Multiples
  <2>4. t + long \in Nat
    BY <2>2
  <2> QED BY <2>2, <2>3, <2>4, MultipleOfMultiple
<1>5. I = {k \in 1..n : starts[k] >= t /\ starts[k] + short <= t + long}
  <2>1. c.startTime = t /\ c.endTime = t + long
    BY DEF CandleOf
  <2>2. \A k \in 1..n : bars[k].startTime = starts[k] /\ bars[k].endTime = starts[k] + short
    BY <1>3 DEF CandleOf
  <2> QED BY <1>2, <2>1, <2>2 DEF Inside
<1> HIDE DEF I
<1>6. /\ m \in Nat /\ at = [k \in 1..m |-> at[k]]
      /\ \A k \in 1..m : at[k] \in I
      /\ \A k, l \in 1..m : k < l => at[k] < at[l]
      /\ \A i \in I : m # 0 /\ \E k \in 1..m : at[k] = i
  <2>1. I \in SUBSET Int /\ I \in SUBSET (1..n)
    BY <1>5
  <2>2. IsFiniteSet(I)
    <3> DEFINE D == 1..n
    <3>1. IsFiniteSet(D) /\ I \in SUBSET D
      BY <1>2, <2>1, CountTo
    <3> HIDE DEF D
    <3> QED BY <3>1, FS_Subset
  <2> QED BY <2>1, <2>2, AscendingOrder
<1> HIDE DEF at, m
<1>7. \A k \in 1..m : /\ at[k] \in 1..n /\ starts[at[k]] \in Nat
                      /\ t <= starts[at[k]] /\ starts[at[k]] + short <= t + long
  <2>1. ASSUME NEW k \in 1..m
        PROVE  /\ at[k] \in 1..n /\ starts[at[k]] \in Nat
               /\ t <= starts[at[k]] /\ starts[at[k]] + short <= t + long
    <3>1. at[k] \in I
      BY <1>6
    <3>2. at[k] \in 1..n /\ starts[at[k]] >= t /\ starts[at[k]] + short <= t + long
      BY <1>5, <3>1
    <3> QED BY <1>2, <1>4, <3>2
  <2> QED BY <2>1
<1>8. \A k, l \in 1..m : k < l => starts[at[k]] < starts[at[l]]
  BY <1>2, <1>6, <1>7
\* A point of the longer window is in one of the windows inside.
<1>9. ASSUME NEW i \in DOMAIN f, t <= f[i].timestamp, f[i].timestamp < t + long
      PROVE  \E k \in 1..m : starts[at[k]] <= f[i].timestamp /\ f[i].timestamp < starts[at[k]] + short
  <2> DEFINE time == f[i].timestamp
  <2>1. time \in Nat
    BY <1>1
  <2> HIDE DEF time
  <2>2. PICK l \in 1..n : starts[l] = WindowStart(time, short)
    BY <1>2 DEF time
  <2>3. starts[l] \in Nat /\ starts[l] <= time /\ time < starts[l] + short /\ starts[l] % short = 0
    BY <2>1, <2>2, WindowHolds, StartIsMultiple
  <2>4. t <= starts[l]
    <3>1. WindowStart(t, short) = t
      BY <1>4 DEF WindowStart
    <3>2. WindowStart(t, short) <= WindowStart(time, short)
      BY <1>4, <1>9, <2>1, WindowsAscend DEF time
    <3> QED BY <2>2, <3>1, <3>2
  <2>5. starts[l] + short <= t + long
    <3>1. starts[l] < t + long /\ t + long \in Nat
      BY <1>4, <1>9, <2>1, <2>3 DEF time
    <3> DEFINE u == t + long
               d == starts[l]
    <3>2. u \in Nat /\ u % short = 0 /\ d \in Nat /\ d % short = 0 /\ d < u
      BY <1>4, <2>3, <3>1
    <3> HIDE DEF u, d
    <3>3. d + short <= u
      BY <3>2, Multiples
    <3> QED BY <3>3 DEF u, d
  <2>6. l \in I
    BY <1>4, <1>5, <2>3, <2>4, <2>5
  <2>7. PICK k \in 1..m : at[k] = l
    BY <1>6, <2>6
  <2> QED BY <2>3, <2>7 DEF time
<1>10. m \in Nat \ {0}
  <2>1. t <= f[j].timestamp /\ f[j].timestamp < t + long
    BY <1>1, WindowHolds
  <2>2. PICK k \in 1..m : TRUE
    BY <1>9, <2>1
  <2> QED BY <1>6, <2>2
\* The end of the points before the longer window and those of the windows inside.
<1> DEFINE e == [k \in 0..m |-> IF k = 0 THEN Before(f, t) ELSE Before(f, starts[at[k]] + short)]
<1>11. \A k \in 1..m : e[k] = Before(f, starts[at[k]] + short)
  BY <1>10
<1>12. \A k \in 1..m : e[k - 1] = Before(f, starts[at[k]])
  <2>1. ASSUME NEW k \in 1..m
        PROVE  e[k - 1] = Before(f, starts[at[k]])
    <3> DEFINE x == IF k = 1 THEN t ELSE starts[at[k - 1]] + short
               y == starts[at[k]]
    <3>1. e[k - 1] = Before(f, x)
      <4>1. k - 1 \in 0..m /\ (k - 1 = 0 <=> k = 1)
        BY <1>10
      <4> QED BY <4>1
    <3> HIDE DEF e
    <3>2. y \in Nat /\ t <= y /\ y + short <= t + long
      BY <1>7
    <3>3. CASE k = 1
      <4>1. x = t /\ x \in Int /\ y \in Int /\ x <= y
        BY <1>4, <3>2, <3>3
      <4>2. ASSUME NEW i \in DOMAIN f, x <= f[i].timestamp, f[i].timestamp < y
            PROVE  FALSE
        <5>1. f[i].timestamp \in Nat /\ f[i].timestamp < t + long /\ t <= f[i].timestamp
          <6>1. f[i].timestamp \in Nat
            BY <1>1
          <6> HIDE DEF x, y
          <6> QED BY <1>4, <3>2, <4>1, <4>2, <6>1
        <5>2. PICK l \in 1..m : starts[at[l]] <= f[i].timestamp
          BY <1>9, <5>1
        <5>3. l = k \/ k < l
          BY <3>3
        <5>4. y = starts[at[l]] \/ y < starts[at[l]]
          BY <1>8, <5>3
        <5>5. starts[at[l]] \in Nat
          BY <1>7
        <5> QED BY <3>2, <4>2, <5>1, <5>2, <5>4, <5>5
      <4> HIDE DEF x, y
      <4>3. Before(f, x) = Before(f, y)
        BY <4>1, <4>2, NoneBetween
      <4> QED BY <3>1, <4>3 DEF y
    <3>4. CASE k # 1
      <4>1. k - 1 \in 1..m /\ k - 1 < k
        BY <1>10, <3>4
      <4> DEFINE z == starts[at[k - 1]]
      <4>2. x = z + short /\ z \in Nat /\ z < y /\ t <= z
        BY <1>7, <1>8, <3>4, <4>1
      <4>3. x <= y
        <5>1. z % short = 0 /\ y % short = 0
          <6>1. at[k] \in 1..n /\ at[k - 1] \in 1..n
            BY <1>7, <4>1
          <6>2. \A p \in 1..n : starts[p] % short = 0
            <7>1. ASSUME NEW p \in 1..n
                  PROVE  starts[p] % short = 0
              <8>1. PICK i \in DOMAIN f : starts[p] = WindowStart(f[i].timestamp, short)
                BY <1>2
              <8> QED BY <1>1, <8>1, StartIsMultiple
            <7> QED BY <7>1
          <6> QED BY <6>1, <6>2
        <5> HIDE DEF z, y
        <5>2. z + short <= y
          BY <3>2, <4>2, <5>1, Multiples
        <5> QED BY <4>2, <5>2
      <4>4. ASSUME NEW i \in DOMAIN f, x <= f[i].timestamp, f[i].timestamp < y
            PROVE  FALSE
        <5> DEFINE time == f[i].timestamp
        <5>1. time \in Nat /\ time < t + long /\ t <= time /\ z + short <= time /\ time < y
          <6>1. time \in Nat
            BY <1>1
          <6> HIDE DEF x, y, z
          <6>2. x <= time /\ time < y
            BY <4>4
          <6> HIDE DEF time
          <6> QED BY <1>4, <3>2, <4>2, <6>1, <6>2
        <5>2. PICK l \in 1..m : starts[at[l]] <= time /\ time < starts[at[l]] + short
          BY <1>9, <5>1
        <5>3. starts[at[l]] \in Nat
          BY <1>7
        <5>4. z < starts[at[l]] /\ starts[at[l]] < y
          BY <3>2, <4>2, <5>1, <5>2, <5>3
        <5>5. ~(l < k - 1) /\ l # k - 1 /\ l # k /\ ~(k < l)
          <6>1. l < k - 1 => starts[at[l]] < z
            BY <1>8, <4>1
          <6>2. k < l => y < starts[at[l]]
            BY <1>8
          <6> QED BY <3>2, <4>2, <5>3, <5>4, <6>1, <6>2
        <5> QED BY <1>10, <4>1, <5>5
      <4>5. x \in Int /\ y \in Int
        BY <3>2, <4>2
      <4> HIDE DEF x, y
      <4>6. Before(f, x) = Before(f, y)
        BY <4>3, <4>4, <4>5, NoneBetween
      <4> QED BY <3>1, <4>6 DEF y
    <3> QED BY <3>3, <3>4
  <2> QED BY <2>1
<1>13. e[0] = Before(f, t)
  BY <1>10
<1>14. e[m] = Before(f, t + long)
  <2> DEFINE x == starts[at[m]] + short
             y == t + long
  <2>1. m \in 1..m /\ e[m] = Before(f, x)
    BY <1>10, <1>11
  <2> HIDE DEF e
  <2>2. starts[at[m]] \in Nat /\ t <= starts[at[m]] /\ x <= y /\ x \in Int /\ y \in Int
    BY <1>4, <1>7, <2>1
  <2>3. ASSUME NEW i \in DOMAIN f, x <= f[i].timestamp, f[i].timestamp < y
        PROVE  FALSE
    <3>1. f[i].timestamp \in Nat /\ t <= f[i].timestamp
      BY <1>1, <1>4, <2>2, <2>3
    <3>2. PICK l \in 1..m : starts[at[l]] <= f[i].timestamp /\ f[i].timestamp < starts[at[l]] + short
      BY <1>9, <2>3, <3>1
    <3>3. l = m \/ l < m
      BY <1>10
    <3>4. starts[at[l]] <= starts[at[m]] /\ starts[at[l]] \in Nat
      BY <1>7, <1>8, <2>1, <2>2, <3>3
    <3> QED BY <2>2, <2>3, <3>1, <3>2, <3>4
  <2> HIDE DEF x, y
  <2>4. Before(f, x) = Before(f, y)
    BY <2>2, <2>3, NoneBetween
  <2> QED BY <2>1, <2>4 DEF y
<1> HIDE DEF e
<1>15. ASSUME NEW k \in 1..m
       PROVE  e[k - 1] < e[k] /\ e[k - 1] \in 0..Len(f) /\ e[k] \in 0..Len(f)
  <2> DEFINE x == starts[at[k]]
             y == x + short
  <2>1. at[k] \in 1..n /\ x \in Nat /\ x \in Int /\ y \in Int
    BY <1>7
  <2>2. PICK i \in DOMAIN f : x = WindowStart(f[i].timestamp, short)
    BY <1>2, <2>1
  <2>3. f[i].timestamp \in Nat /\ x <= f[i].timestamp /\ f[i].timestamp < y
    BY <1>1, <2>2, WindowHolds
  <2> HIDE DEF x, y
  <2>4. Before(f, x) \in 0..Len(f) /\ \A l \in 1..Len(f) : l <= Before(f, x) <=> f[l].timestamp < x
    BY <2>1, CountedBefore
  <2>5. Before(f, y) \in 0..Len(f) /\ \A l \in 1..Len(f) : l <= Before(f, y) <=> f[l].timestamp < y
    BY <2>1, CountedBefore
  <2>6. e[k - 1] = Before(f, x) /\ e[k] = Before(f, y)
    BY <1>11, <1>12 DEF x, y
  <2>7. ~(i <= e[k - 1]) /\ i <= e[k] /\ e[k - 1] \in 0..Len(f) /\ e[k] \in 0..Len(f)
    BY <1>1, <2>1, <2>3, <2>4, <2>5, <2>6
  <2> QED BY <1>1, <2>7
<1>16. Consecutive(f, e, m)
  <2>1. ASSUME NEW k \in 0..m
        PROVE  e[k] \in 0..Len(f)
    <3>1. CASE k = 0
      <4>1. 1 \in 1..m /\ 1 - 1 = 0
        BY <1>10
      <4> QED BY <1>15, <3>1, <4>1
    <3>2. CASE k # 0
      <4>1. k \in 1..m
        BY <3>2
      <4> QED BY <1>15, <4>1
    <3> QED BY <3>1, <3>2
  <2> QED BY <1>10, <1>15, <2>1 DEF Consecutive
<1> DEFINE within == [k \in 1..m |-> bars[at[k]]]
<1>17. \A k \in 1..m : Shape(within[k]) = Shape(ComputeOHLCV(SubSeq(f, e[k - 1] + 1, e[k])))
  <2>1. ASSUME NEW k \in 1..m
        PROVE  Shape(within[k]) = Shape(ComputeOHLCV(SubSeq(f, e[k - 1] + 1, e[k])))
    <3>1. within[k] = bars[at[k]] /\ at[k] \in 1..n
      BY <1>7
    <3>2. Between(f, starts[at[k]], starts[at[k]] + short) = SubSeq(f, e[k - 1] + 1, e[k])
      BY <1>11, <1>12 DEF Between
    <3> HIDE DEF within
    <3> QED BY <1>3, <3>1, <3>2 DEF CandleOf
  <2> QED BY <2>1
<1>18. Shape(c) = Shape(ComputeOHLCV(SubSeq(f, e[0] + 1, e[m])))
  BY <1>13, <1>14 DEF CandleOf, Between
<1>19. within = [k \in 1..m |-> within[k]]
  OBVIOUS
<1>20. DOMAIN at = 1..m /\ within = [k \in DOMAIN at |-> bars[at[k]]]
  BY <1>6
<1> HIDE DEF within
<1>21. Shape(c) = RolledUp(within)
  <2>1. CandlesOfRuns(within, f, e, m)
    BY <1>17, <1>19 DEF CandlesOfRuns
  <2> QED BY <1>16, <1>18, <2>1, RunsRollUp
<1> QED BY <1>20, <1>21 DEF at, I

\* Points with a time, a price and a volume.
ArePoints(h) ==
  /\ h # <<>>
  /\ \E S : h \in Seq(S) /\ \A p \in S : p.timestamp \in Nat /\ p.price \in Int /\ p.volume \in Int

LEMMA SortedPoints ==
  ASSUME NEW h, ArePoints(h)
  PROVE  LET f == SortByTimestamp(h) IN InOrder(f) /\ Priced(f) /\ f # <<>>
<1> DEFINE f == SortByTimestamp(h)
<1>1. PICK S : h \in Seq(S) /\ \A p \in S : p.timestamp \in Nat /\ p.price \in Int /\ p.volume \in Int
  BY DEF ArePoints
<1>2. \A i \in DOMAIN h : h[i].timestamp \in Nat
  <2>1. \A i \in DOMAIN h : h[i] \in S
    BY <1>1, LenProperties
  <2> QED BY <1>1, <2>1
<1>3. InOrder(f) /\ Len(f) = Len(h) /\ \A k \in DOMAIN f : f[k] \in S
  BY <1>1, <1>2, SortedInOrder
<1> HIDE DEF f
<1>4. Priced(f)
  BY <1>1, <1>3 DEF Priced, InOrder
<1>5. f # <<>>
  <2>1. Len(h) # 0 /\ Len(<<>>) = 0
    BY <1>1, EmptySeq DEF ArePoints
  <2> QED BY <1>3, <2>1
<1> QED BY <1>3, <1>4, <1>5 DEF f

\* The historical candles are those of the windows with a point.
LEMMA HistoricalSay ==
  ASSUME NEW h, ArePoints(h), NEW seconds \in Nat \ {0}, NEW average
  PROVE  LET f == SortByTimestamp(h)
             bars == AllCandles(h, seconds, average)
         IN  /\ DOMAIN bars = 1..Len(StartsOf(f, seconds))
             /\ \A k \in DOMAIN bars :
                  LET start == StartsOf(f, seconds)[k]
                  IN  CandleOf(bars[k], Between(f, start, start + seconds), start, seconds)
<1> DEFINE f == SortByTimestamp(h)
           bars == AllCandles(h, seconds, average)
           starts == StartsOf(f, seconds)
           window(k) == Between(f, starts[k], starts[k] + seconds)
<1>1. AreHistorical(bars, f, starts, seconds, average)
  <2>1. PICK S : h \in Seq(S) /\ \A p \in S : p.timestamp \in Nat /\ p.price \in Int /\ p.volume \in Int
    BY DEF ArePoints
  <2>2. \A i \in DOMAIN h : h[i].timestamp \in Nat
    <3>1. \A i \in DOMAIN h : h[i] \in S
      BY <2>1, LenProperties
    <3> QED BY <2>1, <3>1
  <2> QED BY <2>1, <2>2, AllCandlesAre DEF ArePoints
<1> HIDE DEF f, bars, starts
<1>2. DOMAIN bars = 1..Len(starts)
  BY <1>1 DEF AreHistorical
<1>3. ASSUME NEW k \in DOMAIN bars
      PROVE  CandleOf(bars[k], window(k), starts[k], seconds)
  <2>1. bars[k] = IF k = 1
                  THEN Candle(window(k), starts[k], seconds, average, Zero, Zero)
                  ELSE Candle(window(k), starts[k], seconds, average,
                         CalculateChangePercent(Last(window(k)).price, Last(window(k - 1)).price),
                         CalculateChangePercent(TotalVolume(window(k)), TotalVolume(window(k - 1))))
    BY <1>1, <1>2 DEF AreHistorical
  <2> HIDE DEF window
  <2>2. \E x, y : bars[k] = Candle(window(k), starts[k], seconds, average, x, y)
    BY <2>1
  <2> QED BY <2>2, CandleSays
<1> QED BY <1>2, <1>3 DEF f, bars, starts

\* What an ascending sequence lists, counted.
IsListed(b, n, T) ==
  /\ n \in Nat /\ b = [k \in 1..n |-> b[k]]
  /\ \A k \in 1..n : b[k] \in T
  /\ \A k, l \in 1..n : k < l => b[k] < b[l]
  /\ \A t \in T : \E k \in 1..n : b[k] = t

LEMMA ListedCount ==
  ASSUME NEW T \in SUBSET Int, NEW b, NEW n, IsListed(b, n, T)
  PROVE  /\ IsFiniteSet(T) /\ Cardinality(T) = n
         /\ \A k \in 1..n : Cardinality({u \in T : u < b[k]}) = k - 1
<1>1. /\ n \in Nat /\ b = [k \in 1..n |-> b[k]]
      /\ \A k \in 1..n : b[k] \in T /\ b[k] \in Int
      /\ \A k, l \in 1..n : k < l => b[k] < b[l]
      /\ \A t \in T : \E k \in 1..n : b[k] = t
  BY DEF IsListed
<1>2. \A k, l \in 1..n : b[k] = b[l] => k = l
  <2>1. ASSUME NEW k \in 1..n, NEW l \in 1..n, b[k] = b[l]
        PROVE  k = l
    <3>1. ~(k < l) /\ ~(l < k) /\ k \in Int /\ l \in Int
      BY <1>1, <2>1
    <3> QED BY <3>1
  <2> QED BY <2>1
<1>3. ASSUME NEW m \in 0..n, NEW S, S = {b[k] : k \in 1..m}
      PROVE  IsFiniteSet(S) /\ Cardinality(S) = m
  <2> DEFINE h == [k \in 1..m |-> b[k]]
  <2>1. m \in Nat /\ \A k \in 1..m : k \in 1..n
    BY <1>1
  <2>2. h \in [1..m -> S] /\ \A x \in S : \E k \in 1..m : h[k] = x
    BY <1>3
  <2>3. \A k, l \in 1..m : h[k] = h[l] => k = l
    BY <1>2, <2>1
  <2> HIDE DEF h
  <2>4. h \in Bijection(1..m, S)
    BY <2>2, <2>3 DEF Bijection, Injection, IsInjective, Surjection
  <2>5. IsFiniteSet(1..m) /\ Cardinality(1..m) = m
    BY <2>1, CountTo
  <2>6. ExistsBijection(1..m, S)
    BY <2>4 DEF ExistsBijection
  <2> QED BY <2>5, <2>6, FS_Bijection
<1>4. IsFiniteSet(T) /\ Cardinality(T) = n
  <2>1. T = {b[k] : k \in 1..n} /\ n \in 0..n
    BY <1>1
  <2> QED BY <1>3, <2>1
<1>5. ASSUME NEW k \in 1..n
      PROVE  Cardinality({u \in T : u < b[k]}) = k - 1
  <2> DEFINE S == {u \in T : u < b[k]}
  <2>1. k - 1 \in 0..n /\ \A l \in 1..n : l \in 1..(k - 1) <=> l < k
    BY <1>1
  <2>2. \A l \in 1..n : l < k <=> b[l] < b[k]
    <3>1. ASSUME NEW l \in 1..n
          PROVE  l < k <=> b[l] < b[k]
      <4>1. l \in Int /\ k \in Int /\ b[l] \in Int /\ b[k] \in Int
        BY <1>1
      <4>2. (l < k => b[l] < b[k]) /\ (k < l => b[k] < b[l])
        BY <1>1
      <4> QED BY <4>1, <4>2
    <3> QED BY <3>1
  <2>3. S = {b[l] : l \in 1..(k - 1)}
    <3>1. \A l \in 1..(k - 1) : l \in 1..n
      BY <1>1
    <3> QED BY <1>1, <2>1, <2>2, <3>1
  <2> HIDE DEF S
  <2>4. Cardinality(S) = k - 1
    BY <1>3, <2>1, <2>3
  <2> QED BY <2>4 DEF S
<1> QED BY <1>4, <1>5

\* There is one ascending sequence of some numbers.
LEMMA AscendingIs ==
  ASSUME NEW T \in SUBSET Int, NEW b, NEW n, IsListed(b, n, T)
  PROVE  Ascending(T) = b
<1> DEFINE asc == Ascending(T)
<1>1. /\ IsFiniteSet(T) /\ Cardinality(T) = n
      /\ \A k \in 1..n : Cardinality({u \in T : u < b[k]}) = k - 1
  BY ListedCount
<1>2. /\ asc = [k \in 1..n |-> asc[k]]
      /\ \A k \in 1..n : asc[k] \in T /\ Cardinality({u \in T : u < asc[k]}) = k - 1
  BY <1>1, AscendingOrder
<1> HIDE DEF asc
<1>3. ASSUME NEW k \in 1..n
      PROVE  asc[k] = b[k]
  <2>1. PICK l \in 1..n : b[l] = asc[k]
    BY <1>2 DEF IsListed
  <2>2. Cardinality({u \in T : u < asc[k]}) = l - 1
    BY <1>1, <2>1
  <2>3. k - 1 = l - 1 /\ k \in Int /\ l \in Int
    BY <1>2, <2>2
  <2>4. k = l
    BY <2>3
  <2> QED BY <2>1, <2>4
<1>4. b = [k \in 1..n |-> b[k]]
  BY DEF IsListed
<1> QED BY <1>2, <1>3, <1>4 DEF asc

\* Some places of a list: their candles, and these in the order of the list.
Those(bars, places) == {bars[i] : i \in places}
InListOrder(bars, places) ==
  LET at == Ascending(places) IN [k \in DOMAIN at |-> bars[at[k]]]

\* Some candles of a list in the order of time are in the order of the list.
LEMMA InTimeOfSome ==
  ASSUME NEW bars, NEW n \in Nat, DOMAIN bars = 1..n,
         \A k \in 1..n : bars[k].startTime \in Nat,
         \A k, l \in 1..n : k < l => bars[k].startTime < bars[l].startTime,
         NEW I \in SUBSET (1..n)
  PROVE  InTime(Those(bars, I)) = InListOrder(bars, I)
<1> DEFINE rows == {bars[i] : i \in I}
           T == {r.startTime : r \in rows}
           at == Ascending(I)
           m == Cardinality(I)
           b == [k \in 1..m |-> bars[at[k]].startTime]
<1>1. IsFiniteSet(I) /\ I \in SUBSET Int
  <2>1. IsFiniteSet(1..n)
    BY CountTo
  <2> QED BY <2>1, FS_Subset
<1>2. /\ m \in Nat /\ at = [k \in 1..m |-> at[k]]
      /\ \A k \in 1..m : at[k] \in I
      /\ \A k, l \in 1..m : k < l => at[k] < at[l]
      /\ \A i \in I : \E k \in 1..m : at[k] = i
  BY <1>1, AscendingOrder
<1> HIDE DEF at, m
<1>3. \A k \in 1..m : at[k] \in 1..n
  BY <1>2
<1>4. T = {bars[i].startTime : i \in I} /\ T \in SUBSET Int
  OBVIOUS
<1>5. IsListed(b, m, T)
  <2>1. b = [k \in 1..m |-> b[k]] /\ \A k \in 1..m : b[k] = bars[at[k]].startTime
    OBVIOUS
  <2> HIDE DEF b
  <2>2. \A k \in 1..m : b[k] \in T
    BY <1>2, <1>4, <2>1
  <2>3. \A k, l \in 1..m : k < l => b[k] < b[l]
    BY <1>2, <1>3, <2>1
  <2>4. \A t \in T : \E k \in 1..m : b[k] = t
    <3>1. ASSUME NEW t \in T
          PROVE  \E k \in 1..m : b[k] = t
      <4>1. PICK i \in I : t = bars[i].startTime
        BY <1>4
      <4>2. PICK k \in 1..m : at[k] = i
        BY <1>2
      <4> QED BY <2>1, <4>1, <4>2
    <3> QED BY <3>1
  <2> HIDE DEF T
  <2> QED BY <1>2, <2>1, <2>2, <2>3, <2>4 DEF IsListed
<1>6. Ascending(T) = b
  <2> HIDE DEF T, b
  <2> QED BY <1>4, <1>5, AscendingIs
<1>7. InTime(rows) = [k \in 1..m |-> CHOOSE r \in rows : r.startTime = bars[at[k]].startTime]
  <2>1. InTime(rows) = [k \in DOMAIN Ascending(T) |->
                         CHOOSE r \in rows : r.startTime = Ascending(T)[k]]
    BY DEF InTime
  <2>2. DOMAIN b = 1..m /\ \A k \in 1..m : b[k] = bars[at[k]].startTime
    OBVIOUS
  <2> HIDE DEF T, b, rows
  <2> QED BY <1>6, <2>1, <2>2
<1>8. ASSUME NEW k \in 1..m
      PROVE  (CHOOSE r \in rows : r.startTime = bars[at[k]].startTime) = bars[at[k]]
  <2> DEFINE r == bars[at[k]]
  <2>1. r \in rows
    BY <1>2
  <2>2. \A t \in rows : t.startTime = r.startTime => t = r
    <3>1. ASSUME NEW i \in I, bars[i].startTime = bars[at[k]].startTime
          PROVE  i = at[k]
      <4>1. i \in 1..n /\ at[k] \in 1..n /\ bars[i].startTime \in Nat
        BY <1>3
      <4>2. ~(i < at[k]) /\ ~(at[k] < i)
        BY <3>1, <4>1
      <4> QED BY <4>1, <4>2
    <3> QED BY <3>1
  <2> HIDE DEF rows, r
  <2>3. (CHOOSE t \in rows : t.startTime = r.startTime) = r
    BY <2>1, <2>2
  <2> QED BY <2>3 DEF r
<1>9. DOMAIN at = 1..m
  BY <1>2
<1> HIDE DEF rows
<1>10. InTime(rows) = [k \in DOMAIN at |-> bars[at[k]]]
  BY <1>7, <1>8, <1>9
<1> QED BY <1>10 DEF rows, at, Those, InListOrder

\* The candles of a history as rows.
RowsOf(s, all) == [k \in DOMAIN all |-> CandleRow(s, all[k])]

\* A row of a longer window is the candle of the rows of the shorter one inside it.
LEMMA HistoryRollsUp ==
  ASSUME NEW h, ArePoints(h), NEW short \in Nat \ {0}, NEW long \in Nat \ {0}, long % short = 0,
         NEW average, NEW other, NEW s, NEW c \in ToSet(AllCandles(h, long, other))
  PROVE  LET bars == RowsOf(s, AllCandles(h, short, average))
             row == CandleRow(s, c)
         IN  Shape(row) = RolledUp(InTime({bars[i] : i \in Inside(bars, row)}))
<1> DEFINE f == SortByTimestamp(h)
           candles0 == AllCandles(h, short, average)
           bars == RowsOf(s, candles0)
           all == AllCandles(h, long, other)
           row == CandleRow(s, c)
           starts == StartsOf(f, short)
           n == Len(starts)
<1>1. InOrder(f) /\ Priced(f) /\ f # <<>>
  BY SortedPoints
<1>2. /\ DOMAIN candles0 = 1..n
      /\ \A k \in DOMAIN candles0 :
           CandleOf(candles0[k], Between(f, starts[k], starts[k] + short), starts[k], short)
  BY HistoricalSay
<1>3. /\ DOMAIN all = 1..Len(StartsOf(f, long))
      /\ \A k \in DOMAIN all :
           LET start == StartsOf(f, long)[k]
           IN  CandleOf(all[k], Between(f, start, start + long), start, long)
  BY HistoricalSay
<1> HIDE DEF f, candles0, all
<1>4. \A k \in 1..Len(StartsOf(f, long)) :
        \E j \in DOMAIN f : StartsOf(f, long)[k] = WindowStart(f[j].timestamp, long)
  <2> DEFINE starts1 == StartsOf(f, long)
             n1 == Len(starts1)
  <2>1. /\ n1 \in Nat \ {0} /\ starts1 = [k \in 1..n1 |-> starts1[k]]
        /\ \A k \in 1..n1 : /\ starts1[k] \in Nat
                            /\ \E j \in DOMAIN f : starts1[k] = WindowStart(f[j].timestamp, long)
                            /\ Between(f, starts1[k], starts1[k] + long) # <<>>
    BY <1>1, StartsHavePoints
  <2> HIDE DEF n1, starts1
  <2>2. \A k \in 1..n1 : \E j \in DOMAIN f : starts1[k] = WindowStart(f[j].timestamp, long)
    BY <2>1
  <2> QED BY <2>2 DEF n1, starts1
<1>5. n \in Nat /\ \A k, l \in 1..n : k < l => starts[k] < starts[l]
  BY <1>1, StartsHavePoints
<1>6. \A k \in 1..n : starts[k] \in Nat
  BY <1>1, StartsHavePoints
<1> HIDE DEF n, starts
<1>7. /\ DOMAIN bars = 1..n
      /\ \A k \in DOMAIN bars :
           CandleOf(bars[k], Between(f, starts[k], starts[k] + short), starts[k], short)
  BY <1>2 DEF RowsOf, CandleRow, CandleOf, Shape
<1> HIDE DEF bars
<1>8. \A k \in 1..n : bars[k].startTime = starts[k]
  BY <1>7 DEF CandleOf
<1>9. Inside(bars, row) \in SUBSET (1..n)
  BY <1>7 DEF Inside
<1> DEFINE at == Ascending(Inside(bars, row))
<1>10. InTime({bars[i] : i \in Inside(bars, row)}) = [k \in DOMAIN at |-> bars[at[k]]]
  <2>1. DOMAIN bars = 1..n /\ (\A k \in 1..n : bars[k].startTime \in Nat)
    BY <1>6, <1>7, <1>8
  <2>2. \A k, l \in 1..n : k < l => bars[k].startTime < bars[l].startTime
    BY <1>5, <1>8
  <2> DEFINE I == Inside(bars, row)
  <2>3. I \in SUBSET (1..n)
    BY <1>9
  <2> HIDE DEF I
  <2>4. InTime(Those(bars, I)) = InListOrder(bars, I)
    BY <1>5, <2>1, <2>2, <2>3, InTimeOfSome
  <2> QED BY <2>4 DEF I, Those, InListOrder
<1>11. Shape(row) = RolledUp([k \in DOMAIN at |-> bars[at[k]]])
  <2>1. PICK k \in DOMAIN all : c = all[k]
    BY DEF ToSet, all
  <2> DEFINE t == StartsOf(f, long)[k]
  <2>2. CandleOf(row, Between(f, t, t + long), t, long)
    BY <1>3, <2>1 DEF CandleRow, CandleOf, Shape
  <2>3. PICK j \in DOMAIN f : t = WindowStart(f[j].timestamp, long)
    BY <1>3, <1>4, <2>1
  <2> HIDE DEF t, row, at
  <2>4. /\ DOMAIN bars = 1..Len(StartsOf(f, short))
        /\ \A k1 \in DOMAIN bars :
             LET start == StartsOf(f, short)[k1]
             IN  CandleOf(bars[k1], Between(f, start, start + short), start, short)
    BY <1>7 DEF n, starts
  <2> QED BY <1>1, <2>2, <2>3, <2>4, LongerRollsUp DEF at
<1> HIDE DEF at, row
<1> QED BY <1>10, <1>11 DEF bars, row, candles0

\* The histories hold points of the feed.
LEMMA HistoriesArePoints ==
  ASSUME IInv, CandleInv, NEW s \in Nonempty(buffers)
  PROVE  ArePoints(buffers[s])
<1> DEFINE h == buffers[s]
           P == ToSet(feed[s])
<1>1. s \in Symbol /\ h # <<>> /\ feed \in Feeds /\ h \in Seq(P)
  BY DEF Nonempty, IInv, Types, CandleInv, History
<1>2. \A p \in P : p.timestamp \in Nat /\ p.price \in Int /\ p.volume \in Int
  BY <1>1, FeedFacts, FeedAssumption DEF ToSet
<1> HIDE DEF h, P
<1> QED BY <1>1, <1>2 DEF ArePoints, h

------------------------------------------------------------------------------

\* Between two updates the table of prices holds every point the program received and
\* that has not expired, except those of batches the database refused, and nothing
\* else, whatever saves and cleanups fail and however often a source sends a batch
\* again (SaveStockPricesBulk, CleanupOldData, performInitialLoad).
THEOREM PointsAreStored == Spec => []EveryPointStored
<1>1. IInv => EveryPointStored
  <2>1. SUFFICES ASSUME IInv, stage = "idle"
                 PROVE  /\ {r \in AllReceived : r.timestamp >= now - Retention} \ lost \subseteq stockPrices
                        /\ stockPrices \subseteq AllReceived \ lost
    <3>1. Types => Rows([s \in Symbol |-> Received(s)]) = AllReceived
      BY ReceivedRows
    <3> QED BY <3>1 DEF EveryPointStored, IInv
  <2> QED BY <2>1 DEF IInv, Stored
<1> QED BY <1>1, InitInv, StepInv, PTL DEF Spec

\* Rows of one key are of one bar.
LEMMA PricesByKey ==
  ASSUME IInv, NEW r \in stockPrices, NEW t \in stockPrices, SameKey(r, t)
  PROVE  r = t
<1>1. r \in AllReceived /\ t \in AllReceived
  BY DEF IInv, LoadIsComplete, Stored
<1>2. PICK s \in Symbol : \E i \in DOMAIN feed[s] : r = Row(s, feed[s][i])
  BY <1>1 DEF AllReceived, Bars, Times
<1>3. PICK i \in DOMAIN feed[s] : r = Row(s, feed[s][i])
  BY <1>2
<1>4. PICK u \in Symbol : \E j \in DOMAIN feed[u] : t = Row(u, feed[u][j])
  BY <1>1 DEF AllReceived, Bars, Times
<1>5. PICK j \in DOMAIN feed[u] : t = Row(u, feed[u][j])
  BY <1>4
<1>6. s = u /\ feed[s][i].timestamp = feed[s][j].timestamp
  BY <1>3, <1>5 DEF SameKey, Row
<1>7. /\ i \in Nat /\ j \in Nat /\ i \in DOMAIN feed[s] /\ j \in DOMAIN feed[s]
      /\ feed[s][i].timestamp \in Nat
      /\ i < j => feed[s][i].timestamp < feed[s][j].timestamp
      /\ j < i => feed[s][j].timestamp < feed[s][i].timestamp
  BY <1>3, <1>5, <1>6, FeedFacts DEF IInv, Types
<1>8. i = j
  BY <1>6, <1>7
<1> QED BY <1>3, <1>5, <1>6, <1>8

\* The table of prices never holds two rows of one symbol and time, so the primary key
\* refuses a batch only when it repeats what is stored.
THEOREM PricesHaveOneRow == Spec => [](\A r, t \in stockPrices : SameKey(r, t) => r = t)
<1>1. IInv => \A r, t \in stockPrices : SameKey(r, t) => r = t
  BY PricesByKey
<1> QED BY <1>1, InitInv, StepInv, PTL DEF Spec

\* A row of prices or candles is never rewritten and leaves only when all of it is older
\* than the retention, or with the process.
THEOREM RowsLeaveByAge == Spec => RowsOnlyExpire
<1> DEFINE Leave == \/ stage' = "fetch"
                    \/ /\ \A r \in stockPrices \ stockPrices' : r.timestamp < now - Retention
                       /\ \A w \in Window : \A r \in aggregations[w] \ aggregations'[w] :
                            r.endTime < now - Retention
<1>1. IInv /\ [Next]_vars => [Leave]_vars
  <2>1. SUFFICES ASSUME IInv, Next
                 PROVE  Leave
    OBVIOUS
  <2>2. DOMAIN aggregations = Window
    BY <2>1 DEF IInv, Types
  <2>3. ASSUME stockPrices \subseteq stockPrices',
               aggregations' = aggregations \/ \E w, rows, fails : SaveAggregations(w, rows, fails)
        PROVE  Leave
    <3>1. \A w \in Window : aggregations[w] \subseteq aggregations'[w]
      BY <2>2, <2>3 DEF SaveAggregations
    <3> QED BY <2>3, <3>1
  <2>4. ASSUME NEW failing, SavePrices(failing)
        PROVE  stockPrices \subseteq stockPrices'
    BY <2>4 DEF SavePrices, SaveStockPricesBulk
  <2>5. ASSUME NEW failing, BroadcastAndClean(failing)
        PROVE  Leave
    <3>1. CleanupOldData(now, failing)
      BY <2>5 DEF BroadcastAndClean
    <3> QED BY <3>1, CleanupKeeps
  <2>6. CASE Restart
    BY <2>6 DEF Restart
  <2>7. ASSUME NEW failing, InitialWindow(failing) \/ UpdateWindow(failing)
        PROVE  Leave
    <3>1. /\ stockPrices' = stockPrices
          /\ \E w, rows, fails : SaveAggregations(w, rows, fails)
      BY <2>7 DEF InitialWindow, UpdateWindow
    <3> QED BY <2>3, <3>1
  <2>8. ASSUME NEW failing, FinishInitialLoad(failing)
        PROVE  Leave
    BY <2>3, <2>4, <2>8 DEF FinishInitialLoad
  <2>9. ASSUME NEW symbols, NEW restarted, NEW failing, Receive(symbols, restarted, failing)
        PROVE  Leave
    BY <2>3, <2>4, <2>9 DEF Receive
  <2>10. ASSUME UNCHANGED tables
         PROVE  Leave
    BY <2>3, <2>10 DEF tables
  <2>11. CASE Tick \/ Serve \/ HubReplacesState \/ \E answered : FetchInitialData(answered)
    BY <2>10, <2>11 DEF Tick, Serve, HubReplacesState, FetchInitialData
  <2> QED BY <2>1, <2>5, <2>6, <2>7, <2>8, <2>9, <2>11 DEF Next
<1> QED BY <1>1, InitInv, StepInv, PTL DEF Spec, RowsOnlyExpire

\* What the tables and the channel hold, main's position and the clock have their types, a
\* source remembers no later point than it sent, no history exceeds its ring buffer, and
\* no table holds two rows of one key (RingBuffer, the tables' primary keys).
THEOREM TypeCorrect == Spec => []TypeOK
<1>1. IInv /\ CandleInv => TypeOK
  <2>1. SUFFICES ASSUME IInv, CandleInv
                 PROVE  TypeOK
    OBVIOUS
  <2>2. \A r, t \in stockPrices : SameKey(r, t) => r = t
    BY <2>1, PricesByKey
  <2>3. \A w \in Window : \A r, t \in aggregations[w] : SameCandleKey(r, t) => r = t
    BY <2>1 DEF CandleInv, CandleRows
  <2>4. IsSuffix(windowsLeft, WindowsAgg)
    BY <2>1, LeftIsSuffix DEF CandleInv
  <2>5. now \in Nat /\ fetched \in [Symbol -> 0..now] /\ \A s \in Symbol : remembered[s] \in 0..fetched[s]
    BY <2>1 DEF IInv, Types
  <2>6. \A s \in Symbol : remembered[s] <= fetched[s]
    BY <2>5
  <2>7. /\ now \in 1..MaxTime /\ Len(broadcast) <= BroadcastCap /\ faults \in 0..MaxFaults
        /\ stage \in {"fetch", "initial", "idle", "update", "broadcast"}
        /\ DOMAIN batch \subseteq Symbol
        /\ \A s \in Symbol : Len(buffers[s]) <= MaxPoints
    BY <2>1 DEF CandleInv, Control, BatchIsNewest, History
  <2> QED BY <2>2, <2>3, <2>4, <2>5, <2>6, <2>7 DEF TypeOK
<1> QED BY <1>1, InitInv, StepInv, InitCandles, StepCandles, PTL DEF Spec

\* A stored candle is the candle of consecutive points of its window, in the test program
\* from the first one on while the ring buffer can hold a window
\* (SaveAggregations, AggregateHistorical, AggregateRealTime).
THEOREM CandlesAreRuns == Spec => []StoredCandleIsRun
<1>1. IInv /\ CandleInv => StoredCandleIsRun
  <2>1. SUFFICES ASSUME IInv, CandleInv, ~resent, NEW w \in Window, NEW row \in aggregations[w]
                 PROVE  LET points == Between(Received(row.symbol), row.startTime, row.endTime) IN
                        \E i, j \in DOMAIN points :
                          /\ i <= j
                          /\ Shape(row) = Shape(ComputeOHLCV(SubSeq(points, i, j)))
                          /\ program = "test" /\ WindowSeconds[w] <= MaxPoints => i = 1
    BY DEF StoredCandleIsRun
  <2>2. feed \in Feeds /\ now \in Nat /\ fetched \in [Symbol -> 0..now] /\ History
    BY <2>1 DEF IInv, Types, CandleInv
  <2>3. /\ w \in Parsed /\ row.symbol \in Symbol
        /\ row.startTime \in Nat /\ row.endTime = row.startTime + WindowSeconds[w]
        /\ RunOf(w, row)
    BY <2>1 DEF CandleInv, CandleRows, GoodRow
  <2> QED BY <2>2, <2>3, RunWasReceived
<1> QED BY <1>1, InitInv, StepInv, InitCandles, StepCandles, PTL DEF Spec

\* At rest the test program serves, for every symbol of a window that fits the ring buffer,
\* the whole candle of the window its newest point is in, in whatever order the hub and
\* the main loop wrote the state (core_processing.go:58, hub.go:85).
THEOREM ServedIsCurrent == Spec => []ServedCandleCurrent
<1>1. CandleInv => ServedCandleCurrent
  <2>1. SUFFICES ASSUME CandleInv, stage = "idle", broadcast = <<>>, ~resent, program = "test",
                        NEW w \in Parsed, WindowSeconds[w] <= MaxPoints
                 PROVE  /\ DOMAIN batch \subseteq DOMAIN latestState.aggregations[w]
                        /\ \A s \in DOMAIN latestState.aggregations[w] :
                             LET c == latestState.aggregations[w][s] IN
                             /\ c.startTime <= fetched[s] /\ fetched[s] < c.endTime
                             /\ Shape(c) = Shape(ComputeOHLCV(
                                              Between(Received(s), c.startTime, c.endTime)))
    BY DEF ServedCandleCurrent
  <2>2. Shown = latestState
    BY <2>1 DEF Shown
  <2>3. /\ DOMAIN batch \subseteq DOMAIN latestState.aggregations[w]
        /\ \A s \in DOMAIN latestState.aggregations[w] : Whole(s, latestState.aggregations[w][s])
    BY <2>1, <2>2 DEF CandleInv, ServedCurrent
  <2> QED BY <2>3 DEF Whole, IsCurrent
<1> QED BY <1>1, InitInv, StepInv, InitCandles, StepCandles, PTL DEF Spec

\* Until a save fails, every window that an update is done with has a row for the current
\* candle of one of its symbols at least (AggregateRealTime, SaveAggregations).
THEOREM UpdatesLeaveCandles == Spec => []UpdateLeavesACandle
<1>1. CandleInv => UpdateLeavesACandle
  BY DEF CandleInv
<1> QED BY <1>1, InitInv, StepInv, InitCandles, StepCandles, PTL DEF Spec

\* Resampling the times of any history, repetitions included, puts each of them into
\* exactly the groups whose window has it, and into one at least (ResampleIndices).
THEOREM ResamplingPartitions == Spec => []ResamplePartitions
<1>1. IInv /\ CandleInv => ResamplePartitions
  <2>1. SUFFICES ASSUME IInv, CandleInv, NEW s \in Nonempty(buffers), NEW w \in Parsed
                 PROVE  IsPartition([i \in DOMAIN buffers[s] |-> buffers[s][i].timestamp],
                                    WindowSeconds[w])
    BY DEF ResamplePartitions, IsPartition
  <2>2. s \in Symbol /\ buffers[s] # <<>> /\ feed \in Feeds /\ buffers[s] \in Seq(ToSet(feed[s]))
    BY <2>1 DEF Nonempty, IInv, Types, CandleInv, History
  <2>3. \A p \in ToSet(feed[s]) : p.timestamp \in Nat
    BY <2>2, FeedFacts DEF ToSet
  <2> DEFINE h == buffers[s]
             times == [i \in DOMAIN h |-> h[i].timestamp]
  <2>4. /\ Len(h) \in Nat /\ DOMAIN h = 1..Len(h) /\ Len(h) # 0
        /\ \A i \in DOMAIN h : h[i] \in ToSet(feed[s])
    <3> DEFINE P == ToSet(feed[s])
    <3>1. h \in Seq(P) /\ h # <<>>
      BY <2>2
    <3> HIDE DEF h, P
    <3>2. Len(h) \in Nat /\ DOMAIN h = 1..Len(h) /\ h \in [1..Len(h) -> P]
      BY <3>1, LenProperties
    <3>3. Len(h) # 0
      BY <3>1, EmptySeq
    <3> QED BY <3>2, <3>3 DEF P
  <2> HIDE DEF h
  <2>5. times \in Seq(Nat) /\ times # <<>>
    <3>1. times \in [1..Len(h) -> Nat]
      BY <2>3, <2>4
    <3>2. times \in Seq(Nat)
      BY <2>4, <3>1, SeqDef
    <3>3. 1 \in DOMAIN times
      BY <2>4
    <3>4. DOMAIN <<>> = {}
      BY EmptyFacts
    <3> QED BY <3>2, <3>3, <3>4
  <2>6. WindowSeconds[w] \in Nat \ {0}
    BY WindowAssumption DEF Parsed
  <2> HIDE DEF times
  <2>7. IsPartition(times, WindowSeconds[w])
    BY <2>5, <2>6, GroupsPartition
  <2> QED BY <2>7 DEF times, h
<1> QED BY <1>1, InitInv, StepInv, InitCandles, StepCandles, PTL DEF Spec

\* The three analyses of one history agree: the real-time candle is the last historical
\* one but for the changes, which are the same when the window just before has points
\* and otherwise those from the open; a historical candle is compared to the one before
\* it, however old; and the statistics count the historical candles and average their
\* volumes (AggregateRealTime, AggregateHistorical, CalculateStatsForWindows).
THEOREM AnalysesAlwaysAgree == Spec => []AnalysesAgree
<1>1. IInv /\ CandleInv => AnalysesAgree
  <2>1. SUFFICES ASSUME IInv, CandleInv, NEW w \in Parsed, NEW s \in Nonempty(buffers)
                 PROVE  Agree(AggregateRealTime(buffers, w, stats[w])[s],
                              AggregateHistorical(buffers, w, stats[w])[s],
                              CalculateStatsForWindow(buffers, w)[s])
    BY DEF AnalysesAgree, Agree, LatestChanges, Adjacent
  <2> DEFINE h == buffers[s]
  <2>2. ArePoints(h)
    BY <2>1, HistoriesArePoints
  <2>3. WindowSeconds[w] \in Nat \ {0} /\ w \in DOMAIN WindowSeconds
    BY WindowAssumption DEF Parsed
  <2>4. /\ AggregateRealTime(buffers, w, stats[w])[s] =
             LatestCandle(h, WindowSeconds[w], AverageVolume(stats[w], s))
        /\ AggregateHistorical(buffers, w, stats[w])[s] =
             AllCandles(h, WindowSeconds[w], AverageVolume(stats[w], s))
        /\ CalculateStatsForWindow(buffers, w)[s] = WindowStats(h, WindowSeconds[w])
    BY <2>1, <2>3 DEF AggregateRealTime, AggregateHistorical, CalculateStatsForWindow
  <2> HIDE DEF h
  <2> QED BY <2>2, <2>3, <2>4, AnalysesMeet DEF ArePoints
<1> QED BY <1>1, InitInv, StepInv, InitCandles, StepCandles, PTL DEF Spec

------------------------------------------------------------------------------
(* The rows of the initial load. *)

\* What the load saves for a window.
LoadedRows(w) ==
  LET all == AggregateHistorical(batch, w, CalculateStatsForWindow(batch, w))
  IN  UNION {{CandleRow(s, c) : c \in ToSet(all[s])} : s \in DOMAIN all}

\* Until it is over a table has these rows or none.
Loaded ==
  stage \in {"fetch", "initial"} => \A w \in Window :
    aggregations[w] = {} \/ (stage = "initial" /\ aggregations[w] = LoadedRows(w))

LEMMA InitLoaded == Init => Loaded
BY DEF Init, Loaded, Recreated

LEMMA StepLoaded == Types /\ Loaded /\ [Next]_vars => Loaded'
<1>1. SUFFICES ASSUME Types, Loaded, [Next]_vars, stage' \in {"fetch", "initial"}, NEW v \in Window
               PROVE  aggregations'[v] = {}
                        \/ (stage' = "initial" /\ aggregations'[v] = LoadedRows(v)')
  BY DEF Loaded
<1>2. ASSUME UNCHANGED <<stage, batch, aggregations>>
      PROVE  aggregations'[v] = {}
               \/ (stage' = "initial" /\ aggregations'[v] = LoadedRows(v)')
  BY <1>1, <1>2 DEF Loaded, LoadedRows
<1>3. ASSUME NEW answered, FetchInitialData(answered)
      PROVE  aggregations'[v] = {}
  BY <1>1, <1>3 DEF Loaded, FetchInitialData, tables
<1>4. ASSUME NEW failing, InitialWindow(failing)
      PROVE  aggregations'[v] = {}
               \/ (stage' = "initial" /\ aggregations'[v] = LoadedRows(v)')
  <2> DEFINE w == Head(windowsLeft)
  <2>1. /\ stage = "initial" /\ UNCHANGED <<stage, batch>>
        /\ SaveAggregations(w, LoadedRows(w), "candles" \in failing)
    BY <1>4 DEF InitialWindow, LoadedRows
  <2>2. aggregations'[v] = aggregations[v] \/ (v = w /\ aggregations'[v] = aggregations[v] \union LoadedRows(v))
    <3>1. DOMAIN aggregations = Window
      BY <1>1 DEF Types
    <3> HIDE DEF w
    <3> QED BY <2>1, <3>1 DEF SaveAggregations
  <2>3. LoadedRows(v)' = LoadedRows(v)
    BY <2>1 DEF LoadedRows
  <2>4. aggregations[v] = {} \/ aggregations[v] = LoadedRows(v)
    BY <1>1, <2>1 DEF Loaded
  <2> HIDE DEF w
  <2> QED BY <2>1, <2>2, <2>3, <2>4
<1>5. CASE Restart
  BY <1>5 DEF Restart, Recreated
<1>6. CASE Tick \/ HubReplacesState \/ UNCHANGED vars
  BY <1>2, <1>6 DEF Tick, HubReplacesState, vars, work, tables
<1>7. stage' = "update" \/ stage' = "idle" \/ stage' = "broadcast" => FALSE
  BY <1>1
<1>8. ASSUME NEW failing, FinishInitialLoad(failing)
      PROVE  FALSE
  BY <1>7, <1>8 DEF FinishInitialLoad
<1>9. ASSUME NEW symbols, NEW restarted, NEW failing, Receive(symbols, restarted, failing)
      PROVE  FALSE
  BY <1>7, <1>9 DEF Receive
<1>10. ASSUME NEW failing, UpdateWindow(failing)
       PROVE  FALSE
  BY <1>7, <1>10 DEF UpdateWindow
<1>11. CASE Serve
  BY <1>7, <1>11 DEF Serve
<1>12. ASSUME NEW failing, BroadcastAndClean(failing)
       PROVE  FALSE
  BY <1>7, <1>12 DEF BroadcastAndClean
<1> QED BY <1>1, <1>3, <1>4, <1>5, <1>6, <1>8, <1>9, <1>10, <1>11, <1>12 DEF Next

\* What is loaded are points of the feed.
LEMMA BatchesArePoints ==
  ASSUME IInv, CandleInv, NEW s \in Nonempty(batch)
  PROVE  ArePoints(batch[s])
<1> DEFINE h == batch[s]
           P == ToSet(feed[s])
           n == Newest(s)
<1>1. s \in Symbol /\ h # <<>> /\ feed \in Feeds /\ s \in DOMAIN batch
  BY DEF Nonempty, IInv, Types, CandleInv, BatchIsNewest
<1>2. \A p \in P : p.timestamp \in Nat /\ p.price \in Int /\ p.volume \in Int
  BY <1>1, FeedFacts, FeedAssumption DEF ToSet
<1>3. PICK a \in 0..(n - 1) : h = SubSeq(feed[s], a + 1, n)
  BY <1>1 DEF CandleInv, BatchIsNewest
<1>4. n \in 0..Len(feed[s]) /\ Len(feed[s]) \in Nat /\ feed[s] \in Seq(P)
  <2>1. Rising(feed[s]) /\ Len(feed[s]) \in Nat /\ Newest(s) \in 0..Len(feed[s])
    BY <1>1, NewestFacts DEF IInv, Types, CandleInv
  <2> QED BY <2>1 DEF Rising
<1> HIDE DEF h, P, n
<1>5. h \in Seq(P)
  <2> DEFINE m == a + 1
  <2>1. m \in Int /\ n \in Int /\ \A i \in m..n : i \in 1..Len(feed[s])
    BY <1>3, <1>4
  <2>2. \A i \in 1..Len(feed[s]) : feed[s][i] \in P
    BY <1>4, ElementOfSeq
  <2>3. h = SubSeq(feed[s], m, n)
    BY <1>3
  <2> HIDE DEF m
  <2>4. \A i \in m..n : feed[s][i] \in P
    BY <2>1, <2>2
  <2> QED BY <2>1, <2>3, <2>4, SubSeqProperties
<1> QED BY <1>1, <1>2, <1>5 DEF ArePoints, h

\* In the rows the initial load leaves, a candle of a window that is a multiple of a
\* shorter one is the candle of the shorter ones inside it, for any feed and whatever
\* saves fail: the first open, the highest high, the lowest low, the last close and the
\* sum of the volumes (performInitialLoad, AggregateHistorical, SaveAggregations).
THEOREM CandlesRollUp == Spec => []LoadedCandlesRollUp
<1>1. IInv /\ CandleInv /\ Loaded => LoadedCandlesRollUp
  <2>1. SUFFICES ASSUME IInv, CandleInv, Loaded, stage = "initial",
                        NEW w \in Parsed, NEW v \in Parsed,
                        aggregations[w] # {}, WindowSeconds[v] % WindowSeconds[w] = 0,
                        NEW row \in aggregations[v]
                 PROVE  Shape(row) = RolledUp(InTime({bar \in aggregations[w] :
                                                        /\ bar.symbol = row.symbol
                                                        /\ bar.startTime >= row.startTime
                                                        /\ bar.endTime <= row.endTime}))
    BY DEF LoadedCandlesRollUp
  <2>2. /\ WindowSeconds[w] \in Nat \ {0} /\ w \in DOMAIN WindowSeconds /\ w \in Window
        /\ WindowSeconds[v] \in Nat \ {0} /\ v \in DOMAIN WindowSeconds /\ v \in Window
    BY WindowAssumption, PipelineAssumption DEF Parsed
  <2>3. aggregations[w] = LoadedRows(w) /\ aggregations[v] = LoadedRows(v)
    BY <2>1, <2>2 DEF Loaded
  <2> DEFINE short(s) == AllCandles(batch[s], WindowSeconds[w],
                                    AverageVolume(CalculateStatsForWindow(batch, w), s))
             long(s) == AllCandles(batch[s], WindowSeconds[v],
                                   AverageVolume(CalculateStatsForWindow(batch, v), s))
  <2>4. /\ LoadedRows(w) = UNION {{CandleRow(s, c) : c \in ToSet(short(s))} : s \in Nonempty(batch)}
        /\ LoadedRows(v) = UNION {{CandleRow(s, c) : c \in ToSet(long(s))} : s \in Nonempty(batch)}
    BY <2>2 DEF LoadedRows, AggregateHistorical
  <2>5. PICK s \in Nonempty(batch) : \E c \in ToSet(long(s)) : row = CandleRow(s, c)
    <3> HIDE DEF short, long
    <3> QED BY <2>1, <2>3, <2>4
  <2>6. PICK c \in ToSet(long(s)) : row = CandleRow(s, c)
    BY <2>5
  <2> DEFINE bars == RowsOf(s, short(s))
  <2>7. Shape(row) = RolledUp(InTime({bars[i] : i \in Inside(bars, row)}))
    BY <2>1, <2>2, <2>6, BatchesArePoints, HistoryRollsUp
  <2>8. {bar \in LoadedRows(w) : /\ bar.symbol = row.symbol
                                 /\ bar.startTime >= row.startTime
                                 /\ bar.endTime <= row.endTime}
        = {bars[i] : i \in Inside(bars, row)}
    <3> HIDE DEF short, long
    <3>1. row.symbol = s /\ \A u, d : CandleRow(u, d).symbol = u
      BY <2>6 DEF CandleRow
    <3>2. {bar \in LoadedRows(w) : bar.symbol = s} = {CandleRow(s, d) : d \in ToSet(short(s))}
      BY <2>4, <3>1
    <3>3. DOMAIN bars = DOMAIN short(s) /\ \A i \in DOMAIN bars : bars[i] = CandleRow(s, short(s)[i])
      BY DEF RowsOf
    <3>4. {CandleRow(s, d) : d \in ToSet(short(s))} = {bars[i] : i \in DOMAIN bars}
      BY <3>3 DEF ToSet
    <3> HIDE DEF bars
    <3>5. {bar \in LoadedRows(w) : bar.symbol = s} = {bars[i] : i \in DOMAIN bars}
      BY <3>2, <3>4
    <3> QED BY <3>1, <3>5 DEF Inside
  <2> QED BY <2>3, <2>7, <2>8
<1> QED BY <1>1, InitInv, StepInv, InitCandles, StepCandles, InitLoaded, StepLoaded, PTL DEF Spec, IInv
==============================================================================
