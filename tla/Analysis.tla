------------------------------ MODULE Analysis ------------------------------
(***************************************************************************)
(* The calculations of src/src/analysis: candles of time windows, window   *)
(* statistics and the resampler.  A history is a sequence of points of one *)
(* symbol, [timestamp, price, volume].  Prices and volumes are integers    *)
(* and a quotient of float64 values is the pair <<numerator, denominator>> *)
(* the code divides; a square root is left under its root, so a            *)
(* correlation is the pair <<numerator, square of the denominator>>.       *)
(***************************************************************************)
EXTENDS Integers, Sequences, SequencesExt, Common

CONSTANTS WindowsAgg,     \* names of the configured windows, in order
          WindowSeconds   \* WindowsSecondsMap: the names that parse, in seconds

ASSUME WindowAssumption ==
  /\ WindowsAgg \in Seq(STRING)
  /\ DOMAIN WindowSeconds \subseteq ToSet(WindowsAgg)
  /\ \A w \in DOMAIN WindowSeconds : WindowSeconds[w] \in Nat \ {0}

One == <<1, 1>>
Zero == <<0, 1>>

Prices(points) == [i \in DOMAIN points |-> points[i].price]
Volumes(points) == [i \in DOMAIN points |-> points[i].volume]
Total(values) == FoldLeft(+, 0, values)
TotalVolume(points) == Total(Volumes(points))

WindowStart(ts, seconds) == ts - (ts % seconds)

SortByTimestamp(points) == InOrderOfTime(points, DOMAIN points)
\* A set of numbers in ascending order.
Ascending(times) ==
  [n \in 1..Cardinality(times) |->
     CHOOSE t \in times : Cardinality({u \in times : u < t}) = n - 1]

\* The same of a sequence, which may hold a time more than once.
Sorted(times) ==
  [k \in DOMAIN times |->
     CHOOSE t \in ToSet(times) :
       /\ Cardinality({i \in DOMAIN times : times[i] < t}) < k
       /\ k <= Cardinality({i \in DOMAIN times : times[i] <= t})]

\* Of points in the order of time, how many are before a time, and those of a window.
Before(points, time) ==
  Cardinality({i \in DOMAIN points : points[i].timestamp < time})
BetweenInclusive(points, from, to) ==                       \* Error: both ends
  SubSeq(points, Before(points, from) + 1, Before(points, to + 1))
Between(points, from, to) ==
  SubSeq(points, Before(points, from) + 1, Before(points, to))

-----------------------------------------------------------------------------
(* core/financial.go and core/statistics.go. *)

\* The highest price starts from -1, the lowest from the largest float64.
ComputeOHLCV(points) ==
  IF points = <<>>
  THEN [open |-> 0, high |-> 0, low |-> 0, close |-> 0, volume |-> 0,
        avgPrice |-> Zero]
  ELSE LET prices == {p.price : p \in ToSet(points)} IN
       [open     |-> Head(points).price,
        high     |-> Max(prices \union {-1}),
        low      |-> Min(prices),
        close    |-> Last(points).price,
        volume   |-> TotalVolume(points),
        avgPrice |-> <<Total(Prices(points)), Len(points)>>]

CalculateChangePercent(current, previous) ==
  IF previous = 0 THEN Zero ELSE <<current - previous, previous>>

CalculateAnomalyRatio(volume, average) ==
  IF average[1] <= 0 THEN (IF volume = 0 THEN One ELSE <<volume, 1>>)
  ELSE <<volume * average[2], average[1]>>

\* The mean and the square of the population standard deviation.
CalculateMeanStd(values) ==
  LET n == Len(values)
      sum == Total(values)
      squares == FoldLeft(LAMBDA acc, v : acc + (n * v - sum) * (n * v - sum), 0, values)
  IN  IF n = 0 THEN [mean |-> Zero, variance |-> Zero]
      ELSE [mean |-> <<sum, n>>, variance |-> <<squares, n * n * n>>]

\* Pearson's correlation.
CalculateCorrelation(x, y) ==
  LET n == Len(x)
      Products(u, v) == Total([i \in 1..n |-> u[i] * v[i]])
      root == (n * Products(x, x) - Total(x) * Total(x))
              * (n * Products(y, y) - Total(y) * Total(y))
  IN  IF n < 2 \/ root = 0 THEN Zero
      ELSE <<n * Products(x, y) - Total(x) * Total(y), root>>

-----------------------------------------------------------------------------
(* analysis_facade.go. *)

Candle(points, start, seconds, average, priceChange, volumeChange) ==
  LET ohlcv == ComputeOHLCV(points) IN
  [open         |-> ohlcv.open,
   high         |-> ohlcv.high,
   low          |-> ohlcv.low,
   close        |-> ohlcv.close,
   volume       |-> ohlcv.volume,
   avgPrice     |-> ohlcv.avgPrice,
   priceChange  |-> priceChange,
   volumeChange |-> volumeChange,
   correlation  |-> CalculateCorrelation(Prices(points), Volumes(points)),
   anomaly      |-> CalculateAnomalyRatio(TotalVolume(points), average),
   startTime    |-> start,
   endTime      |-> start + seconds,
   dataPoints   |-> Len(points)]

\* The average volume of the statistics, 1 for a symbol without any.
AverageVolume(stats, s) == IF s \in DOMAIN stats THEN stats[s].mean ELSE One

EverythingBefore(points, start, seconds) ==                 \* Error: no lower end
  Between(points, 0, start)
PreviousWindow(points, start, seconds) == Between(points, start - seconds, start)

\* The candle of the window the newest point is in.  It is compared to the
\* window just before it, or to its own open when that one holds no point.
LatestCandle(history, seconds, average) ==
  LET points == SortByTimestamp(history)
      start == WindowStart(Last(points).timestamp, seconds)
      current == Between(points, start, start + seconds)
      previous == PreviousWindow(points, start, seconds)
      close == Last(current).price
  IN  IF previous # <<>>
      THEN Candle(current, start, seconds, average,
                  CalculateChangePercent(close, Last(previous).price),
                  CalculateChangePercent(TotalVolume(current), TotalVolume(previous)))
      ELSE Candle(current, start, seconds, average,
                  CalculateChangePercent(close, Head(current).price), Zero)

\* The candles of every window with a point, each compared to the one before
\* it in the list, however long ago that is.
AllCandles(history, seconds, average) ==
  LET points == SortByTimestamp(history)
      starts == Ascending({WindowStart(p.timestamp, seconds) : p \in ToSet(points)})
      window(i) == Between(points, starts[i], starts[i] + seconds)
  IN  [i \in DOMAIN starts |->
         IF i = 1
         THEN Candle(window(i), starts[i], seconds, average, Zero, Zero)
         ELSE Candle(window(i), starts[i], seconds, average,
                CalculateChangePercent(Last(window(i)).price, Last(window(i - 1)).price),
                CalculateChangePercent(TotalVolume(window(i)), TotalVolume(window(i - 1))))]

\* The statistics of the volumes of the windows with a point.  The code collects
\* them from a map, in any order: their sums are the same in each.
WindowStats(history, seconds) ==
  LET points == SortByTimestamp(history)
      starts == Ascending({WindowStart(p.timestamp, seconds) : p \in ToSet(points)})
      volumes == [i \in DOMAIN starts |-> TotalVolume(Between(points, starts[i], starts[i] + seconds))]
      stats == CalculateMeanStd(volumes)
  IN  [mean       |-> stats.mean,
       variance   |-> stats.variance,
       dataPoints |-> Len(volumes),
       last       |-> Last(points).timestamp]

Nonempty(data) == {s \in DOMAIN data : data[s] # <<>>}

\* A window whose name did not parse has no candles.
AggregateRealTime(data, w, stats) ==
  [s \in IF w \in DOMAIN WindowSeconds THEN Nonempty(data) ELSE {} |->
     LatestCandle(data[s], WindowSeconds[w], AverageVolume(stats, s))]

AggregateHistorical(data, w, stats) ==
  [s \in IF w \in DOMAIN WindowSeconds THEN Nonempty(data) ELSE {} |->
     AllCandles(data[s], WindowSeconds[w], AverageVolume(stats, s))]

CalculateStatsForWindow(data, w) ==
  [s \in IF w \in DOMAIN WindowSeconds THEN Nonempty(data) ELSE {} |->
     WindowStats(data[s], WindowSeconds[w])]

-----------------------------------------------------------------------------
(* resampler.go: windows counted from the first timestamp.                  *)

WindowStartsToLast(timestamps, seconds) ==       \* Error: stops at the last one
  {start \in Min(timestamps)..Max(timestamps) :
     (start - Min(timestamps)) % seconds = 0}
WindowStarts(timestamps, seconds) ==
  {start \in Min(timestamps)..(Max(timestamps) + seconds) :
     (start - Min(timestamps)) % seconds = 0}

\* The groups of a nonempty sequence of timestamps: indices into the sorted
\* sequence, between one window start and the next.
ResampleIndices(timestamps, seconds) ==
  LET sorted == Sorted(timestamps)
      starts == Ascending(WindowStarts(ToSet(timestamps), seconds))
      group(i) == {k \in DOMAIN sorted : sorted[k] >= starts[i] /\ sorted[k] < starts[i + 1]}
  IN  {[indices |-> group(i), startTime |-> starts[i], endTime |-> starts[i + 1]] :
         i \in {j \in 1..(Len(starts) - 1) : group(j) # {}}}
=============================================================================
