------------------------------ MODULE Pipeline ------------------------------
(***************************************************************************)
(* The data flow of the two programs, src/cmd/main and src/cmd/test: the   *)
(* initial load, then for every update of the source the memory manager,   *)
(* the database, the analysis and the server.  One goroutine does it all;  *)
(* the hub goroutine replaces the server's state behind its back.          *)
(*                                                                         *)
(* The two programs differ in what they aggregate an update from: main     *)
(* passes AggregateRealTime the points of the update, test the history of  *)
(* its symbols in memory.  The points are those of a feed: the bars of a   *)
(* symbol, a later one with a later timestamp, each fetched some time      *)
(* after it closed.  Which fetches fail and when the clock moves is free.  *)
(***************************************************************************)
EXTENDS Analysis, Storage

CONSTANTS Symbol,
          Feeds,         \* feeds: symbol -> its points, [timestamp, price, volume]
          MaxPoints,     \* capacity of a symbol's ring buffer
          BroadcastCap,  \* capacity of the broadcast channel (256)
          MaxTime,       \* bound: the clock
          MaxFaults      \* bound: failing saves, repeated sends and restarts

ASSUME PipelineAssumption ==
  /\ Window = ToSet(WindowsAgg)
  /\ MaxPoints \in Nat \ {0}
  /\ BroadcastCap \in Nat \ {0}
  /\ MaxTime \in Nat \ {0}
  /\ MaxFaults \in Nat

ASSUME FeedAssumption ==
  \A feed \in Feeds : \A s \in Symbol :
    /\ feed[s] \in Seq(ToSet(feed[s]))
    /\ \A i \in DOMAIN feed[s] : /\ feed[s][i].timestamp \in 1..MaxTime
                                /\ feed[s][i].price \in Int /\ feed[s][i].volume \in Int
    /\ \A i, j \in DOMAIN feed[s] : i < j => feed[s][i].timestamp < feed[s][j].timestamp

VARIABLES
  program,      \* which program this is, "main" or "test"
  feed,         \* the feed of this behaviour
  now,          \* the clock
  fetched,      \* the newest bar the source sent of each symbol, 0 for none
  remembered,   \* the same before its last push, what a new loop may start from
  buffers,      \* the memory manager's history of each symbol
  stage,        \* what main does next
  windowsLeft,  \* the windows it has not aggregated yet
  batch,        \* the points it works on
  stats,        \* intermediateStats in memory: window -> symbol -> statistics
  candles,      \* the candles of this batch: window -> symbol -> candle
  latestState,  \* what the server serves, [raw, aggregations]
  broadcast,    \* the broadcast channel
  faults,       \* how often something went wrong so far
  resent,       \* history: a source sent a point twice
  lost          \* history: rows of batches the database did not take, then or later

memory == <<fetched, remembered, buffers>>
work == <<stage, windowsLeft, batch, stats, candles>>
server == <<latestState, broadcast>>
history == <<faults, resent, lost>>
vars == <<program, feed, now, memory, work, server, history, tables>>

\* The bars of a symbol that closed after one time and up to another.
Points(s, from, to) == Between(feed[s], from + 1, to + 1)

Row(s, p) == [symbol |-> s, timestamp |-> p.timestamp, price |-> p.price, volume |-> p.volume]
Rows(data) == UNION {{Row(s, p) : p \in ToSet(data[s])} : s \in DOMAIN data}

\* The columns of a candle the aggregation tables have.
CandleRow(s, c) ==
  [symbol |-> s, startTime |-> c.startTime, endTime |-> c.endTime, open |-> c.open,
   high |-> c.high, low |-> c.low, close |-> c.close, volume |-> c.volume,
   priceChange |-> c.priceChange, volumeChange |-> c.volumeChange]

NoCandles == [w \in Window |-> <<>>]

RememberAll(data) ==                               \* Error: no capacity
  buffers' = [s \in Symbol |-> buffers[s] \o (IF s \in DOMAIN data THEN data[s] ELSE <<>>)]

\* AddDataPoint for every point of the batch; the ring buffer drops the oldest.
Remember(data) ==
  buffers' = [s \in Symbol |->
                IF s \in DOMAIN data
                THEN LET all == buffers[s] \o data[s] IN
                     IF Len(all) > MaxPoints
                     THEN SubSeq(all, Len(all) - MaxPoints + 1, Len(all)) ELSE all
                ELSE buffers[s]]

\* The saves that fail, while the bound allows.
MayFail(failing) ==
  /\ faults + Cardinality(failing) <= MaxFaults
  /\ faults' = faults + Cardinality(failing)

Init ==
  /\ program \in {"main", "test"}
  /\ feed \in Feeds
  /\ now = 1
  /\ fetched = [s \in Symbol |-> 0]
  /\ remembered = fetched
  /\ buffers = [s \in Symbol |-> <<>>]
  /\ stage = "fetch"
  /\ windowsLeft = WindowsAgg
  /\ batch = <<>>
  /\ stats = NoCandles
  /\ candles = NoCandles
  /\ latestState = [raw |-> <<>>, aggregations |-> NoCandles]
  /\ broadcast = <<>>
  /\ faults = 0
  /\ resent = FALSE
  /\ lost = {}
  /\ stockPrices = Recreated.stockPrices
  /\ aggregations = Recreated.aggregations
  /\ intermediateStats = Recreated.intermediateStats

\* Seconds pass between updates: within one only the cut-off of the cleanup
\* reads the clock, last.
Tick ==
  /\ now < MaxTime
  /\ stage \in {"fetch", "idle"}
  /\ now' = now + 1
  /\ UNCHANGED <<program, feed, memory, work, server, history, tables>>

-----------------------------------------------------------------------------
(* Initial load. *)

\* The source answers for some of the symbols, or for none of them.
FetchInitialData(answered) ==
  /\ stage = "fetch"
  /\ batch' = [s \in {s \in answered : Points(s, 0, now) # <<>>} |-> Points(s, 0, now)]
  /\ fetched' = [s \in Symbol |->
                   IF s \in DOMAIN batch' THEN Last(batch'[s]).timestamp ELSE 0]
  /\ remembered' = fetched'
  /\ Remember(batch')
  /\ stage' = "initial"
  /\ UNCHANGED <<program, feed, now, windowsLeft, stats, candles, server, history, tables>>

\* One window: its statistics, its candles, and the last of them for the server.
InitialWindow(failing) ==
  LET w == Head(windowsLeft)
      computed == CalculateStatsForWindow(batch, w)
      all == AggregateHistorical(batch, w, computed)
  IN  /\ stage = "initial"
      /\ windowsLeft # <<>>
      /\ MayFail(failing)
      /\ stats' = [stats EXCEPT ![w] = computed]
      /\ SaveIntermediateStats(w, computed, "stats" \in failing)
      /\ SaveAggregations(w, UNION {{CandleRow(s, c) : c \in ToSet(all[s])} : s \in DOMAIN all},
                          "candles" \in failing)
      /\ candles' = [candles EXCEPT ![w] = [s \in DOMAIN all |-> Last(all[s])]]
      /\ windowsLeft' = Tail(windowsLeft)
      /\ UNCHANGED <<program, feed, now, memory, stage, batch, server, resent, lost, stockPrices>>

\* UpdateAllDatas merges a payload into the state.
UpdateAllDatas(raw, aggs) ==
  latestState' = [raw          |-> Over(raw, latestState.raw),
                  aggregations |->
                    [w \in Window |-> Over(aggs[w], latestState.aggregations[w])]]

SavePrices(failing) ==
  /\ SaveStockPricesBulk(Rows(batch'), failing # {})
  /\ lost' = IF failing # {} \/ PriceClash(Rows(batch'))
             THEN lost \union (Rows(batch') \ stockPrices) ELSE lost \ Rows(batch')

\* The points go to the database after the candles; INITIAL carries the last
\* point of every symbol.
FinishInitialLoad(failing) ==
  /\ stage = "initial"
  /\ windowsLeft = <<>>
  /\ MayFail(failing)
  /\ UNCHANGED batch
  /\ SavePrices(failing)
  /\ UpdateAllDatas([s \in DOMAIN batch |-> Last(batch[s])], candles)
  /\ stage' = "idle"
  /\ UNCHANGED <<program, feed, now, memory, windowsLeft, stats, candles, broadcast, resent,
                 aggregations, intermediateStats>>

-----------------------------------------------------------------------------
(* An update. *)

\* The points after the last one sent.  A source that was stopped and started
\* again (test's gRPC server asks for it) before its old loop had written back
\* what it sent takes up from what it remembers and sends that batch again.
Receive(symbols, restarted, failing) ==
  LET from == IF restarted THEN remembered ELSE fetched
      fresh == [s \in symbols |-> Points(s, from[s], now)]
      repeats == \E s \in symbols : Head(fresh[s]).timestamp <= fetched[s]
  IN  /\ stage = "idle"
      /\ symbols # {}
      /\ \A s \in symbols : fresh[s] # <<>>
      /\ restarted => program = "test" /\ repeats
      /\ MayFail(failing \union IF restarted THEN {"restart"} ELSE {})
      /\ resent' = (resent \/ restarted)
      /\ batch' = fresh
      /\ remembered' = from
      /\ fetched' = [s \in Symbol |->
                       IF s \in symbols THEN Last(fresh[s]).timestamp ELSE fetched[s]]
      /\ Remember(fresh)
      /\ SavePrices(failing)
      /\ stage' = "update"
      /\ windowsLeft' = WindowsAgg
      /\ candles' = NoCandles
      /\ UNCHANGED <<program, feed, now, stats, server, aggregations, intermediateStats>>

\* What the candles of an update are made from.
AggregatedUpdate == batch                          \* Error: in both programs
Aggregated ==
  IF program = "main" THEN batch ELSE [s \in DOMAIN batch |-> buffers[s]]

UpdateWindow(failing) ==
  LET w == Head(windowsLeft)
      new == AggregateRealTime(Aggregated, w, stats[w])
  IN  /\ stage = "update"
      /\ windowsLeft # <<>>
      /\ MayFail(failing)
      /\ SaveAggregations(w, {CandleRow(s, new[s]) : s \in DOMAIN new}, failing # {})
      /\ candles' = [candles EXCEPT ![w] = new]
      /\ windowsLeft' = Tail(windowsLeft)
      /\ UNCHANGED <<program, feed, now, memory, stage, batch, stats, server, resent, lost,
                     stockPrices, intermediateStats>>

\* The raw data of an UPDATE are slices of points, one slice a symbol, where
\* safeStockPriceMap expects a point: none of them reaches the state.
SafeStockPriceMap(raw) == <<>>

Serve ==
  /\ stage = "update"
  /\ windowsLeft = <<>>
  /\ UpdateAllDatas(SafeStockPriceMap(batch), candles)
  /\ stage' = "broadcast"
  /\ UNCHANGED <<program, feed, now, memory, windowsLeft, batch, stats, candles, broadcast,
                 history, tables>>

\* Broadcast blocks while the channel is full; then the old rows go.
BroadcastAndClean(failing) ==
  /\ stage = "broadcast"
  /\ Len(broadcast) < BroadcastCap
  /\ broadcast' = Append(broadcast, [raw |-> SafeStockPriceMap(batch), aggregations |-> candles])
  /\ MayFail(failing)
  /\ CleanupOldData(now, failing)
  /\ stage' = "idle"
  /\ UNCHANGED <<program, feed, now, memory, windowsLeft, batch, stats, candles, latestState,
                 resent, lost, intermediateStats>>

\* The hub makes the message the state, whatever was merged meanwhile.
HubReplacesState ==
  /\ broadcast # <<>>
  /\ latestState' = Head(broadcast)
  /\ broadcast' = Tail(broadcast)
  /\ UNCHANGED <<program, feed, now, memory, work, history, tables>>

\* The process dies anywhere and is started again: nothing of it survives, and
\* the tables are dropped.
Restart ==
  /\ stage # "fetch"
  /\ MayFail({"restart"})
  /\ fetched' = [s \in Symbol |-> 0]
  /\ remembered' = fetched'
  /\ buffers' = [s \in Symbol |-> <<>>]
  /\ stage' = "fetch"
  /\ windowsLeft' = WindowsAgg
  /\ batch' = <<>>
  /\ stats' = NoCandles
  /\ candles' = NoCandles
  /\ latestState' = [raw |-> <<>>, aggregations |-> NoCandles]
  /\ broadcast' = <<>>
  /\ resent' = FALSE
  /\ lost' = {}
  /\ stockPrices' = Recreated.stockPrices
  /\ aggregations' = Recreated.aggregations
  /\ intermediateStats' = Recreated.intermediateStats
  /\ UNCHANGED <<program, feed, now>>

Next ==
  \/ Tick
  \/ \E answered \in SUBSET Symbol : FetchInitialData(answered)
  \/ \E failing \in SUBSET {"stats", "candles"} : InitialWindow(failing)
  \/ \E failing \in SUBSET {"prices"} : FinishInitialLoad(failing)
  \/ \E symbols \in SUBSET Symbol, restarted \in BOOLEAN, failing \in SUBSET {"prices"} :
       Receive(symbols, restarted, failing)
  \/ \E failing \in SUBSET {"candles"} : UpdateWindow(failing)
  \/ Serve
  \/ \E failing \in SUBSET (Window \union {"stock_prices"}) : BroadcastAndClean(failing)
  \/ HubReplacesState
  \/ Restart

Spec == Init /\ [][Next]_vars

-----------------------------------------------------------------------------
(* Properties. *)

Received(s) == Points(s, 0, fetched[s])
Parsed == DOMAIN WindowSeconds

TypeOK ==
  /\ now \in 1..MaxTime
  /\ fetched \in [Symbol -> 0..now]
  /\ \A s \in Symbol : remembered[s] <= fetched[s] /\ Len(buffers[s]) <= MaxPoints
  /\ stage \in {"fetch", "initial", "idle", "update", "broadcast"}
  /\ IsSuffix(windowsLeft, WindowsAgg)
  /\ DOMAIN batch \subseteq Symbol
  /\ Len(broadcast) <= BroadcastCap
  /\ faults \in 0..MaxFaults
  /\ \A r, t \in stockPrices : SameKey(r, t) => r = t
  /\ \A w \in Window : \A r, t \in aggregations[w] : SameCandleKey(r, t) => r = t

\* Between two updates the table of prices holds every point main received and
\* that has not expired, except those of batches the database rolled back, and
\* nothing else (SaveStockPricesBulk, sqlite.go:146, and CleanupOldData).
EveryPointStored ==
  stage = "idle" =>
    LET received == Rows([s \in Symbol |-> Received(s)])
        current == {r \in received : r.timestamp >= now - Retention}
    IN  current \ lost \subseteq stockPrices /\ stockPrices \subseteq received \ lost

\* The columns a stored candle shares with ComputeOHLCV.
Shape(c) == <<c.open, c.high, c.low, c.close, c.volume>>

\* A stored candle is the candle of consecutive points of its window, from the
\* first one on in the test program; a window gets its row when it is first
\* seen and never a complete one later (SaveAggregations, sqlite.go:178).
StoredCandleIsRun ==
  ~resent => \A w \in Window : \A row \in aggregations[w] :
    LET points == Between(Received(row.symbol), row.startTime, row.endTime) IN
    \E i, j \in DOMAIN points :
      /\ i <= j
      /\ Shape(row) = Shape(ComputeOHLCV(SubSeq(points, i, j)))
      /\ program = "test" /\ WindowSeconds[w] <= MaxPoints => i = 1

\* At rest, what the test program serves for a symbol is the whole candle of the
\* window its newest point is in, although the hub and the main loop overwrite
\* the state in turns (core_processing.go:58, "This ensures AggregateRealTime
\* has enough data points").
ServedCandleCurrent ==
  stage = "idle" /\ broadcast = <<>> /\ ~resent /\ program = "test" =>
    \A w \in Parsed : WindowSeconds[w] <= MaxPoints =>
      /\ DOMAIN batch \subseteq DOMAIN latestState.aggregations[w]
      /\ \A s \in DOMAIN latestState.aggregations[w] :
           LET c == latestState.aggregations[w][s] IN
           /\ c.startTime <= fetched[s] /\ fetched[s] < c.endTime
           /\ Shape(c) = Shape(ComputeOHLCV(Between(Received(s), c.startTime, c.endTime)))

\* Until a save fails, an update leaves a row for the current window of one of
\* its symbols at least: the one that was new, or the one that clashed with it.
UpdateLeavesACandle ==
  stage = "update" /\ faults = 0 => \A w \in Parsed \ ToSet(windowsLeft) :
    \E s \in DOMAIN batch : \E row \in aggregations[w] :
      row.symbol = s /\ row.startTime <= fetched[s] /\ fetched[s] < row.endTime

\* A row of prices or candles is never rewritten and leaves only when all of it
\* is older than the retention, or with the process.
RowsOnlyExpire ==
  [][\/ stage' = "fetch"
     \/ /\ \A r \in stockPrices \ stockPrices' : r.timestamp < now - Retention
        /\ \A w \in Window : \A r \in aggregations[w] \ aggregations'[w] :
             r.endTime < now - Retention]_vars

\* The changes of a candle are those since an earlier one.
ChangedSince(c, earlier) ==
  /\ c.priceChange = CalculateChangePercent(c.close, earlier.close)
  /\ c.volumeChange = CalculateChangePercent(c.volume, earlier.volume)

\* The three analyses of one history agree: the real-time candle is the last
\* historical one but for the changes, and the statistics count the candles and
\* average their volumes.  The changes are the same only while the window just
\* before has points: the historical candle is compared to the candle before it
\* however old that is, or to nothing, and then the real-time one to its own open
\* ("Different from real-time!", analysis_facade.go:250, says so of the volume).
AnalysesAgree ==
  stage = "idle" => \A w \in Parsed :
    LET real == AggregateRealTime(buffers, w, stats[w])
        all == AggregateHistorical(buffers, w, stats[w])
        counted == CalculateStatsForWindow(buffers, w)
        Volume(cs) == Total([i \in DOMAIN cs |-> cs[i].volume])
        Adjacent(cs) == Len(cs) > 1 /\ cs[Len(cs) - 1].endTime = Last(cs).startTime
    IN  \A s \in Nonempty(buffers) :
          /\ [real[s] EXCEPT !.priceChange = Last(all[s]).priceChange,
                             !.volumeChange = Last(all[s]).volumeChange] = Last(all[s])
          /\ IF Adjacent(all[s]) THEN ChangedSince(real[s], all[s][Len(all[s]) - 1])
             ELSE /\ real[s].priceChange = CalculateChangePercent(real[s].close, real[s].open)
                  /\ real[s].volumeChange = Zero
          /\ all[s][1].priceChange = Zero /\ all[s][1].volumeChange = Zero
          /\ \A i \in 2..Len(all[s]) : ChangedSince(all[s][i], all[s][i - 1])
          /\ counted[s].dataPoints = Len(all[s])
          /\ counted[s].mean = <<Volume(all[s]), Len(all[s])>>

\* Candles or rows of one symbol in the order of time.
InTime(bars) ==
  LET starts == Ascending({b.startTime : b \in bars})
  IN  [k \in DOMAIN starts |-> CHOOSE b \in bars : b.startTime = starts[k]]

\* The candle of consecutive candles.
RolledUp(bars) ==
  << Head(bars).open, Max({b.high : b \in ToSet(bars)}), Min({b.low : b \in ToSet(bars)}),
     Last(bars).close, Total([i \in DOMAIN bars |-> bars[i].volume]) >>

\* "Higher timeframes (15m, 1h, 4h) are strictly built by aggregating these 5-minute
\* Base Candles" (README.md:53).  They are not, every window is computed from the
\* points; but the rows the initial load leaves roll up all the same: the row of a
\* longer window is the candle of the rows of the shorter one inside it, unless
\* saving those failed.  After the first update the tables need not (main.go:244,
\* core_processing.go:80): a row of an update holds the points of that moment, and no
\* later one replaces it.
LoadedCandlesRollUp ==
  stage = "initial" => \A w, v \in Parsed :
    aggregations[w] # {} /\ WindowSeconds[v] % WindowSeconds[w] = 0 =>
      \A row \in aggregations[v] :
        Shape(row) = RolledUp(InTime({bar \in aggregations[w] :
                                       /\ bar.symbol = row.symbol
                                       /\ bar.startTime >= row.startTime
                                       /\ bar.endTime <= row.endTime}))

\* The resampler puts every timestamp into one group, and only into the group
\* whose window holds it (ResampleIndices).
ResamplePartitions ==
  stage = "idle" => \A s \in Nonempty(buffers), w \in Parsed :
    LET times == [i \in DOMAIN buffers[s] |-> buffers[s][i].timestamp]
        sorted == Sorted(times)
        groups == ResampleIndices(times, WindowSeconds[w])
    IN  \A k \in DOMAIN sorted :
          {g \in groups : k \in g.indices} =
          {g \in groups : g.startTime <= sorted[k] /\ sorted[k] < g.startTime + WindowSeconds[w]}
          /\ \E g \in groups : k \in g.indices
=============================================================================
