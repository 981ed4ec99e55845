# Market observer: TLA+ models and proofs

This directory holds TLA+ specifications of the market observer (the Go program
in `src/`), the TLC configurations that check them on small instances, and proofs
that TLAPS checks for every value of the constants. Paths below are relative to
the repository; `PROJECT.json` lists every run, mutant, finding, hazard and
theorem, and maps each definition to the lines it models.

## 1. The system

The program polls price sources, keeps a short history in memory, aggregates it,
stores it and pushes it to browsers. `cmd/main` runs one source, `cmd/test` the
full program with several sources and a gRPC control plane.

| Component | State it keeps | Operations | Interacts with |
|---|---|---|---|
| **RingBuffer** (`src/utils/ring_buffer.go`) | rows, capacity, index, size | Append, GetLatest, GetAll, GetSnapshot, Resize, Clear | owned by MemoryManager |
| **MemoryManager** (`src/utils/memory_manager.go`) | a RingBuffer per symbol, one mutex | AddDataPoint, CheckMemoryLimits, Cleanup, readers | called by the main loop |
| **WebSocket hub** (`src/server/hub.go`, `client.go`, `fastAPI.go`) | client set, latestState, broadcast / register / unregister channels, a send channel per client | UpdateAllDatas, Broadcast, hub loop, readPump, writePump, HandleClientMessage, Stop | main loop produces; browsers connect, subscribe, die |
| **MultiSourceManager** (`src/data_source/multi_source_manager.go`) | source map, context, shared WaitGroup | Start, Stop, Add/Remove/Start/StopSource, Fetch*, UpdateSymbols | gRPC handlers, main, sources |
| **YahooFinanceSource** (`src/data_source/yahoo/yahoo_source.go`) | symbols, LastTimestamps, isRunning, ctx, cancelFunc | Start, Stop, runLoop, Push, UpdateSymbols, Fetch* | network, updates channel, WaitGroup |
| **ControlService** (`src/grpc_control/service.go`) | shared Config, without a lock | Add/Remove/Start/StopSource, UpdateSymbols, status | manager, config file |
| **Configuration** (`src/config/config.go`) | the sources in memory, the YAML file | NewConfig, Validate, Save | start-up, ControlService |
| **Main programs** (`cmd/main`, `cmd/test`) | intermediate statistics, updates channel | set-up, initial load, data loop, shutdown | everything |
| **Storage** (`src/storage`) | SQL tables | bulk saves, cleanup, symbol references | main loop, start-up |
| **Analysis** (`src/analysis`) | none | candles, window statistics, resampling | main loop |
| **Network, proxies** (`src/network`, `src/helpers/proxy.go`) | shared HTTP client, proxy list and index | requests with retry, rotation, refresh | sources |
| **Calendar, logger, models, REST, UI** | - | - | - |

What is hard in it, and what makes each part correct:

- *RingBuffer*: three computations of a start slot have to agree after any mixture
  of wraps, resizes and clears. Correct means: it is the bounded log of the newest
  points.
- *MemoryManager*: the limit check runs inside a locked operation; halving happens
  again and again. Correct means: only oldest points go, a minimum stays, every
  call returns.
- *Hub*: four kinds of goroutines share channels that only the hub may close;
  clients are slow, die or send commands at any moment. Correct means: no send on a
  closed channel, no gap for a connected client, dead clients leave, the producer
  is never stuck, the state served to newcomers is the merged one.
- *Manager and sources*: asynchronous Stop, restart, requests during shutdown, a
  WaitGroup incremented in two places. Correct means: every loop is counted, can be
  stopped and ends; main returns; without a restart no point is sent twice or skipped.
- *Data loop, storage and analysis*: an update passes through the memory, the tables,
  three calculations and the server's state, which the hub overwrites on its own; any
  save may fail, and errors are ignored. Correct means: the tables hold what was
  received and not expired, a stored or served candle is made of the points of its
  window, the calculations agree where they describe the same thing.
- *Configuration*: three copies of the sources (manager, memory, file), two of them
  without a lock, changed by requests in several steps. Correct means: they agree
  after requests that do not overlap, a name is added once even when they do, and a
  restart brings back what was acknowledged.
- *Fetches*: goroutines per source and per symbol share one HTTP client and one proxy
  list that any of them may replace. Correct means: the index stays in the list, a
  client without a proxy is made only where the code makes one, the answer accounts
  for every worker, the fetch ends.

## 2. Modules

| Module | Role |
|---|---|
| `BoundedLog` | abstract specification: the newest `cap` points, oldest first |
| `RingBuffer`, `MCRingBuffer` | the circular buffer; implements `BoundedLog` |
| `RingBufferProofs` | its theorems |
| `MemoryManager`, `MCMemoryManager` | buffers behind a mutex; takes each buffer by `BoundedLog`'s operators, which `RingBufferProofs` justifies |
| `MemoryManagerProofs` | its theorems |
| `Hub`, `MCHub` | hub loop, main loop as producer, both pumps of every client |
| `HubProofs` | its theorems |
| `SourceManager`, `MCSourceManager` | life cycle of the sources: manager, gRPC requests, loops, WaitGroup, main's shutdown |
| `SourceManagerProofs` | its theorems |
| `YahooSource`, `MCYahooSource` | one source in detail: overlapping runLoops, timestamps, pushes, the channel, main |
| `YahooSourceProofs` | its theorems |
| `Fetch`, `MCFetch` | a fetch of all sources: manager, batches, requests with retries, shared client and proxies |
| `FetchProofs` | its theorems |
| `Common` | sorting by time and merging maps, for `Fetch` and `Analysis` |
| `Analysis` | the calculations as operators on sequences of points |
| `Storage` | the tables and the operations on them |
| `Pipeline`, `MCPipeline` | composes `Analysis` and `Storage` with the memory, the data loops of both programs and the server's state |
| `PipelineProofs` | its theorems |
| `ControlService`, `MCControlService` | configuration, its file and the gRPC requests that change them |
| `ControlServiceProofs` | its theorems |

State and actions carry the names of the code where TLA+ allows it; the header of
each module says what is abstracted. The main correspondences:

- **RingBuffer.** `data`, `capacity`, `index`, `size` are the struct's fields. A row
  is one value (`Point`), the zero row of `make` is `Blank`. `GetAll` also stands for
  `GetSnapshot`, the same loop with another result type.
- **MemoryManager.** `holder` is the mutex. `AddDataPoint` is one action when it
  returns; when the heap is over the limit the caller stays at `limit` with the mutex
  held, because `CheckMemoryLimits` locks again. The heap measurement is a free
  choice. `streams` has an entry for a symbol from its first point on, as the map has.
  Points are numbered so that a history shows what it lost; `dropped` is a
  history variable for `Cleanup`. The program calls only `AddDataPoint`; the other
  exported methods are modelled as a caller of the package may use them.
- **Hub.** One action per `select` case and per step of the fan-out. Objects passed by
  pointer are numbered (`objects`), because `UpdateAllDatas` mutates the object
  `latestState` points to while queues and writers may hold it. Writing a map that a
  writePump is encoding is a data race; the step may or may not abort the process
  (`crash`). A subscribe command is two steps: `Subscribe` computes the answer under
  the read lock, `SendAnswer` sends it later, on a channel the hub may have closed by
  then, which is a panic (`crash`). An answer shares maps with the state it was
  filtered from and races updates like the state itself, except a view of one
  timeframe. Deadlines and pings are
  the free choice of `ConnectionLost` and `WriteEnds`. The handler's last steps
  (starting the pumps) are merged with the hub's receive from `register`, an
  unbuffered channel: they touch nothing shared.
- **SourceManager.** A loop is a record (object, start number, context, stopped);
  contexts are numbered, 0 is main's. `StartSource` / `StopSource` are two steps, as
  the code reads the map under the lock and calls the source after unlocking. Starts
  add to the WaitGroup exactly where the code does, twice.
- **YahooSource.** Every loop has a program counter: copy, select, sleep, push,
  pushing, aborting, sync, leave. `waitsOn` is the context a push selects on, the source's
  newest and not the loop's own. `PushToDataSourceManager` reads it twice: a push that
  saw it done (`Aborts`) returns the error of the context there is then (`ReadsErr`),
  which is nil when a restart replaced it in between; the loop then goes on, its batch
  lost. A point is its timestamp, a batch an interval per
  symbol, the provider one grid of timestamps; a fetch gets data for any subset of
  the symbols. `sent` is a history variable.
- **Fetch.** A list of symbols is a sequence, which may name one twice, as the shipped
  `default.yaml` does (lines 112 and 122); a worker is a place of its source's list.
  It is a goroutine of `fetchBatch`; its program counter runs through
  queued (for the semaphore), send, rotate, create, publish, refresh, give up and done.
  `rotateProxy` is three steps (move the index, make a client, set `nm.Client`),
  because only the index has a lock. `AcceptedLists` holds the lists `NewProxyManager`
  may keep, `Unparsable` the entries in them that are no URL once `FormatProxy` has put
  a scheme before them: `createClient` then makes a client without a proxy. `direct`
  records what was asked through no proxy, the quotes or the page of proxies, which
  `RefreshProxies` always asks for with a client of its own. Sleeps are left out. An answer is a member of
  `Bodies`; status codes, timeouts and broken bodies are the choice between
  `Answered`, `Failed` and `Blocked`. Rows of one timestamp keep their order
  (`sort.Slice` leaves it open). The sources' batches and the manager's merge
  follow `FetchInitialData` and `FetchUpdateData`.
- **Analysis.** Prices and volumes are integers, quotients are pairs, roots stay under
  their root, so equalities are exact. The points of a window are a slice, as they are
  taken from points in the order of time. A window name without seconds stands for one
  that does not parse.
- **Storage.** A table is a set of rows; a save is a transaction, and a failing one, by
  the database or by a key that is there already, does nothing, since the callers
  ignore its error. `fails` is chosen by the caller's environment.
- **Pipeline.** `program` tells `cmd/main` from `cmd/test`, which aggregate an update
  from different data. A `feed` fixes what each bar is, a sequence with ascending
  timestamps (the provider is trusted in that; a bar's timestamp is when it closed);
  the clock decides which bars a fetch can return. `stage` and `windowsLeft` are main's
  position in an update. `HubReplacesState` is the hub goroutine. `Restart` is a crash at
  any stage, which loses everything, as `Initialize` drops the tables. `resent` and `lost`
  are history variables: a restarted source repeated a batch, and rows of rejected
  batches; a row comes off `lost` when a later batch that holds it again is accepted.
- **ControlService.** A handler is split where it gives other goroutines a chance to
  change what it read: looking a name up and inserting it, getting a source and
  updating it, reading and writing the unlocked configuration, truncating and
  writing the file. `answers`, `promised` and `quiet` are history variables: what the
  clients were told, and that nothing overlapped or failed. The goroutines serving
  requests are interchangeable, hence the symmetry of the run.

Operators under a comment that starts with "Error:" are not part of a
specification. Each is one definition with a plausible mistake in it (a dropped
guard, a missing reset, an early return). Substituted for the definition it is named
after, it makes TLC report the property listed with it under "mutants", which shows
that the property depends on that line of the code.

## 3. Runs

Run them with `tlc -config <cfg> <module>`.

| Run | Configuration | States | Shows |
|---|---|---|---|
| `ring_buffer` | 3 rows, capacities 1..4 | 1 036 | reads are right and the buffer implements the bounded log |
| `memory_safety` | 2 callers, 2 symbols, capacity 10, 11 points each | 208 400 | histories lose oldest points only and keep the minimum; no call returns with the mutex |
| `hub` | 2 clients, one of which sends a command, send 2, broadcast 1, 2 updates | 485 096 | hub never touches a closed channel; connected clients see no gap; lost connections are removed; the producer is never stuck |
| `manager` | 3 objects, 2 names, 1 request, 2 manager starts, 2 starts each | 854 819 | loops are counted, stoppable, and end after the signal |
| `yahoo` | 1 symbol, 3 timestamps, 2 loops, channel 1 | 158 816 | memory of what was sent, order, no early return of main; stopped loops end, also after a restart between the two reads of the context, and main returns |
| `pipeline` | 2 symbols, 5 bars, windows of 2 s and 4 s, 4 points in memory, 1 fault | 385 003 | tables, memory and served state agree with what was received; the calculations agree up to the changes after an empty window; the initial load rolls up |
| `control` | 2 goroutines, 3 requests, 2 restarts, 1 fault, 2 names | 708 749 | manager, configuration and file agree; restarts bring back what was acknowledged |
| `fetch` | 2 sources with a common symbol, 1 bad symbol, a list that repeats one, proxies that are URLs or not or none, 1 retry, 1 slot, 2 fetches | 658 133 | results and errors account for every worker, no quote without a proxy while the accepted ones are URLs, fetches end |

Four runs reproduce a disagreement between the code and what the repository says of
it; TLC finds the property violated:

| Run | Property | What happens |
|---|---|---|
| `memory_limit` | `LimitCheckReturns` | the limit check waits for the mutex its own caller holds (`memory_manager.go:165`) |
| `hub_panic` | `SlowClientHarmless` | a subscribe command of a client just pruned sends on its closed channel (`hub.go:214`) |
| `hub_state` | `StateOnlyGrows` | the hub replaces the merged state by the last update (`hub.go:40`) |
| `manager_shutdown` | `ShutdownCompletes` | the WaitGroup is incremented twice per source, so `wg.Wait()` never returns (`multi_source_manager.go:148`) |

Two sentences of the repository say more than the code does, and a passing run states
what is true instead:

- "Higher timeframes (15m, 1h, 4h) are strictly built by aggregating these 5-minute Base
  Candles" (`src/README.md:53`). Both programs compute every window from the points:
  `cmd/main` from those of one update (`main.go:244`), `cmd/test` from the ring buffer
  (`core_processing.go:80`); rows are inserted once and never replaced. The rows the
  initial load leaves do roll up (`LoadedCandlesRollUp`). From the first update on they
  need not: when the initial load of `cmd/main` got nothing and an update brings the bars
  of times 1 and 2, the table of two seconds has the row of bar 2 only, since
  `AggregateRealTime` returns the newest window, and that of four seconds one row of both
  bars. Replacing `stage = "initial"` by `stage = "idle"` in the property shows it.
- "Different from real-time!" (`analysis_facade.go:250`, of the volume change of a
  historical candle). `AnalysesAgree` says when it is different, and that the price
  change, of which the comment says nothing, is too: both agree when the window just
  before has points. Otherwise the historical candle is compared with the candle before
  it, however old, or has changes of 0 when it is the first; the real-time candle has a
  volume change of 0 and its price change is that since its own open.

`ShutdownCompletes` is violated in `SourceManager` (the manager of `cmd/test`) and
holds in `YahooSource` (`cmd/main` starts its source directly, so each loop is
counted once).

**Bounds.** Every bound is a constant marked "bound" in its module. Capacities of 1
to 4 stand for 100, 256 and 1000: the code only compares lengths with the capacity,
so each queue must be able to be empty, partly full and full, and overflow with the
number of messages the run has. Two clients are enough for the fan-out: clients
share nothing but the hub, and one of them sending a command is enough for the replay
to race the pruning. Two loops of one source are the first case of overlap. In
`memory_safety` 10 is halved to 5 and 2, and eleven points wrap a buffer of each size.
In `hub` two updates fill a broadcast channel of one slot and leave the producer
waiting, and with the replay and an answer they overflow a client's two slots.
In `manager` the third object is the replacement of a removed source.
In `pipeline` five bars fill two windows of two seconds, one of four and a partial one
of each; the second symbol misses a whole window and has a bar without volume; four
points of memory are just the longest window; one fault is enough for `StoredCandleIsRun` and the calculations, which no failing save
can change. Two are the case of a refused batch that a restarted source sends again
and the database then takes; `EveryPointStored` and the invariant of its proof were
checked with two faults as well, and the theorem is for any number. In `control` three requests are the
shortest sequence in which two overlap and a third meets the result (a name removed
between lookup and update, an index past the end), and the second restart starts from
a file written after the first. In `fetch` one slot makes workers of a batch wait for
each other while those of the other batch run, two accepted proxies are the least
to rotate, and one retry is the least with a refresh before
the last attempt. A list of one symbol twice is the least with two workers for a symbol. Deadlock
checking is off where the system may stop (main returned, the process crashed, the
bounds are used up); it is on for `ring_buffer`.

**Fairness.** Goroutines that can run do run (weak fairness of their next step).
Go's `select` picks at random among ready cases, which justifies strong fairness of
a case that is ready again and again (`HubUnregister`, `SeesDone`, `Pushes`); a mutex
is handed to a waiter in the end (`CleansUp`). Nothing is assumed of the environment:
peers, market, ticks, gRPC requests and signals may come or not. Writing to a socket
has a deadline, so a writePump does not stay in a write (`WF_vars(WritePump(c))`).
In `Fetch` a request ends because the HTTP client has a timeout that `Validate`
requires to be positive, and retries are counted; so weak fairness of the workers,
of the merges and of the return is enough (with one slot a waiting worker stays
enabled whenever the slot is free and every holder returns it; each worker queues
once a fetch, so none can be overtaken for ever). `Pipeline` and `ControlService`
claim no liveness: sources may stay silent and clients need not ask.
`ProducerNeverStuck` needs fewer commands of one client between its registration and
the replay of the state than its channel holds (256): with more, the hub's blocking
send in the replay would wait for a client (`MaxCommands < SendCap`).

## 4. Proofs

`tlapm` checks them from the assumptions on the constants in each module: positive
capacities and bounds, finite sets of sources and of scraped proxies, finite lists of
symbols, integer times and amounts in the rows of an answer, distinct names, a feed with
ascending timestamps and integer prices and volumes, windows of a positive number of
seconds, a configuration file that lists a source once, a minimal capacity that is not
above the one that is halved. No theorem has another hypothesis, and the bounds on
requests, points, faults and time may have any value.

- `RingBufferProofs`: `TypeCorrect`, `WrapTestCorrect`, `NoBlankReadHolds`,
  `LatestIsTailHolds` and `BufferImplementsLog`. The inductive invariant is the type
  invariant, "not full implies index = size", and "the slots in use hold points";
  without the second the test of `GetAll` would not be known to mean "has wrapped".
  The refinement has one step per operation, from the contents of `GetAll` before and
  after it. It covers safety; no fairness is claimed of `BoundedLog`.
- `MemoryManagerProofs`: `TypeCorrect`, `HistoriesKeepNewest`. `KeepsNewest` needs two
  companions: no capacity is below the guaranteed minimum (else the next append would
  shorten the history), and a cleanup drops only points that were added. `NewestKept`,
  `AppendedKept` and `HalvedKept` say what the operations of the buffer do to a
  history without holes.
- `HubProofs`: `HubNeverTouchesClosed`, `TypeCorrect`, `ConnectedSeeEverything`. That the
  hub never sends on a closed channel is not inductive by itself: a client whose
  channel is closed could register again. The invariant adds that a client in its
  handler was never registered, that one with a closed channel has left the handler,
  and that nothing is half served while the hub selects. For `NoGap` it adds that the
  broadcast channel holds consecutive updates from the hub's newest one to the main
  loop's (`Numbered`), that nothing is queued for a client before it is registered
  (`NewIsEmpty`), and that the stream of a registered client reaches up to the hub's
  newest update, or to the one before while the fan-out has still to serve it
  (`StreamsComplete`): without that an update could be missed at the end and the gap
  only show with the next one.
- `SourceManagerProofs`: `TypeCorrect`, `LoopsAreCounted`, `ActiveLoopsAreStoppable`.
  The invariant adds that the set of loops is finite and that an object only runs
  after it was put into the map, which is why the source `AddSource` starts has no
  loop yet. The lemmas `LaunchKeeps` and `HaltKeeps` say what a start and a stop do to
  the loops, with the cardinality argument for the WaitGroup, and are used by every
  operation.
- `YahooSourceProofs`: `TypeCorrect`, `MainReturnsLast`, `RestCoversSent`,
  `FirstLoopSendsInOrder`, `RememberedOnlyGrows`. The WaitGroup counts exactly the loops
  that live (`Counted`; the properties only need one direction, but that one is not
  inductive). Every point sent is covered by what the source remembers or by the copy
  of a loop that will write its copy back (`SentIsCovered`), whatever number of loops
  overlap; a batch holds points its loop has marked as seen (`BatchIsSeen`), so the
  write-back covers it even when the push was aborted, and even when the loop went on
  after that. While there is one loop the
  points sent count up to where its batch goes on (`FirstLoopCountsUp`).
- `FetchProofs`: `TypeCorrect`, `NeverGoesDirect`, `FetchAlwaysAccounts`. A client may
  be built long before it is published, so the invariant speaks of clients under way
  (`AlwaysProxied`), and of a list that a refresh may replace by other URLs but not
  empty; a worker sends by the published client, so none of its requests is direct. That a
  worker's rotations and the index stay in range, and that a batch's taken slots are
  exactly those of the workers at their request, is part of the type invariant's
  argument (`RotationsLeft`, `SlotsCounted`, `WorkersHaveBatch`). `FetchAccounts` speaks
  of the end of a fetch; on the way each batch has a series of exactly the symbols of the workers that are
  done and an error for each that failed (`Tallied`), which a repeated symbol does not
  disturb; a batch that is over has left its series in the merged map and
  its newest timestamps with the source (`Ended`), and the merged map holds nothing else
  (`MergedFromBatches`). That the last row is the newest (`CleanIsChronological`) needs
  no induction: the number of earlier rows maps the valid rows one to one into the
  places, hence onto them.
- `ControlServiceProofs`: `TypeCorrect`, `AnswersAlwaysAddUp`, `ConfigurationFollows`,
  `AcknowledgementsSurvive`. `AnswersAddUp` speaks of moments without requests; between
  them the answers given, plus the adds the manager has carried out and nobody has
  answered, less such removals, make one for a name the manager holds and none for
  another (`Accounted`). Each handler step moves one goroutine between these sets
  (`AccountMoves`). For the other two the invariant (`InStep`) says how far the one
  request there can be without overlaps has brought the three copies: manager,
  configuration and file agree between requests; the manager is ahead from its own step
  on (`Ahead`) until `Write`; from then on manager and configuration agree on what will
  be promised, while the file is empty or old until `WriteFile`; a stopped process
  leaves a file from which a start makes the configuration that was promised. It also
  shows that a request that is alone always finds the entry it updates, so it neither
  panics nor is refused at the last moment. `WithoutKeeps` proves what the loop of
  `RemoveSource` returns, by the least round for which it would not hold
  (`LeastNumber`). That a file lists a source once is needed for
  `AcknowledgementsSurvive` only.
- `PipelineProofs`: `PointsAreStored`, `PricesHaveOneRow`, `RowsLeaveByAge`, and about
  candles `TypeCorrect`, `CandlesAreRuns`, `ServedIsCurrent`, `UpdatesLeaveCandles`, and
  about the calculations `ResamplingPartitions`, `AnalysesAlwaysAgree` and
  `CandlesRollUp`. For the first three: from the end of the initial load on, every row
  received is stored, expired or of a refused batch (`Stored`), also in the middle of an
  update; before it main still holds all of them (`LoadIsComplete`). That a batch is the
  bars of an interval rests on the least number of bars with a property (`LeastNumber`,
  from the well-foundedness of `<`). The proof of `PointsAreStored` brought out that a
  refused row a restarted source sends again is no longer lost: `lost` was only added to
  before, which two faults refuted.

  The next four follow the bars of a candle from the feed to the tables and the server
  (`CandleInv`). While nothing is sent twice, a history is the newest bars received, as
  many as the ring buffer takes (`History`), and a batch the last few of them, that of
  the initial load all (`BatchIsNewest`). What a window has of such a slice is again a
  slice (`BetweenOfSlice`), so each stored row is of a run of bars (`CandleRows`). It
  starts with the window's first bar because a window of n seconds has n bars at most
  (`WindowFits`): a ring buffer of n points has all of the newest window. Rows stay good
  while bars are received, as these come later (`GoodRowStays`). For what is served the
  invariant speaks of the state the hub will have reached, the last message in the
  channel or the server's state if there is none (`Shown`): merging or replacing, the
  hub and the main loop only bring it closer (`ServedCurrent`). Sorting leaves a history
  in order as it is (`SortedStays`), and the newest candle is the last
  (`AscendingOrder`); what `ComputeOHLCV` makes of the bars does not matter here.

  The last three are about any history, with repeated and disordered points.
  `ResamplingPartitions`: sorting by rank gives each place a time of the sequence
  (`SortedValues`); the window starts are multiples of the window from the least time
  on, hence a window apart in their order (`Multiples`, `StartsFollow`), and the
  greatest multiple up to a time (`Rounded`) starts the window that has it, which is
  never the last start because they go on until a window after the greatest time.

  `AnalysesAlwaysAgree`: a sorted history has all points of the history and is in order
  (`SortedInOrder`), so the newest point's window starts last, and each start has a
  point in its window (`StartsHavePoints`). The last historical candle is then made of
  the points of the real-time one; the changes of both look at the points before it, in
  the window before or in all earlier ones. The real-time ones are exactly the changes
  since the last candle but one when that ends where the newest begins (`Agree`), as
  then its points are those of the window before, and the values of the fallback
  otherwise; each historical candle's are those since the one before (`LatestChanges`). The statistics go over the same starts.

  `CandlesRollUp`: the rows of the initial load are, per window, all candles of the
  points loaded, or none when the save failed (`Loaded`), so what remains is about one
  history. The start of a window is a multiple of its length, hence of that of
  a shorter window it is a multiple of (`StartIsMultiple`, `MultipleOfMultiple`), so the
  shorter windows inside follow one another with no point between them (`NoneBetween`),
  and the points of the longer window are consecutive runs of theirs (`RunsFollow`).
  The extremes of the runs' extremes are those of all (`RunsRollUp`); the volumes
  telescope, as each run's is the difference of two sums from the beginning
  (`SliceVolume`). That a sum grows by what is added is the one place where the fold is
  opened: that the function of its definition exists (`FoldExists`) and has the sums
  as values (`Sums`) is shown by the least set or place where it would not hold,
  in place of an induction.

The inductive invariants were model-checked on the runs' instances before they were
proved.

Only model-checked:

- Liveness under fairness (`DeadClientReaped`, `ProducerNeverStuck`, `QuitStopsLoops`,
  `StoppedLoopEnds`, `ShutdownCompletes`, `FetchReturns`): out of the prover's reach, like
  ENABLED.
- The four properties the code violates, which have counterexamples in place of proofs.

Every other property of a run, all of them safety, is a theorem.

## 5. What is left out

- The market calendar (data; a market being open is a free choice), the logger, the
  models, the REST answers and accessors, which only read, the user interface and the
  generated code: see "components" in `PROJECT.json`.
- In the modelled parts: the content of subscribe answers beyond the maps they share; `Stop` of the server and
  `SetLatestState`, which nothing calls; `ListSources` and `GetStatus`, which only
  read; `CalculateZScore`, `ConvertToMatrix`, `ResampleData`, `ResampleMultiData` and
  `SearchSorted`, which nothing calls; the `symbols` table of PostgreSQL, which
  nothing reads; `error_handler.go`, which nothing calls; the fields of the
  configuration other than the sources, which never change.

Known behaviour that the properties allow for or that no property covers:

- A source restarted while its old loop runs sends a batch again. The duplicate keys
  roll the whole batch back, new points included (`resent`, `lost`).
- An aborted push has already marked its points as seen: they are not sent after a
  restart of the source.
- After the manager's `Stop` the sources still say that they run, so a second `Start`
  fails on the first of them; a `StartSource` that read the map before a
  `RemoveSource` starts a source no request can name.
- A push that a stop gave up and a restart followed at once reports no error: the old
  loop takes the batch for pushed and goes on beside the new one.
- With a proxy that is no URL, and while the proxies are refreshed, requests go out
  without a proxy (`NeverDirect` says which).
- A symbol a list names twice is fetched twice; the results are then fewer than the
  places of the list, and the log's "Fetched n/m symbols" with them.
- `cmd/main` aggregates an update from its own points alone, so its candles are
  fragments of their window; in both programs a stored candle stays as it was when
  its window was first seen (`StoredCandleIsRun`), so longer candles are not made of
  the shorter ones that are stored or served (section 3).
- The raw data of an update never reach the server's state (`SafeStockPriceMap`), and
  the hub replaces the raw data of the initial load by their empty map.
- Overlapping gRPC requests overwrite each other's change of the configuration; an
  `UpdateSymbols` whose index got stale may panic (`Write`).
- A source whose name is not "yahoo" is acknowledged and saved, but not set up at the
  next start; removing the last source, or adding one without symbols, leaves a file
  that `Validate` refuses.
- A crash between the truncation of the configuration file and its writing leaves it
  empty, and the next start refuses it. The model has that restart; `quiet` takes it, and
  the lost updates above, out of what `ConfigFollowsManager` and `AcknowledgedSurvives`
  promise.
- Nothing refuses a file that lists a source twice: an update would change the first
  entry, a start take the last. `UniqueAssumption` excludes such a file.
- PostgreSQL resolves references once: after the first `Save` the file lists symbols,
  and later changes of the table are not seen.
- A window shorter than a second would divide by zero; the assumption on
  `WindowSeconds` excludes it.

## 6. Plan

The code that is left is data, formatting or unused, and every safety property of a
passing run is proved. What could be added:

1. Which part of the histories' order survives a batch sent twice.
2. `StoredCandleIsRun` for the main program when its ring buffer holds a window: which
   bar a candle then starts with.
