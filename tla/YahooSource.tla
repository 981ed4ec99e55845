---------------------------- MODULE YahooSource ----------------------------
(***************************************************************************)
(* One YahooFinanceSource, the updates channel and the main loop that      *)
(* consumes it.  A runLoop copies LastTimestamps, fetches, drops the       *)
(* points it has seen, pushes the rest and writes its copy back when it    *)
(* ends.  Start and Stop may be called again and again; Stop does not wait *)
(* for the loop, so several loops of one source can be alive at once.      *)
(*                                                                         *)
(* A price point is its timestamp.  The provider has the points 1..market  *)
(* of every symbol (candles of one grid) and every fetch returns all of    *)
(* them (range "1d"), so a batch is an interval of timestamps per symbol.  *)
(***************************************************************************)
EXTENDS Integers, Sequences, FiniteSets

CONSTANTS
  Symbol,    \* symbols the source can be asked for
  ChanCap,   \* capacity of the updates channel (100, cmd/test: 500)
  MaxTs,     \* bound: newest timestamp the provider reaches
  MaxLoops   \* bound: successful calls of Start

ASSUME YahooAssumption ==
  /\ ChanCap \in Nat \ {0}
  /\ MaxTs \in Nat \ {0}
  /\ MaxLoops \in Nat \ {0}

VARIABLES
  market,         \* newest point the provider has
  symbols,        \* the source's symbol list
  lastTimestamps, \* LastTimestamps; 0 for a missing entry
  running,        \* isRunning
  current,        \* s.ctx and s.cancelFunc: the newest loop's context, 0 for nil
  cancelled,      \* loops whose own context was cancelled
  quit,           \* main's context was cancelled
  pc,             \* where each loop is
  local,          \* localTimestamps of each loop
  batch,          \* validData a loop is about to push
  waitsOn,        \* the context the push of each loop selects on
  channel,        \* updatesChan
  sent,           \* points put into the channel, per symbol, in order
  wg,             \* the WaitGroup's counter
  mainPc          \* where main is

vars == <<market, symbols, lastTimestamps, running, current, cancelled, quit, pc,
          local, batch, waitsOn, channel, sent, wg, mainPc>>

srcVars  == <<symbols, lastTimestamps, running, current, cancelled>>
loopVars == <<pc, local, batch, waitsOn>>
outVars  == <<channel, sent>>

Loop == 1..MaxLoops

\* Points from[s] + 1 to to[s] of each symbol s.
NoBatch == [s \in Symbol |-> [from |-> 0, to |-> 0]]

Points(b, s) == [i \in 1..(b[s].to - b[s].from) |-> b[s].from + i]

\* Error: the loops' contexts derive from context.Background().
DoneByStopOnly(l) == l \in cancelled

\* A loop's context is done: Stop cancelled it, or main cancelled its parent.
Done(l) == l \in cancelled \/ quit

Up == mainPc # "done"

\* At bootstrap FetchInitialData records the newest point of each symbol it gets
\* data for; a source added through gRPC starts with an empty map.
Init ==
  /\ market = 1
  /\ symbols = Symbol
  /\ lastTimestamps \in [Symbol -> {0, 1}]
  /\ running = FALSE
  /\ current = 0
  /\ cancelled = {}
  /\ quit = FALSE
  /\ pc = [l \in Loop |-> "off"]
  /\ local = [l \in Loop |-> [s \in Symbol |-> 0]]
  /\ batch = [l \in Loop |-> NoBatch]
  /\ waitsOn = [l \in Loop |-> 0]
  /\ channel = << >>
  /\ sent = [s \in Symbol |-> << >>]
  /\ wg = 0
  /\ mainPc = "loop"

\* The provider publishes a point of every symbol.
MarketMoves ==
  /\ Up
  /\ market < MaxTs
  /\ market' = market + 1
  /\ UNCHANGED <<srcVars, quit, loopVars, outVars, wg, mainPc>>

-----------------------------------------------------------------------------
(* The methods other goroutines call. *)

\* Error: the loop is launched before it is counted.
StartWithoutAdd ==
  /\ Up
  /\ ~running
  /\ current < MaxLoops
  /\ current' = current + 1
  /\ running' = TRUE
  /\ pc' = [pc EXCEPT ![current'] = "copy"]
  /\ UNCHANGED <<market, symbols, lastTimestamps, cancelled, quit, local, batch,
                 waitsOn, outVars, wg, mainPc>>

\* The new context derives from main's; when main has quit it is done at once.
Start ==
  /\ Up
  /\ ~running
  /\ current < MaxLoops
  /\ current' = current + 1
  /\ running' = TRUE
  /\ pc' = [pc EXCEPT ![current'] = "copy"]
  /\ wg' = wg + 1
  /\ UNCHANGED <<market, symbols, lastTimestamps, cancelled, quit, local, batch,
                 waitsOn, outVars, mainPc>>

\* Cancels the newest loop's context and returns without waiting for the loop.
Stop ==
  /\ Up
  /\ running
  /\ cancelled' = cancelled \union {current}
  /\ running' = FALSE
  /\ UNCHANGED <<market, symbols, lastTimestamps, current, quit, loopVars,
                 outVars, wg, mainPc>>

UpdateSymbols(new) ==
  /\ Up
  /\ new # symbols
  /\ symbols' = new
  /\ UNCHANGED <<market, lastTimestamps, running, current, cancelled, quit,
                 loopVars, outVars, wg, mainPc>>

-----------------------------------------------------------------------------
(* runLoop. *)

Copies(l) ==
  /\ Up
  /\ pc[l] = "copy"
  /\ local' = [local EXCEPT ![l] = lastTimestamps]
  /\ pc' = [pc EXCEPT ![l] = "select"]
  /\ UNCHANGED <<market, srcVars, quit, batch, waitsOn, outVars, wg, mainPc>>

\* case <-ctx.Done(), in the outer select or in the sleep.
SeesDone(l) ==
  /\ Up
  /\ pc[l] \in {"select", "sleep"}
  /\ Done(l)
  /\ pc' = [pc EXCEPT ![l] = "sync"]
  /\ UNCHANGED <<market, srcVars, quit, local, batch, waitsOn, outVars, wg,
                 mainPc>>

\* The ticker fires while every market is closed, and the pause ends.
Sleeps(l) ==
  /\ Up
  /\ pc[l] = "select"
  /\ pc' = [pc EXCEPT ![l] = "sleep"]
  /\ UNCHANGED <<market, srcVars, quit, local, batch, waitsOn, outVars, wg,
                 mainPc>>

Wakes(l) ==
  /\ Up
  /\ pc[l] = "sleep"
  /\ pc' = [pc EXCEPT ![l] = "select"]
  /\ UNCHANGED <<market, srcVars, quit, local, batch, waitsOn, outVars, wg,
                 mainPc>>

\* Error: the dedup compares with >= and keeps the last point seen.
FreshOrLast(l, ok) ==
  [s \in Symbol |->
     IF s \in ok /\ local[l][s] > 0 /\ market >= local[l][s]
       THEN [from |-> local[l][s] - 1, to |-> market]
       ELSE [from |-> 0, to |-> 0]]

\* The points of symbol s in a fetch that got data for the symbols of ok and
\* that are newer than the last one the loop has seen.
Fresh(l, ok) ==
  [s \in Symbol |->
     IF s \in ok /\ market > local[l][s]
       THEN [from |-> local[l][s], to |-> market]
       ELSE [from |-> 0, to |-> 0]]

\* The ticker fires, the fetch gets data for some of the symbols, fresh points
\* are selected and marked as seen before they are pushed.  A fetch that fails
\* altogether or brings nothing new changes nothing.
Fetches(l) ==
  /\ Up
  /\ pc[l] = "select"
  /\ \E ok \in SUBSET symbols :
       /\ Fresh(l, ok) # NoBatch
       /\ batch' = [batch EXCEPT ![l] = Fresh(l, ok)]
       /\ local' = [local EXCEPT ![l] =
                      [s \in Symbol |-> IF batch'[l][s].to > @[s]
                                          THEN batch'[l][s].to ELSE @[s]]]
  /\ pc' = [pc EXCEPT ![l] = "push"]
  /\ UNCHANGED <<market, srcVars, quit, waitsOn, outVars, wg, mainPc>>

\* PushToDataSourceManager reads s.ctx, without the lock, when it enters its
\* select: it is the context of the newest loop, not of this one.
EntersPush(l) ==
  /\ Up
  /\ pc[l] = "push"
  /\ waitsOn' = [waitsOn EXCEPT ![l] = current]
  /\ pc' = [pc EXCEPT ![l] = "pushing"]
  /\ UNCHANGED <<market, srcVars, quit, local, batch, outVars, wg, mainPc>>

\* case s.outputChan <- data.
Pushes(l) ==
  /\ Up
  /\ pc[l] = "pushing"
  /\ Len(channel) < ChanCap
  /\ channel' = Append(channel, batch[l])
  /\ sent' = [s \in Symbol |-> sent[s] \o Points(batch[l], s)]
  /\ batch' = [batch EXCEPT ![l] = NoBatch]
  /\ waitsOn' = [waitsOn EXCEPT ![l] = 0]
  /\ pc' = [pc EXCEPT ![l] = "select"]
  /\ UNCHANGED <<market, srcVars, quit, local, wg, mainPc>>

\* Error: no second case in the select of the push.
NeverAborts(l) == FALSE

\* case <-s.ctx.Done() of the context the push waits on: the batch is given up,
\* although its points are marked as seen.
Aborts(l) ==
  /\ Up
  /\ pc[l] = "pushing"
  /\ Done(waitsOn[l])
  /\ batch' = [batch EXCEPT ![l] = NoBatch]
  /\ waitsOn' = [waitsOn EXCEPT ![l] = 0]
  /\ pc' = [pc EXCEPT ![l] = "aborting"]
  /\ UNCHANGED <<market, srcVars, quit, local, outVars, wg, mainPc>>

\* return s.ctx.Err() reads s.ctx again.  When it still is a done context the
\* loop ends; after a restart in between there is no error, and the loop takes
\* the lost batch for pushed and goes on.
ReadsErr(l) ==
  /\ Up
  /\ pc[l] = "aborting"
  /\ pc' = [pc EXCEPT ![l] = IF Done(current) THEN "sync" ELSE "select"]
  /\ UNCHANGED <<market, srcVars, quit, local, batch, waitsOn, outVars, wg, mainPc>>

\* Error: the copy is written back whatever is there.
SyncsBlindly(l) ==
  /\ Up
  /\ pc[l] = "sync"
  /\ lastTimestamps' = local[l]
  /\ pc' = [pc EXCEPT ![l] = "leave"]
  /\ UNCHANGED <<market, symbols, running, current, cancelled, quit, local,
                 batch, waitsOn, outVars, wg, mainPc>>

\* Error: only entries the map already has are written back.
SyncsKnownOnly(l) ==
  /\ Up
  /\ pc[l] = "sync"
  /\ lastTimestamps' = [s \in Symbol |->
                         IF lastTimestamps[s] > 0 /\ local[l][s] > lastTimestamps[s]
                           THEN local[l][s] ELSE lastTimestamps[s]]
  /\ pc' = [pc EXCEPT ![l] = "leave"]
  /\ UNCHANGED <<market, symbols, running, current, cancelled, quit, local,
                 batch, waitsOn, outVars, wg, mainPc>>

\* The deferred write-back of the newer timestamps ...
Syncs(l) ==
  /\ Up
  /\ pc[l] = "sync"
  /\ lastTimestamps' = [s \in Symbol |-> IF local[l][s] > lastTimestamps[s]
                                           THEN local[l][s]
                                           ELSE lastTimestamps[s]]
  /\ pc' = [pc EXCEPT ![l] = "leave"]
  /\ UNCHANGED <<market, symbols, running, current, cancelled, quit, local,
                 batch, waitsOn, outVars, wg, mainPc>>

\* ... and the deferred wg.Done.  isRunning is not reset.
Leaves(l) ==
  /\ Up
  /\ pc[l] = "leave"
  /\ wg' = wg - 1
  /\ pc' = [pc EXCEPT ![l] = "done"]
  /\ UNCHANGED <<market, srcVars, quit, local, batch, waitsOn, outVars, mainPc>>

-----------------------------------------------------------------------------
(* cmd/main/main.go from the start of the data loop on. *)

MainReceives ==
  /\ mainPc = "loop"
  /\ channel # << >>
  /\ channel' = Tail(channel)
  /\ UNCHANGED <<market, srcVars, quit, loopVars, sent, wg, mainPc>>

\* SIGINT or SIGTERM: cancel(); from now on nobody receives.
MainQuits ==
  /\ mainPc = "loop"
  /\ quit' = TRUE
  /\ mainPc' = "waiting"
  /\ UNCHANGED <<market, srcVars, loopVars, outVars, wg>>

\* wrapWg.Wait() returns.
MainReturns ==
  /\ mainPc = "waiting"
  /\ wg = 0
  /\ mainPc' = "done"
  /\ UNCHANGED <<market, srcVars, quit, loopVars, outVars, wg>>

-----------------------------------------------------------------------------

RunLoop(l) ==
  \/ Copies(l) \/ SeesDone(l) \/ Sleeps(l) \/ Wakes(l)
  \/ Fetches(l) \/ EntersPush(l) \/ Pushes(l) \/ Aborts(l) \/ ReadsErr(l)
  \/ Syncs(l) \/ Leaves(l)

Main == MainReceives \/ MainQuits \/ MainReturns

Next ==
  \/ MarketMoves
  \/ Start
  \/ Stop
  \/ \E new \in SUBSET Symbol : UpdateSymbols(new)
  \/ \E l \in Loop : RunLoop(l)
  \/ Main

Spec == Init /\ [][Next]_vars

\* A loop that can move does, and as the select picks at random between its
\* ticker and ctx.Done it does not miss a done context for ever.  Main keeps
\* receiving until it quits.  Ticks, the market, requests and signals are free.
FairSpec ==
  /\ Spec
  /\ \A l \in Loop :
       /\ WF_vars(Copies(l) \/ EntersPush(l) \/ ReadsErr(l) \/ Syncs(l) \/ Leaves(l))
       /\ SF_vars(SeesDone(l))
       /\ SF_vars(Pushes(l))
       /\ WF_vars(Pushes(l) \/ Aborts(l))
  /\ WF_vars(MainReceives)
  /\ WF_vars(MainReturns)

-----------------------------------------------------------------------------
(* Properties. *)

TypeOK ==
  /\ market \in 1..MaxTs
  /\ symbols \subseteq Symbol
  /\ lastTimestamps \in [Symbol -> 0..MaxTs]
  /\ running \in BOOLEAN
  /\ current \in 0..MaxLoops
  /\ cancelled \subseteq Loop
  /\ quit \in BOOLEAN
  /\ pc \in [Loop -> {"off", "copy", "select", "sleep", "push", "pushing",
                      "aborting", "sync", "leave", "done"}]
  /\ local \in [Loop -> [Symbol -> 0..MaxTs]]
  /\ batch \in [Loop -> [Symbol -> [from : 0..MaxTs, to : 0..MaxTs]]]
  /\ waitsOn \in [Loop -> 0..MaxLoops]
  /\ channel \in Seq([Symbol -> [from : 0..MaxTs, to : 0..MaxTs]])
  /\ Len(channel) <= ChanCap
  /\ sent \in [Symbol -> Seq(1..MaxTs)]
  /\ wg \in 0..MaxLoops
  /\ mainPc \in {"loop", "waiting", "done"}

\* Every point of a symbol enters the channel once, in order and without a
\* hole, until the source is started a second time: partial fetches, a full
\* channel, changing symbol lists and closed markets lose and repeat nothing.
\* (A start that copies lastTimestamps while an older loop has not written back
\* sends that loop's points again.)
OnceInOrder ==
  current <= 1 =>
    \A s \in Symbol : \A i \in 1..(Len(sent[s]) - 1) :
      sent[s][i + 1] = sent[s][i] + 1

\* What a restarted source remembers never goes back, in whatever order the
\* loops of earlier starts end.
LastTimestampsGrow ==
  [][\A s \in Symbol : lastTimestamps'[s] >= lastTimestamps[s]]_vars

\* Once every loop has ended, what the source remembers covers every point it
\* pushed: a restart at that moment repeats nothing.
RestRemembersSent ==
  (\A l \in Loop : pc[l] \in {"off", "leave", "done"}) =>
    \A s \in Symbol : \A i \in 1..Len(sent[s]) : sent[s][i] <= lastTimestamps[s]

\* A loop that was told to stop ends, even when its push waits on the context of
\* a later loop, the channel is full, or a restart between the two reads of s.ctx
\* makes it take an aborted push for a successful one.
StoppedLoopEnds == \A l \in Loop : Done(l) /\ pc[l] # "off" ~> pc[l] = "done"

\* main returns after every loop has written its timestamps back.
ReturnsAfterLoops ==
  mainPc = "done" => \A l \in Loop : pc[l] \in {"off", "done"}

\* After the signal the program ends (README.md:67, "Graceful shutdown"), the
\* channel full or not.
ShutdownCompletes == mainPc = "waiting" ~> mainPc = "done"
=============================================================================
