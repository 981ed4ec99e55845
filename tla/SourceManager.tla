--------------------------- MODULE SourceManager ---------------------------
(***************************************************************************)
(* The lifecycle of the data sources: MultiSourceManager, the Start / Stop *)
(* / runLoop skeleton of YahooFinanceSource, the gRPC handlers that add,   *)
(* remove, start and stop sources while the program runs, and the shutdown *)
(* of cmd/test/main.go.  What the loops fetch and push is the business of  *)
(* YahooSource; here a loop only lives until its context is cancelled.     *)
(*                                                                         *)
(* Context 0 is the one main creates; context k the one the manager        *)
(* derives from it in its k-th Start.  A loop's own context derives from   *)
(* the one its Start was given.                                            *)
(***************************************************************************)
EXTENDS Integers, FiniteSets

CONSTANTS
  Object,            \* YahooFinanceSource objects
  Name,              \* source names
  NameOf,            \* the name each object was made with
  Configured,        \* objects made from the configuration file
  Request,           \* goroutines serving gRPC StartSource and StopSource
  NoObject,          \* an absent map entry
  MaxManagerStarts,  \* bound: successful calls of the manager's Start
  MaxStarts          \* bound: loops an object starts

ASSUME SourceManagerAssumption ==
  /\ IsFiniteSet(Object)
  /\ NameOf \in [Object -> Name]
  /\ Configured \subseteq Object
  /\ NoObject \notin Object
  /\ MaxManagerStarts \in Nat \ {0}
  /\ MaxStarts \in Nat \ {0}

\* setupDataSources makes one object per configured source; the names of the
\* configuration are taken to be distinct.
ASSUME ConfiguredAssumption ==
  \A o, p \in Configured : NameOf[o] = NameOf[p] => o = p

VARIABLES
  sources,      \* the manager's map from names to sources
  mgrCtx,       \* m.ctx: 0 for nil, or the number of the manager's context
  ctxMade,      \* contexts the manager has made
  ctxCancelled, \* contexts that were cancelled
  known,        \* objects that were ever put into the map
  running,      \* isRunning of each object
  starts,       \* loops each object has started
  live,         \* loops (runLoop goroutines) that have not returned
  wg,           \* counter of the shared WaitGroup
  request,      \* what each gRPC request has read under the manager's lock
  mainPc        \* where main is

vars == <<sources, mgrCtx, ctxMade, ctxCancelled, known, running, starts, live,
          wg, request, mainPc>>

mgrVars == <<sources, mgrCtx, ctxMade, known>>

Context == 0..MaxManagerStarts

Loop == [obj : Object, num : 1..MaxStarts, ctx : Context, stopped : BOOLEAN]

Idle == [op |-> "idle"]

Pending == [op : {"start"}, obj : Object, ctx : Context]
             \union [op : {"stop"}, obj : Object]

\* The objects in the map.
Present == {sources[n] : n \in Name} \ {NoObject}

\* Error: the loop's context derives from context.Background().
CancelledByStopOnly(l) == l.stopped

\* The loop's context is done: its own cancelFunc was called, or the context it
\* derives from was cancelled.
Cancelled(l) == l.stopped \/ l.ctx \in ctxCancelled \/ 0 \in ctxCancelled

\* When main returns the process is gone.
Up == mainPc # "done"

Init ==
  /\ sources = [n \in Name |->
                  IF \E o \in Configured : NameOf[o] = n
                    THEN CHOOSE o \in Configured : NameOf[o] = n
                    ELSE NoObject]
  /\ mgrCtx = 0
  /\ ctxMade = 0
  /\ ctxCancelled = {}
  /\ known = Configured
  /\ running = [o \in Object |-> FALSE]
  /\ starts = [o \in Object |-> 0]
  /\ live = {}
  /\ wg = 0
  /\ request = [r \in Request |-> Idle]
  /\ mainPc = "boot"

-----------------------------------------------------------------------------
(* One source: YahooFinanceSource.Start, Stop and the end of runLoop. *)

\* The loop that Start launches for o under context k.
NewLoop(o, k) ==
  [obj |-> o, num |-> starts[o] + 1, ctx |-> k, stopped |-> FALSE]

\* Error: the loop is launched without wg.Add(1) in Start.
LaunchWithoutAdd(S, k, extra) ==
  /\ \A o \in S : starts[o] < MaxStarts
  /\ running' = [o \in Object |-> running[o] \/ o \in S]
  /\ starts' = [o \in Object |-> IF o \in S THEN starts[o] + 1 ELSE starts[o]]
  /\ live' = live \union {NewLoop(o, k) : o \in S}
  /\ wg' = wg + extra * Cardinality(S)

\* Start succeeds for every object of S; each adds one to the WaitGroup, and the
\* caller has added extra more for each.
Launch(S, k, extra) ==
  /\ \A o \in S : starts[o] < MaxStarts
  /\ running' = [o \in Object |-> running[o] \/ o \in S]
  /\ starts' = [o \in Object |-> IF o \in S THEN starts[o] + 1 ELSE starts[o]]
  /\ live' = live \union {NewLoop(o, k) : o \in S}
  /\ wg' = wg + (1 + extra) * Cardinality(S)

\* Stop of a running source: cancels the context of the newest loop and does
\* not wait for it.
Halt(o) ==
  /\ running' = [running EXCEPT ![o] = FALSE]
  /\ live' = {IF l.obj = o /\ l.num = starts[o]
                THEN [l EXCEPT !.stopped = TRUE] ELSE l : l \in live}

\* runLoop sees ctx.Done and returns, calling wg.Done.  isRunning is left as is.
LoopReturns(l) ==
  /\ Up
  /\ l \in live
  /\ Cancelled(l)
  /\ live' = live \ {l}
  /\ wg' = wg - 1
  /\ UNCHANGED <<mgrVars, ctxCancelled, running, starts, request, mainPc>>

-----------------------------------------------------------------------------
(* The manager.  Each operation runs under m.mu. *)

\* Start: a WaitGroup unit for every source on top of the one its Start adds.
\* The map is ranged over in any order and the first source that is already
\* running ends the loop with an error, the ones before it stay started.
ManagerStarts ==
  /\ mgrCtx = 0
  /\ ctxMade < MaxManagerStarts
  /\ mgrCtx' = ctxMade + 1
  /\ ctxMade' = ctxMade + 1
  /\ LET busy == {o \in Present : running[o]}
     IN  \E S \in SUBSET (Present \ busy) :
           /\ busy = {} => S = Present
           /\ Launch(S, mgrCtx', 1)
  /\ UNCHANGED <<sources, ctxCancelled, known, request>>

\* Stop: cancels the manager's context; the sources' own flags are not reset.
ManagerStops ==
  /\ Up
  /\ mgrCtx # 0
  /\ ctxCancelled' = ctxCancelled \union {mgrCtx}
  /\ mgrCtx' = 0
  /\ UNCHANGED <<sources, ctxMade, known, running, starts, live, wg, request,
                 mainPc>>

\* AddSource with a new object; started at once when the manager runs.
AddSource(o) ==
  /\ Up
  /\ o \notin known
  /\ sources[NameOf[o]] = NoObject
  /\ sources' = [sources EXCEPT ![NameOf[o]] = o]
  /\ known' = known \union {o}
  /\ IF mgrCtx # 0
       THEN Launch({o}, mgrCtx, 1)
       ELSE UNCHANGED <<running, starts, live, wg>>
  /\ UNCHANGED <<mgrCtx, ctxMade, ctxCancelled, request, mainPc>>

\* RemoveSource: an error of Stop (not running) is only logged.
RemoveSource(n) ==
  /\ Up
  /\ sources[n] # NoObject
  /\ IF running[sources[n]]
       THEN Halt(sources[n])
       ELSE UNCHANGED <<running, live>>
  /\ sources' = [sources EXCEPT ![n] = NoObject]
  /\ UNCHANGED <<mgrCtx, ctxMade, ctxCancelled, known, starts, wg, request,
                 mainPc>>

-----------------------------------------------------------------------------
(* gRPC StartSource and StopSource read the map under the lock, release it and
   then call the source. *)

ReadsForStart(r, n) ==
  /\ Up
  /\ request[r] = Idle
  /\ sources[n] # NoObject
  /\ mgrCtx # 0
  /\ request' = [request EXCEPT ![r] =
                   [op |-> "start", obj |-> sources[n], ctx |-> mgrCtx]]
  /\ UNCHANGED <<mgrVars, ctxCancelled, running, starts, live, wg, mainPc>>

ReadsForStop(r, n) ==
  /\ Up
  /\ request[r] = Idle
  /\ sources[n] # NoObject
  /\ request' = [request EXCEPT ![r] = [op |-> "stop", obj |-> sources[n]]]
  /\ UNCHANGED <<mgrVars, ctxCancelled, running, starts, live, wg, mainPc>>

\* Error: Start does not look at isRunning.
StartsAnyway(r) ==
  /\ Up
  /\ request[r].op = "start"
  /\ Launch({request[r].obj}, request[r].ctx, 0)
  /\ request' = [request EXCEPT ![r] = Idle]
  /\ UNCHANGED <<mgrVars, ctxCancelled, mainPc>>

\* source.Start(ctx, outChan, m.wg), an error when it is already running.
StartsSource(r) ==
  /\ Up
  /\ request[r].op = "start"
  /\ IF running[request[r].obj]
       THEN UNCHANGED <<running, starts, live, wg>>
       ELSE Launch({request[r].obj}, request[r].ctx, 0)
  /\ request' = [request EXCEPT ![r] = Idle]
  /\ UNCHANGED <<mgrVars, ctxCancelled, mainPc>>

\* source.Stop(), an error when it is not running.
StopsSource(r) ==
  /\ Up
  /\ request[r].op = "stop"
  /\ IF running[request[r].obj]
       THEN Halt(request[r].obj)
       ELSE UNCHANGED <<running, live>>
  /\ request' = [request EXCEPT ![r] = Idle]
  /\ UNCHANGED <<mgrVars, ctxCancelled, starts, wg, mainPc>>

-----------------------------------------------------------------------------
(* main.  Its gRPC server is up before the manager starts and is never shut
   down. *)

\* multiSource.Start, then the data loop.
MainStartsManager ==
  /\ mainPc = "boot"
  /\ ManagerStarts
  /\ mainPc' = "loop"

\* The manager, stopped earlier, is started again.
ManagerRestarts ==
  /\ mainPc = "loop"
  /\ ManagerStarts
  /\ UNCHANGED mainPc

\* SIGINT or SIGTERM: cancel() and on to wg.Wait().
MainQuits ==
  /\ mainPc = "loop"
  /\ ctxCancelled' = ctxCancelled \union {0}
  /\ mainPc' = "waiting"
  /\ UNCHANGED <<mgrVars, running, starts, live, wg, request>>

\* wg.Wait() returns; main closes the updates channel and returns.
MainReturns ==
  /\ mainPc = "waiting"
  /\ wg = 0
  /\ mainPc' = "done"
  /\ UNCHANGED <<mgrVars, ctxCancelled, running, starts, live, wg, request>>

-----------------------------------------------------------------------------

Main == MainStartsManager \/ MainQuits \/ MainReturns

Grpc ==
  \/ \E o \in Object : AddSource(o)
  \/ \E n \in Name : RemoveSource(n)
  \/ \E r \in Request, n \in Name : ReadsForStart(r, n) \/ ReadsForStop(r, n)
  \/ \E r \in Request : StartsSource(r) \/ StopsSource(r)

Next ==
  \/ Main
  \/ Grpc
  \/ ManagerStops
  \/ ManagerRestarts
  \/ \E l \in live : LoopReturns(l)

Spec == Init /\ [][Next]_vars

\* A loop whose context is done returns; main, once waiting, is woken when the
\* counter is zero.  Signals and requests may or may not come.
FairSpec ==
  /\ Spec
  /\ \A l \in Loop : WF_vars(LoopReturns(l))
  /\ WF_vars(MainReturns)

-----------------------------------------------------------------------------
(* Properties. *)

TypeOK ==
  /\ sources \in [Name -> Object \union {NoObject}]
  /\ mgrCtx \in Context
  /\ ctxMade \in Context
  /\ ctxCancelled \subseteq Context
  /\ known \subseteq Object
  /\ running \in [Object -> BOOLEAN]
  /\ starts \in [Object -> 0..MaxStarts]
  /\ live \subseteq Loop
  /\ wg \in Nat
  /\ request \in [Request -> {Idle} \union Pending]
  /\ mainPc \in {"boot", "loop", "waiting", "done"}

\* The WaitGroup counts every loop that has not returned, whatever mixture of
\* starts, failed starts, stops and removals led here: Wait cannot return while
\* a loop can still push to the channel main is about to close.
WaitGroupCoversLoops == wg >= Cardinality(live)

\* A loop that nobody has told to stop is the newest one of its object and its
\* object says that it is running: so a source has one such loop at most, and
\* its Stop reaches it.
ActiveLoopIsStoppable ==
  \A l \in live : ~Cancelled(l) => running[l.obj] /\ l.num = starts[l.obj]

\* After the signal every loop returns, those that requests start during the
\* shutdown included.
QuitStopsLoops == mainPc = "waiting" ~> live = {}

\* After the signal main returns (README.md:67, "Graceful shutdown").
ShutdownCompletes == mainPc = "waiting" ~> mainPc = "done"
=============================================================================
