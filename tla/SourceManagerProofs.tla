------------------------ MODULE SourceManagerProofs ------------------------
(***************************************************************************)
(* Theorems about SourceManager, for every finite set of sources, every    *)
(* set of requests and every number of starts.                             *)
(***************************************************************************)
EXTENDS SourceManager, FiniteSetTheorems, TLAPS

\* TypeOK without the WaitGroup's counter, which is a natural number because it
\* covers the loops.
Types ==
  /\ sources \in [Name -> Object \union {NoObject}]
  /\ mgrCtx \in Context
  /\ ctxMade \in Context
  /\ ctxCancelled \subseteq Context
  /\ known \subseteq Object
  /\ running \in [Object -> BOOLEAN]
  /\ starts \in [Object -> 0..MaxStarts]
  /\ live \subseteq Loop
  /\ request \in [Request -> {Idle} \union Pending]
  /\ mainPc \in {"boot", "loop", "waiting", "done"}

Counted == /\ IsFiniteSet(live)
           /\ wg \in Int
           /\ WaitGroupCoversLoops

\* An object runs only after it was put into the map, and requests only hold
\* objects that were: the source AddSource starts has never run.
KnownFirst ==
  /\ \A n \in Name : sources[n] # NoObject => sources[n] \in known
  /\ \A r \in Request : request[r].op = "start" => request[r].obj \in known
  /\ \A o \in Object : running[o] => o \in known

IInv == Types /\ Counted /\ KnownFirst /\ ActiveLoopIsStoppable

-----------------------------------------------------------------------------
(* The operations on loops. *)

\* Start of sources that do not run: the new loops are the newest of their
\* objects, and each is counted.
LEMMA LaunchKeeps ==
  ASSUME IInv, NEW S \in SUBSET Object, NEW k \in Context, NEW extra \in {0, 1},
         \A o \in S : ~running[o],
         Launch(S, k, extra), ctxCancelled' = ctxCancelled
  PROVE  /\ running' \in [Object -> BOOLEAN]
         /\ starts' \in [Object -> 0..MaxStarts]
         /\ live' \subseteq Loop
         /\ Counted'
         /\ ActiveLoopIsStoppable'
         /\ \A o \in Object : running'[o] => running[o] \/ o \in S
<1> DEFINE new == {NewLoop(o, k) : o \in S}
<1>1. IsFiniteSet(S)
  BY FS_Subset, SourceManagerAssumption
<1>2. IsFiniteSet(new) /\ Cardinality(new) <= Cardinality(S)
  <2> DEFINE f == [o \in S |-> NewLoop(o, k)]
  <2>1. f \in Surjection(S, new)
    BY DEF Surjection
  <2> HIDE DEF f, new
  <2> QED BY <1>1, <2>1, FS_Surjection
<1>3. live' = live \union new /\ wg' = wg + (1 + extra) * Cardinality(S)
  BY DEF Launch
<1>4. IsFiniteSet(live) /\ wg \in Int /\ wg >= Cardinality(live)
  BY DEF IInv, Counted, WaitGroupCoversLoops
<1>5. Counted'
  <2> HIDE DEF new
  <2>1. /\ IsFiniteSet(live')
        /\ Cardinality(live')
             = Cardinality(live) + Cardinality(new) - Cardinality(live \cap new)
    BY <1>2, <1>3, <1>4, FS_Union
  <2>2. Cardinality(live \cap new) \in Nat
    BY <1>4, FS_Subset, FS_CardinalityType
  <2>3. Cardinality(live) \in Nat /\ Cardinality(new) \in Nat /\ Cardinality(S) \in Nat
    BY <1>1, <1>2, <1>4, FS_CardinalityType
  <2>4. (1 + extra) * Cardinality(S) \in Nat /\ (1 + extra) * Cardinality(S) >= Cardinality(S)
    <3>1. CASE extra = 0
      BY <2>3, <3>1
    <3>2. CASE extra = 1
      BY <2>3, <3>2
    <3> QED BY <3>1, <3>2
  <2>5. wg' \in Int /\ wg' >= Cardinality(live')
    BY <1>2, <1>3, <1>4, <2>1, <2>2, <2>3, <2>4
  <2> QED BY <2>1, <2>5 DEF Counted, WaitGroupCoversLoops
<1>6. /\ running' = [o \in Object |-> running[o] \/ o \in S]
      /\ starts' = [o \in Object |-> IF o \in S THEN starts[o] + 1 ELSE starts[o]]
      /\ \A o \in S : starts[o] < MaxStarts
  BY DEF Launch
<1>7. running \in [Object -> BOOLEAN] /\ starts \in [Object -> 0..MaxStarts]
      /\ live \subseteq Loop
  BY DEF IInv, Types
<1>8. running' \in [Object -> BOOLEAN]
  BY <1>6, <1>7
<1>9. starts' \in [Object -> 0..MaxStarts]
  BY <1>6, <1>7, SourceManagerAssumption
<1>10. \A l \in new : l \in Loop /\ l.obj \in S /\ l.num = starts[l.obj] + 1
  <2> SUFFICES ASSUME NEW o \in S
               PROVE  /\ NewLoop(o, k) \in Loop
                      /\ NewLoop(o, k).obj \in S
                      /\ NewLoop(o, k).num = starts[NewLoop(o, k).obj] + 1
    OBVIOUS
  <2>1. starts[o] + 1 \in 1..MaxStarts
    BY <1>6, <1>7, SourceManagerAssumption
  <2> QED BY <2>1 DEF NewLoop, Loop
<1>11. ActiveLoopIsStoppable'
  <2> SUFFICES ASSUME NEW l \in live', ~Cancelled(l)'
               PROVE  running'[l.obj] /\ l.num = starts'[l.obj]
    BY DEF ActiveLoopIsStoppable
  <2>1. CASE l \in new
    BY <1>6, <1>10, <2>1
  <2>2. CASE l \in live
    <3>1. ~Cancelled(l)
      BY DEF Cancelled
    <3>2. running[l.obj] /\ l.num = starts[l.obj] /\ l.obj \in Object
      BY <1>7, <2>2, <3>1 DEF IInv, ActiveLoopIsStoppable, Loop
    <3> QED BY <1>6, <3>2
  <2> QED BY <1>3, <2>1, <2>2
<1>12. \A o \in Object : running'[o] => running[o] \/ o \in S
  BY <1>6
<1> QED BY <1>3, <1>5, <1>7, <1>8, <1>9, <1>10, <1>11, <1>12

\* Stop of a source: its newest loop is cancelled, the others already were.
LEMMA HaltKeeps ==
  ASSUME IInv, NEW o \in Object, Halt(o), wg' = wg, starts' = starts,
         ctxCancelled' = ctxCancelled
  PROVE  /\ running' \in [Object -> BOOLEAN]
         /\ live' \subseteq Loop
         /\ Counted'
         /\ ActiveLoopIsStoppable'
         /\ \A q \in Object : running'[q] => running[q]
<1> DEFINE stop(l) == IF l.obj = o /\ l.num = starts[o]
                        THEN [l EXCEPT !.stopped = TRUE] ELSE l
<1>1. live' = {stop(l) : l \in live} /\ running' = [running EXCEPT ![o] = FALSE]
  BY DEF Halt
<1>2. running \in [Object -> BOOLEAN] /\ live \subseteq Loop
  BY DEF IInv, Types
<1>3. IsFiniteSet(live) /\ wg \in Int /\ wg >= Cardinality(live)
  BY DEF IInv, Counted, WaitGroupCoversLoops
<1>4. Counted'
  <2> DEFINE f == [l \in live |-> stop(l)]
  <2>1. f \in Surjection(live, live')
    <3> HIDE DEF stop
    <3> QED BY <1>1 DEF Surjection
  <2>2. IsFiniteSet(live') /\ Cardinality(live') <= Cardinality(live)
    <3> HIDE DEF f
    <3> QED BY <1>3, <2>1, FS_Surjection
  <2>3. Cardinality(live') \in Nat /\ Cardinality(live) \in Nat
    BY <1>3, <2>2, FS_CardinalityType
  <2> QED BY <1>3, <2>2, <2>3 DEF Counted, WaitGroupCoversLoops
<1>5. \A l \in live : /\ stop(l) \in Loop
                      /\ stop(l).obj = l.obj /\ stop(l).num = l.num
                      /\ stop(l).ctx = l.ctx
                      /\ l.stopped => stop(l).stopped
                      /\ l.obj = o /\ l.num = starts[o] => stop(l).stopped
  BY <1>2 DEF Loop
<1>6. ActiveLoopIsStoppable'
  <2> SUFFICES ASSUME NEW m \in live', ~Cancelled(m)'
               PROVE  running'[m.obj] /\ m.num = starts'[m.obj]
    BY DEF ActiveLoopIsStoppable
  <2>1. PICK l \in live : m = stop(l)
    BY <1>1
  <2> HIDE DEF stop
  <2>2. ~Cancelled(l) /\ ~(l.obj = o /\ l.num = starts[o])
    BY <1>5, <2>1 DEF Cancelled
  <2>3. running[l.obj] /\ l.num = starts[l.obj] /\ l.obj \in Object
    BY <1>2, <2>2 DEF IInv, ActiveLoopIsStoppable, Loop
  <2> QED BY <1>1, <1>2, <1>5, <2>1, <2>2, <2>3
<1>7. live' \subseteq Loop
  <2> HIDE DEF stop
  <2> QED BY <1>1, <1>5
<1> QED BY <1>1, <1>2, <1>4, <1>6, <1>7

-----------------------------------------------------------------------------
(* The invariant. *)

\* Nothing runs yet.
LEMMA InitInv == Init => IInv
<1> SUFFICES ASSUME Init PROVE IInv
  OBVIOUS
<1>1. \A n \in Name : sources[n] \in Configured \union {NoObject}
  BY DEF Init
<1>2. Types
  BY <1>1, SourceManagerAssumption DEF Init, Types, Context
<1>3. Counted
  BY FS_EmptySet DEF Init, Counted, WaitGroupCoversLoops
<1>4. KnownFirst
  BY <1>1 DEF Init, KnownFirst, Idle
<1>5. ActiveLoopIsStoppable
  BY DEF Init, ActiveLoopIsStoppable
<1> QED BY <1>2, <1>3, <1>4, <1>5 DEF IInv

\* A step that touches neither the loops nor what counts them, and cancels
\* contexts if anything.
LEMMA LoopsUntouched ==
  ASSUME IInv, UNCHANGED <<running, starts, live, wg>>,
         ctxCancelled \subseteq ctxCancelled'
  PROVE  Counted' /\ ActiveLoopIsStoppable'
  BY DEF IInv, Counted, WaitGroupCoversLoops, ActiveLoopIsStoppable, Cancelled

\* The manager's Start starts objects of its map that do not run.
LEMMA ManagerStartsInv ==
  ASSUME IInv, ManagerStarts, mainPc' \in {"boot", "loop", "waiting", "done"}
  PROVE  IInv'
<1>1. PICK S \in SUBSET (Present \ {o \in Present : running[o]}) :
        Launch(S, mgrCtx', 1)
  BY DEF ManagerStarts
<1>2. Present \subseteq known /\ known \subseteq Object
  BY DEF IInv, KnownFirst, Present, Types
<1>3. S \in SUBSET Object /\ (\A o \in S : ~running[o] /\ o \in known)
  BY <1>1, <1>2
<1>4. mgrCtx' \in Context /\ ctxMade' \in Context
  BY SourceManagerAssumption DEF IInv, Types, ManagerStarts, Context
<1>5. UNCHANGED <<sources, ctxCancelled, known, request>>
  BY DEF ManagerStarts
<1>6. /\ running' \in [Object -> BOOLEAN]
      /\ starts' \in [Object -> 0..MaxStarts]
      /\ live' \subseteq Loop
      /\ Counted'
      /\ ActiveLoopIsStoppable'
      /\ \A o \in Object : running'[o] => running[o] \/ o \in S
  BY <1>1, <1>3, <1>4, <1>5, LaunchKeeps
<1>7. Types'
  BY <1>4, <1>5, <1>6 DEF IInv, Types
<1>8. KnownFirst'
  BY <1>3, <1>5, <1>6 DEF IInv, KnownFirst
<1> QED BY <1>6, <1>7, <1>8 DEF IInv

\* The steps of the gRPC requests.
LEMMA GrpcInv ==
  ASSUME IInv, Grpc
  PROVE  IInv'
<1> USE DEF mgrVars
<1>1. CASE \E o \in Object : AddSource(o)
  <2>1. PICK o \in Object : AddSource(o)
    BY <1>1
  <2>2. ~running[o]
    BY <2>1 DEF AddSource, IInv, KnownFirst
  <2>3. UNCHANGED <<mgrCtx, ctxMade, ctxCancelled, request, mainPc>>
        /\ known' = known \union {o} /\ sources' = [sources EXCEPT ![NameOf[o]] = o]
    BY <2>1 DEF AddSource
  <2>4. /\ running' \in [Object -> BOOLEAN]
        /\ starts' \in [Object -> 0..MaxStarts]
        /\ live' \subseteq Loop
        /\ Counted'
        /\ ActiveLoopIsStoppable'
        /\ \A q \in Object : running'[q] => running[q] \/ q = o
    <3>1. CASE mgrCtx # 0
      <4>1. Launch({o}, mgrCtx, 1)
        BY <2>1, <3>1 DEF AddSource
      <4>2. mgrCtx \in Context /\ {o} \in SUBSET Object /\ 1 \in {0, 1}
        BY DEF IInv, Types
      <4> QED BY <2>2, <2>3, <4>1, <4>2, LaunchKeeps
    <3>2. CASE mgrCtx = 0
      <4>1. UNCHANGED <<running, starts, live, wg>>
        BY <2>1, <3>2 DEF AddSource
      <4> QED BY <2>3, <4>1, LoopsUntouched DEF IInv, Types
    <3> QED BY <3>1, <3>2
  <2>5. Types'
    BY <2>3, <2>4 DEF IInv, Types
  <2>6. KnownFirst'
    BY <2>3, <2>4, SourceManagerAssumption DEF IInv, KnownFirst, Types
  <2> QED BY <2>4, <2>5, <2>6 DEF IInv
<1>2. CASE \E n \in Name : RemoveSource(n)
  <2>1. PICK n \in Name : RemoveSource(n)
    BY <1>2
  <2>2. sources[n] \in Object
    BY <2>1 DEF RemoveSource, IInv, Types
  <2>3. UNCHANGED <<mgrCtx, ctxMade, ctxCancelled, known, starts, wg, request, mainPc>>
        /\ sources' = [sources EXCEPT ![n] = NoObject]
    BY <2>1 DEF RemoveSource
  <2>4. /\ running' \in [Object -> BOOLEAN]
        /\ live' \subseteq Loop
        /\ Counted'
        /\ ActiveLoopIsStoppable'
        /\ \A q \in Object : running'[q] => running[q]
    <3>1. CASE running[sources[n]]
      BY <2>1, <2>2, <2>3, <3>1, HaltKeeps DEF RemoveSource
    <3>2. CASE ~running[sources[n]]
      <4>1. UNCHANGED <<running, live>>
        BY <2>1, <3>2 DEF RemoveSource
      <4> QED BY <2>3, <4>1, LoopsUntouched DEF IInv, Types
    <3> QED BY <3>1, <3>2
  <2>5. Types'
    BY <2>3, <2>4 DEF IInv, Types
  <2>6. KnownFirst'
    BY <2>3, <2>4 DEF IInv, KnownFirst, Types
  <2> QED BY <2>4, <2>5, <2>6 DEF IInv
<1>3. CASE \E r \in Request, n \in Name : ReadsForStart(r, n) \/ ReadsForStop(r, n)
  <2>1. PICK r \in Request, n \in Name : ReadsForStart(r, n) \/ ReadsForStop(r, n)
    BY <1>3
  <2>2. UNCHANGED <<mgrVars, ctxCancelled, running, starts, live, wg, mainPc>>
    BY <2>1 DEF ReadsForStart, ReadsForStop
  <2>3. sources[n] # NoObject /\ sources[n] \in Object /\ sources[n] \in known
        /\ mgrCtx \in Context
    BY <2>1 DEF ReadsForStart, ReadsForStop, IInv, Types, KnownFirst
  <2>4. \E q \in Pending : /\ request' = [request EXCEPT ![r] = q]
                           /\ q.op = "start" => q.obj \in known
    <3>1. CASE ReadsForStart(r, n)
      <4>1. [op |-> "start", obj |-> sources[n], ctx |-> mgrCtx] \in Pending
        BY <2>3 DEF Pending
      <4> QED BY <2>3, <3>1, <4>1 DEF ReadsForStart
    <3>2. CASE ReadsForStop(r, n)
      <4>1. [op |-> "stop", obj |-> sources[n]] \in Pending
        BY <2>3 DEF Pending
      <4> QED BY <2>3, <3>2, <4>1 DEF ReadsForStop
    <3> QED BY <2>1, <3>1, <3>2
  <2>5. Types'
    BY <2>2, <2>4 DEF IInv, Types
  <2>6. KnownFirst'
    BY <2>2, <2>4 DEF IInv, KnownFirst, Types
  <2> QED BY <2>2, <2>5, <2>6, LoopsUntouched DEF IInv
<1>4. CASE \E r \in Request : StartsSource(r)
  <2>1. PICK r \in Request : StartsSource(r)
    BY <1>4
  <2> DEFINE o == request[r].obj
  <2>2. o \in known /\ o \in Object /\ request[r].ctx \in Context
    BY <2>1 DEF StartsSource, IInv, Types, KnownFirst, Idle, Pending
  <2>3. UNCHANGED <<mgrVars, ctxCancelled, mainPc>>
        /\ request' = [request EXCEPT ![r] = Idle]
    BY <2>1 DEF StartsSource
  <2>4. /\ running' \in [Object -> BOOLEAN]
        /\ starts' \in [Object -> 0..MaxStarts]
        /\ live' \subseteq Loop
        /\ Counted'
        /\ ActiveLoopIsStoppable'
        /\ \A q \in Object : running'[q] => running[q] \/ q = o
    <3>1. CASE running[o]
      <4>1. UNCHANGED <<running, starts, live, wg>>
        BY <2>1, <3>1 DEF StartsSource
      <4> QED BY <2>3, <4>1, LoopsUntouched DEF IInv, Types
    <3>2. CASE ~running[o]
      <4>1. Launch({o}, request[r].ctx, 0)
        BY <2>1, <3>2 DEF StartsSource
      <4>2. {o} \in SUBSET Object /\ 0 \in {0, 1}
        BY <2>2
      <4> QED BY <2>2, <2>3, <3>2, <4>1, <4>2, LaunchKeeps
    <3> QED BY <3>1, <3>2
  <2>5. Types'
    BY <2>3, <2>4 DEF IInv, Types
  <2>6. KnownFirst'
    BY <2>2, <2>3, <2>4 DEF IInv, KnownFirst, Types, Idle
  <2> QED BY <2>4, <2>5, <2>6 DEF IInv
<1>5. CASE \E r \in Request : StopsSource(r)
  <2>1. PICK r \in Request : StopsSource(r)
    BY <1>5
  <2> DEFINE o == request[r].obj
  <2>2. o \in Object
    BY <2>1 DEF StopsSource, IInv, Types, Idle, Pending
  <2>3. UNCHANGED <<mgrVars, ctxCancelled, starts, wg, mainPc>>
        /\ request' = [request EXCEPT ![r] = Idle]
    BY <2>1 DEF StopsSource
  <2>4. /\ running' \in [Object -> BOOLEAN]
        /\ live' \subseteq Loop
        /\ Counted'
        /\ ActiveLoopIsStoppable'
        /\ \A q \in Object : running'[q] => running[q]
    <3>1. CASE running[o]
      BY <2>1, <2>2, <2>3, <3>1, HaltKeeps DEF StopsSource
    <3>2. CASE ~running[o]
      <4>1. UNCHANGED <<running, live>>
        BY <2>1, <3>2 DEF StopsSource
      <4> QED BY <2>3, <4>1, LoopsUntouched DEF IInv, Types
    <3> QED BY <3>1, <3>2
  <2>5. Types'
    BY <2>3, <2>4 DEF IInv, Types
  <2>6. KnownFirst'
    BY <2>3, <2>4 DEF IInv, KnownFirst, Types, Idle
  <2> QED BY <2>4, <2>5, <2>6 DEF IInv
<1> QED BY <1>1, <1>2, <1>3, <1>4, <1>5 DEF Grpc

\* A loop that returns takes its unit with it.
LEMMA LoopReturnsInv ==
  ASSUME IInv, NEW l \in live, LoopReturns(l)
  PROVE  IInv'
<1>1. /\ UNCHANGED <<mgrVars, ctxCancelled, running, starts, request, mainPc>>
      /\ live' = live \ {l} /\ wg' = wg - 1
  BY DEF LoopReturns
<1>2. IsFiniteSet(live) /\ wg \in Int /\ wg >= Cardinality(live)
  BY DEF IInv, Counted, WaitGroupCoversLoops
<1>3. IsFiniteSet(live') /\ Cardinality(live') = Cardinality(live) - 1
  BY <1>1, <1>2, FS_RemoveElement
<1>4. Cardinality(live) \in Nat
  BY <1>2, FS_CardinalityType
<1>5. Counted'
  BY <1>1, <1>2, <1>3, <1>4 DEF Counted, WaitGroupCoversLoops
<1>6. Types'
  BY <1>1 DEF IInv, Types, mgrVars
<1>7. KnownFirst'
  BY <1>1 DEF IInv, KnownFirst, mgrVars
<1>8. ActiveLoopIsStoppable'
  BY <1>1 DEF IInv, ActiveLoopIsStoppable, Cancelled
<1> QED BY <1>5, <1>6, <1>7, <1>8 DEF IInv

\* Every step keeps the invariant.
LEMMA NextInv == IInv /\ [Next]_vars => IInv'
<1> SUFFICES ASSUME IInv, [Next]_vars PROVE IInv'
  OBVIOUS
<1>1. CASE MainStartsManager
  BY <1>1, ManagerStartsInv DEF MainStartsManager
<1>2. CASE MainQuits
  <2>1. Types'
    BY <1>2, SourceManagerAssumption DEF MainQuits, IInv, Types, mgrVars, Context
  <2>2. KnownFirst'
    BY <1>2 DEF MainQuits, IInv, KnownFirst, mgrVars
  <2> QED BY <1>2, <2>1, <2>2, LoopsUntouched DEF MainQuits, IInv
<1>3. CASE MainReturns
  <2>1. Types'
    BY <1>3 DEF MainReturns, IInv, Types, mgrVars
  <2>2. KnownFirst'
    BY <1>3 DEF MainReturns, IInv, KnownFirst, mgrVars
  <2> QED BY <1>3, <2>1, <2>2, LoopsUntouched DEF MainReturns, IInv
<1>4. CASE Grpc
  BY <1>4, GrpcInv
<1>5. CASE ManagerStops
  <2>1. Types'
    BY <1>5, SourceManagerAssumption DEF ManagerStops, IInv, Types, Context
  <2>2. KnownFirst'
    BY <1>5 DEF ManagerStops, IInv, KnownFirst
  <2> QED BY <1>5, <2>1, <2>2, LoopsUntouched DEF ManagerStops, IInv
<1>6. CASE ManagerRestarts
  BY <1>6, ManagerStartsInv DEF ManagerRestarts, IInv, Types
<1>7. CASE \E l \in live : LoopReturns(l)
  BY <1>7, LoopReturnsInv
<1>8. CASE UNCHANGED vars
  <2>1. Types' /\ KnownFirst'
    BY <1>8 DEF vars, IInv, Types, KnownFirst
  <2> QED BY <1>8, <2>1, LoopsUntouched DEF vars, IInv
<1> QED BY <1>1, <1>2, <1>3, <1>4, <1>5, <1>6, <1>7, <1>8 DEF Next, Main

\* The invariant holds in every reachable state.
LEMMA Invariance == Spec => []IInv
  BY InitInv, NextInv, PTL DEF Spec

-----------------------------------------------------------------------------
(* What follows from it. *)

\* The manager's and the sources' variables keep their types; the WaitGroup's
\* counter never goes below zero, where Done would panic.
THEOREM TypeCorrect == Spec => []TypeOK
<1>1. IInv => TypeOK
  <2> SUFFICES ASSUME IInv PROVE TypeOK
    OBVIOUS
  <2>1. Cardinality(live) \in Nat
    BY FS_CardinalityType DEF IInv, Counted
  <2>2. wg \in Nat
    BY <2>1 DEF IInv, Counted, WaitGroupCoversLoops
  <2> QED BY <2>2 DEF IInv, Types, TypeOK
<1> QED BY <1>1, Invariance, PTL

\* wg.Wait() cannot return while a loop that could push is alive, for every
\* mixture of starts, failed starts, stops, removals and manager restarts.
THEOREM LoopsAreCounted == Spec => []WaitGroupCoversLoops
<1>1. IInv => WaitGroupCoversLoops
  BY DEF IInv, Counted
<1> QED BY <1>1, Invariance, PTL

\* A loop nobody has told to stop is the newest of its object, and the object's
\* Stop reaches it: a source never runs two active loops.
THEOREM ActiveLoopsAreStoppable == Spec => []ActiveLoopIsStoppable
<1>1. IInv => ActiveLoopIsStoppable
  BY DEF IInv
<1> QED BY <1>1, Invariance, PTL
=============================================================================
