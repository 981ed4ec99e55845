----------------------------- MODULE HubProofs -----------------------------
(***************************************************************************)
(* Theorems about Hub, for every set of clients and every channel          *)
(* capacity.                                                               *)
(***************************************************************************)
EXTENDS Hub, SequenceTheorems, TLAPS

\* A client whose channel is closed has been registered before, so it is never
\* registered again; and while the hub serves a client that client is
\* registered.
ClosedAfterRegistering ==
  \A c \in Client : closed[c] => readPc[c] \notin {"off", "registering"}

\* The part of the type invariant the argument needs.
ChannelTypes ==
  /\ clients \subseteq Client
  /\ hubClients \subseteq Client
  /\ closed \in [Client -> BOOLEAN]
  /\ readPc \in [Client -> {"off", "registering", "reading", "answering", "leaving", "done"}]

\* Only a registered client has been registered: one still in its handler has
\* never been in the set.
RegisteredAfterHandler ==
  \A c \in clients : readPc[c] \notin {"off", "registering"}

\* While the hub waits in its select no client is half served.
NothingPending == hubPc = "select" => hubClients = {}

IInv == /\ ChannelTypes /\ ClosedAfterRegistering
        /\ RegisteredAfterHandler /\ NothingPending /\ HubSendsOnOpen

-----------------------------------------------------------------------------

\* No client, no channel yet.
LEMMA InitInv == Init => IInv
  BY DEF Init, IInv, ChannelTypes, ClosedAfterRegistering,
         RegisteredAfterHandler, NothingPending, HubSendsOnOpen

\* The steps of the main loop and of the pumps that leave the hub's variables,
\* the channels' state and the handlers alone.
LEMMA OtherStepInv ==
  ASSUME IInv, UNCHANGED <<clients, hubPc, hubClients, closed, readPc>>
  PROVE  IInv'
  BY DEF IInv, ChannelTypes, ClosedAfterRegistering,
         RegisteredAfterHandler, NothingPending, HubSendsOnOpen

\* The steps of the hub loop.
LEMMA HubStepInv ==
  ASSUME IInv, NEW c \in Client, HubLoop(c)
  PROVE  IInv'
<1> USE DEF IInv, ChannelTypes, ClosedAfterRegistering,
            RegisteredAfterHandler, NothingPending, HubSendsOnOpen
<1>1. CASE HubRegister(c)
  BY <1>1 DEF HubRegister
<1>2. CASE HubReplay(c)
  BY <1>2 DEF HubReplay, clientVars
<1>3. CASE HubUnregister(c)
  BY <1>3 DEF HubUnregister
<1>4. CASE HubDeliver(c)
  BY <1>4 DEF HubDeliver, Served, clientVars
<1>5. CASE HubPrune(c)
  BY <1>5 DEF HubPrune, Served, clientVars
<1>6. QED
  BY <1>1, <1>2, <1>3, <1>4, <1>5 DEF HubLoop

\* The steps of a client's handler and readPump.
LEMMA ReaderStepInv ==
  ASSUME IInv, NEW c \in Client,
         HandleWebSocket(c) \/ ReadPump(c)
  PROVE  IInv'
  BY DEF HandleWebSocket, ReadPump, ReadFails, Subscribe, SendAnswer, hubVars, IInv, ChannelTypes,
         ClosedAfterRegistering, RegisteredAfterHandler, NothingPending,
         HubSendsOnOpen

\* Every step keeps the invariant.
LEMMA StepInv == IInv /\ [Next]_vars => IInv'
<1> SUFFICES ASSUME IInv, [Next]_vars
             PROVE  IInv'
  OBVIOUS
<1> DEFINE Rest == <<clients, hubPc, hubClients, closed, readPc>>
<1>1. CASE MainLoop
  <2>1. UNCHANGED Rest
    BY <1>1 DEF MainLoop, UpdateAllDatas, Broadcast, hubVars, clientVars
  <2>2. QED
    BY <2>1, OtherStepInv
<1>2. CASE HubBroadcast
  BY <1>2 DEF HubBroadcast, clientVars, IInv, ChannelTypes,
              ClosedAfterRegistering, RegisteredAfterHandler, NothingPending,
              HubSendsOnOpen
<1>3. ASSUME NEW c \in Client, HubLoop(c)
      PROVE  IInv'
  BY <1>3, HubStepInv
<1>4. ASSUME NEW c \in Client, HandleWebSocket(c) \/ ReadPump(c)
      PROVE  IInv'
  BY <1>4, ReaderStepInv
<1>5. ASSUME NEW c \in Client, ConnectionLost(c) \/ WritePump(c)
      PROVE  IInv'
  <2>1. UNCHANGED Rest
    BY <1>5 DEF ConnectionLost, WritePump, WriteTakes,
                WriteSucceeds, WriteEnds, hubVars
  <2>2. QED
    BY <2>1, OtherStepInv
<1>6. CASE UNCHANGED vars
  <2>1. UNCHANGED Rest
    BY <1>6 DEF vars
  <2>2. QED
    BY <2>1, OtherStepInv
<1>7. QED
  BY <1>1, <1>2, <1>3, <1>4, <1>5, <1>6 DEF Next

\* However pruning, unregistering, registering and broadcasting interleave, the
\* hub never sends on nor closes a channel that is already closed.
THEOREM HubNeverTouchesClosed == Spec => []HubSendsOnOpen
<1>1. IInv => HubSendsOnOpen
  BY DEF IInv
<1>2. QED
  BY <1>1, InitInv, StepInv, PTL DEF Spec

-----------------------------------------------------------------------------
(* The rest of the types, and what the hub queues. *)

\* Messages that can be in a client's channel: the initial load, update 0, is
\* never broadcast.
Queued == [kind : {"initial", "response"}, id : 0..MaxUpdates]
            \union [kind : {"update"}, id : 1..MaxUpdates]

\* Answers to subscribe commands.
Answer == [kind : {"response"}, id : 0..MaxUpdates]

Types ==
  /\ objects \in [0..MaxUpdates -> [Symbol -> {NoData} \union 0..MaxUpdates]]
  /\ latest \in 0..MaxUpdates
  /\ broadcast \in Seq(1..MaxUpdates) /\ Len(broadcast) <= BroadcastCap
  /\ send \in [Client -> Seq(Queued)] /\ \A c \in Client : Len(send[c]) <= SendCap
  /\ hubPc \in {"select", "replay", "fanout"}
  /\ mainPc \in {"merge", "broadcast"}
  /\ update \in 0..MaxUpdates
  /\ changed \subseteq Symbol
  /\ conn \in [Client -> {"none", "open", "closed"}]
  /\ writePc \in [Client -> {"off", "waiting", "writing", "done"}]
  /\ writing \in [Client -> Queued]
  /\ answer \in [Client -> Answer]
  /\ commands \in [Client -> 0..MaxCommands]
  /\ got \in [Client -> Seq(1..MaxUpdates)]
  /\ crash \in {"no", "concurrent map access", "send on closed channel"}

\* The broadcast channel holds the updates after the one the hub had last, up
\* to the newest one the main loop has handed over.
Numbered ==
  /\ \A i \in 1..Len(broadcast) : broadcast[i] = latest + i
  /\ latest + Len(broadcast) = IF mainPc = "merge" THEN update ELSE update - 1
  /\ hubPc = "fanout" => latest > 0

\* Nothing is queued for a client before it is registered.
NewIsEmpty ==
  \A c \in Client : readPc[c] \in {"off", "registering"} =>
    writePc[c] = "off" /\ send[c] = << >> /\ got[c] = << >>

\* The newest update a registered client has been queued: a client the fan-out
\* has still to serve lags one behind.
Newest(c) == IF c \in hubClients THEN latest - 1 ELSE latest

\* The stream of a connected client is in order, without a hole and, while it
\* is registered, up to date; the client being replayed to has none.
Connected(c) ==
  /\ InOrder(c)
  /\ \A a, b \in Stream(c) : a..b \subseteq Stream(c)
  /\ c \in clients /\ Stream(c) # {} =>
       /\ Newest(c) \in Stream(c)
       /\ \A a \in Stream(c) : a <= Newest(c)
  /\ hubPc = "replay" /\ c \in hubClients => Stream(c) = {}

StreamsComplete == \A c \in Client : writePc[c] # "done" => Connected(c)

StreamInv == IInv /\ Types /\ Numbered /\ NewIsEmpty /\ StreamsComplete

-----------------------------------------------------------------------------
(* What appending a message and taking the first one do to the updates of a  *)
(* channel.                                                                  *)

\* The updates of a channel are numbers from one to MaxUpdates.
LEMMA UpdateIdsType ==
  ASSUME NEW q \in Seq(Queued)
  PROVE  UpdateIds(q) \subseteq 1..MaxUpdates
<1> SUFFICES ASSUME NEW i \in 1..Len(q), q[i].kind = "update" PROVE q[i].id \in 1..MaxUpdates
  BY DEF UpdateIds, UpdatesAt
<1>1. q[i] \in Queued
  BY ElementOfSeq
<1> QED BY <1>1 DEF Queued

\* A message that is not an update leaves the updates of a channel alone.
LEMMA AppendOther ==
  ASSUME NEW q \in Seq(Queued), NEW m \in Queued, m.kind # "update"
  PROVE  /\ UpdateIds(Append(q, m)) = UpdateIds(q)
         /\ Ascending(q) => Ascending(Append(q, m))
<1> DEFINE r == Append(q, m)
<1>1. /\ Len(q) \in Nat /\ Len(r) = Len(q) + 1
      /\ \A i \in 1..Len(q) : r[i] = q[i]
      /\ r[Len(q) + 1] = m
  BY AppendProperties, LenProperties
<1> HIDE DEF r
<1>2. UpdatesAt(r) = UpdatesAt(q)
  <2>1. \A i : i \in 1..Len(r) <=> i \in 1..Len(q) \/ i = Len(q) + 1
    BY <1>1
  <2> QED BY <1>1, <2>1 DEF UpdatesAt
<1>3. \A i \in UpdatesAt(q) : r[i] = q[i]
  BY <1>1 DEF UpdatesAt
<1>4. UpdateIds(r) = UpdateIds(q)
  BY <1>2, <1>3 DEF UpdateIds
<1>5. Ascending(q) => Ascending(r)
  BY <1>2, <1>3 DEF Ascending
<1> QED BY <1>4, <1>5 DEF r

\* An update newer than all those of a channel is added at its end.
LEMMA AppendUpdate ==
  ASSUME NEW q \in Seq(Queued), NEW m \in Queued, m.kind = "update"
  PROVE  /\ UpdateIds(Append(q, m)) = UpdateIds(q) \union {m.id}
         /\ Ascending(q) /\ (\A a \in UpdateIds(q) : a < m.id) => Ascending(Append(q, m))
<1> DEFINE r == Append(q, m)
           n == Len(q) + 1
<1>1. /\ Len(q) \in Nat /\ Len(r) = n
      /\ \A i \in 1..Len(q) : r[i] = q[i]
      /\ r[n] = m
  BY AppendProperties, LenProperties
<1>2. /\ \A i : i \in 1..n <=> i \in 1..Len(q) \/ i = n
      /\ \A i \in 1..Len(q) : i < n
      /\ n \in Nat
  BY <1>1
<1> HIDE DEF r, n
<1>3. UpdatesAt(r) = UpdatesAt(q) \union {n}
  BY <1>1, <1>2 DEF UpdatesAt
<1>4. \A i \in UpdatesAt(q) : r[i] = q[i] /\ i < n /\ i \in Nat
  BY <1>1, <1>2 DEF UpdatesAt
<1>5. UpdateIds(r) = UpdateIds(q) \union {m.id}
  BY <1>1, <1>3, <1>4 DEF UpdateIds
<1>6. ASSUME Ascending(q), \A a \in UpdateIds(q) : a < m.id
      PROVE  Ascending(r)
  <2> SUFFICES ASSUME NEW i \in UpdatesAt(r), NEW j \in UpdatesAt(r), i < j
               PROVE  r[i].id < r[j].id
    BY DEF Ascending
  <2>1. CASE i \in UpdatesAt(q) /\ j \in UpdatesAt(q)
    BY <1>4, <1>6, <2>1 DEF Ascending
  <2>2. CASE i \in UpdatesAt(q) /\ j = n
    BY <1>1, <1>4, <1>6, <2>2 DEF UpdateIds
  <2>3. ~(i = n /\ j \in UpdatesAt(q)) /\ ~(i = n /\ j = n)
    BY <1>2, <1>4
  <2> QED BY <1>3, <2>1, <2>2, <2>3
<1> QED BY <1>5, <1>6 DEF r

\* The first message of a channel leaves it: when it is an update it is older
\* than the others.
LEMMA TakeFirst ==
  ASSUME NEW q \in Seq(Queued), q # << >>
  PROVE  /\ Head(q) \in Queued
         /\ UpdateIds(q) = (IF Head(q).kind = "update" THEN {Head(q).id} ELSE {})
                             \union UpdateIds(Tail(q))
         /\ Ascending(q) =>
              /\ Ascending(Tail(q))
              /\ Head(q).kind = "update" => \A a \in UpdateIds(Tail(q)) : Head(q).id < a
<1> DEFINE r == Tail(q)
<1>1. /\ Head(q) \in Queued /\ Head(q) = q[1]
      /\ Len(q) \in Nat /\ Len(q) > 0 /\ Len(r) = Len(q) - 1
      /\ \A i \in 1..Len(r) : r[i] = q[i + 1]
  <2>1. Len(q) \in Nat /\ Len(q) > 0 /\ q[1] \in Queued
    BY LenProperties, EmptySeq, ElementOfSeq
  <2>2. /\ Head(q) \in Queued /\ Tail(q) \in Seq(Queued) /\ Len(Tail(q)) = Len(q) - 1
        /\ \A i \in 1..Len(Tail(q)) : Tail(q)[i] = q[i + 1]
    BY HeadTailProperties
  <2>3. Head(q) = q[1]
    BY <2>1
  <2> QED BY <2>1, <2>2, <2>3
<1> HIDE DEF r
<1>2. \A i \in UpdatesAt(r) : i \in Nat /\ i + 1 \in UpdatesAt(q) /\ r[i] = q[i + 1]
  BY <1>1 DEF UpdatesAt
<1>3. \A i \in UpdatesAt(q) : i \in Nat /\ (i = 1 \/ (i - 1 \in UpdatesAt(r) /\ r[i - 1] = q[i]))
  <2> SUFFICES ASSUME NEW i \in 1..Len(q), q[i].kind = "update", i # 1
               PROVE  i - 1 \in UpdatesAt(r) /\ r[i - 1] = q[i]
    BY DEF UpdatesAt
  <2>1. i - 1 \in 1..Len(r) /\ i - 1 + 1 = i
    BY <1>1
  <2>2. r[i - 1] = q[i]
    BY <1>1, <2>1
  <2> QED BY <2>1, <2>2 DEF UpdatesAt
<1>4. 1 \in UpdatesAt(q) <=> Head(q).kind = "update"
  BY <1>1 DEF UpdatesAt
<1>5. UpdateIds(q) = (IF Head(q).kind = "update" THEN {Head(q).id} ELSE {}) \union UpdateIds(r)
  BY <1>1, <1>2, <1>3, <1>4 DEF UpdateIds
<1>6. ASSUME Ascending(q)
      PROVE  Ascending(r)
  <2> SUFFICES ASSUME NEW i \in UpdatesAt(r), NEW j \in UpdatesAt(r), i < j
               PROVE  r[i].id < r[j].id
    BY DEF Ascending
  <2>1. i + 1 < j + 1
    BY <1>2
  <2> QED BY <1>2, <1>6, <2>1 DEF Ascending
<1>7. ASSUME Ascending(q), Head(q).kind = "update"
      PROVE  \A a \in UpdateIds(r) : Head(q).id < a
  <2> SUFFICES ASSUME NEW i \in UpdatesAt(r)
               PROVE  Head(q).id < r[i].id
    BY DEF UpdateIds
  <2>1. 1 < i + 1
    BY <1>1, <1>2 DEF UpdatesAt
  <2> QED BY <1>1, <1>2, <1>4, <1>7, <2>1 DEF Ascending
<1> QED BY <1>1, <1>5, <1>6, <1>7 DEF r

-----------------------------------------------------------------------------
(* Types and numbers. *)

\* The messages the hub and the readPumps queue.
LEMMA MessagesAreQueued ==
  ASSUME NEW i \in 0..MaxUpdates
  PROVE  /\ Nothing \in Queued /\ Msg("initial", i) \in Queued
         /\ Nothing \in Answer /\ Msg("response", i) \in Answer
         /\ i > 0 => Msg("update", i) \in Queued
         /\ \A m \in Answer : m \in Queued /\ m.kind # "update"
BY HubAssumption DEF Nothing, Msg, Queued, Answer

\* The numbers and lengths of the types, apart.
LEMMA CounterTypes ==
  ASSUME Types
  PROVE  /\ latest \in Nat /\ update \in Nat /\ update <= MaxUpdates
         /\ broadcast \in Seq(1..MaxUpdates) /\ Len(broadcast) \in Nat
         /\ Len(broadcast) <= BroadcastCap
         /\ \A c \in Client : /\ send[c] \in Seq(Queued) /\ Len(send[c]) \in Nat
                              /\ Len(send[c]) <= SendCap
                              /\ commands[c] \in Nat /\ commands[c] <= MaxCommands
<1>1. /\ latest \in 0..MaxUpdates /\ update \in 0..MaxUpdates
      /\ broadcast \in Seq(1..MaxUpdates) /\ Len(broadcast) <= BroadcastCap
      /\ \A c \in Client : /\ send[c] \in Seq(Queued) /\ Len(send[c]) <= SendCap
                           /\ commands[c] \in 0..MaxCommands
  BY DEF Types
<1>2. Len(broadcast) \in Nat /\ \A c \in Client : Len(send[c]) \in Nat
  BY <1>1, LenProperties
<1> QED BY <1>1, <1>2, HubAssumption

\* Every step keeps the types.
LEMMA TypesStep ==
  ASSUME IInv, Types, Numbered, [Next]_vars
  PROVE  Types'
<1>0. /\ latest \in Nat /\ update \in Nat /\ update <= MaxUpdates
      /\ broadcast \in Seq(1..MaxUpdates) /\ Len(broadcast) \in Nat
      /\ Len(broadcast) <= BroadcastCap
      /\ \A c \in Client : /\ send[c] \in Seq(Queued) /\ Len(send[c]) \in Nat
                           /\ Len(send[c]) <= SendCap
                           /\ commands[c] \in Nat /\ commands[c] <= MaxCommands
  BY CounterTypes
<1>1. /\ MaxUpdates \in Nat /\ MaxCommands \in Nat /\ SendCap \in Nat \ {0}
      /\ BroadcastCap \in Nat \ {0}
  BY HubAssumption
<1>2. ASSUME NEW syms \in SUBSET Symbol \ {{}}, UpdateAllDatas(syms)
      PROVE  Types'
  <2>1. update' \in 0..MaxUpdates
    <3>1. update' = update + 1 /\ update < MaxUpdates
      BY <1>2 DEF UpdateAllDatas
    <3> QED BY <1>0, <1>1, <3>1
  <2>2. objects' \in [0..MaxUpdates -> [Symbol -> {NoData} \union 0..MaxUpdates]]
    BY <1>2, <2>1 DEF UpdateAllDatas, Types
  <2> QED BY <1>2, <2>1, <2>2 DEF UpdateAllDatas, clientVars, hubVars, Types
<1>3. CASE Broadcast
  <2>1. update \in 1..MaxUpdates
    <3>1. latest + Len(broadcast) = update - 1
      BY <1>3 DEF Broadcast, Numbered
    <3> QED BY <1>0, <1>1, <3>1
  <2>2. /\ broadcast' \in Seq(1..MaxUpdates) /\ Len(broadcast') <= BroadcastCap
    <3>1. /\ Append(broadcast, update) \in Seq(1..MaxUpdates)
          /\ Len(Append(broadcast, update)) = Len(broadcast) + 1
      BY <1>0, <2>1, AppendProperties
    <3> QED BY <1>0, <1>1, <1>3, <3>1 DEF Broadcast
  <2>3. objects' \in [0..MaxUpdates -> [Symbol -> {NoData} \union 0..MaxUpdates]]
    BY <1>3 DEF Broadcast, Types
  <2> QED BY <1>3, <2>2, <2>3 DEF Broadcast, clientVars, hubVars, Types
<1>4. CASE HubBroadcast
  <2>1. /\ Head(broadcast) \in 1..MaxUpdates /\ Tail(broadcast) \in Seq(1..MaxUpdates)
        /\ Len(Tail(broadcast)) = Len(broadcast) - 1
    BY <1>0, <1>4, HeadTailProperties DEF HubBroadcast
  <2>2. Head(broadcast) \in 0..MaxUpdates /\ Len(Tail(broadcast)) <= BroadcastCap
    BY <1>0, <1>1, <2>1
  <2> QED BY <1>4, <2>1, <2>2 DEF HubBroadcast, clientVars, mainVars, Types
<1>5. ASSUME NEW c \in Client, NEW m \in Queued, Len(send[c]) < SendCap,
             send' = [send EXCEPT ![c] = Append(@, m)]
      PROVE  send' \in [Client -> Seq(Queued)] /\ \A d \in Client : Len(send'[d]) <= SendCap
  <2>1. /\ Append(send[c], m) \in Seq(Queued)
        /\ Len(Append(send[c], m)) = Len(send[c]) + 1
    BY <1>0, AppendProperties
  <2>2. Len(Append(send[c], m)) <= SendCap
    BY <1>0, <1>1, <1>5, <2>1
  <2> QED BY <1>5, <2>1, <2>2 DEF Types
<1>6. ASSUME NEW c \in Client, HubRegister(c) \/ HubUnregister(c) \/ HubPrune(c)
      PROVE  Types'
  BY <1>6 DEF HubRegister, HubUnregister, HubPrune, Served, stateVars, mainVars,
              clientVars, Types
<1>7. ASSUME NEW c \in Client, HubReplay(c)
      PROVE  Types'
  <2>1. Msg("initial", latest) \in Queued
    BY MessagesAreQueued DEF Types
  <2> QED BY <1>5, <1>7, <2>1 DEF HubReplay, stateVars, mainVars, clientVars, Types
<1>8. ASSUME NEW c \in Client, HubDeliver(c)
      PROVE  Types'
  <2>1. latest > 0
    BY <1>8 DEF HubDeliver, Served, Numbered
  <2>2. Msg("update", latest) \in Queued
    BY <2>1, MessagesAreQueued DEF Types
  <2> QED BY <1>5, <1>8, <2>2 DEF HubDeliver, Served, stateVars, mainVars, clientVars, Types
<1>9. ASSUME NEW c \in Client, HandleWebSocket(c) \/ ConnectionLost(c) \/ ReadFails(c)
      PROVE  Types'
  BY <1>9 DEF HandleWebSocket, ConnectionLost, ReadFails, stateVars, hubVars, mainVars,
              Types
<1>10. ASSUME NEW c \in Client, Subscribe(c)
       PROVE  Types'
  <2>1. commands' \in [Client -> 0..MaxCommands]
    <3>1. commands[c] + 1 \in 0..MaxCommands
      <4>1. commands[c] < MaxCommands
        BY <1>10 DEF Subscribe
      <4> QED BY <1>0, <1>1, <4>1
    <3> QED BY <1>10, <3>1 DEF Subscribe, Types
  <2>2. Msg("response", latest) \in Answer
    BY MessagesAreQueued DEF Types
  <2> QED BY <1>10, <2>1, <2>2 DEF Subscribe, stateVars, hubVars, mainVars, Types
<1>11. ASSUME NEW c \in Client, WriteTakes(c)
       PROVE  Types'
  <2>1. /\ Head(send[c]) \in Queued /\ Tail(send[c]) \in Seq(Queued)
        /\ Len(Tail(send[c])) = Len(send[c]) - 1
    BY <1>0, <1>11, HeadTailProperties DEF WriteTakes
  <2>2. Len(Tail(send[c])) <= SendCap
    BY <1>0, <1>1, <2>1
  <2> QED BY <1>11, <2>1, <2>2 DEF WriteTakes, stateVars, hubVars, mainVars, Types
<1>12. ASSUME NEW c \in Client, WriteSucceeds(c)
       PROVE  Types'
  <2>1. got' \in [Client -> Seq(1..MaxUpdates)]
    <3>1. writing[c].kind = "update" => writing[c].id \in 1..MaxUpdates
      BY DEF Queued, Types
    <3>2. writing[c].kind = "update" => Append(got[c], writing[c].id) \in Seq(1..MaxUpdates)
      BY <3>1, AppendProperties DEF Types
    <3> QED BY <1>12, <3>2 DEF WriteSucceeds, Types
  <2>2. Nothing \in Queued
    BY MessagesAreQueued DEF Types
  <2> QED BY <1>12, <2>1, <2>2 DEF WriteSucceeds, stateVars, hubVars, mainVars, Types
<1>13. ASSUME NEW c \in Client, WriteEnds(c)
       PROVE  Types'
  <2>1. Nothing \in Queued
    BY MessagesAreQueued DEF Types
  <2> QED BY <1>13, <2>1 DEF WriteEnds, stateVars, hubVars, mainVars, Types
<1>14. CASE UNCHANGED vars
  BY <1>14 DEF vars, Types
<1>15. ASSUME NEW c \in Client, SendAnswer(c)
       PROVE  Types'
  <2>1. answer[c] \in Queued /\ Nothing \in Answer
    <3>1. 0 \in 0..MaxUpdates
      BY <1>1
    <3> QED BY <3>1, MessagesAreQueued DEF Types
  <2>2. send' \in [Client -> Seq(Queued)] /\ \A d \in Client : Len(send'[d]) <= SendCap
    <3>1. CASE send' = send
      BY <3>1 DEF Types
    <3> QED BY <1>5, <1>15, <2>1, <3>1 DEF SendAnswer
  <2> QED BY <1>15, <2>1, <2>2 DEF SendAnswer, stateVars, hubVars, mainVars, Types
<1> QED BY <1>2, <1>3, <1>4, <1>6, <1>7, <1>8, <1>9, <1>10, <1>11, <1>12, <1>13, <1>14, <1>15
        DEF Next, MainLoop, HubLoop, ReadPump, WritePump

\* Updates reach the hub in the order of their numbers.
LEMMA NumberedStep ==
  ASSUME Types, Numbered, [Next]_vars
  PROVE  Numbered'
<1>1. /\ broadcast \in Seq(1..MaxUpdates) /\ Len(broadcast) \in Nat
      /\ latest \in Nat /\ update \in Nat /\ update <= MaxUpdates
  BY CounterTypes
<1>2. ASSUME NEW syms \in SUBSET Symbol \ {{}}, UpdateAllDatas(syms)
      PROVE  Numbered'
  <2>1. /\ mainPc = "merge" /\ mainPc' = "broadcast" /\ update' = update + 1
        /\ UNCHANGED <<latest, broadcast, hubPc>>
    BY <1>2 DEF UpdateAllDatas, hubVars
  <2> QED BY <1>1, <2>1 DEF Numbered
<1>3. CASE Broadcast
  <2>1. /\ latest + Len(broadcast) = update - 1
        /\ broadcast' = Append(broadcast, update) /\ mainPc' = "merge"
        /\ UNCHANGED <<latest, update, hubPc>>
    BY <1>3 DEF Broadcast, Numbered, hubVars
  <2>2. update \in 1..MaxUpdates
    BY <1>1, <2>1, HubAssumption
  <2>3. /\ Len(broadcast') = Len(broadcast) + 1
        /\ \A i \in 1..Len(broadcast) : broadcast'[i] = broadcast[i]
        /\ broadcast'[Len(broadcast) + 1] = update
    BY <1>1, <2>1, <2>2, AppendProperties
  <2>4. \A i \in 1..Len(broadcast') : broadcast'[i] = latest + i
    <3> SUFFICES ASSUME NEW i \in 1..Len(broadcast') PROVE broadcast'[i] = latest + i
      OBVIOUS
    <3>1. CASE i \in 1..Len(broadcast)
      BY <2>3, <3>1 DEF Numbered
    <3>2. CASE i = Len(broadcast) + 1
      BY <1>1, <2>1, <2>3, <3>2
    <3> QED BY <1>1, <2>3, <3>1, <3>2
  <2> QED BY <1>1, <2>1, <2>3, <2>4 DEF Numbered
<1>4. CASE HubBroadcast
  <2>1. /\ broadcast # << >> /\ latest' = Head(broadcast) /\ broadcast' = Tail(broadcast)
        /\ UNCHANGED <<mainPc, update>>
    BY <1>4 DEF HubBroadcast, mainVars
  <2>2. /\ Len(broadcast) > 0 /\ Head(broadcast) = broadcast[1]
        /\ Len(broadcast') = Len(broadcast) - 1
        /\ \A i \in 1..Len(broadcast') : broadcast'[i] = broadcast[i + 1]
    BY <1>1, <2>1, HeadTailProperties, EmptySeq
  <2>3. latest' = latest + 1
    BY <1>1, <2>1, <2>2 DEF Numbered
  <2>4. \A i \in 1..Len(broadcast') : broadcast'[i] = latest' + i
    <3> SUFFICES ASSUME NEW i \in 1..Len(broadcast') PROVE broadcast'[i] = latest' + i
      OBVIOUS
    <3>1. i + 1 \in 1..Len(broadcast)
      BY <1>1, <2>2
    <3>2. broadcast[i + 1] = latest + (i + 1)
      BY <3>1 DEF Numbered
    <3> QED BY <1>1, <2>2, <2>3, <3>2
  <2> QED BY <1>1, <2>1, <2>2, <2>3, <2>4 DEF Numbered
<1>5. ASSUME UNCHANGED <<broadcast, latest, mainPc, update>>,
             hubPc' = hubPc \/ hubPc' # "fanout"
      PROVE  Numbered'
  BY <1>5 DEF Numbered
<1>6. ASSUME NEW c \in Client,
             HubRegister(c) \/ HubReplay(c) \/ HubUnregister(c) \/ HubDeliver(c) \/ HubPrune(c)
      PROVE  Numbered'
  <2>1. UNCHANGED <<broadcast, latest, mainPc, update>> /\ (hubPc' = hubPc \/ hubPc' # "fanout")
    BY <1>6 DEF HubRegister, HubReplay, HubUnregister, HubDeliver, HubPrune, Served,
                stateVars, mainVars
  <2> QED BY <1>5, <2>1
<1>7. ASSUME NEW c \in Client,
             HandleWebSocket(c) \/ ConnectionLost(c) \/ ReadPump(c) \/ WritePump(c)
      PROVE  Numbered'
  <2>1. UNCHANGED <<broadcast, latest, mainPc, update, hubPc>>
    BY <1>7 DEF HandleWebSocket, ConnectionLost, ReadPump, ReadFails, Subscribe, SendAnswer,
                WritePump,
                WriteTakes, WriteSucceeds, WriteEnds, stateVars, mainVars, hubVars
  <2> QED BY <1>5, <2>1
<1>8. CASE UNCHANGED vars
  BY <1>5, <1>8 DEF vars
<1> QED BY <1>2, <1>3, <1>4, <1>6, <1>7, <1>8 DEF Next, MainLoop, HubLoop

\* What a client that has not been registered has been queued: nothing.
LEMMA NewIsEmptyStep ==
  ASSUME IInv, Types, NewIsEmpty, [Next]_vars
  PROVE  NewIsEmpty'
<1> USE DEF NewIsEmpty
<1>1. /\ readPc \in [Client -> {"off", "registering", "reading", "answering", "leaving", "done"}]
      /\ DOMAIN writePc = Client /\ DOMAIN send = Client /\ DOMAIN got = Client
      /\ \A c \in hubClients : readPc[c] \notin {"off", "registering"}
      /\ hubClients \subseteq Client
  BY DEF IInv, ChannelTypes, Types, RegisteredAfterHandler, HubSendsOnOpen
<1>2. CASE MainLoop \/ HubBroadcast \/ UNCHANGED vars
  BY <1>2 DEF MainLoop, UpdateAllDatas, Broadcast, HubBroadcast, vars, clientVars
<1>3. ASSUME NEW c \in Client, HubRegister(c) \/ HubUnregister(c) \/ HubPrune(c)
      PROVE  NewIsEmpty'
  BY <1>1, <1>3 DEF HubRegister, HubUnregister, HubPrune, Served, clientVars
<1>4. ASSUME NEW c \in Client, HubReplay(c) \/ HubDeliver(c)
      PROVE  NewIsEmpty'
  <2>1. c \in hubClients /\ UNCHANGED <<readPc, writePc, got>>
        /\ \A d \in Client \ {c} : send'[d] = send[d]
    BY <1>1, <1>4 DEF HubReplay, HubDeliver, Served, clientVars
  <2> QED BY <1>1, <2>1
<1>5. ASSUME NEW c \in Client, HandleWebSocket(c) \/ ConnectionLost(c) \/ ReadFails(c)
      PROVE  NewIsEmpty'
  BY <1>1, <1>5 DEF HandleWebSocket, ConnectionLost, ReadFails
<1>6. ASSUME NEW c \in Client, Subscribe(c)
      PROVE  NewIsEmpty'
  <2>1. /\ readPc[c] = "reading" /\ UNCHANGED <<send, writePc, got>>
        /\ \A d \in Client \ {c} : readPc'[d] = readPc[d]
    BY <1>1, <1>6 DEF Subscribe
  <2>2. readPc'[c] = "answering"
    BY <1>1, <1>6 DEF Subscribe
  <2> QED BY <1>1, <2>1, <2>2
<1>8. ASSUME NEW c \in Client, SendAnswer(c)
      PROVE  NewIsEmpty'
  <2>1. /\ readPc[c] = "answering" /\ readPc'[c] = "reading" /\ UNCHANGED <<writePc, got>>
        /\ \A d \in Client \ {c} : send'[d] = send[d] /\ readPc'[d] = readPc[d]
    BY <1>1, <1>8 DEF SendAnswer
  <2> QED BY <1>1, <2>1
<1>7. ASSUME NEW c \in Client, WritePump(c)
      PROVE  NewIsEmpty'
  <2>1. writePc[c] # "off" /\ readPc' = readPc
        /\ \A d \in Client \ {c} : /\ send'[d] = send[d] /\ got'[d] = got[d]
                                   /\ writePc'[d] = writePc[d]
    BY <1>1, <1>7 DEF WritePump, WriteTakes, WriteSucceeds, WriteEnds
  <2> QED BY <1>1, <2>1
<1> QED BY <1>2, <1>3, <1>4, <1>5, <1>6, <1>7, <1>8 DEF Next, HubLoop, ReadPump

-----------------------------------------------------------------------------
(* The streams. *)

\* The updates of a stream are numbers.
LEMMA StreamTypes ==
  ASSUME Types, NEW c \in Client
  PROVE  /\ Written(c) \subseteq Nat /\ InWriting(c) \subseteq Nat /\ Waiting(c) \subseteq Nat
         /\ Stream(c) \subseteq Nat
<1>1. 1..MaxUpdates \subseteq Nat
  BY HubAssumption
<1>2. Written(c) \subseteq 1..MaxUpdates
  <2>1. got[c] \in Seq(1..MaxUpdates)
    BY DEF Types
  <2> QED BY <2>1, ElementOfSeq DEF Written
<1>3. InWriting(c) \subseteq 1..MaxUpdates
  <2>1. writing[c] \in Queued
    BY DEF Types
  <2>2. writing[c].kind = "update" => writing[c].id \in 1..MaxUpdates
    BY <2>1 DEF Queued
  <2> QED BY <2>2 DEF InWriting
<1>4. Waiting(c) \subseteq 1..MaxUpdates
  BY UpdateIdsType DEF Types, Waiting
<1> QED BY <1>1, <1>2, <1>3, <1>4 DEF Stream

\* A step that leaves the channel and the pump of a client alone leaves its
\* stream alone.
LEMMA StreamKept ==
  ASSUME NEW c \in Client, got'[c] = got[c], send'[c] = send[c], InWriting(c)' = InWriting(c)
  PROVE  /\ Stream(c)' = Stream(c)
         /\ InOrder(c) => InOrder(c)'
<1>1. Written(c)' = Written(c) /\ Waiting(c)' = Waiting(c)
  BY DEF Written, Waiting
<1> QED BY <1>1 DEF Stream, InOrder

\* So does a message for it that is not an update.
LEMMA StreamAppendOther ==
  ASSUME Types, NEW c \in Client, NEW m \in Queued, m.kind # "update",
         got'[c] = got[c], send'[c] = Append(send[c], m), InWriting(c)' = InWriting(c)
  PROVE  /\ Stream(c)' = Stream(c)
         /\ InOrder(c) => InOrder(c)'
<1>1. send[c] \in Seq(Queued)
  BY CounterTypes
<1>2. Waiting(c)' = Waiting(c) /\ (Ascending(send[c]) => Ascending(send[c])')
  BY <1>1, AppendOther DEF Waiting
<1>3. Written(c)' = Written(c)
  BY DEF Written
<1> QED BY <1>2, <1>3 DEF Stream, InOrder

\* An update newer than its stream is added to it.
LEMMA StreamAppendUpdate ==
  ASSUME Types, NEW c \in Client, NEW m \in Queued, m.kind = "update",
         got'[c] = got[c], send'[c] = Append(send[c], m), InWriting(c)' = InWriting(c),
         \A a \in Stream(c) : a < m.id
  PROVE  /\ Stream(c)' = Stream(c) \union {m.id}
         /\ InOrder(c) => InOrder(c)'
<1>1. send[c] \in Seq(Queued)
  BY CounterTypes
<1>2. /\ Waiting(c)' = Waiting(c) \union {m.id}
      /\ Ascending(send[c]) => Ascending(send[c])'
  BY <1>1, AppendUpdate DEF Waiting, Stream
<1>3. Written(c)' = Written(c)
  BY DEF Written
<1>4. Stream(c)' = Stream(c) \union {m.id}
  BY <1>2, <1>3 DEF Stream
<1>5. ASSUME InOrder(c) PROVE InOrder(c)'
  <2>1. Precede(Written(c), Waiting(c))' /\ Precede(InWriting(c), Waiting(c))'
    BY <1>2, <1>3, <1>5 DEF InOrder, Precede, Stream
  <2> QED BY <1>2, <1>3, <1>5, <2>1 DEF InOrder
<1> QED BY <1>4, <1>5

\* The writePump that takes a message moves it from the channel to its hands.
LEMMA StreamTaken ==
  ASSUME Types, NEW c \in Client, WriteTakes(c)
  PROVE  /\ Stream(c)' = Stream(c)
         /\ InOrder(c) => InOrder(c)'
<1>1. /\ send[c] \in Seq(Queued) /\ send[c] # << >>
      /\ writing'[c] = Head(send[c]) /\ send'[c] = Tail(send[c])
      /\ writePc[c] = "waiting" /\ writePc'[c] = "writing" /\ got' = got
  BY DEF WriteTakes, Types
<1>2. InWriting(c) = {} /\ Written(c)' = Written(c)
  BY <1>1 DEF InWriting, Written
<1>3. InWriting(c)' = IF Head(send[c]).kind = "update" THEN {Head(send[c]).id} ELSE {}
  BY <1>1 DEF InWriting
<1>4. /\ Waiting(c) = InWriting(c)' \union Waiting(c)'
      /\ Ascending(send[c]) => Ascending(send[c])' /\ Precede(InWriting(c), Waiting(c))'
  BY <1>1, <1>3, TakeFirst DEF Waiting, Precede
<1>5. Stream(c)' = Stream(c)
  BY <1>2, <1>4 DEF Stream
<1>6. ASSUME InOrder(c) PROVE InOrder(c)'
  <2>1. Precede(Written(c), InWriting(c))' /\ Precede(Written(c), Waiting(c))'
    BY <1>2, <1>4, <1>6 DEF InOrder, Precede
  <2> QED BY <1>1, <1>4, <1>6, <2>1 DEF InOrder
<1> QED BY <1>5, <1>6

\* The writePump that has written a message moves it to the connection.
LEMMA StreamWritten ==
  ASSUME Types, NEW c \in Client, WriteSucceeds(c)
  PROVE  /\ Stream(c)' = Stream(c)
         /\ InOrder(c) => InOrder(c)'
<1>1. /\ writePc[c] = "writing" /\ writePc'[c] = "waiting" /\ send' = send
      /\ got'[c] = IF writing[c].kind = "update" THEN Append(got[c], writing[c].id) ELSE got[c]
  BY DEF WriteSucceeds, Types
<1>2. InWriting(c)' = {} /\ Waiting(c)' = Waiting(c)
  BY <1>1 DEF InWriting, Waiting
<1>3. CASE writing[c].kind # "update"
  BY <1>1, <1>2, <1>3, StreamKept DEF InWriting
<1>4. CASE writing[c].kind = "update"
  <2> DEFINE q == got[c]
             x == writing[c].id
             r == Append(q, x)
             n == Len(q) + 1
  <2>1. q \in Seq(1..MaxUpdates) /\ x \in 1..MaxUpdates /\ got'[c] = r
    BY <1>1, <1>4 DEF Types, Queued
  <2>2. /\ Len(q) \in Nat /\ Len(r) = n
        /\ \A i \in 1..Len(q) : r[i] = q[i]
        /\ r[n] = x
    BY <2>1, AppendProperties, LenProperties
  <2>3. /\ \A i : i \in 1..n <=> i \in 1..Len(q) \/ i = n
        /\ \A i \in 1..Len(q) : i < n /\ i \in Nat
        /\ n \in Nat
    BY <2>2
  <2>4. InWriting(c) = {x}
    BY <1>1, <1>4 DEF InWriting
  <2>5. Written(c) = {q[i] : i \in 1..Len(q)}
    BY DEF Written
  <2>6. Written(c)' = {r[i] : i \in 1..n}
    BY <2>1, <2>2 DEF Written
  <2> HIDE DEF q, x, r, n
  <2>7. Written(c)' = Written(c) \union {x}
    BY <2>2, <2>3, <2>5, <2>6
  <2>8. Stream(c)' = Stream(c)
    BY <1>2, <2>4, <2>7 DEF Stream
  <2>9. ASSUME InOrder(c) PROVE InOrder(c)'
    <3>1. \A i, j \in 1..n : i < j => r[i] < r[j]
      <4> SUFFICES ASSUME NEW i \in 1..n, NEW j \in 1..n, i < j PROVE r[i] < r[j]
        OBVIOUS
      <4>1. CASE i \in 1..Len(q) /\ j \in 1..Len(q)
        BY <2>2, <2>9, <4>1 DEF InOrder, q
      <4>2. CASE i \in 1..Len(q) /\ j = n
        BY <2>2, <2>4, <2>5, <2>9, <4>2 DEF InOrder, Precede
      <4>3. ~(i = n /\ j \in 1..Len(q)) /\ ~(i = n /\ j = n)
        BY <2>3
      <4> QED BY <2>3, <4>1, <4>2, <4>3
    <3>2. \A i, j \in 1..Len(got'[c]) : i < j => got'[c][i] < got'[c][j]
      BY <2>1, <2>2, <3>1
    <3>3. Ascending(send[c])'
      BY <1>1, <2>9 DEF InOrder
    <3>4. /\ Precede(Written(c), InWriting(c))' /\ Precede(InWriting(c), Waiting(c))'
          /\ Precede(Written(c), Waiting(c))'
      BY <1>2, <2>4, <2>7, <2>9 DEF InOrder, Precede
    <3> QED BY <3>2, <3>3, <3>4 DEF InOrder
  <2> QED BY <2>8, <2>9
<1> QED BY <1>3, <1>4

\* A client whose stream is kept stays connected, unless the fan-out passes it.
LEMMA ConnectedKept ==
  ASSUME NEW c \in Client, Connected(c), Stream(c)' = Stream(c), InOrder(c)',
         \/ c \notin clients'
         \/ Stream(c) = {}
         \/ c \in clients /\ Newest(c)' = Newest(c),
         \/ Stream(c) = {}
         \/ ~(hubPc' = "replay" /\ c \in hubClients')
  PROVE  Connected(c)'
<1>1. (\A a, b \in Stream(c) : a..b \subseteq Stream(c))'
  BY DEF Connected
<1>2. (c \in clients /\ Stream(c) # {} =>
         Newest(c) \in Stream(c) /\ \A a \in Stream(c) : a <= Newest(c))'
  BY DEF Connected
<1>3. (hubPc = "replay" /\ c \in hubClients => Stream(c) = {})'
  OBVIOUS
<1> QED BY <1>1, <1>2, <1>3 DEF Connected

\* A step of the hub keeps every connected client's stream complete.
LEMMA HubStreams ==
  ASSUME IInv, Types, Numbered, NewIsEmpty, StreamsComplete,
         NEW c \in Client, HubLoop(c)
  PROVE  StreamsComplete'
<1>1. /\ DOMAIN send = Client /\ DOMAIN writePc = Client /\ latest \in Nat
      /\ \A d \in Client : /\ writePc[d] # "done" => Connected(d)
                           /\ Stream(d) \subseteq Nat
  BY StreamTypes, CounterTypes DEF Types, StreamsComplete
<1>2. hubClients \subseteq clients /\ (hubPc = "select" => hubClients = {})
  BY DEF IInv, HubSendsOnOpen, NothingPending
<1> SUFFICES ASSUME NEW d \in Client, writePc'[d] # "done" PROVE Connected(d)'
  BY DEF StreamsComplete
<1>3. CASE HubRegister(c)
  <2>1. /\ UNCHANGED <<got, send, latest, writing>>
        /\ \A e \in Client \ {c} : writePc'[e] = writePc[e]
        /\ readPc[c] = "registering" /\ writePc'[c] = "waiting"
        /\ clients' = clients \union {c} /\ hubClients' = {c} /\ hubPc = "select"
    BY <1>1, <1>3 DEF HubRegister, stateVars
  <2>2. CASE d = c
    <3>1. writePc[c] = "off" /\ send[c] = << >> /\ got[c] = << >>
      BY <2>1 DEF NewIsEmpty
    <3>2. 1..Len(<< >>) = {}
      OBVIOUS
    <3>3. Written(c)' = {} /\ Waiting(c)' = {} /\ InWriting(c)' = {}
      BY <2>1, <3>1, <3>2 DEF Written, Waiting, InWriting, UpdateIds, UpdatesAt
    <3>4. Stream(c)' = {} /\ InOrder(c)'
      BY <2>1, <3>1, <3>2, <3>3 DEF Stream, InOrder, Precede, Ascending, UpdatesAt
    <3> QED BY <2>2, <3>4 DEF Connected
  <2>3. CASE d # c
    <3>1. InWriting(d)' = InWriting(d)
      BY <2>1, <2>3 DEF InWriting
    <3>2. Stream(d)' = Stream(d) /\ InOrder(d)'
      BY <1>1, <2>1, <2>3, <3>1, StreamKept DEF Connected
    <3>3. d \in clients' => d \in clients /\ Newest(d)' = Newest(d)
      BY <1>2, <2>1, <2>3 DEF Newest
    <3> QED BY <1>1, <2>1, <2>3, <3>2, <3>3, ConnectedKept
  <2> QED BY <2>2, <2>3
<1>4. CASE HubReplay(c)
  <2>1. /\ UNCHANGED <<got, latest, writing, writePc, clients>>
        /\ send' = [send EXCEPT ![c] = Append(@, Msg("initial", latest))]
        /\ c \in hubClients /\ hubClients' = {} /\ hubPc = "replay" /\ hubPc' = "select"
    BY <1>4 DEF HubReplay, stateVars, clientVars
  <2>2. InWriting(d)' = InWriting(d)
    BY <2>1 DEF InWriting
  <2>3. Stream(d)' = Stream(d) /\ InOrder(d)'
    <3>1. CASE d = c
      <4>1. Msg("initial", latest) \in Queued /\ Msg("initial", latest).kind # "update"
        BY MessagesAreQueued DEF Types, Msg
      <4> QED BY <1>1, <2>1, <2>2, <3>1, <4>1, StreamAppendOther DEF Connected
    <3>2. CASE d # c
      BY <1>1, <2>1, <2>2, <3>2, StreamKept DEF Connected
    <3> QED BY <3>1, <3>2
  <2>4. d \in hubClients => Stream(d) = {}
    BY <1>1, <2>1 DEF Connected
  <2>5. d \notin hubClients => Newest(d)' = Newest(d)
    BY <2>1 DEF Newest
  <2> QED BY <1>1, <2>1, <2>3, <2>4, <2>5, ConnectedKept
<1>5. CASE HubUnregister(c)
  <2>1. /\ UNCHANGED <<got, send, latest, writing, writePc, hubClients, hubPc>>
        /\ clients' = clients \ {c}
    BY <1>5 DEF HubUnregister, stateVars
  <2>2. InWriting(d)' = InWriting(d) /\ Newest(d)' = Newest(d)
    BY <2>1 DEF InWriting, Newest
  <2>3. Stream(d)' = Stream(d) /\ InOrder(d)'
    BY <1>1, <2>1, <2>2, StreamKept DEF Connected
  <2>4. Stream(d) = {} \/ ~(hubPc' = "replay" /\ d \in hubClients')
    BY <1>1, <2>1 DEF Connected
  <2> QED BY <1>1, <2>1, <2>2, <2>3, <2>4, ConnectedKept
<1>6. CASE HubDeliver(c)
  <2>1. /\ UNCHANGED <<got, latest, writing, writePc, clients>>
        /\ send' = [send EXCEPT ![c] = Append(@, Msg("update", latest))]
        /\ c \in hubClients /\ hubClients' = hubClients \ {c}
        /\ hubPc = "fanout" /\ hubPc' # "replay" /\ latest > 0
    BY <1>6 DEF HubDeliver, Served, stateVars, clientVars, Numbered
  <2>2. InWriting(d)' = InWriting(d)
    BY <2>1 DEF InWriting
  <2>3. CASE d = c
    <3> DEFINE m == Msg("update", latest)
    <3>1. m \in Queued /\ m.kind = "update" /\ m.id = latest
      BY <2>1, MessagesAreQueued DEF Types, Msg
    <3>2. Stream(c) # {} => latest - 1 \in Stream(c) /\ \A a \in Stream(c) : a <= latest - 1
      BY <1>1, <1>2, <2>1, <2>3 DEF Connected, Newest
    <3>3. \A a \in Stream(c) : a < latest /\ a \in Nat
      BY <1>1, <3>2
    <3>4. Stream(c)' = Stream(c) \union {latest} /\ InOrder(c)'
      BY <1>1, <2>1, <2>2, <2>3, <3>1, <3>3, StreamAppendUpdate DEF Connected
    <3>5. ASSUME NEW a \in Stream(c)', NEW b \in Stream(c)'
          PROVE  a..b \subseteq Stream(c)'
      <4>1. CASE b \in Stream(c)
        <5>1. CASE a \in Stream(c)
          BY <1>1, <2>1, <2>3, <3>4, <4>1, <5>1 DEF Connected
        <5>2. CASE a = latest
          BY <1>1, <3>3, <4>1, <5>2
        <5> QED BY <3>4, <5>1, <5>2
      <4>2. CASE b = latest
        <5>1. CASE a \in Stream(c)
          <6>1. a..(latest - 1) \subseteq Stream(c)
            BY <1>1, <2>1, <2>3, <3>2, <5>1 DEF Connected
          <6>2. \A x \in a..latest : x = latest \/ x \in a..(latest - 1)
            BY <1>1, <3>3, <5>1
          <6> QED BY <3>4, <4>2, <6>1, <6>2
        <5>2. CASE a = latest
          BY <1>1, <3>4, <4>2, <5>2
        <5> QED BY <3>4, <5>1, <5>2
      <4> QED BY <3>4, <4>1, <4>2
    <3>6. Newest(c)' = latest
      BY <2>1 DEF Newest
    <3>7. latest \in Stream(c)' /\ \A a \in Stream(c)' : a <= latest
      BY <1>1, <3>3, <3>4
    <3> QED BY <2>1, <2>3, <3>4, <3>5, <3>6, <3>7 DEF Connected
  <2>4. CASE d # c
    <3>1. Stream(d)' = Stream(d) /\ InOrder(d)'
      BY <1>1, <2>1, <2>2, <2>4, StreamKept DEF Connected
    <3>2. Newest(d)' = Newest(d)
      BY <2>1, <2>4 DEF Newest
    <3> QED BY <1>1, <2>1, <3>1, <3>2, ConnectedKept
  <2> QED BY <2>3, <2>4
<1>7. CASE HubPrune(c)
  <2>1. /\ UNCHANGED <<got, send, latest, writing, writePc>>
        /\ clients' = clients \ {c} /\ hubClients' = hubClients \ {c} /\ hubPc' # "replay"
    BY <1>7 DEF HubPrune, Served, stateVars, clientVars
  <2>2. InWriting(d)' = InWriting(d)
    BY <2>1 DEF InWriting
  <2>3. Stream(d)' = Stream(d) /\ InOrder(d)'
    BY <1>1, <2>1, <2>2, StreamKept DEF Connected
  <2>4. d \in clients' => d \in clients /\ Newest(d)' = Newest(d)
    BY <2>1 DEF Newest
  <2> QED BY <1>1, <2>1, <2>3, <2>4, ConnectedKept
<1> QED BY <1>3, <1>4, <1>5, <1>6, <1>7 DEF HubLoop

\* So does a step of the main loop or of a client's goroutines, and so does the
\* hub when it receives an update.
LEMMA OtherStreams ==
  ASSUME IInv, Types, Numbered, StreamsComplete,
         \/ MainLoop \/ HubBroadcast \/ UNCHANGED vars
         \/ \E c \in Client : \/ HandleWebSocket(c) \/ ConnectionLost(c)
                              \/ ReadPump(c) \/ WritePump(c)
  PROVE  StreamsComplete'
<1>1. /\ DOMAIN send = Client /\ DOMAIN writePc = Client /\ DOMAIN writing = Client
      /\ DOMAIN got = Client /\ latest \in Nat
      /\ \A d \in Client : writePc[d] # "done" => Connected(d)
  BY CounterTypes DEF Types, StreamsComplete
<1>2. hubClients \subseteq clients /\ (hubPc = "select" => hubClients = {})
  BY DEF IInv, HubSendsOnOpen, NothingPending
<1> SUFFICES ASSUME NEW d \in Client, writePc'[d] # "done" PROVE Connected(d)'
  BY DEF StreamsComplete
<1>3. ASSUME writePc[d] # "done", Stream(d)' = Stream(d), InOrder(d) => InOrder(d)',
             UNCHANGED <<latest, clients, hubClients, hubPc>>
      PROVE  Connected(d)'
  <2>1. Newest(d)' = Newest(d)
    BY <1>3 DEF Newest
  <2>2. Stream(d) = {} \/ ~(hubPc' = "replay" /\ d \in hubClients')
    BY <1>1, <1>3 DEF Connected
  <2>3. InOrder(d)'
    BY <1>1, <1>3 DEF Connected
  <2> QED BY <1>1, <1>3, <2>1, <2>2, <2>3, ConnectedKept
<1>4. ASSUME UNCHANGED <<got, send, writing, writePc, latest, clients, hubClients, hubPc>>
      PROVE  Connected(d)'
  <2>1. InWriting(d)' = InWriting(d)
    BY <1>4 DEF InWriting
  <2> QED BY <1>3, <1>4, <2>1, StreamKept
<1>5. CASE MainLoop \/ UNCHANGED vars
  BY <1>4, <1>5 DEF MainLoop, UpdateAllDatas, Broadcast, vars, clientVars, hubVars
<1>6. CASE HubBroadcast
  <2>1. /\ UNCHANGED <<got, send, writing, writePc, clients>>
        /\ broadcast # << >> /\ latest' = Head(broadcast) /\ hubClients' = clients
        /\ hubPc = "select" /\ hubPc' # "replay"
    BY <1>6 DEF HubBroadcast, clientVars
  <2>2. latest' = latest + 1
    <3>1. broadcast \in Seq(1..MaxUpdates) /\ Len(broadcast) \in Nat
      BY CounterTypes
    <3>2. Len(broadcast) > 0 /\ Head(broadcast) = broadcast[1]
      BY <2>1, <3>1, EmptySeq
    <3> QED BY <1>1, <2>1, <3>1, <3>2 DEF Numbered
  <2>3. InWriting(d)' = InWriting(d)
    BY <2>1 DEF InWriting
  <2>4. Stream(d)' = Stream(d) /\ InOrder(d)'
    BY <1>1, <2>1, <2>3, StreamKept DEF Connected
  <2>5. d \in clients => Newest(d)' = Newest(d)
    BY <1>1, <1>2, <2>1, <2>2 DEF Newest
  <2> QED BY <1>1, <2>1, <2>4, <2>5, ConnectedKept
<1>7. ASSUME NEW c \in Client, HandleWebSocket(c) \/ ConnectionLost(c) \/ ReadFails(c) \/ Subscribe(c)
      PROVE  Connected(d)'
  BY <1>4, <1>7 DEF HandleWebSocket, ConnectionLost, ReadFails, Subscribe, stateVars, hubVars
<1>8. ASSUME NEW c \in Client, SendAnswer(c)
      PROVE  Connected(d)'
  <2>1. /\ UNCHANGED <<got, writing, writePc, latest, clients, hubClients, hubPc>>
        /\ send' = send \/ send' = [send EXCEPT ![c] = Append(@, answer[c])]
    BY <1>8 DEF SendAnswer, stateVars, hubVars
  <2>2. InWriting(d)' = InWriting(d)
    BY <2>1 DEF InWriting
  <2>3. Stream(d)' = Stream(d) /\ (InOrder(d) => InOrder(d)')
    <3>1. CASE send'[d] = send[d]
      BY <2>1, <2>2, <3>1, StreamKept
    <3>2. CASE d = c /\ send'[d] = Append(send[d], answer[d])
      <4>1. answer[d] \in Queued /\ answer[d].kind # "update"
        BY MessagesAreQueued DEF Types
      <4> QED BY <2>1, <2>2, <3>2, <4>1, StreamAppendOther
    <3> QED BY <1>1, <2>1, <3>1, <3>2
  <2> QED BY <1>3, <2>1, <2>3
<1>9. ASSUME NEW c \in Client, WritePump(c)
      PROVE  Connected(d)'
  <2>1. UNCHANGED <<latest, clients, hubClients, hubPc>>
    BY <1>9 DEF WritePump, WriteTakes, WriteSucceeds, WriteEnds, stateVars, hubVars
  <2>2. CASE d = c
    <3>1. ~WriteEnds(c)
      BY <1>1, <2>2 DEF WriteEnds
    <3>2. writePc[d] # "done"
      BY <1>9, <2>2, <3>1 DEF WritePump, WriteTakes, WriteSucceeds
    <3>3. Stream(d)' = Stream(d) /\ (InOrder(d) => InOrder(d)')
      BY <1>9, <2>2, <3>1, StreamTaken, StreamWritten DEF WritePump
    <3> QED BY <1>3, <2>1, <3>2, <3>3
  <2>3. CASE d # c
    <3>1. /\ got'[d] = got[d] /\ send'[d] = send[d] /\ writing'[d] = writing[d]
          /\ writePc'[d] = writePc[d]
      BY <1>1, <1>9, <2>3 DEF WritePump, WriteTakes, WriteSucceeds, WriteEnds
    <3>2. InWriting(d)' = InWriting(d)
      BY <3>1 DEF InWriting
    <3> QED BY <1>3, <2>1, <3>1, <3>2, StreamKept
  <2> QED BY <2>2, <2>3
<1> QED BY <1>5, <1>6, <1>7, <1>8, <1>9 DEF ReadPump

-----------------------------------------------------------------------------
(* The theorems. *)

\* Nothing is queued, and nobody connected, in the initial state.
LEMMA StreamInit == Init => StreamInv
<1> SUFFICES ASSUME Init PROVE StreamInv
  OBVIOUS
<1>1. /\ MaxUpdates \in Nat /\ MaxCommands \in Nat /\ SendCap \in Nat \ {0}
      /\ BroadcastCap \in Nat \ {0}
  BY HubAssumption
<1>2. /\ << >> \in Seq(Queued) /\ << >> \in Seq(1..MaxUpdates) /\ Len(<< >>) = 0
      /\ Nothing \in Queued /\ Nothing \in Answer /\ 0 \in 0..MaxUpdates
  BY <1>1, EmptySeq, MessagesAreQueued
<1>3. Types
  <2>1. /\ objects \in [0..MaxUpdates -> [Symbol -> {NoData} \union 0..MaxUpdates]]
        /\ send \in [Client -> Seq(Queued)] /\ \A c \in Client : Len(send[c]) <= SendCap
        /\ commands \in [Client -> 0..MaxCommands]
    BY <1>1, <1>2 DEF Init
  <2>3. writing \in [Client -> Queued] /\ answer \in [Client -> Answer]
    BY <1>1, <1>2 DEF Init
  <2>2. Len(broadcast) <= BroadcastCap
    BY <1>1, <1>2 DEF Init
  <2> QED BY <1>1, <1>2, <2>1, <2>2, <2>3 DEF Init, Types
<1>4. Numbered /\ NewIsEmpty
  BY <1>2 DEF Init, Numbered, NewIsEmpty
<1>5. ASSUME NEW c \in Client PROVE Connected(c)
  <2>1. 1..0 = {}
    OBVIOUS
  <2>2. /\ got[c] = << >> /\ send[c] = << >> /\ writePc[c] = "off" /\ hubClients = {}
    BY DEF Init
  <2>3. Written(c) = {} /\ Waiting(c) = {} /\ InWriting(c) = {}
    BY <1>2, <2>1, <2>2 DEF Written, Waiting, InWriting, UpdateIds, UpdatesAt
  <2>4. Stream(c) = {} /\ InOrder(c)
    BY <1>2, <2>1, <2>2, <2>3 DEF Stream, InOrder, Precede, Ascending, UpdatesAt
  <2> QED BY <2>4 DEF Connected
<1> QED BY <1>3, <1>4, <1>5, InitInv DEF StreamInv, StreamsComplete

\* Every step keeps the invariant.
LEMMA StreamStep == StreamInv /\ [Next]_vars => StreamInv'
<1> SUFFICES ASSUME StreamInv, [Next]_vars PROVE StreamInv'
  OBVIOUS
<1> USE DEF StreamInv
<1>1. IInv' /\ Types' /\ Numbered' /\ NewIsEmpty'
  BY StepInv, TypesStep, NumberedStep, NewIsEmptyStep
<1>2. StreamsComplete'
  BY HubStreams, OtherStreams DEF Next
<1> QED BY <1>1, <1>2

\* In every reachable state the invariant holds.
LEMMA StreamInvariance == Spec => []StreamInv
BY StreamInit, StreamStep, PTL DEF Spec

\* The hub's queues, channels and goroutines stay well formed; no channel holds
\* more than its capacity.
THEOREM TypeCorrect == Spec => []TypeOK
<1>1. Queued \subseteq Message
  BY HubAssumption DEF Queued, Message
<1>2. Types => send \in [Client -> Seq(Message)] /\ writing \in [Client -> Message]
  BY <1>1, SeqMonotonic DEF Types
<1>3. Types => answer \in [Client -> Message]
  BY DEF Types, Answer, Message
<1>4. StreamInv => TypeOK
  BY <1>2, <1>3 DEF StreamInv, IInv, ChannelTypes, Types, TypeOK
<1> QED BY <1>4, StreamInvariance, PTL

\* A client that is connected is served every update from its first one on, in
\* order: a full channel disconnects it (hub.go:48), it never leaves a gap.
THEOREM ConnectedSeeEverything == Spec => []NoGap
<1>1. StreamInv => NoGap
  BY DEF StreamInv, StreamsComplete, Connected, Newest, NoGap
<1> QED BY <1>1, StreamInvariance, PTL
=============================================================================
