-------------------------------- MODULE Hub --------------------------------
(***************************************************************************)
(* src/server: the WebSocket hub.  Four kinds of goroutines share it:      *)
(*                                                                         *)
(*   - the hub loop (handleWebsockets), the only one that touches the set  *)
(*     of registered clients and closes their send channels;               *)
(*   - the main data loop, which merges every update into latestState      *)
(*     (UpdateAllDatas) and then queues it for the hub (Broadcast);        *)
(*   - a readPump per client, which answers subscribe commands by sending  *)
(*     on the client's channel itself;                                     *)
(*   - a writePump per client, which drains that channel to the socket.    *)
(*                                                                         *)
(* An MLatestData is a heap object that is passed by pointer: objects[i]   *)
(* is the one made for update i (0: by NewFastAPIServer and the initial    *)
(* load), and queues and latestState hold the number i.  Of its content    *)
(* the model keeps, per symbol, the update its aggregations come from.     *)
(***************************************************************************)
EXTENDS Integers, Sequences

CONSTANTS Client,        \* WebSocket connections (each connects once)
          Symbol,        \* stock symbols
          SendCap,       \* capacity of a client's send channel (256)
          BroadcastCap,  \* capacity of the broadcast channel (256)
          Commander,     \* clients that send subscribe commands
          MaxUpdates,    \* bound: updates the main loop processes
          MaxCommands    \* bound: subscribe commands each of them sends

ASSUME HubAssumption ==
  /\ SendCap \in Nat \ {0}
  /\ BroadcastCap \in Nat \ {0}
  /\ Commander \subseteq Client
  /\ MaxUpdates \in Nat
  /\ MaxCommands \in Nat

VARIABLES
  objects,    \* the MLatestData objects made so far
  latest,     \* latestState: which object the server holds
  broadcast,  \* the broadcast channel
  clients,    \* the hub's set of registered clients
  send,       \* each client's send channel
  closed,     \* whether that channel was closed
  hubPc,      \* where the hub loop is
  hubClients, \* clients the hub still has to serve before it selects again
  mainPc,     \* where the main loop is: before UpdateAllDatas or Broadcast
  update,     \* updates processed so far
  changed,    \* symbols of the update between UpdateAllDatas and Broadcast
  conn,       \* each client's connection
  readPc,     \* handler and readPump of each client
  writePc,    \* writePump of each client
  writing,    \* message each writePump is encoding
  answer,     \* answer each readPump has computed and not yet sent
  commands,   \* subscribe commands each client has sent
  got,        \* updates written to each client's connection, in order
  crash       \* why the process died, "no" while it runs

vars == <<objects, latest, broadcast, clients, send, closed, hubPc, hubClients,
          mainPc, update, changed, conn, readPc, writePc, writing, answer,
          commands, got, crash>>

hubVars    == <<clients, hubPc, hubClients>>
mainVars   == <<mainPc, update, changed>>
clientVars == <<conn, readPc, writePc, writing, answer, commands, got>>
stateVars  == <<objects, latest, broadcast>>

NoData == -1

\* What can be queued for a client: a pointer to a state object, replayed on
\* registration ("initial") or broadcast ("update"), or the answer to a subscribe
\* command, which holds maps of the object it was filtered from ("response").
Message == [kind : {"initial", "update", "response"}, id : 0..MaxUpdates]

Msg(k, i) == [kind |-> k, id |-> i]
Nothing == Msg("response", 0)

\* The server starts after UpdateAllDatas(initialPayload): every symbol has
\* data of the initial load, which counts as update 0.
Init ==
  /\ objects = [i \in 0..MaxUpdates |->
                  [s \in Symbol |-> IF i = 0 THEN 0 ELSE NoData]]
  /\ latest = 0
  /\ broadcast = << >>
  /\ clients = {}
  /\ send = [c \in Client |-> << >>]
  /\ closed = [c \in Client |-> FALSE]
  /\ hubPc = "select"
  /\ hubClients = {}
  /\ mainPc = "merge"
  /\ update = 0
  /\ changed = {}
  /\ conn = [c \in Client |-> "none"]
  /\ readPc = [c \in Client |-> "off"]
  /\ writePc = [c \in Client |-> "off"]
  /\ writing = [c \in Client |-> Nothing]
  /\ answer = writing
  /\ commands = [c \in Client |-> 0]
  /\ got = [c \in Client |-> << >>]
  /\ crash = "no"

\* A panic or a fatal error of the runtime ends every goroutine.
Alive == crash = "no"

-----------------------------------------------------------------------------
(* The main loop. *)

\* A writePump is encoding maps of the object latestState points to, a state's or
\* an answer's; it holds no lock.
EncodingLatest ==
  \E c \in Client : writePc[c] = "writing" /\ writing[c].id = latest

\* Merges the next update, for the symbols in syms, into the object latestState
\* points to, in place, under stateMutex.  The hub holds the read lock while it
\* replays the state to a new client.  Writing a map while a writePump iterates
\* over it is a data race: the runtime may notice and abort the process.
UpdateAllDatas(syms) ==
  /\ Alive
  /\ mainPc = "merge"
  /\ update < MaxUpdates
  /\ hubPc # "replay"
  /\ update' = update + 1
  /\ changed' = syms
  /\ objects' = [objects EXCEPT ![latest] =
                   [s \in Symbol |-> IF s \in syms THEN update' ELSE @[s]]]
  /\ mainPc' = "broadcast"
  /\ \/ crash' = crash
     \/ /\ EncodingLatest
        /\ crash' = "concurrent map access"
  /\ UNCHANGED <<latest, broadcast, hubVars, send, closed, clientVars>>

\* Error: the channel send drops the guard on the capacity.
BroadcastUnbounded ==
  /\ Alive
  /\ mainPc = "broadcast"
  /\ objects' = [objects EXCEPT ![update] =
                   [s \in Symbol |-> IF s \in changed THEN update ELSE NoData]]
  /\ broadcast' = Append(broadcast, update)
  /\ mainPc' = "merge"
  /\ changed' = {}
  /\ UNCHANGED <<latest, hubVars, send, closed, update, clientVars, crash>>

\* Makes a new object holding only this update and queues it; blocks while the
\* broadcast channel is full.
Broadcast ==
  /\ Alive
  /\ mainPc = "broadcast"
  /\ Len(broadcast) < BroadcastCap
  /\ objects' = [objects EXCEPT ![update] =
                   [s \in Symbol |-> IF s \in changed THEN update ELSE NoData]]
  /\ broadcast' = Append(broadcast, update)
  /\ mainPc' = "merge"
  /\ changed' = {}
  /\ UNCHANGED <<latest, hubVars, send, closed, update, clientVars, crash>>

-----------------------------------------------------------------------------
(* The hub loop. *)

\* case client := <-s.register.  The handler, released by the hub, starts both
\* pumps and returns.
HubRegister(c) ==
  /\ Alive
  /\ hubPc = "select"
  /\ readPc[c] = "registering"
  /\ clients' = clients \union {c}
  /\ hubPc' = "replay"
  /\ hubClients' = {c}
  /\ readPc' = [readPc EXCEPT ![c] = "reading"]
  /\ writePc' = [writePc EXCEPT ![c] = "waiting"]
  /\ UNCHANGED <<stateVars, send, closed, mainVars, conn, writing, answer,
                 commands, got, crash>>

\* Error: the replay is two messages, raw data and aggregations.
HubReplayInTwo(c) ==
  /\ Alive
  /\ hubPc = "replay"
  /\ c \in hubClients
  /\ Len(send[c]) + 1 < SendCap
  /\ send' = [send EXCEPT ![c] = @ \o <<Msg("initial", latest), Msg("initial", latest)>>]
  /\ hubPc' = "select"
  /\ hubClients' = {}
  /\ UNCHANGED <<stateVars, clients, closed, mainVars, clientVars, crash>>

\* client.send <- s.latestState: a blocking send, under the read lock.
HubReplay(c) ==
  /\ Alive
  /\ hubPc = "replay"
  /\ c \in hubClients
  /\ Len(send[c]) < SendCap
  /\ send' = [send EXCEPT ![c] = Append(@, Msg("initial", latest))]
  /\ hubPc' = "select"
  /\ hubClients' = {}
  /\ UNCHANGED <<stateVars, clients, closed, mainVars, clientVars, crash>>

\* case client := <-s.unregister.  The readPump, released, closes the
\* connection and ends.
HubUnregister(c) ==
  /\ Alive
  /\ hubPc = "select"
  /\ readPc[c] = "leaving"
  /\ clients' = clients \ {c}
  /\ closed' = [closed EXCEPT ![c] = @ \/ c \in clients]
  /\ readPc' = [readPc EXCEPT ![c] = "done"]
  /\ conn' = [conn EXCEPT ![c] = "closed"]
  /\ UNCHANGED <<stateVars, send, hubPc, hubClients, mainVars, writePc,
                 writing, answer, commands, got, crash>>

\* case message := <-s.broadcast: the message becomes latestState and is then
\* offered to every registered client.
HubBroadcast ==
  /\ Alive
  /\ hubPc = "select"
  /\ broadcast # << >>
  /\ latest' = Head(broadcast)
  /\ broadcast' = Tail(broadcast)
  /\ hubClients' = clients
  /\ hubPc' = IF clients = {} THEN "select" ELSE "fanout"
  /\ UNCHANGED <<objects, clients, send, closed, mainVars, clientVars, crash>>

\* One client of the fan-out is served; the map is ranged over in any order.
Served(c) ==
  /\ Alive
  /\ hubPc = "fanout"
  /\ c \in hubClients
  /\ hubClients' = hubClients \ {c}
  /\ hubPc' = IF hubClients = {c} THEN "select" ELSE "fanout"
  /\ UNCHANGED <<stateVars, mainVars, clientVars, crash>>

\* case client.send <- message.
HubDeliver(c) ==
  /\ Served(c)
  /\ Len(send[c]) < SendCap
  /\ send' = [send EXCEPT ![c] = Append(@, Msg("update", latest))]
  /\ UNCHANGED <<clients, closed>>

\* Error: a slow client misses the message and stays.
HubSkip(c) ==
  /\ Served(c)
  /\ Len(send[c]) = SendCap
  /\ UNCHANGED <<clients, closed, send>>

\* Error: a slow client's channel is closed but the client stays registered.
HubCloseOnly(c) ==
  /\ Served(c)
  /\ Len(send[c]) = SendCap
  /\ closed' = [closed EXCEPT ![c] = TRUE]
  /\ UNCHANGED <<clients, send>>

\* default: the channel is full, the client is dropped.
HubPrune(c) ==
  /\ Served(c)
  /\ Len(send[c]) = SendCap
  /\ clients' = clients \ {c}
  /\ closed' = [closed EXCEPT ![c] = TRUE]
  /\ UNCHANGED send

-----------------------------------------------------------------------------
(* The goroutines of a client. *)

\* The upgraded connection; the handler then blocks on s.register <- client.
HandleWebSocket(c) ==
  /\ Alive
  /\ readPc[c] = "off"
  /\ readPc' = [readPc EXCEPT ![c] = "registering"]
  /\ conn' = [conn EXCEPT ![c] = "open"]
  /\ UNCHANGED <<stateVars, hubVars, send, closed, mainVars, writePc, writing,
                 answer, commands, got, crash>>

\* The peer goes away, misses its pong deadline, or sends a command that does
\* not parse (HandleClientMessage then closes the connection).
ConnectionLost(c) ==
  /\ Alive
  /\ conn[c] = "open"
  /\ conn' = [conn EXCEPT ![c] = "closed"]
  /\ UNCHANGED <<stateVars, hubVars, send, closed, mainVars, readPc, writePc,
                 writing, answer, commands, got, crash>>

\* Error: the deferred unregister is missing.
ReadFailsSilently(c) ==
  /\ Alive
  /\ readPc[c] = "reading"
  /\ conn[c] = "closed"
  /\ readPc' = [readPc EXCEPT ![c] = "done"]
  /\ UNCHANGED <<stateVars, hubVars, send, closed, mainVars, conn, writePc,
                 writing, answer, commands, got, crash>>

\* ReadMessage fails; the deferred function then waits to unregister.
ReadFails(c) ==
  /\ Alive
  /\ readPc[c] = "reading"
  /\ conn[c] = "closed"
  /\ readPc' = [readPc EXCEPT ![c] = "leaving"]
  /\ UNCHANGED <<stateVars, hubVars, send, closed, mainVars, conn, writePc,
                 writing, answer, commands, got, crash>>

\* A subscribe command: the readPump filters the answer from the state, under the
\* read lock, which it gives back.  The answer holds the state's maps of symbols
\* and windows, except in a view of one timeframe, which no update writes: with
\* such an answer the race of UpdateAllDatas goes unnoticed.
Subscribe(c) ==
  /\ Alive
  /\ readPc[c] = "reading"
  /\ conn[c] = "open"
  /\ c \in Commander
  /\ commands[c] < MaxCommands
  /\ commands' = [commands EXCEPT ![c] = @ + 1]
  /\ answer' = [answer EXCEPT ![c] = Msg("response", latest)]
  /\ readPc' = [readPc EXCEPT ![c] = "answering"]
  /\ UNCHANGED <<stateVars, hubVars, send, closed, mainVars, conn, writePc, writing,
                 got, crash>>

\* The readPump offers the answer to the client's channel itself and gives up when
\* it is full.  Sending on a closed channel panics, with or without the default
\* branch, and takes the process down.
SendAnswer(c) ==
  /\ Alive
  /\ readPc[c] = "answering"
  /\ readPc' = [readPc EXCEPT ![c] = "reading"]
  /\ answer' = [answer EXCEPT ![c] = Nothing]
  /\ \/ /\ closed[c]
        /\ crash' = "send on closed channel"
        /\ UNCHANGED send
     \/ /\ ~closed[c]
        /\ send' = IF Len(send[c]) < SendCap
                     THEN [send EXCEPT ![c] = Append(@, answer[c])]
                     ELSE send
        /\ UNCHANGED crash
  /\ UNCHANGED <<stateVars, hubVars, closed, mainVars, conn, writePc, writing,
                 commands, got>>

\* message, ok := <-c.send with ok.
WriteTakes(c) ==
  /\ Alive
  /\ writePc[c] = "waiting"
  /\ send[c] # << >>
  /\ writing' = [writing EXCEPT ![c] = Head(send[c])]
  /\ send' = [send EXCEPT ![c] = Tail(@)]
  /\ writePc' = [writePc EXCEPT ![c] = "writing"]
  /\ UNCHANGED <<stateVars, hubVars, closed, mainVars, conn, readPc, answer,
                 commands, got, crash>>

WriteSucceeds(c) ==
  /\ Alive
  /\ writePc[c] = "writing"
  /\ conn[c] = "open"
  /\ writePc' = [writePc EXCEPT ![c] = "waiting"]
  /\ writing' = [writing EXCEPT ![c] = Nothing]
  /\ got' = IF writing[c].kind = "update"
              THEN [got EXCEPT ![c] = Append(@, writing[c].id)]
              ELSE got
  /\ UNCHANGED <<stateVars, hubVars, send, closed, mainVars, conn, readPc, answer,
                 commands, crash>>

\* The writePump returns and closes the connection: a write failed or ran into
\* its deadline, a ping found the connection closed, or the drained channel
\* turned out to be closed by the hub.
WriteEnds(c) ==
  /\ Alive
  /\ \/ writePc[c] = "writing"
     \/ writePc[c] = "waiting" /\ conn[c] = "closed"
     \/ writePc[c] = "waiting" /\ send[c] = << >> /\ closed[c]
  /\ writePc' = [writePc EXCEPT ![c] = "done"]
  /\ writing' = [writing EXCEPT ![c] = Nothing]
  /\ conn' = [conn EXCEPT ![c] = "closed"]
  /\ UNCHANGED <<stateVars, hubVars, send, closed, mainVars, readPc, answer,
                 commands, got, crash>>

-----------------------------------------------------------------------------

MainLoop == (\E syms \in SUBSET Symbol \ {{}} : UpdateAllDatas(syms)) \/ Broadcast

HubLoop(c) == HubRegister(c) \/ HubReplay(c) \/ HubUnregister(c)
                \/ HubDeliver(c) \/ HubPrune(c)

ReadPump(c) == ReadFails(c) \/ Subscribe(c) \/ SendAnswer(c)

WritePump(c) == WriteTakes(c) \/ WriteSucceeds(c) \/ WriteEnds(c)

Next ==
  \/ MainLoop
  \/ HubBroadcast
  \/ \E c \in Client : \/ HubLoop(c)
                       \/ HandleWebSocket(c)
                       \/ ConnectionLost(c)
                       \/ ReadPump(c)
                       \/ WritePump(c)

\* Every goroutine that can run does; select picks among its ready cases at
\* random, so no case is passed over for ever.  Peers owe nothing: connecting,
\* subscribing, losing the connection and producing updates stay optional.
Fairness ==
  /\ WF_vars(Broadcast)
  /\ WF_vars(HubBroadcast)
  /\ \A c \in Client :
       /\ WF_vars(HubRegister(c))
       /\ WF_vars(HubReplay(c))
       /\ SF_vars(HubUnregister(c))
       /\ WF_vars(HubDeliver(c) \/ HubPrune(c))
       /\ WF_vars(ReadFails(c) \/ SendAnswer(c))
       /\ WF_vars(WritePump(c))

Spec == Init /\ [][Next]_vars

FairSpec == Spec /\ Fairness

-----------------------------------------------------------------------------
(* Properties. *)

TypeOK ==
  /\ objects \in [0..MaxUpdates -> [Symbol -> {NoData} \union 0..MaxUpdates]]
  /\ latest \in 0..MaxUpdates
  /\ broadcast \in Seq(1..MaxUpdates) /\ Len(broadcast) <= BroadcastCap
  /\ clients \subseteq Client
  /\ send \in [Client -> Seq(Message)] /\ \A c \in Client : Len(send[c]) <= SendCap
  /\ closed \in [Client -> BOOLEAN]
  /\ hubPc \in {"select", "replay", "fanout"}
  /\ hubClients \subseteq Client
  /\ mainPc \in {"merge", "broadcast"}
  /\ update \in 0..MaxUpdates
  /\ changed \subseteq Symbol
  /\ conn \in [Client -> {"none", "open", "closed"}]
  /\ readPc \in [Client -> {"off", "registering", "reading", "answering", "leaving", "done"}]
  /\ writePc \in [Client -> {"off", "waiting", "writing", "done"}]
  /\ writing \in [Client -> Message]
  /\ answer \in [Client -> Message]
  /\ commands \in [Client -> 0..MaxCommands]
  /\ got \in [Client -> Seq(1..MaxUpdates)]
  /\ crash \in {"no", "concurrent map access", "send on closed channel"}

\* The hub itself never sends on or closes a closed channel: whichever of
\* pruning and unregistering comes first removes the client from the set.
HubSendsOnOpen ==
  /\ \A c \in clients : ~closed[c]
  /\ hubClients \subseteq clients

\* The updates the hub ever queued for c: written, being written, waiting.
Written(c) == {got[c][i] : i \in 1..Len(got[c])}

InWriting(c) ==
  IF writePc[c] = "writing" /\ writing[c].kind = "update" THEN {writing[c].id} ELSE {}

UpdatesAt(q) == {i \in 1..Len(q) : q[i].kind = "update"}
UpdateIds(q) == {q[i].id : i \in UpdatesAt(q)}
Waiting(c) == UpdateIds(send[c])

Stream(c) == Written(c) \union InWriting(c) \union Waiting(c)

Precede(A, B) == \A a \in A : \A b \in B : a < b
Ascending(q) == \A i, j \in UpdatesAt(q) : i < j => q[i].id < q[j].id

\* The updates of c are in the order they were made, and each comes once.
InOrder(c) ==
  /\ \A i, j \in 1..Len(got[c]) : i < j => got[c][i] < got[c][j]
  /\ Ascending(send[c])
  /\ Precede(Written(c), InWriting(c))
  /\ Precede(Written(c), Waiting(c))
  /\ Precede(InWriting(c), Waiting(c))

\* A client that is connected sees every update from the first one on: a slow
\* one is disconnected, never served with a gap.
NoGap ==
  \A c \in Client : writePc[c] # "done" =>
    /\ InOrder(c)
    /\ \A a, b \in Stream(c) : a..b \subseteq Stream(c)
    /\ c \in clients \ hubClients /\ Stream(c) # {} =>
         /\ latest \in Stream(c)
         /\ \A a \in Stream(c) : a <= latest

\* A connection that is lost, for whatever reason, is eventually removed from
\* the hub, in whatever state its two pumps were.
DeadClientReaped ==
  \A c \in Client : conn[c] = "closed" /\ c \in clients
                      ~> c \notin clients \/ ~Alive

\* No peer, slow, dead or connecting in bursts, stops the main loop from handing
\* over its update.  It takes MaxCommands < SendCap: SendCap answers queued
\* between a registration and its replay would block the replay, and with it
\* the hub.
ProducerNeverStuck == mainPc = "broadcast" ~> mainPc = "merge" \/ ~Alive

\* The process does not die from a client that is pruned for being slow
\* (hub.go:50, "This ensures reliable 24/7 operation").
SlowClientHarmless == crash # "send on closed channel"

\* A symbol that has aggregations in the server's state keeps them
\* (hub.go:98, "The server holds only the most recent aggregation for each
\* window"; hub.go:63, "merging new data (Deep Merge)").
StateOnlyGrows ==
  [][\A s \in Symbol : objects[latest][s] # NoData => objects'[latest'][s] # NoData]_vars
=============================================================================
