--------------------------- MODULE ControlService ---------------------------
(***************************************************************************)
(* The configuration of cmd/test: its start from the YAML file (config.go, *)
(* the symbol references of postgres_symbols.go, setup.go) and the gRPC    *)
(* requests of service.go that change the sources while it runs.  Three    *)
(* things have to agree: the manager's map of sources, which has a lock,   *)
(* the configuration in memory, which has none, and the file, which Save   *)
(* truncates and writes again.  Whether a source runs is SourceManager's.  *)
(*                                                                         *)
(* A configuration is the sequence of its sources, [name, symbols]; the    *)
(* rest of the file never changes and is taken to be valid.  A list of     *)
(* symbols is a set.                                                       *)
(***************************************************************************)
EXTENDS Integers, Sequences, FiniteSets, SequencesExt

CONSTANTS Name,         \* source names
          Yahoo,        \* the only one setupDataSources knows, "yahoo"
          Symbol,       \* what a list of symbols may hold
          List,         \* lists of symbols in requests
          Reference,    \* symbols of the form schema.table.field
          Table,        \* the symbols in the table each of them names
          FirstFile,    \* configurations the operator may start with
          Request,      \* goroutines serving requests
          None,         \* no list
          Garbage,      \* the content of a file that does not parse
          MaxRequests,  \* bound: requests served
          MaxRestarts,  \* bound: restarts of the process
          MaxFaults     \* bound: failing writes and queries

Configuration == Seq([name : Name, symbols : SUBSET Symbol])

ASSUME ControlAssumption ==
  /\ Yahoo \in Name
  /\ Reference \subseteq Symbol /\ List \subseteq SUBSET Symbol
  /\ Table \in [Reference -> SUBSET Symbol]
  /\ \A ref \in Reference : Table[ref] \intersect Reference = {}
  /\ MaxRequests \in Nat /\ MaxRestarts \in Nat /\ MaxFaults \in Nat

ASSUME FileAssumption ==
  /\ FirstFile \subseteq {Garbage} \union Configuration
  /\ Garbage \notin Configuration
  /\ \A symbols \in SUBSET Symbol : symbols # None

\* Nothing checks that a file lists a source once.  Of two entries of one name a
\* request would change the first, and the next start take the last.
ASSUME UniqueAssumption ==
  \A conf \in FirstFile \ {Garbage} : \A i, j \in DOMAIN conf :
    conf[i].name = conf[j].name => i = j

\* Only the start resolves references: requests are taken to carry none.
ASSUME ListAssumption == \A symbols \in List : symbols \intersect Reference = {}

VARIABLES
  dbType,    \* "sqlite" or "postgres"
  file,      \* what the file holds: a configuration, or Garbage
  config,    \* Config.DataSource.Sources
  sources,   \* the manager's map: name -> [id, symbols]
  objects,   \* source objects made since the start
  phase,     \* "down", "up", or "failed" when it refused to start
  request,   \* what each goroutine does
  served,    \* requests so far
  restarts,
  faults,
  answers,   \* history: per name, sources at the start and adds less removes since
  promised,  \* history: the list each source has by the last answer about it
  quiet      \* history: no overlapping requests, faults or broken requests

state == <<file, config, sources, objects>>
counts == <<served, restarts, faults>>
history == <<answers, promised, quiet>>
vars == <<dbType, state, phase, request, counts, history>>

Idle == [op |-> "idle"]
Busy(op, pc, n, symbols, id) ==
  [op |-> op, pc |-> pc, name |-> n, symbols |-> symbols, id |-> id, seen |-> <<>>]

Entry(n, symbols) == [name |-> n, symbols |-> symbols]
Names(conf) == {e.name : e \in ToSet(conf)}

Init ==
  /\ dbType \in {"sqlite", "postgres"}
  /\ file \in FirstFile
  /\ config = <<>>
  /\ sources = <<>>
  /\ objects = 0
  /\ phase = "down"
  /\ request = [r \in Request |-> Idle]
  /\ served = 0 /\ restarts = 0 /\ faults = 0
  /\ answers = [n \in Name |-> 0]
  /\ promised = [n \in Name |-> None]
  /\ quiet = TRUE

-----------------------------------------------------------------------------
(* Start. *)

\* NewConfig: the file parses and Validate accepts it.
Validate(conf) ==
  /\ conf # Garbage
  /\ conf # <<>>
  /\ \A e \in ToSet(conf) : e.symbols # {}

KeepReferences(symbols) ==                \* Error: adds the symbols, keeps the reference
  symbols \union UNION {Table[ref] : ref \in symbols \intersect Reference}

\* A reference is replaced by the symbols of its table.
FilterAndRegisterSymbols(symbols) ==
  (symbols \ Reference) \union UNION {Table[ref] : ref \in symbols \intersect Reference}

\* PostgresDB.Initialize: a source whose table cannot be read, or whose symbols
\* cannot be registered, keeps the list it has, references included.
Initialize(conf, failing) ==
  [i \in DOMAIN conf |->
     IF dbType = "postgres" /\ i \notin failing
     THEN [conf[i] EXCEPT !.symbols = FilterAndRegisterSymbols(@)] ELSE conf[i]]

IsSource(e) == e.name = Yahoo /\ e.symbols # {}

\* setupDataSources and NewMultiSourceManager: of sources with one name the last
\* one stays in the map.
SetupDataSources(conf) ==
  LET valid == {i \in DOMAIN conf : IsSource(conf[i])}
  IN  [n \in {conf[i].name : i \in valid} |->
         LET last == Max({i \in valid : conf[i].name = n})
         IN  [id |-> last, symbols |-> conf[last].symbols]]

Start(failing) ==
  /\ phase = "down"
  /\ failing # {} => dbType = "postgres" /\ Validate(file)
  /\ \A i \in failing : i \in DOMAIN file
  /\ faults + Cardinality(failing) <= MaxFaults
  /\ faults' = faults + Cardinality(failing)
  /\ quiet' = (quiet /\ failing = {})
  /\ IF Validate(file)
     THEN /\ config' = Initialize(file, failing)
          /\ sources' = SetupDataSources(config')
          /\ objects' = Len(config')
     ELSE UNCHANGED <<config, sources, objects>>
  /\ phase' = IF Validate(file) /\ sources' # <<>> THEN "up" ELSE "failed"
  /\ answers' = [n \in Name |-> IF n \in DOMAIN sources' THEN 1 ELSE 0]
  /\ promised' = IF restarts > 0 THEN promised
                 ELSE [n \in Name |-> IF \E e \in ToSet(config') : e.name = n
                                       THEN (CHOOSE e \in ToSet(config') : e.name = n).symbols
                                       ELSE None]
  /\ UNCHANGED <<dbType, file, request, served, restarts>>

\* The process ends and is started again later; requests die where they are.
Restart ==
  /\ phase = "up"
  /\ restarts < MaxRestarts
  /\ restarts' = restarts + 1
  /\ phase' = "down"
  /\ config' = <<>>
  /\ sources' = <<>>
  /\ request' = [r \in Request |-> Idle]
  /\ quiet' = (quiet /\ \A r \in Request : request[r] = Idle)
  /\ UNCHANGED <<dbType, file, objects, served, faults, answers, promised>>

-----------------------------------------------------------------------------
(* Requests.  A goroutine holds the request and what it has read so far.    *)

Accept(r, req) ==
  /\ phase = "up"
  /\ request[r] = Idle
  /\ served < MaxRequests
  /\ served' = served + 1
  /\ quiet' = (quiet /\ \A q \in Request : request[q] = Idle)
  /\ request' = [request EXCEPT ![r] = req]

At(r, pc) == phase = "up" /\ request[r].op # "idle" /\ request[r].pc = pc
Goes(r, pc) == request' = [request EXCEPT ![r].pc = pc]
Takes(r, conf, pc) ==
  request' = [request EXCEPT ![r] = [op |-> @.op, pc |-> pc, name |-> @.name,
                                     symbols |-> @.symbols, id |-> @.id, seen |-> conf]]

\* The answer; only a success changes what the client may rely on.
Answers(r) ==
  LET req == request[r] IN
  /\ request' = [request EXCEPT ![r] = Idle]
  /\ answers' = [answers EXCEPT ![req.name] =
                   @ + (CASE req.op = "add" -> 1 [] req.op = "remove" -> -1 [] OTHER -> 0)]
  /\ promised' = [promised EXCEPT ![req.name] = req.symbols]

\* AddSource looks for the name, then makes the source and adds it to the
\* manager, which looks again under its lock.
AddSource(r, n, symbols) ==
  /\ n \notin DOMAIN sources
  /\ Accept(r, Busy("add", "insert", n, symbols, 0))
  /\ UNCHANGED <<dbType, state, phase, restarts, faults, answers, promised>>

\* AddSource of the manager, for the object just made.
Put(n, symbols) ==
  /\ sources' = [m \in DOMAIN sources \union {n} |->
                   IF m = n THEN [id |-> objects + 1, symbols |-> symbols] ELSE sources[m]]
  /\ objects' = objects + 1

InsertBlindly(r) ==                       \* Error: trusts the first look
  LET req == request[r] IN
  /\ At(r, "insert")
  /\ Put(req.name, req.symbols)
  /\ Goes(r, "read")
  /\ UNCHANGED <<dbType, file, config, phase, counts, history>>

Insert(r) ==
  LET req == request[r] IN
  /\ At(r, "insert")
  /\ IF req.name \notin DOMAIN sources
     THEN /\ Put(req.name, req.symbols)
          /\ Goes(r, "read")
     ELSE /\ request' = [request EXCEPT ![r] = Idle]
          /\ UNCHANGED <<sources, objects>>
  /\ UNCHANGED <<dbType, file, config, phase, counts, history>>

RemoveSource(r, n) ==
  /\ n \in DOMAIN sources
  /\ Accept(r, Busy("remove", "read", n, None, 0))
  /\ sources' = Restrict(sources, DOMAIN sources \ {n})
  /\ UNCHANGED <<dbType, file, config, objects, phase, restarts, faults, answers, promised>>

\* UpdateSymbols gets the source, then gives it the list outside the lock: it
\* may be gone from the map, or replaced, by then.
UpdateSymbols(r, n, symbols) ==
  /\ n \in DOMAIN sources
  /\ Accept(r, Busy("update", "apply", n, symbols, sources[n].id))
  /\ UNCHANGED <<dbType, state, phase, restarts, faults, answers, promised>>

Apply(r) ==
  LET req == request[r] IN
  /\ At(r, "apply")
  /\ sources' = IF req.name \in DOMAIN sources /\ sources[req.name].id = req.id
                THEN [sources EXCEPT ![req.name].symbols = req.symbols] ELSE sources
  /\ Goes(r, "read")
  /\ UNCHANGED <<dbType, file, config, objects, phase, counts, history>>

\* The configuration is read without a lock ...
Read(r) ==
  /\ At(r, "read")
  /\ Takes(r, config, "write")
  /\ UNCHANGED <<dbType, state, phase, counts, history>>

\* The first entry of that name, 0 for none.
IndexOf(conf, n) == SelectInSeq(conf, LAMBDA e : e.name = n)

WithoutFirst(conf, n) ==                  \* Error: one entry of the name only
  IF IndexOf(conf, n) = 0 THEN conf ELSE RemoveAt(conf, IndexOf(conf, n))
Without(conf, n) ==
  LET kept[i \in 0..Len(conf)] ==
        IF i = 0 THEN <<>>
        ELSE IF conf[i].name = n THEN kept[i - 1] ELSE Append(kept[i - 1], conf[i])
  IN  kept[Len(conf)]

\* ... and written back: what another request wrote in between is overwritten.
\* UpdateSymbols writes in place at the index it found, past the end of a list
\* that got shorter, where it panics and the process ends.
Write(r) ==
  LET req == request[r]
      i == IndexOf(req.seen, req.name)
  IN  /\ At(r, "write")
      /\ CASE req.op = "add"    -> config' = Append(req.seen, Entry(req.name, req.symbols))
           [] req.op = "remove" -> config' = Without(req.seen, req.name)
           [] OTHER             -> config' = IF i \in DOMAIN config
                                             THEN [config EXCEPT ![i].symbols = req.symbols]
                                             ELSE config
      /\ IF req.op = "update" /\ i = 0 THEN Answers(r)
         ELSE Goes(r, "save") /\ UNCHANGED <<answers, promised>>
      /\ phase' = IF req.op = "update" /\ i > Len(config) THEN "failed" ELSE phase
      /\ UNCHANGED <<dbType, file, sources, objects, counts, quiet>>

SaveWhatWasRead(r) ==                     \* Error: the list as it was
  /\ At(r, "save")
  /\ Goes(r, "file")
  /\ file' = Garbage
  /\ UNCHANGED <<dbType, config, sources, objects, phase, counts, history>>

\* Save: the list as it is now, and a truncated file ...
Save(r) ==
  /\ At(r, "save")
  /\ Takes(r, config, "file")
  /\ file' = Garbage
  /\ UNCHANGED <<dbType, config, sources, objects, phase, counts, history>>

\* ... that gets its content, over what another Save wrote meanwhile, of which
\* a longer end may stay.  Handlers ignore a failing write.
WriteFile(r, failing) ==
  /\ At(r, "file")
  /\ failing => faults < MaxFaults
  /\ faults' = faults + (IF failing THEN 1 ELSE 0)
  /\ quiet' = (quiet /\ ~failing)
  /\ file' \in IF failing THEN {file}
               ELSE {request[r].seen} \union (IF file \in {Garbage, request[r].seen} THEN {} ELSE {Garbage})
  /\ Answers(r)
  /\ UNCHANGED <<dbType, config, sources, objects, phase, served, restarts>>

Handler(r) ==
  \/ \E n \in Name, symbols \in List : AddSource(r, n, symbols)
  \/ Insert(r)
  \/ \E n \in Name : RemoveSource(r, n)
  \/ \E n \in Name, symbols \in List \ {{}} : UpdateSymbols(r, n, symbols)
  \/ Apply(r)
  \/ Read(r)
  \/ Write(r)
  \/ Save(r)
  \/ \E failing \in BOOLEAN : WriteFile(r, failing)

Next ==
  \/ \E failing \in SUBSET (1..2) : Start(failing)
  \/ Restart
  \/ \E r \in Request : Handler(r)

Spec == Init /\ [][Next]_vars

-----------------------------------------------------------------------------
(* Properties. *)

AtRest == phase = "up" /\ \A r \in Request : request[r] = Idle

TypeOK ==
  /\ phase \in {"down", "up", "failed"}
  /\ file = Garbage \/ Names(file) \subseteq Name
  /\ Names(config) \subseteq Name
  /\ DOMAIN sources \subseteq Name
  /\ \A n \in DOMAIN sources :
       /\ sources[n].id \in 1..objects
       /\ dbType = "postgres" /\ quiet => sources[n].symbols \intersect Reference = {}
  /\ phase = "down" => config = <<>> /\ \A r \in Request : request[r] = Idle
  /\ served \in 0..MaxRequests /\ restarts \in 0..MaxRestarts /\ faults \in 0..MaxFaults

\* However requests overlap, a name is added once: of concurrent AddSource
\* requests one succeeds, and the answers add up to what the manager holds.
AnswersAddUp ==
  AtRest => \A n \in Name : answers[n] = IF n \in DOMAIN sources THEN 1 ELSE 0

\* Requests that do not overlap keep manager, configuration and file in step,
\* also for a name the file lists and setupDataSources has skipped.
ConfigFollowsManager ==
  AtRest /\ quiet =>
    /\ \A n \in DOMAIN sources : Entry(n, sources[n].symbols) \in ToSet(config)
    /\ \A n \in Name : n \in Names(config) <=> promised[n] # None
    /\ Yahoo \in Names(config) <=> Yahoo \in DOMAIN sources
    /\ Initialize(file, {}) = config

\* A restart brings back the list last acknowledged for the source named yahoo.
\* The program refuses to start only when that source was removed or when some
\* list was left empty, which AddSource and an empty table both allow although
\* Validate does not.
AcknowledgedSurvives ==
  quiet =>
    /\ AtRest => promised[Yahoo] = IF Yahoo \in DOMAIN sources THEN sources[Yahoo].symbols ELSE None
    /\ phase = "failed" => \/ promised[Yahoo] = None
                           \/ \E e \in ToSet(file) \union ToSet(config) : e.symbols = {}
=============================================================================
