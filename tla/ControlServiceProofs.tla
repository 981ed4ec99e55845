------------------------ MODULE ControlServiceProofs ------------------------
(***************************************************************************)
(* Theorems about ControlService, for every set of names, lists and files  *)
(* and any number of goroutines: what it holds is well formed, the answers *)
(* add up, and without overlapping requests or faults the manager's map,   *)
(* the configuration in memory and the file stay in step.                  *)
(***************************************************************************)
EXTENDS ControlService, SequenceTheorems, FiniteSetTheorems, WellFoundedInduction, TLAPS

\* A goroutine is idle or holds a request with all its fields; only an AddSource
\* is about to insert.
Holds(x) ==
  /\ x.op \in {"add", "remove", "update"}
  /\ x.name \in Name
  /\ x.pc = "insert" => x.op = "add"
  /\ x = [op |-> x.op, pc |-> x.pc, name |-> x.name, symbols |-> x.symbols,
          id |-> x.id, seen |-> x.seen]

Types ==
  /\ DOMAIN request = Request
  /\ \A r \in Request : request[r] = Idle \/ Holds(request[r])
  /\ answers \in [Name -> Int]

\* Requests the manager has carried out and nobody has answered yet.
IsAdd(x, n) == x.op = "add" /\ x.pc # "insert" /\ x.name = n
IsRemove(x, n) == x.op = "remove" /\ x.name = n
Adds(n) == {r \in Request : IsAdd(request[r], n)}
Removes(n) == {r \in Request : IsRemove(request[r], n)}

One(b) == IF b THEN 1 ELSE 0

Account(n) ==
  /\ IsFiniteSet(Adds(n)) /\ IsFiniteSet(Removes(n))
  /\ answers[n] + Cardinality(Adds(n)) - Cardinality(Removes(n)) = One(n \in DOMAIN sources)

\* The answers given and the ones to come add up to what the manager holds.
Accounted == phase # "down" => \A n \in Name : Account(n)

DownIsIdle == phase = "down" => \A r \in Request : request[r] = Idle

IInv == Types /\ Accounted /\ DownIsIdle

------------------------------------------------------------------------------
(* Counting. *)

\* The size of a set of which one element may have come or gone.
LEMMA SizeOfChanged ==
  ASSUME NEW S, NEW T, NEW r, IsFiniteSet(S), T \ {r} = S \ {r}
  PROVE  /\ IsFiniteSet(T)
         /\ Cardinality(S) \in Nat /\ Cardinality(T) \in Nat
         /\ Cardinality(T) = Cardinality(S) - One(r \in S) + One(r \in T)
<1>1. Cardinality(S) \in Nat
  BY FS_CardinalityType
<1>2. CASE r \in S <=> r \in T
  <2>1. S = T
    BY <1>2
  <2> QED BY <1>1, <2>1 DEF One
<1>3. CASE r \in S /\ r \notin T
  <2>1. T = S \ {r}
    BY <1>3
  <2>2. IsFiniteSet(S \ {r}) /\ Cardinality(S \ {r}) = Cardinality(S) - 1
    BY <1>3, FS_RemoveElement
  <2> QED BY <1>1, <1>3, <2>1, <2>2, FS_CardinalityType DEF One
<1>4. CASE r \notin S /\ r \in T
  <2>1. T = S \union {r}
    BY <1>4
  <2>2. IsFiniteSet(S \union {r}) /\ Cardinality(S \union {r}) = Cardinality(S) + 1
    BY <1>4, FS_AddElement
  <2> QED BY <1>1, <1>4, <2>1, <2>2, FS_CardinalityType DEF One
<1> QED BY <1>2, <1>3, <1>4

\* A goroutine that goes from one request to another moves the account of a name by
\* the difference; so do its answer and its change of the map.
LEMMA AccountMoves ==
  ASSUME Types, NEW r \in Request, NEW v, NEW n \in Name, Account(n),
         request' = [request EXCEPT ![r] = v],
         answers' \in [Name -> Int],
         answers'[n] + One(IsAdd(v, n)) - One(IsRemove(v, n)) - One(n \in DOMAIN sources') =
         answers[n] + One(IsAdd(request[r], n)) - One(IsRemove(request[r], n))
           - One(n \in DOMAIN sources)
  PROVE  Account(n)'
<1>1. \A q \in Request : request'[q] = IF q = r THEN v ELSE request[q]
  BY DEF Types
<1>2. /\ IsFiniteSet(Adds(n)) /\ IsFiniteSet(Removes(n))
      /\ answers[n] + Cardinality(Adds(n)) - Cardinality(Removes(n)) = One(n \in DOMAIN sources)
  BY DEF Account
<1>3. /\ Adds(n)' \ {r} = Adds(n) \ {r}
      /\ r \in Adds(n)' <=> IsAdd(v, n)
      /\ r \in Adds(n) <=> IsAdd(request[r], n)
  BY <1>1 DEF Adds, IsAdd
<1>4. /\ Removes(n)' \ {r} = Removes(n) \ {r}
      /\ r \in Removes(n)' <=> IsRemove(v, n)
      /\ r \in Removes(n) <=> IsRemove(request[r], n)
  BY <1>1 DEF Removes, IsRemove
<1>5. /\ IsFiniteSet(Adds(n)')
      /\ Cardinality(Adds(n)) \in Nat /\ Cardinality(Adds(n)') \in Nat
      /\ Cardinality(Adds(n)') =
           Cardinality(Adds(n)) - One(IsAdd(request[r], n)) + One(IsAdd(v, n))
  BY <1>2, <1>3, SizeOfChanged DEF One
<1>6. /\ IsFiniteSet(Removes(n)')
      /\ Cardinality(Removes(n)) \in Nat /\ Cardinality(Removes(n)') \in Nat
      /\ Cardinality(Removes(n)') =
           Cardinality(Removes(n)) - One(IsRemove(request[r], n)) + One(IsRemove(v, n))
  BY <1>2, <1>4, SizeOfChanged DEF One
<1>7. answers[n] \in Int /\ answers'[n] \in Int
  BY DEF Types
<1>8. \A b : One(b) \in Int
  BY DEF One
<1>9. answers'[n] + Cardinality(Adds(n)') - Cardinality(Removes(n)') = One(n \in DOMAIN sources')
  BY <1>2, <1>5, <1>6, <1>7, <1>8
<1> QED BY <1>5, <1>6, <1>9 DEF Account

------------------------------------------------------------------------------
(* The steps of a request. *)

\* A step that moves the account of each name by the right difference preserves
\* the invariant.
LEMMA RequestPreserves ==
  ASSUME IInv, phase = "up", phase' # "down",
         NEW r \in Request, NEW v, v = Idle \/ Holds(v),
         request' = [request EXCEPT ![r] = v],
         answers' \in [Name -> Int],
         \A n \in Name :
           answers'[n] + One(IsAdd(v, n)) - One(IsRemove(v, n)) - One(n \in DOMAIN sources') =
           answers[n] + One(IsAdd(request[r], n)) - One(IsRemove(request[r], n))
             - One(n \in DOMAIN sources)
  PROVE  IInv'
<1>1. Types /\ \A n \in Name : Account(n)
  BY DEF IInv, Accounted
<1>2. Types'
  <2>1. DOMAIN request' = Request
    BY <1>1 DEF Types
  <2>2. \A q \in Request : request'[q] = IF q = r THEN v ELSE request[q]
    BY <1>1 DEF Types
  <2>3. ASSUME NEW q \in Request
        PROVE  request'[q] = Idle \/ Holds(request'[q])
    <3>1. request[q] = Idle \/ Holds(request[q])
      BY <1>1 DEF Types
    <3> QED BY <2>2, <3>1
  <2> QED BY <2>1, <2>3 DEF Types, Holds
<1>3. Accounted'
  <2>1. ASSUME NEW n \in Name
        PROVE  Account(n)'
    BY <1>1, <2>1, AccountMoves
  <2> QED BY <2>1 DEF Accounted
<1> QED BY <1>2, <1>3 DEF IInv, DownIsIdle

\* So does one that touches neither the answers nor the names of the map, and after
\* which the request is as much carried out as before.
LEMMA QuietPreserves ==
  ASSUME IInv, phase = "up", phase' # "down",
         NEW r \in Request, NEW v, v = Idle \/ Holds(v),
         request' = [request EXCEPT ![r] = v],
         answers' = answers, DOMAIN sources' = DOMAIN sources,
         \A n \in Name : /\ IsAdd(v, n) <=> IsAdd(request[r], n)
                         /\ IsRemove(v, n) <=> IsRemove(request[r], n)
  PROVE  IInv'
<1>1. answers' \in [Name -> Int]
  BY DEF IInv, Types
<1>2. \A n \in Name :
        answers'[n] + One(IsAdd(v, n)) - One(IsRemove(v, n)) - One(n \in DOMAIN sources') =
        answers[n] + One(IsAdd(request[r], n)) - One(IsRemove(request[r], n))
          - One(n \in DOMAIN sources)
  BY DEF One
<1> QED BY <1>1, <1>2, RequestPreserves

\* A request at some place holds all its fields.
LEMMA AtHolds ==
  ASSUME Types, NEW r \in Request, NEW p, At(r, p)
  PROVE  phase = "up" /\ Holds(request[r]) /\ request[r].pc = p
<1>1. Idle.op = "idle"
  BY DEF Idle
<1> QED BY <1>1 DEF Types, At

\* Where a request goes on to.
LEMMA GoesOn ==
  ASSUME NEW x, Holds(x), NEW p, p # "insert", NEW conf
  PROVE  LET v == [op |-> x.op, pc |-> p, name |-> x.name, symbols |-> x.symbols,
                   id |-> x.id, seen |-> conf]
         IN  /\ Holds(v)
             /\ \A n : IsRemove(v, n) <=> IsRemove(x, n)
             /\ \A n : IsAdd(v, n) <=> x.op = "add" /\ x.name = n
BY DEF Holds, IsAdd, IsRemove

\* Goes is such a step, for the list the request has.
LEMMA GoesIsEdit ==
  ASSUME Types, NEW r \in Request, Holds(request[r]), NEW p, Goes(r, p)
  PROVE  LET x == request[r]
         IN  request' = [request EXCEPT ![r] =
                           [op |-> x.op, pc |-> p, name |-> x.name, symbols |-> x.symbols,
                            id |-> x.id, seen |-> x.seen]]
<1> DEFINE x == request[r]
           v == [op |-> x.op, pc |-> p, name |-> x.name, symbols |-> x.symbols,
                 id |-> x.id, seen |-> x.seen]
<1>1. [x EXCEPT !.pc = p] = v
  <2>1. x = [op |-> x.op, pc |-> x.pc, name |-> x.name, symbols |-> x.symbols,
             id |-> x.id, seen |-> x.seen]
    BY DEF Holds
  <2> QED BY <2>1
<1>2. request' = [request EXCEPT ![r] = [x EXCEPT !.pc = p]]
  BY DEF Types, Goes
<1> QED BY <1>1, <1>2

\* A request that goes on, not from where it inserts, and leaves the answers and the
\* names of the map alone, preserves the invariant.
LEMMA GoingPreserves ==
  ASSUME IInv, NEW r \in Request, NEW p, At(r, p), p # "insert", phase' # "down",
         NEW q, q # "insert", Goes(r, q) \/ Takes(r, config, q),
         answers' = answers, DOMAIN sources' = DOMAIN sources
  PROVE  IInv'
<1> DEFINE x == request[r]
           V(conf) == [op |-> x.op, pc |-> q, name |-> x.name, symbols |-> x.symbols,
                       id |-> x.id, seen |-> conf]
<1>1. phase = "up" /\ Holds(x) /\ x.pc = p
  BY AtHolds DEF IInv
<1>2. PICK conf : request' = [request EXCEPT ![r] = V(conf)]
  <2>1. CASE Goes(r, q)
    BY <1>1, <2>1, GoesIsEdit DEF IInv
  <2>2. CASE Takes(r, config, q)
    BY <2>2 DEF Takes, IInv, Types
  <2> QED BY <2>1, <2>2
<1>3. /\ Holds(V(conf))
      /\ \A n : IsRemove(V(conf), n) <=> IsRemove(x, n)
      /\ \A n : IsAdd(V(conf), n) <=> IsAdd(x, n)
  BY <1>1, GoesOn DEF IsAdd
<1> HIDE DEF V
<1> QED BY <1>1, <1>2, <1>3, QuietPreserves

\* An answer moves what the request has done from those to come to those given.
LEMMA AnswerPreserves ==
  ASSUME IInv, NEW r \in Request, NEW p, At(r, p), p # "insert", phase' # "down",
         Answers(r), DOMAIN sources' = DOMAIN sources
  PROVE  IInv'
<1> DEFINE x == request[r]
           d == CASE x.op = "add" -> 1 [] x.op = "remove" -> -1 [] OTHER -> 0
<1>1. phase = "up" /\ Holds(x) /\ x.pc = p
  BY AtHolds DEF IInv
<1>2. x.name \in Name /\ x.op \in {"add", "remove", "update"}
  BY <1>1 DEF Holds
<1>3. request' = [request EXCEPT ![r] = Idle] /\ answers' = [answers EXCEPT ![x.name] = @ + d]
  BY DEF Answers
<1>4. d \in Int /\ answers \in [Name -> Int]
  BY <1>2 DEF IInv, Types
<1>5. d = One(IsAdd(x, x.name)) - One(IsRemove(x, x.name))
  BY <1>1, <1>2 DEF IsAdd, IsRemove, One
<1> HIDE DEF d
<1>6. answers' \in [Name -> Int]
  BY <1>2, <1>3, <1>4
<1>7. ASSUME NEW n \in Name
      PROVE  answers'[n] + One(IsAdd(Idle, n)) - One(IsRemove(Idle, n)) - One(n \in DOMAIN sources') =
             answers[n] + One(IsAdd(x, n)) - One(IsRemove(x, n)) - One(n \in DOMAIN sources)
  <2>1. One(IsAdd(Idle, n)) = 0 /\ One(IsRemove(Idle, n)) = 0
    BY DEF Idle, IsAdd, IsRemove, One
  <2>2. answers[n] \in Int /\ One(n \in DOMAIN sources) \in Int
    BY <1>4 DEF One
  <2>3. CASE n = x.name
    <3>1. answers'[n] = answers[n] + d
      BY <1>2, <1>3, <1>4, <2>3
    <3>2. One(IsAdd(x, n)) \in Int /\ One(IsRemove(x, n)) \in Int
      BY DEF One
    <3> QED BY <1>4, <1>5, <2>1, <2>2, <2>3, <3>1, <3>2
  <2>4. CASE n # x.name
    <3>1. answers'[n] = answers[n]
      BY <1>3, <1>4, <2>4
    <3>2. One(IsAdd(x, n)) = 0 /\ One(IsRemove(x, n)) = 0
      BY <2>4 DEF IsAdd, IsRemove, One
    <3> QED BY <2>1, <2>2, <3>1, <3>2
  <2> QED BY <2>3, <2>4
<1> QED BY <1>1, <1>3, <1>6, <1>7, RequestPreserves

\* A request is accepted: only RemoveSource changes the map at once.
LEMMA AcceptPreserves ==
  ASSUME IInv, NEW r \in Request, NEW n \in Name, NEW symbols,
         AddSource(r, n, symbols) \/ RemoveSource(r, n) \/ UpdateSymbols(r, n, symbols)
  PROVE  IInv'
<1>1. phase = "up" /\ phase' = phase /\ answers' = answers /\ request[r] = Idle
  BY DEF AddSource, RemoveSource, UpdateSymbols, Accept
<1>2. \A m : ~IsAdd(Idle, m) /\ ~IsRemove(Idle, m)
  BY DEF Idle, IsAdd, IsRemove
<1>3. CASE AddSource(r, n, symbols)
  <2> DEFINE v == Busy("add", "insert", n, symbols, 0)
  <2>1. Holds(v) /\ \A m : ~IsAdd(v, m) /\ ~IsRemove(v, m)
    BY DEF Busy, Holds, IsAdd, IsRemove
  <2>2. request' = [request EXCEPT ![r] = v] /\ sources' = sources
    BY <1>3 DEF AddSource, Accept, state
  <2> HIDE DEF v
  <2> QED BY <1>1, <1>2, <2>1, <2>2, QuietPreserves
<1>4. ASSUME NEW id, request' = [request EXCEPT ![r] = Busy("update", "apply", n, symbols, id)],
             sources' = sources
      PROVE  IInv'
  <2> DEFINE v == Busy("update", "apply", n, symbols, id)
  <2>1. Holds(v) /\ \A m : ~IsAdd(v, m) /\ ~IsRemove(v, m)
    BY DEF Busy, Holds, IsAdd, IsRemove
  <2>2. request' = [request EXCEPT ![r] = v]
    BY <1>4
  <2> HIDE DEF v
  <2> QED BY <1>1, <1>2, <1>4, <2>1, <2>2, QuietPreserves
<1>5. CASE UpdateSymbols(r, n, symbols)
  BY <1>4, <1>5 DEF UpdateSymbols, Accept, state
<1>6. CASE RemoveSource(r, n)
  <2> DEFINE v == Busy("remove", "read", n, None, 0)
  <2>1. Holds(v) /\ \A m : ~IsAdd(v, m) /\ (IsRemove(v, m) <=> m = n)
    BY DEF Busy, Holds, IsAdd, IsRemove
  <2>2. request' = [request EXCEPT ![r] = v]
    BY <1>6 DEF RemoveSource, Accept
  <2>3. n \in DOMAIN sources /\ DOMAIN sources' = DOMAIN sources \ {n}
    BY <1>6 DEF RemoveSource, Restrict
  <2>4. answers' \in [Name -> Int]
    BY <1>1 DEF IInv, Types
  <2>5. ASSUME NEW m \in Name
        PROVE  answers'[m] + One(IsAdd(v, m)) - One(IsRemove(v, m)) - One(m \in DOMAIN sources') =
               answers[m] + One(IsAdd(request[r], m)) - One(IsRemove(request[r], m))
                 - One(m \in DOMAIN sources)
    <3>1. answers[m] \in Int
      BY DEF IInv, Types
    <3>2. /\ One(IsAdd(v, m)) = 0 /\ One(IsRemove(v, m)) = IF m = n THEN 1 ELSE 0
          /\ One(IsAdd(request[r], m)) = 0 /\ One(IsRemove(request[r], m)) = 0
      BY <1>1, <1>2, <2>1 DEF One
    <3>3. One(m \in DOMAIN sources') =
          One(m \in DOMAIN sources) - (IF m = n THEN 1 ELSE 0)
      BY <2>3 DEF One
    <3>4. One(m \in DOMAIN sources) \in Int
      BY DEF One
    <3> QED BY <1>1, <3>1, <3>2, <3>3, <3>4
  <2> HIDE DEF v
  <2> QED BY <1>1, <2>1, <2>2, <2>4, <2>5, RequestPreserves
<1> QED BY <1>3, <1>5, <1>6

\* Of two requests for one name the manager lets the first insert.
LEMMA InsertPreserves ==
  ASSUME IInv, NEW r \in Request, Insert(r)
  PROVE  IInv'
<1> DEFINE x == request[r]
           v == [op |-> x.op, pc |-> "read", name |-> x.name, symbols |-> x.symbols,
                 id |-> x.id, seen |-> x.seen]
<1>1. phase = "up" /\ Holds(x) /\ x.pc = "insert"
  BY AtHolds DEF IInv, Insert
<1>2. phase' = phase /\ answers' = answers
  BY DEF Insert, history
<1>3. x.op = "add" /\ x.name \in Name /\ \A n : ~IsAdd(x, n) /\ ~IsRemove(x, n)
  BY <1>1 DEF Holds, IsAdd, IsRemove
<1>4. CASE x.name \notin DOMAIN sources
  <2>1. Goes(r, "read") /\ DOMAIN sources' = DOMAIN sources \union {x.name}
    BY <1>4 DEF Insert, Put
  <2>2. request' = [request EXCEPT ![r] = v]
    BY <1>1, <2>1, GoesIsEdit DEF IInv
  <2>3. /\ Holds(v)
        /\ \A n : ~IsRemove(v, n)
        /\ \A n : IsAdd(v, n) <=> n = x.name
    BY <1>1, <1>3, GoesOn
  <2> HIDE DEF v
  <2>4. answers' \in [Name -> Int]
    BY <1>2 DEF IInv, Types
  <2>5. ASSUME NEW n \in Name
        PROVE  answers'[n] + One(IsAdd(v, n)) - One(IsRemove(v, n)) - One(n \in DOMAIN sources') =
               answers[n] + One(IsAdd(x, n)) - One(IsRemove(x, n)) - One(n \in DOMAIN sources)
    <3>1. answers[n] \in Int
      BY DEF IInv, Types
    <3>2. /\ One(IsRemove(v, n)) = 0 /\ One(IsAdd(v, n)) = IF n = x.name THEN 1 ELSE 0
          /\ One(IsAdd(x, n)) = 0 /\ One(IsRemove(x, n)) = 0
      BY <1>3, <2>3 DEF One
    <3>3. One(n \in DOMAIN sources') =
          One(n \in DOMAIN sources) + (IF n = x.name THEN 1 ELSE 0)
      BY <1>4, <2>1 DEF One
    <3>4. One(n \in DOMAIN sources) \in Int
      BY DEF One
    <3> QED BY <1>2, <3>1, <3>2, <3>3, <3>4
  <2> QED BY <1>1, <1>2, <2>2, <2>3, <2>4, <2>5, RequestPreserves
<1>5. CASE x.name \in DOMAIN sources
  <2>1. request' = [request EXCEPT ![r] = Idle] /\ sources' = sources
    BY <1>5 DEF Insert
  <2>2. \A n : ~IsAdd(Idle, n) /\ ~IsRemove(Idle, n)
    BY DEF Idle, IsAdd, IsRemove
  <2> QED BY <1>1, <1>2, <1>3, <2>1, <2>2, QuietPreserves
<1> QED BY <1>4, <1>5

\* Every step of a request preserves the invariant.
LEMMA HandlerPreserves ==
  ASSUME IInv, NEW r \in Request, Handler(r)
  PROVE  IInv'
<1>1. ASSUME NEW n \in Name, NEW symbols,
             AddSource(r, n, symbols) \/ RemoveSource(r, n) \/ UpdateSymbols(r, n, symbols)
      PROVE  IInv'
  BY <1>1, AcceptPreserves
<1>2. CASE Insert(r)
  BY <1>2, InsertPreserves
<1>3. CASE Apply(r)
  <2>1. At(r, "apply") /\ Goes(r, "read") /\ phase' = phase /\ answers' = answers
    BY <1>3 DEF Apply, history
  <2>2. DOMAIN sources' = DOMAIN sources
    BY <1>3 DEF Apply
  <2>3. phase' # "down"
    BY <2>1 DEF At
  <2> QED BY <2>1, <2>2, <2>3, GoingPreserves
<1>4. CASE Read(r)
  <2>1. /\ At(r, "read") /\ Takes(r, config, "write")
        /\ phase' = phase /\ answers' = answers /\ sources' = sources
    BY <1>4 DEF Read, history, state
  <2>2. phase' # "down"
    BY <2>1 DEF At
  <2> QED BY <2>1, <2>2, GoingPreserves
<1>5. CASE Write(r)
  <2>1. /\ At(r, "write") /\ sources' = sources
        /\ Answers(r) \/ (Goes(r, "save") /\ answers' = answers)
        /\ phase' \in {phase, "failed"}
    BY <1>5 DEF Write
  <2>2. phase' # "down"
    BY <2>1 DEF At
  <2> QED BY <2>1, <2>2, GoingPreserves, AnswerPreserves
<1>6. CASE Save(r)
  <2>1. /\ At(r, "save") /\ Takes(r, config, "file")
        /\ phase' = phase /\ answers' = answers /\ sources' = sources
    BY <1>6 DEF Save, history
  <2>2. phase' # "down"
    BY <2>1 DEF At
  <2> QED BY <2>1, <2>2, GoingPreserves
<1>7. ASSUME NEW failing \in BOOLEAN, WriteFile(r, failing)
      PROVE  IInv'
  <2>1. At(r, "file") /\ Answers(r) /\ phase' = phase /\ sources' = sources
    BY <1>7 DEF WriteFile
  <2>2. phase' # "down"
    BY <2>1 DEF At
  <2> QED BY <2>1, <2>2, AnswerPreserves
<1> QED BY <1>1, <1>2, <1>3, <1>4, <1>5, <1>6, <1>7 DEF Handler

------------------------------------------------------------------------------
(* Start and end of the process. *)

\* Where nothing is under way the answers are what the map holds.
LEMMA IdleAccount ==
  ASSUME \A r \in Request : request[r] = Idle, NEW n \in Name
  PROVE  /\ Adds(n) = {} /\ Removes(n) = {}
         /\ IsFiniteSet({}) /\ Cardinality({}) = 0
BY FS_EmptySet DEF Adds, Removes, IsAdd, IsRemove, Idle

\* The process starts with what setupDataSources made of the file.
LEMMA StartPreserves ==
  ASSUME IInv, NEW failing, Start(failing)
  PROVE  IInv'
<1>1. /\ phase = "down" /\ request' = request
      /\ answers' = [n \in Name |-> IF n \in DOMAIN sources' THEN 1 ELSE 0]
      /\ phase' \in {"up", "failed"}
  BY DEF Start
<1>2. \A r \in Request : request'[r] = Idle
  BY <1>1 DEF IInv, DownIsIdle
<1>3. Types'
  BY <1>1, <1>2 DEF IInv, Types
<1>4. ASSUME NEW n \in Name
      PROVE  Account(n)'
  <2>1. /\ Adds(n)' = {} /\ Removes(n)' = {}
        /\ IsFiniteSet({}) /\ Cardinality({}) = 0
    BY <1>2, FS_EmptySet DEF Adds, Removes, IsAdd, IsRemove, Idle
  <2>2. answers'[n] = One(n \in DOMAIN sources')
    BY <1>1 DEF One
  <2>3. answers'[n] \in Int
    BY <1>1
  <2> QED BY <2>1, <2>2, <2>3 DEF Account
<1> QED BY <1>1, <1>2, <1>3, <1>4 DEF IInv, Accounted, DownIsIdle

\* The requests that run end with the process.
LEMMA RestartPreserves ==
  ASSUME IInv, Restart
  PROVE  IInv'
<1>1. phase' = "down" /\ request' = [r \in Request |-> Idle] /\ answers' = answers
  BY DEF Restart
<1>2. Types'
  BY <1>1 DEF IInv, Types
<1> QED BY <1>1, <1>2 DEF IInv, Accounted, DownIsIdle

\* The invariant holds at the start.
LEMMA InitInv == Init => IInv
BY DEF Init, IInv, Types, Accounted, DownIsIdle

\* The invariant is inductive.
LEMMA StepInv == IInv /\ [Next]_vars => IInv'
<1>1. SUFFICES ASSUME IInv, [Next]_vars
               PROVE  IInv'
  OBVIOUS
<1>2. ASSUME NEW failing, Start(failing)
      PROVE  IInv'
  BY <1>1, <1>2, StartPreserves
<1>3. CASE Restart
  BY <1>1, <1>3, RestartPreserves
<1>4. ASSUME NEW r \in Request, Handler(r)
      PROVE  IInv'
  BY <1>1, <1>4, HandlerPreserves
<1>5. CASE UNCHANGED vars
  <2>1. UNCHANGED <<request, answers, phase, sources>>
    BY <1>5 DEF vars, state, history
  <2>2. Types' /\ DownIsIdle'
    BY <1>1, <2>1 DEF IInv, Types, DownIsIdle
  <2>3. \A n \in Name : Account(n)' <=> Account(n)
    BY <2>1 DEF Account, Adds, Removes
  <2> QED BY <1>1, <2>1, <2>2, <2>3 DEF IInv, Accounted
<1> QED BY <1>1, <1>2, <1>3, <1>4, <1>5 DEF Next

------------------------------------------------------------------------------

\* However requests overlap, with any number of goroutines, a name is added once: of
\* concurrent AddSource requests one succeeds, and whenever no request is under way
\* the answers since the start add up to what the manager holds.
THEOREM AnswersAlwaysAddUp == Spec => []AnswersAddUp
<1>1. IInv => AnswersAddUp
  <2>1. SUFFICES ASSUME IInv, AtRest, NEW n \in Name
                 PROVE  answers[n] = IF n \in DOMAIN sources THEN 1 ELSE 0
    BY DEF AnswersAddUp
  <2>2. Account(n)
    BY <2>1 DEF IInv, Accounted, AtRest
  <2>3. Adds(n) = {} /\ Removes(n) = {} /\ Cardinality({}) = 0
    BY <2>1, IdleAccount DEF AtRest
  <2>4. answers[n] \in Int
    BY <2>1 DEF IInv, Types
  <2> QED BY <2>2, <2>3, <2>4 DEF Account, One
<1> QED BY <1>1, InitInv, StepInv, PTL DEF Spec
------------------------------------------------------------------------------
(* Configurations. *)

\* Any numbers have a least one.
LEMMA LeastNumber ==
  ASSUME NEW T \in SUBSET Nat, T # {}
  PROVE  \E x \in T : \A k \in T : x <= k
<1> DEFINE R == OpToRel(<, Nat)
<1>1. IsWellFoundedOn(R, Nat)
  BY NatLessThanWellFounded, Zenon
<1>2. \A x, y \in Nat : <<y, x>> \in R <=> y < x
  BY Zenon DEF OpToRel
<1> HIDE DEF R
<1>3. PICK x \in T : \A y \in T : ~(<<y, x>> \in R)
  BY <1>1, WFMin
<1>4. ASSUME NEW k \in T
      PROVE  x <= k
  <2>1. x \in Nat /\ k \in Nat
    OBVIOUS
  <2>2. ~(<<k, x>> \in R)
    BY <1>3
  <2>3. <<k, x>> \in R <=> k < x
    BY <1>2, <2>1
  <2>4. ~(k < x)
    BY <2>2, <2>3
  <2> QED BY <2>1, <2>4
<1> QED BY <1>4

\* A configuration as a function; what its entries are.
LEMMA ConfigurationFacts ==
  ASSUME NEW conf \in Configuration
  PROVE  /\ Len(conf) \in Nat /\ DOMAIN conf = 1..Len(conf)
         /\ \A i \in DOMAIN conf : conf[i] \in [name : Name, symbols : SUBSET Symbol]
         /\ ToSet(conf) \subseteq [name : Name, symbols : SUBSET Symbol]
         /\ Names(conf) \subseteq Name
<1>1. /\ Len(conf) \in Nat /\ DOMAIN conf = 1..Len(conf)
      /\ \A i \in DOMAIN conf : conf[i] \in [name : Name, symbols : SUBSET Symbol]
  BY LenProperties, ElementOfSeq DEF Configuration
<1>2. ToSet(conf) \subseteq [name : Name, symbols : SUBSET Symbol]
  BY <1>1 DEF ToSet
<1> QED BY <1>1, <1>2 DEF Names

\* One more entry, at the end.
LEMMA AppendedConfiguration ==
  ASSUME NEW conf \in Configuration, NEW e \in [name : Name, symbols : SUBSET Symbol]
  PROVE  /\ Append(conf, e) \in Configuration
         /\ Len(Append(conf, e)) = Len(conf) + 1
         /\ \A i \in 1..Len(conf) : Append(conf, e)[i] = conf[i]
         /\ Append(conf, e)[Len(conf) + 1] = e
         /\ ToSet(Append(conf, e)) = ToSet(conf) \union {e}
<1> DEFINE q == Append(conf, e)
<1>1. /\ q \in Configuration
      /\ Len(q) = Len(conf) + 1
      /\ \A i \in 1..Len(conf) : q[i] = conf[i]
      /\ q[Len(conf) + 1] = e
  BY AppendProperties DEF Configuration
<1>2. Len(conf) \in Nat /\ DOMAIN conf = 1..Len(conf) /\ DOMAIN q = 1..(Len(conf) + 1)
  BY <1>1, ConfigurationFacts
<1> HIDE DEF q
<1>3. ToSet(q) = ToSet(conf) \union {e}
  BY <1>1, <1>2 DEF ToSet
<1> QED BY <1>1, <1>3 DEF q

\* At most one entry has the name.
Once(conf, n) == \A i, j \in DOMAIN conf : conf[i].name = n /\ conf[j].name = n => i = j

\* One round of the loop of Without.
Round(conf, n, kept, i) ==
  IF i = 0 THEN <<>>
  ELSE IF conf[i].name = n THEN kept[i - 1] ELSE Append(kept[i - 1], conf[i])

\* The loop is well defined: its first rounds are.
LEMMA LoopRuns ==
  ASSUME NEW conf \in Configuration, NEW n
  PROVE  \E kept \in [0..Len(conf) -> Configuration] :
           \A i \in 0..Len(conf) : kept[i] = Round(conf, n, kept, i)
<1> DEFINE Runs(k) == \E kept \in [0..k -> Configuration] :
                        \A i \in 0..k : kept[i] = Round(conf, n, kept, i)
           T == {k \in 0..Len(conf) : ~Runs(k)}
<1>1. Len(conf) \in Nat
  BY ConfigurationFacts
<1>2. SUFFICES ASSUME T # {} PROVE FALSE
  <2>1. ASSUME T = {} PROVE Runs(Len(conf))
    <3>1. Len(conf) \in 0..Len(conf)
      BY <1>1
    <3> HIDE DEF Runs
    <3> QED BY <2>1, <3>1
  <2> QED BY <2>1
<1>3. PICK k \in T : \A j \in T : k <= j
  <2>1. T \in SUBSET Nat
    BY <1>1
  <2> HIDE DEF T
  <2> QED BY <1>2, <2>1, LeastNumber
<1>4. k \in 0..Len(conf) /\ ~Runs(k)
  OBVIOUS
<1>5. <<>> \in Configuration
  BY EmptySeq DEF Configuration
<1>6. k # 0
  <2>1. ASSUME k = 0 PROVE FALSE
    <3> DEFINE f == [i \in 0..0 |-> <<>>]
    <3>1. f \in [0..0 -> Configuration] /\ \A i \in 0..0 : f[i] = Round(conf, n, f, i)
      BY <1>5 DEF Round
    <3> QED BY <1>4, <2>1, <3>1
  <2> QED BY <2>1
<1>7. k - 1 \in 0..Len(conf) /\ Runs(k - 1)
  BY <1>1, <1>3, <1>4, <1>6
<1>8. PICK f \in [0..(k - 1) -> Configuration] :
        \A i \in 0..(k - 1) : f[i] = Round(conf, n, f, i)
  BY <1>7
<1> DEFINE g == [i \in 0..k |-> IF i = k THEN Round(conf, n, f, k) ELSE f[i]]
<1>9. Round(conf, n, f, k) \in Configuration
  <2>1. f[k - 1] \in Configuration /\ conf[k] \in [name : Name, symbols : SUBSET Symbol]
    BY <1>1, <1>4, <1>6, <1>7, ConfigurationFacts
  <2> QED BY <2>1, <1>6, AppendedConfiguration DEF Round
<1>10. g \in [0..k -> Configuration]
  BY <1>1, <1>4, <1>6, <1>9
<1>11. ASSUME NEW i \in 0..k
       PROVE  g[i] = Round(conf, n, g, i)
  <2>1. CASE i = k
    BY <1>1, <1>4, <1>6, <2>1 DEF Round
  <2>2. CASE i # k
    <3>1. i \in 0..(k - 1) /\ g[i] = f[i]
      BY <1>1, <1>4, <2>2
    <3>2. i # 0 => i - 1 \in 0..(k - 1) /\ g[i - 1] = f[i - 1]
      BY <1>1, <1>4, <3>1
    <3> QED BY <1>8, <3>1, <3>2 DEF Round
  <2> QED BY <2>1, <2>2
<1> QED BY <1>4, <1>10, <1>11

\* Without is the last round.
LEMMA WithoutIsLastRound ==
  ASSUME NEW conf \in Configuration, NEW n
  PROVE  \E kept : /\ \A i \in 0..Len(conf) : kept[i] = Round(conf, n, kept, i)
                   /\ Without(conf, n) = kept[Len(conf)]
<1> DEFINE kept == CHOOSE f : f = [i \in 0..Len(conf) |-> Round(conf, n, f, i)]
<1>1. PICK f \in [0..Len(conf) -> Configuration] :
        \A i \in 0..Len(conf) : f[i] = Round(conf, n, f, i)
  BY LoopRuns
<1>2. f = [i \in 0..Len(conf) |-> Round(conf, n, f, i)]
  BY <1>1
<1>3. kept = [i \in 0..Len(conf) |-> Round(conf, n, kept, i)]
  BY <1>2
<1>4. Without(conf, n) = kept[Len(conf)]
  BY DEF Without, Round
<1> HIDE DEF kept
<1>5. \A i \in 0..Len(conf) : kept[i] = Round(conf, n, kept, i)
  BY <1>3
<1> QED BY <1>4, <1>5

\* Without keeps the entries of other names, in their order.
LEMMA WithoutKeeps ==
  ASSUME NEW conf \in Configuration, NEW n
  PROVE  /\ Without(conf, n) \in Configuration
         /\ ToSet(Without(conf, n)) = {e \in ToSet(conf) : e.name # n}
         /\ Once(conf, Yahoo) => Once(Without(conf, n), Yahoo)
<1> DEFINE Others(k) == {conf[j] : j \in {j \in 1..k : conf[j].name # n}}
<1>1. PICK kept : /\ \A i \in 0..Len(conf) : kept[i] = Round(conf, n, kept, i)
                  /\ Without(conf, n) = kept[Len(conf)]
  BY WithoutIsLastRound
<1> DEFINE Good(k) == /\ kept[k] \in Configuration
                      /\ ToSet(kept[k]) = Others(k)
                      /\ Once(conf, Yahoo) => Once(kept[k], Yahoo)
           T == {k \in 0..Len(conf) : ~Good(k)}
<1>2. /\ Len(conf) \in Nat /\ DOMAIN conf = 1..Len(conf)
      /\ \A i \in DOMAIN conf : conf[i] \in [name : Name, symbols : SUBSET Symbol]
  BY ConfigurationFacts
<1>3. Good(0)
  <2>1. kept[0] = <<>>
    BY <1>1, <1>2 DEF Round
  <2>2. <<>> \in Configuration /\ DOMAIN <<>> = {}
    BY EmptySeq DEF Configuration
  <2>3. Others(0) = {}
    OBVIOUS
  <2> QED BY <2>1, <2>2, <2>3 DEF ToSet, Once
<1>4. ASSUME NEW k \in 1..Len(conf), Good(k - 1)
      PROVE  Good(k)
  <2> DEFINE q == kept[k - 1]
             e == conf[k]
  <2>1. /\ k \in 0..Len(conf) /\ k # 0
        /\ q \in Configuration /\ ToSet(q) = Others(k - 1)
        /\ Once(conf, Yahoo) => Once(q, Yahoo)
        /\ e \in [name : Name, symbols : SUBSET Symbol]
    BY <1>2, <1>4
  <2>2. kept[k] = IF e.name = n THEN q ELSE Append(q, e)
    BY <1>1, <2>1 DEF Round
  <2>3. Others(k) = IF e.name = n THEN Others(k - 1) ELSE Others(k - 1) \union {e}
    <3>1. 1..k = 1..(k - 1) \union {k}
      BY <1>2
    <3> QED BY <3>1
  <2> HIDE DEF Others, q
  <2>4. CASE e.name = n
    BY <2>1, <2>2, <2>3, <2>4
  <2>5. CASE e.name # n
    <3>1. /\ Append(q, e) \in Configuration
          /\ Len(q) \in Nat /\ DOMAIN q = 1..Len(q) /\ DOMAIN Append(q, e) = 1..(Len(q) + 1)
          /\ \A i \in 1..Len(q) : Append(q, e)[i] = q[i]
          /\ Append(q, e)[Len(q) + 1] = e
          /\ ToSet(Append(q, e)) = ToSet(q) \union {e}
      BY <2>1, AppendedConfiguration, ConfigurationFacts
    <3>2. ASSUME Once(conf, Yahoo), e.name = Yahoo, NEW i \in DOMAIN q
          PROVE  q[i].name # Yahoo
      <4>1. q[i] \in Others(k - 1)
        BY <2>1 DEF ToSet
      <4>2. PICK j \in 1..(k - 1) : q[i] = conf[j]
        BY <4>1 DEF Others
      <4>3. j \in DOMAIN conf /\ k \in DOMAIN conf /\ j # k
        BY <1>2, <1>4
      <4> QED BY <3>2, <4>2, <4>3 DEF Once
    <3>3. ASSUME Once(conf, Yahoo)
          PROVE  Once(Append(q, e), Yahoo)
      <4>1. SUFFICES ASSUME NEW i \in 1..(Len(q) + 1), NEW j \in 1..(Len(q) + 1),
                            Append(q, e)[i].name = Yahoo, Append(q, e)[j].name = Yahoo
                     PROVE  i = j
        BY <3>1 DEF Once
      <4>2. CASE i \in 1..Len(q) /\ j \in 1..Len(q)
        BY <2>1, <3>1, <3>3, <4>1, <4>2 DEF Once
      <4>3. CASE i = Len(q) + 1 /\ j \in 1..Len(q)
        BY <3>1, <3>2, <3>3, <4>1, <4>3
      <4>4. CASE j = Len(q) + 1 /\ i \in 1..Len(q)
        BY <3>1, <3>2, <3>3, <4>1, <4>4
      <4> QED BY <3>1, <4>2, <4>3, <4>4
    <3> QED BY <2>1, <2>2, <2>3, <2>5, <3>1, <3>3
  <2> QED BY <2>4, <2>5
<1>5. T = {}
  <2>1. ASSUME T # {} PROVE FALSE
    <3>1. PICK k \in T : \A j \in T : k <= j
      <4>1. T \in SUBSET Nat
        BY <1>2
      <4> HIDE DEF T
      <4> QED BY <2>1, <4>1, LeastNumber
    <3>2. k \in 0..Len(conf) /\ ~Good(k)
      OBVIOUS
    <3> HIDE DEF Good
    <3>3. k \in 1..Len(conf) /\ k - 1 \in 0..Len(conf) /\ ~(k <= k - 1)
      BY <1>2, <1>3, <3>2
    <3>4. Good(k - 1)
      BY <3>1, <3>3
    <3> QED BY <1>4, <3>2, <3>3, <3>4
  <2> QED BY <2>1
<1>6. Good(Len(conf))
  <2> HIDE DEF Good
  <2> QED BY <1>2, <1>5
<1>7. Others(Len(conf)) = {e \in ToSet(conf) : e.name # n}
  BY <1>2 DEF ToSet
<1> HIDE DEF Others
<1> QED BY <1>1, <1>6, <1>7

\* IndexOf finds an entry of the name when there is one.
LEMMA IndexOfFinds ==
  ASSUME NEW conf \in Configuration, NEW n
  PROVE  /\ n \in Names(conf) => IndexOf(conf, n) \in DOMAIN conf /\ conf[IndexOf(conf, n)].name = n
         /\ n \notin Names(conf) => IndexOf(conf, n) = 0
<1> DEFINE I == {i \in 1..Len(conf) : conf[i].name = n}
<1>1. Len(conf) \in Nat /\ DOMAIN conf = 1..Len(conf)
  BY ConfigurationFacts
<1>2. IndexOf(conf, n) = IF I # {} THEN Min(I) ELSE 0
  BY DEF IndexOf, SelectInSeq
<1>3. n \in Names(conf) <=> I # {}
  BY <1>1 DEF Names, ToSet
<1>4. ASSUME I # {} PROVE Min(I) \in I
  <2>1. I \in SUBSET Nat
    BY <1>1
  <2> HIDE DEF I
  <2>2. \E x \in I : \A y \in I : x <= y
    BY <1>4, <2>1, LeastNumber
  <2> QED BY <2>2 DEF Min
<1> QED BY <1>1, <1>2, <1>3, <1>4

\* An entry that gets another list.
LEMMA ChangedConfiguration ==
  ASSUME NEW conf \in Configuration, NEW i \in DOMAIN conf, NEW symbols \in SUBSET Symbol
  PROVE  LET new == [conf EXCEPT ![i].symbols = symbols]
         IN  /\ new \in Configuration
             /\ DOMAIN new = DOMAIN conf
             /\ new[i] = Entry(conf[i].name, symbols)
             /\ \A j \in DOMAIN conf : j # i => new[j] = conf[j]
<1> DEFINE new == [conf EXCEPT ![i].symbols = symbols]
           E == [name : Name, symbols : SUBSET Symbol]
<1>1. Len(conf) \in Nat /\ conf \in [1..Len(conf) -> E]
  BY LenProperties, ConfigurationFacts DEF Configuration
<1>2. new[i] = [conf[i] EXCEPT !.symbols = symbols]
  BY <1>1
<1>3. conf[i] \in E
  BY <1>1
<1>4. [conf[i] EXCEPT !.symbols = symbols] = Entry(conf[i].name, symbols)
  BY <1>3 DEF Entry
<1>5. Entry(conf[i].name, symbols) \in E
  BY <1>3 DEF Entry
<1>6. new \in [1..Len(conf) -> E] /\ \A j \in DOMAIN conf : j # i => new[j] = conf[j]
  BY <1>1, <1>2, <1>4, <1>5
<1>7. new \in Configuration /\ DOMAIN new = DOMAIN conf
  BY <1>1, <1>6, SeqDef DEF Configuration
<1> QED BY <1>2, <1>4, <1>6, <1>7

\* No references in the lists where the program resolves them.
Resolved(conf) ==
  dbType = "postgres" => \A e \in ToSet(conf) : e.symbols \intersect Reference = {}

\* What PostgresDB.Initialize makes of a configuration.
LEMMA Initialized ==
  ASSUME NEW conf \in Configuration, NEW failing
  PROVE  LET new == Initialize(conf, failing)
         IN  /\ new \in Configuration
             /\ DOMAIN new = DOMAIN conf
             /\ \A i \in DOMAIN conf : new[i].name = conf[i].name
             /\ Names(new) = Names(conf)
             /\ failing = {} => Resolved(new)
             /\ failing = {} /\ Resolved(conf) => new = conf
<1> DEFINE new == Initialize(conf, failing)
           E == [name : Name, symbols : SUBSET Symbol]
           Filtered(e) == [e EXCEPT !.symbols = FilterAndRegisterSymbols(@)]
<1>1. Len(conf) \in Nat /\ conf \in [1..Len(conf) -> E] /\ DOMAIN conf = 1..Len(conf)
  BY LenProperties, ConfigurationFacts DEF Configuration
<1>2. ASSUME NEW symbols \in SUBSET Symbol
      PROVE  /\ FilterAndRegisterSymbols(symbols) \in SUBSET Symbol
             /\ FilterAndRegisterSymbols(symbols) \intersect Reference = {}
             /\ symbols \intersect Reference = {} => FilterAndRegisterSymbols(symbols) = symbols
  BY ControlAssumption DEF FilterAndRegisterSymbols
<1>3. ASSUME NEW e \in E
      PROVE  /\ Filtered(e) \in E /\ Filtered(e).name = e.name
             /\ Filtered(e).symbols \intersect Reference = {}
             /\ e.symbols \intersect Reference = {} => Filtered(e) = e
  <2>1. e.symbols \in SUBSET Symbol
    OBVIOUS
  <2>2. Filtered(e) = [name |-> e.name, symbols |-> FilterAndRegisterSymbols(e.symbols)]
    OBVIOUS
  <2>3. e = [name |-> e.name, symbols |-> e.symbols]
    OBVIOUS
  <2> QED BY <1>2, <2>1, <2>2, <2>3
<1>4. /\ DOMAIN new = DOMAIN conf
      /\ \A i \in DOMAIN conf :
           new[i] = IF dbType = "postgres" /\ i \notin failing THEN Filtered(conf[i]) ELSE conf[i]
  BY DEF Initialize
<1> HIDE DEF Filtered
<1>5. \A i \in DOMAIN conf : new[i] \in E /\ new[i].name = conf[i].name
  BY <1>1, <1>3, <1>4
<1>6. new = [i \in DOMAIN conf |-> new[i]]
  BY DEF Initialize
<1> HIDE DEF new
<1>7. new \in [1..Len(conf) -> E]
  BY <1>1, <1>4, <1>5, <1>6
<1>8. new \in Configuration
  BY <1>1, <1>7, SeqDef DEF Configuration
<1>9. Names(new) = Names(conf)
  BY <1>4, <1>5 DEF Names, ToSet
<1>10. failing = {} => Resolved(new)
  BY <1>1, <1>3, <1>4 DEF Resolved, ToSet
<1>11. ASSUME failing = {}, Resolved(conf) PROVE new = conf
  <2>1. ASSUME NEW i \in DOMAIN conf PROVE new[i] = conf[i]
    BY <1>1, <1>3, <1>4, <1>11 DEF Resolved, ToSet
  <2> QED BY <1>1, <1>7, <2>1
<1> QED BY <1>4, <1>5, <1>8, <1>9, <1>10, <1>11 DEF new

------------------------------------------------------------------------------
(* Types. *)

\* What a request carries.
Carries(x) ==
  /\ x.pc \in {"insert", "apply", "read", "write", "save", "file"}
  /\ x.pc = "apply" => x.op = "update"
  /\ x.symbols \in IF x.op = "remove" THEN {None} ELSE List
  /\ x.seen \in Configuration

RequestTypes == \A r \in Request : request[r] = Idle \/ Carries(request[r])

FileTypes ==
  /\ dbType \in {"sqlite", "postgres"}
  /\ file \in {Garbage} \union Configuration
  /\ config \in Configuration
  /\ phase \in {"down", "up", "failed"}
  /\ phase = "down" => config = <<>>

SourceTypes ==
  /\ objects \in Nat
  /\ DOMAIN sources \subseteq Name
  /\ sources \in [DOMAIN sources -> [id : 1..objects, symbols : SUBSET Symbol]]
  /\ dbType = "postgres" /\ quiet =>
       \A n \in DOMAIN sources : sources[n].symbols \intersect Reference = {}

CountTypes ==
  /\ served \in 0..MaxRequests /\ restarts \in 0..MaxRestarts /\ faults \in 0..MaxFaults
  /\ promised \in [Name -> {None} \union SUBSET Symbol]

TypeInv == IInv /\ RequestTypes /\ FileTypes /\ SourceTypes /\ CountTypes

\* A set of indices has a greatest one.
LEMMA GreatestIndex ==
  ASSUME NEW n \in Nat, NEW T \in SUBSET (1..n), T # {}
  PROVE  Max(T) \in T /\ \A k \in T : k <= Max(T)
<1> DEFINE D == {n - k : k \in T}
<1>1. D \in SUBSET Nat /\ D # {}
  <2>1. \A k \in T : k \in 1..n
    OBVIOUS
  <2>2. \A k \in T : n - k \in Nat
    BY <2>1
  <2> QED BY <2>2
<1>2. PICK d \in D : \A x \in D : d <= x
  <2> HIDE DEF D
  <2> QED BY <1>1, LeastNumber
<1>3. PICK m \in T : d = n - m
  BY <1>2
<1>4. ASSUME NEW k \in T PROVE m >= k
  <2>1. n - k \in D
    OBVIOUS
  <2>2. d <= n - k
    BY <1>2, <2>1
  <2> QED BY <1>3, <2>2
<1>5. \E x \in T : \A y \in T : x >= y
  BY <1>4
<1>6. Max(T) \in T /\ \A y \in T : Max(T) >= y
  BY <1>5 DEF Max
<1> QED BY <1>6

\* Each source of setupDataSources is made from an entry of the configuration.
LEMMA SetupMakesEntries ==
  ASSUME NEW conf \in Configuration
  PROVE  /\ DOMAIN SetupDataSources(conf) = {n \in Name : \E i \in DOMAIN conf : conf[i].name = n /\ IsSource(conf[i])}
         /\ \A n \in DOMAIN SetupDataSources(conf) : \E i \in DOMAIN conf :
              /\ SetupDataSources(conf)[n] = [id |-> i, symbols |-> conf[i].symbols]
              /\ conf[i].name = n /\ IsSource(conf[i])
         /\ SetupDataSources(conf) = [n \in DOMAIN SetupDataSources(conf) |-> SetupDataSources(conf)[n]]
<1> DEFINE valid == {i \in DOMAIN conf : IsSource(conf[i])}
           made == SetupDataSources(conf)
           Of(n) == {i \in valid : conf[i].name = n}
<1>1. /\ Len(conf) \in Nat /\ DOMAIN conf = 1..Len(conf)
      /\ \A i \in DOMAIN conf : conf[i].name \in Name
  BY ConfigurationFacts
<1>2. made = [n \in {conf[i].name : i \in valid} |->
                [id |-> Max(Of(n)), symbols |-> conf[Max(Of(n))].symbols]]
  BY DEF SetupDataSources
<1>3. DOMAIN made = {conf[i].name : i \in valid}
  BY <1>2
<1>4. ASSUME NEW n \in DOMAIN made
      PROVE  \E i \in DOMAIN conf : /\ made[n] = [id |-> i, symbols |-> conf[i].symbols]
                                    /\ conf[i].name = n /\ IsSource(conf[i])
  <2>1. Of(n) \in SUBSET (1..Len(conf)) /\ Of(n) # {}
    BY <1>1, <1>3, <1>4
  <2>2. Max(Of(n)) \in Of(n)
    <3> HIDE DEF Of
    <3> QED BY <1>1, <2>1, GreatestIndex
  <2>3. made[n] = [id |-> Max(Of(n)), symbols |-> conf[Max(Of(n))].symbols]
    BY <1>2, <1>3, <1>4
  <2> HIDE DEF made
  <2> QED BY <2>2, <2>3
<1>5. DOMAIN made = {n \in Name : \E i \in DOMAIN conf : conf[i].name = n /\ IsSource(conf[i])}
  BY <1>1, <1>3
<1>6. made = [n \in DOMAIN made |-> made[n]]
  BY <1>2, <1>3
<1> QED BY <1>4, <1>5, <1>6

\* A start makes its sources from entries, whose lists have no references left.
LEMMA StartTypes ==
  ASSUME TypeInv, NEW failing \in SUBSET (1..2), Start(failing)
  PROVE  RequestTypes' /\ FileTypes' /\ SourceTypes' /\ CountTypes'
<1> DEFINE conf == Initialize(file, failing)
<1>1. /\ phase = "down" /\ request' = request /\ dbType' = dbType /\ file' = file
      /\ served' = served /\ restarts' = restarts
      /\ faults + Cardinality(failing) <= MaxFaults /\ faults' = faults + Cardinality(failing)
      /\ quiet' = (quiet /\ failing = {})
      /\ phase' \in {"up", "failed"}
  BY DEF Start
<1>2. RequestTypes'
  BY <1>1 DEF TypeInv, RequestTypes, Carries
<1>3. faults' \in 0..MaxFaults
  <2>1. IsFiniteSet(failing)
    <3>1. 1 \in Int /\ 2 \in Int
      OBVIOUS
    <3>2. IsFiniteSet(1..2)
      BY <3>1, FS_Interval, Zenon
    <3> QED BY <3>2, FS_Subset
  <2>2. Cardinality(failing) \in Nat
    BY <2>1, FS_CardinalityType
  <2> QED BY <1>1, <2>2, ControlAssumption DEF TypeInv, CountTypes
<1>4. CASE Validate(file)
  <2>1. file \in Configuration /\ config' = conf /\ sources' = SetupDataSources(conf) /\ objects' = Len(conf)
    BY <1>4 DEF Start, Validate, TypeInv, FileTypes
  <2>2. /\ conf \in Configuration /\ Names(conf) = Names(file)
        /\ failing = {} => Resolved(conf)
    BY <2>1, Initialized
  <2>3. Len(conf) \in Nat /\ DOMAIN conf = 1..Len(conf) /\ ToSet(conf) \subseteq [name : Name, symbols : SUBSET Symbol]
        /\ \A i \in DOMAIN conf : conf[i] \in [name : Name, symbols : SUBSET Symbol]
    BY <2>2, ConfigurationFacts
  <2>4. FileTypes'
    BY <1>1, <2>1, <2>2 DEF TypeInv, FileTypes
  <2> HIDE DEF conf
  <2>5. /\ DOMAIN sources' \subseteq Name
        /\ \A n \in DOMAIN sources' : \E i \in DOMAIN conf :
             sources'[n] = [id |-> i, symbols |-> conf[i].symbols]
        /\ sources' = [n \in DOMAIN sources' |-> sources'[n]]
    BY <2>1, <2>2, SetupMakesEntries
  <2>6. sources' \in [DOMAIN sources' -> [id : 1..objects', symbols : SUBSET Symbol]]
    BY <2>1, <2>3, <2>5
  <2>7. ASSUME dbType' = "postgres", quiet', NEW n \in DOMAIN sources'
        PROVE  sources'[n].symbols \intersect Reference = {}
    <3>1. PICK i \in DOMAIN conf : sources'[n] = [id |-> i, symbols |-> conf[i].symbols]
      BY <2>5
    <3>2. conf[i] \in ToSet(conf) /\ Resolved(conf)
      BY <1>1, <2>2, <2>7 DEF ToSet
    <3> QED BY <1>1, <2>7, <3>1, <3>2 DEF Resolved
  <2>8. SourceTypes'
    BY <2>1, <2>3, <2>5, <2>6, <2>7 DEF SourceTypes
  <2>9. promised' \in [Name -> {None} \union SUBSET Symbol]
    <3>1. CASE restarts > 0
      BY <3>1 DEF Start, TypeInv, CountTypes
    <3>2. CASE ~(restarts > 0)
      <4>1. promised' = [n \in Name |-> IF \E e \in ToSet(conf) : e.name = n
                                       THEN (CHOOSE e \in ToSet(conf) : e.name = n).symbols
                                       ELSE None]
        BY <2>1, <3>2 DEF Start
      <4>2. ASSUME NEW n \in Name, \E e \in ToSet(conf) : e.name = n
            PROVE  (CHOOSE e \in ToSet(conf) : e.name = n).symbols \in SUBSET Symbol
        BY <2>3, <4>2
      <4> QED BY <4>1, <4>2
    <3> QED BY <3>1, <3>2
  <2> QED BY <1>1, <1>2, <1>3, <2>4, <2>8, <2>9 DEF TypeInv, CountTypes
<1>5. CASE ~Validate(file)
  <2>1. UNCHANGED <<config, sources, objects>>
    BY <1>5 DEF Start
  <2>2. config = <<>> /\ ToSet(config) = {}
    BY <1>1 DEF TypeInv, FileTypes, ToSet
  <2>3. promised' \in [Name -> {None} \union SUBSET Symbol]
    <3>1. CASE restarts > 0
      BY <3>1 DEF Start, TypeInv, CountTypes
    <3>2. CASE ~(restarts > 0)
      <4>1. promised' = [n \in Name |-> IF \E e \in ToSet(config') : e.name = n
                                       THEN (CHOOSE e \in ToSet(config') : e.name = n).symbols
                                       ELSE None]
        BY <3>2 DEF Start
      <4> QED BY <2>1, <2>2, <4>1
    <3> QED BY <3>1, <3>2
  <2> QED BY <1>1, <1>2, <1>3, <2>1, <2>3 DEF TypeInv, CountTypes, FileTypes, SourceTypes
<1> QED BY <1>4, <1>5

\* A restart leaves nothing but the file.
LEMMA RestartTypes ==
  ASSUME TypeInv, Restart
  PROVE  RequestTypes' /\ FileTypes' /\ SourceTypes' /\ CountTypes'
<1>1. /\ phase' = "down" /\ config' = <<>> /\ sources' = <<>>
      /\ request' = [r \in Request |-> Idle]
      /\ restarts < MaxRestarts /\ restarts' = restarts + 1
      /\ UNCHANGED <<dbType, file, objects, served, faults, answers, promised>>
  BY DEF Restart
<1>2. <<>> \in Configuration
  BY EmptySeq DEF Configuration
<1>3. sources' \in [DOMAIN sources' -> [id : 1..objects', symbols : SUBSET Symbol]] /\ DOMAIN sources' = {}
  BY <1>1
<1>4. RequestTypes'
  BY <1>1 DEF RequestTypes
<1>5. FileTypes'
  BY <1>1, <1>2 DEF TypeInv, FileTypes
<1>6. SourceTypes'
  BY <1>1, <1>3 DEF TypeInv, SourceTypes
<1>7. CountTypes'
  BY <1>1, ControlAssumption DEF TypeInv, CountTypes
<1> QED BY <1>4, <1>5, <1>6, <1>7

\* What a step of a request makes of it.
Moves(r, v) ==
  /\ request' = [request EXCEPT ![r] = v]
  /\ v = Idle \/ (Holds(v) /\ Carries(v))

Going(x, p, conf) ==
  [op |-> x.op, pc |-> p, name |-> x.name, symbols |-> x.symbols, id |-> x.id, seen |-> conf]

\* A new request.
LEMMA NewRequest ==
  ASSUME TypeInv, NEW r \in Request, NEW n \in Name, NEW symbols, NEW id
  PROVE  /\ LET v == Busy("remove", "read", n, None, 0) IN Holds(v) /\ Carries(v)
         /\ symbols \in List =>
              /\ LET v == Busy("add", "insert", n, symbols, 0) IN Holds(v) /\ Carries(v)
              /\ LET v == Busy("update", "apply", n, symbols, id) IN Holds(v) /\ Carries(v)
<1>1. <<>> \in Configuration
  BY EmptySeq DEF Configuration
<1> QED BY <1>1 DEF Busy, Holds, Carries

\* One that goes on.
LEMMA GoesWithWhatItHas ==
  ASSUME TypeInv, NEW r \in Request, NEW p, At(r, p), NEW q \in {"read", "write", "save", "file"}
  PROVE  LET x == request[r] IN
         /\ phase = "up" /\ Holds(x) /\ Carries(x) /\ x.pc = p
         /\ Goes(r, q) => Moves(r, Going(x, q, x.seen))
         /\ Takes(r, config, q) => Moves(r, Going(x, q, config))
<1> DEFINE x == request[r]
<1>1. phase = "up" /\ Holds(x) /\ x.pc = p
  BY AtHolds DEF TypeInv, IInv
<1>2. x # Idle /\ Carries(x)
  BY <1>1 DEF TypeInv, RequestTypes, Idle, Holds
<1>3. \A conf \in Configuration : Holds(Going(x, q, conf)) /\ Carries(Going(x, q, conf))
  BY <1>1, <1>2 DEF Holds, Carries, Going
<1>4. x.seen \in Configuration /\ config \in Configuration
  BY <1>2 DEF TypeInv, FileTypes, Carries
<1>5. Goes(r, q) => request' = [request EXCEPT ![r] = Going(x, q, x.seen)]
  BY <1>1, GoesIsEdit DEF TypeInv, IInv, Going
<1>6. Takes(r, config, q) => request' = [request EXCEPT ![r] = Going(x, q, config)]
  BY <1>1, GoesIsEdit DEF TypeInv, IInv, Types, Takes, Going
<1> QED BY <1>1, <1>2, <1>3, <1>4, <1>5, <1>6 DEF Moves

\* It keeps the other requests and their types.
LEMMA MovesKeepRequests ==
  ASSUME TypeInv, NEW r \in Request, NEW v, Moves(r, v)
  PROVE  /\ RequestTypes'
         /\ request'[r] = v /\ \A q \in Request \ {r} : request'[q] = request[q]
<1>1. DOMAIN request = Request
  BY DEF TypeInv, IInv, Types
<1>2. request'[r] = v /\ \A q \in Request \ {r} : request'[q] = request[q]
  BY <1>1 DEF Moves
<1>3. v = Idle \/ Carries(v)
  BY DEF Moves
<1>4. ASSUME NEW q \in Request
      PROVE  request'[q] = Idle \/ Carries(request'[q])
  <2>1. CASE q = r
    BY <1>2, <1>3, <2>1
  <2>2. CASE q # r
    BY <1>2, <2>2 DEF TypeInv, RequestTypes
  <2> QED BY <2>1, <2>2
<1>5. RequestTypes'
  BY <1>4 DEF RequestTypes, Carries
<1> QED BY <1>2, <1>5

\* What the steps of the requests leave of the types.
LEMMA SourcesStay ==
  ASSUME TypeInv, UNCHANGED <<dbType, objects, sources>>, quiet' => quiet
  PROVE  SourceTypes'
BY DEF TypeInv, SourceTypes

LEMMA CountsStay ==
  ASSUME TypeInv, UNCHANGED <<served, restarts, faults, promised>>
  PROVE  CountTypes'
BY DEF TypeInv, CountTypes

LEMMA FilesStay ==
  ASSUME TypeInv, phase = "up", UNCHANGED <<dbType, file, config, phase>>
  PROVE  FileTypes'
BY DEF TypeInv, FileTypes

\* The types after each step.
LEMMA AcceptTypes ==
  ASSUME TypeInv, NEW r \in Request,
         NEW n \in Name, NEW symbols,
         \/ RemoveSource(r, n)
         \/ symbols \in List /\ (AddSource(r, n, symbols) \/ UpdateSymbols(r, n, symbols))
  PROVE  RequestTypes' /\ FileTypes' /\ SourceTypes' /\ CountTypes'
<1>1. /\ phase = "up" /\ served < MaxRequests /\ served' = served + 1
      /\ quiet' => quiet
      /\ UNCHANGED <<dbType, file, config, objects, phase, restarts, faults, promised>>
  BY DEF AddSource, RemoveSource, UpdateSymbols, Accept, state
<1>2. \E v : Moves(r, v)
  <2>1. CASE symbols \in List /\ AddSource(r, n, symbols)
    BY <2>1, NewRequest DEF AddSource, Accept, Moves
  <2>2. CASE RemoveSource(r, n)
    BY <2>2, NewRequest DEF RemoveSource, Accept, Moves
  <2>3. CASE symbols \in List /\ UpdateSymbols(r, n, symbols)
    BY <2>3, NewRequest DEF UpdateSymbols, Accept, Moves
  <2> QED BY <2>1, <2>2, <2>3
<1>3. RequestTypes'
  BY <1>2, MovesKeepRequests
<1>4. FileTypes'
  BY <1>1, FilesStay
<1>5. CountTypes'
  BY <1>1, ControlAssumption DEF TypeInv, CountTypes
<1>6. SourceTypes'
  <2>1. CASE sources' = sources
    BY <1>1, <2>1, SourcesStay
  <2>2. CASE RemoveSource(r, n)
    <3>1. sources' = [m \in DOMAIN sources \ {n} |-> sources[m]]
      BY <2>2 DEF RemoveSource, Restrict
    <3> QED BY <1>1, <3>1 DEF TypeInv, SourceTypes
  <2> QED BY <2>1, <2>2 DEF AddSource, UpdateSymbols, state
<1> QED BY <1>3, <1>4, <1>5, <1>6

LEMMA InsertTypes ==
  ASSUME TypeInv, NEW r \in Request, Insert(r)
  PROVE  /\ RequestTypes' /\ FileTypes' /\ SourceTypes' /\ CountTypes'
<1> DEFINE x == request[r]
<1>1. /\ phase = "up" /\ Holds(x) /\ Carries(x) /\ x.pc = "insert"
      /\ Goes(r, "read") => Moves(r, Going(x, "read", x.seen))
  BY GoesWithWhatItHas DEF Insert
<1>2. UNCHANGED <<dbType, file, config, phase, served, restarts, faults, promised, quiet>>
  BY DEF Insert, counts, history
<1>3. FileTypes' /\ CountTypes'
  BY <1>1, <1>2, FilesStay, CountsStay
<1>4. CASE x.name \notin DOMAIN sources
  <2>1. Moves(r, Going(x, "read", x.seen)) /\ Put(x.name, x.symbols)
    BY <1>1, <1>4 DEF Insert
  <2>2. x.name \in Name /\ x.symbols \in List
    BY <1>1 DEF Holds, Carries
  <2>3. x.symbols \in SUBSET Symbol /\ x.symbols \intersect Reference = {}
    BY <2>2, ControlAssumption, ListAssumption
  <2>4. /\ objects' = objects + 1
        /\ sources' = [m \in DOMAIN sources \union {x.name} |->
                         IF m = x.name THEN [id |-> objects + 1, symbols |-> x.symbols]
                         ELSE sources[m]]
    BY <2>1 DEF Put
  <2> HIDE DEF x
  <2>5. SourceTypes'
    <3>1. objects \in Nat /\ objects' \in Nat /\ DOMAIN sources' = DOMAIN sources \union {x.name}
      BY <2>4 DEF TypeInv, SourceTypes
    <3>2. ASSUME NEW m \in DOMAIN sources'
          PROVE  sources'[m] \in [id : 1..objects', symbols : SUBSET Symbol]
      <4>1. CASE m = x.name
        BY <2>3, <2>4, <3>1, <4>1
      <4>2. CASE m # x.name
        <5>1. sources'[m] = sources[m] /\ sources[m] \in [id : 1..objects, symbols : SUBSET Symbol]
          BY <2>4, <3>1, <4>2 DEF TypeInv, SourceTypes
        <5>2. \A i \in 1..objects : i \in 1..objects'
          BY <2>4, <3>1
        <5> QED BY <5>1, <5>2
      <4> QED BY <4>1, <4>2
    <3>3. sources' \in [DOMAIN sources' -> [id : 1..objects', symbols : SUBSET Symbol]]
      BY <2>4, <3>1, <3>2
    <3>4. ASSUME dbType' = "postgres", quiet', NEW m \in DOMAIN sources'
          PROVE  sources'[m].symbols \intersect Reference = {}
      BY <1>2, <2>3, <2>4, <3>1, <3>4 DEF TypeInv, SourceTypes
    <3> QED BY <2>2, <3>1, <3>3, <3>4 DEF TypeInv, SourceTypes
  <2> QED BY <1>3, <2>1, <2>5, MovesKeepRequests
<1>5. CASE x.name \in DOMAIN sources
  <2>1. UNCHANGED <<sources, objects>> /\ Moves(r, Idle)
    BY <1>5 DEF Insert, Moves
  <2>2. SourceTypes'
    BY <1>2, <2>1, SourcesStay
  <2> QED BY <1>3, <2>1, <2>2, MovesKeepRequests
<1> QED BY <1>4, <1>5

LEMMA ApplyTypes ==
  ASSUME TypeInv, NEW r \in Request, Apply(r)
  PROVE  /\ RequestTypes' /\ FileTypes' /\ SourceTypes' /\ CountTypes'
<1> DEFINE x == request[r]
<1>1. /\ phase = "up" /\ Holds(x) /\ Carries(x) /\ x.pc = "apply"
      /\ Moves(r, Going(x, "read", x.seen))
  BY GoesWithWhatItHas DEF Apply
<1>2. /\ UNCHANGED <<dbType, file, config, objects, phase, served, restarts, faults, promised, quiet>>
      /\ \/ sources' = sources
         \/ sources' = [sources EXCEPT ![x.name].symbols = x.symbols]
  BY DEF Apply, counts, history
<1>3. x.symbols \in SUBSET Symbol /\ x.symbols \intersect Reference = {}
  BY <1>1, ControlAssumption, ListAssumption DEF Carries
<1> HIDE DEF x
<1>4. SourceTypes'
  <2>1. CASE sources' = sources
    BY <1>2, <2>1, SourcesStay
  <2>2. CASE sources' = [sources EXCEPT ![x.name].symbols = x.symbols]
    <3>1. DOMAIN sources' = DOMAIN sources /\ objects' = objects
      BY <1>2, <2>2
    <3>2. ASSUME NEW m \in DOMAIN sources
          PROVE  /\ sources[m] \in [id : 1..objects, symbols : SUBSET Symbol]
                 /\ sources'[m] = IF m = x.name THEN [sources[m] EXCEPT !.symbols = x.symbols]
                                  ELSE sources[m]
      BY <2>2 DEF TypeInv, SourceTypes
    <3>3. \A m \in DOMAIN sources : sources'[m] \in [id : 1..objects, symbols : SUBSET Symbol]
      BY <1>3, <3>2
    <3>4. sources' \in [DOMAIN sources -> [id : 1..objects, symbols : SUBSET Symbol]]
      BY <2>2, <3>3
    <3>5. ASSUME dbType' = "postgres", quiet', NEW m \in DOMAIN sources
          PROVE  sources'[m].symbols \intersect Reference = {}
      BY <1>2, <1>3, <3>2, <3>5 DEF TypeInv, SourceTypes
    <3> QED BY <3>1, <3>4, <3>5 DEF TypeInv, SourceTypes
  <2> QED BY <1>2, <2>1, <2>2
<1> QED BY <1>1, <1>2, <1>4, FilesStay, CountsStay, MovesKeepRequests

LEMMA AnswerTypes ==
  ASSUME TypeInv, NEW r \in Request, NEW p, At(r, p), Answers(r),
         UNCHANGED <<served, restarts>>, faults' \in 0..MaxFaults
  PROVE  RequestTypes' /\ CountTypes'
<1> DEFINE x == request[r]
<1>1. Holds(x) /\ Carries(x)
  BY GoesWithWhatItHas
<1>2. Moves(r, Idle) /\ promised' = [promised EXCEPT ![x.name] = x.symbols]
  BY DEF Answers, Moves
<1>3. x.symbols \in {None} \union SUBSET Symbol
  BY <1>1, ControlAssumption DEF Carries
<1>4. promised' \in [Name -> {None} \union SUBSET Symbol]
  BY <1>2, <1>3 DEF TypeInv, CountTypes
<1>5. CountTypes'
  BY <1>4 DEF TypeInv, CountTypes
<1> QED BY <1>2, <1>5, MovesKeepRequests

LEMMA WriteTypes ==
  ASSUME TypeInv, NEW r \in Request, Write(r)
  PROVE  /\ RequestTypes' /\ FileTypes' /\ SourceTypes' /\ CountTypes'
<1> DEFINE x == request[r]
           i == IndexOf(x.seen, x.name)
<1>1. /\ phase = "up" /\ Holds(x) /\ Carries(x) /\ x.pc = "write" /\ At(r, "write")
      /\ Goes(r, "save") => Moves(r, Going(x, "save", x.seen))
  BY GoesWithWhatItHas DEF Write
<1>2. /\ UNCHANGED <<dbType, file, sources, objects, served, restarts, faults, quiet>>
      /\ phase' \in {phase, "failed"}
      /\ Answers(r) \/ (Goes(r, "save") /\ promised' = promised)
  BY DEF Write, counts
<1>3. x.seen \in Configuration /\ config \in Configuration /\ x.name \in Name
      /\ x.op \in {"add", "remove", "update"} /\ (x.op # "remove" => x.symbols \in SUBSET Symbol)
  BY <1>1, ControlAssumption DEF TypeInv, FileTypes, Holds, Carries
<1>4. config' \in Configuration
  <2>1. CASE x.op = "add"
    <3>1. config' = Append(x.seen, Entry(x.name, x.symbols))
      BY <2>1 DEF Write
    <3>2. Entry(x.name, x.symbols) \in [name : Name, symbols : SUBSET Symbol]
      BY <1>3, <2>1 DEF Entry
    <3> QED BY <1>3, <3>1, <3>2, AppendedConfiguration
  <2>2. CASE x.op = "remove"
    <3>1. config' = Without(x.seen, x.name)
      BY <2>2 DEF Write
    <3> QED BY <1>3, <3>1, WithoutKeeps
  <2>3. CASE x.op = "update"
    <3>1. config' = IF i \in DOMAIN config THEN [config EXCEPT ![i].symbols = x.symbols]
                    ELSE config
      BY <2>3 DEF Write
    <3> HIDE DEF x, i
    <3> QED BY <1>3, <2>3, <3>1, ChangedConfiguration
  <2> QED BY <1>3, <2>1, <2>2, <2>3
<1>5. FileTypes'
  BY <1>1, <1>2, <1>4 DEF TypeInv, FileTypes
<1>6. SourceTypes'
  BY <1>2, SourcesStay
<1>7. RequestTypes' /\ CountTypes'
  <2>1. CASE Answers(r)
    <3>1. faults' \in 0..MaxFaults
      BY <1>2 DEF TypeInv, CountTypes
    <3> QED BY <1>1, <1>2, <2>1, <3>1, AnswerTypes
  <2>2. CASE Goes(r, "save") /\ promised' = promised
    BY <1>1, <1>2, <2>2, CountsStay, MovesKeepRequests
  <2> QED BY <1>2, <2>1, <2>2
<1> QED BY <1>5, <1>6, <1>7

\* Read and Save take the list as it is.
LEMMA TakingTypes ==
  ASSUME TypeInv, NEW r \in Request, Read(r) \/ Save(r)
  PROVE  /\ RequestTypes' /\ FileTypes' /\ SourceTypes' /\ CountTypes'
<1>1. phase = "up" /\ \E v : Moves(r, v)
  BY GoesWithWhatItHas DEF Read, Save
<1>2. /\ UNCHANGED <<dbType, config, sources, objects, phase, served, restarts, faults, promised, quiet>>
      /\ file' \in {file, Garbage}
  BY DEF Read, Save, state, counts, history
<1>3. FileTypes'
  BY <1>1, <1>2 DEF TypeInv, FileTypes
<1> QED BY <1>1, <1>2, <1>3, SourcesStay, CountsStay, MovesKeepRequests

LEMMA WriteFileTypes ==
  ASSUME TypeInv, NEW r \in Request, NEW failing \in BOOLEAN, WriteFile(r, failing)
  PROVE  /\ RequestTypes' /\ FileTypes' /\ SourceTypes' /\ CountTypes'
<1> DEFINE x == request[r]
<1>1. /\ phase = "up" /\ Carries(x) /\ At(r, "file")
  BY GoesWithWhatItHas DEF WriteFile
<1>2. /\ UNCHANGED <<dbType, config, sources, objects, phase, served, restarts>>
      /\ file' \in {file, x.seen, Garbage} /\ Answers(r) /\ (quiet' => quiet)
  BY DEF WriteFile
<1>3. faults' \in 0..MaxFaults
  BY ControlAssumption DEF WriteFile, TypeInv, CountTypes
<1>4. FileTypes'
  BY <1>1, <1>2 DEF TypeInv, FileTypes, Carries
<1> QED BY <1>1, <1>2, <1>3, <1>4, SourcesStay, AnswerTypes

\* The invariant of the types holds at the start and is inductive.
LEMMA TypeInit == Init => TypeInv
<1> SUFFICES ASSUME Init PROVE TypeInv
  OBVIOUS
<1>1. IInv
  BY InitInv
<1>2. <<>> \in Configuration
  BY EmptySeq DEF Configuration
<1>3. FileTypes /\ RequestTypes
  BY <1>2, FileAssumption DEF Init, FileTypes, RequestTypes
<1>4. SourceTypes
  BY DEF Init, SourceTypes
<1>5. CountTypes
  BY ControlAssumption DEF Init, CountTypes
<1> QED BY <1>1, <1>3, <1>4, <1>5 DEF TypeInv

LEMMA TypeStep == TypeInv /\ [Next]_vars => TypeInv'
<1>1. SUFFICES ASSUME TypeInv, [Next]_vars PROVE TypeInv'
  OBVIOUS
<1>2. IInv'
  BY <1>1, StepInv DEF TypeInv
<1> DEFINE Rest == RequestTypes' /\ FileTypes' /\ SourceTypes' /\ CountTypes'
<1>3. ASSUME NEW failing \in SUBSET (1..2), Start(failing) PROVE Rest
  BY <1>1, <1>3, StartTypes
<1>4. ASSUME Restart PROVE Rest
  BY <1>1, <1>4, RestartTypes
<1>5. ASSUME NEW r \in Request, Handler(r) PROVE Rest
  <2>1. ASSUME NEW n \in Name, NEW symbols \in List,
               AddSource(r, n, symbols) \/ UpdateSymbols(r, n, symbols)
        PROVE  Rest
    BY <1>1, <2>1, AcceptTypes
  <2>2. ASSUME NEW n \in Name, RemoveSource(r, n) PROVE Rest
    BY <1>1, <2>2, AcceptTypes
  <2>3. ASSUME NEW failing \in BOOLEAN, WriteFile(r, failing) PROVE Rest
    BY <1>1, <2>3, WriteFileTypes
  <2> HIDE DEF Rest
  <2>4. Insert(r) \/ Apply(r) \/ Write(r) \/ Read(r) \/ Save(r) => Rest
    BY <1>1, InsertTypes, ApplyTypes, WriteTypes, TakingTypes DEF Rest
  <2> QED BY <1>5, <2>1, <2>2, <2>3, <2>4 DEF Handler
<1>6. ASSUME UNCHANGED vars PROVE Rest
  BY <1>1, <1>6 DEF vars, state, counts, history, TypeInv, RequestTypes, Carries,
                    FileTypes, SourceTypes, CountTypes
<1> QED BY <1>1, <1>2, <1>3, <1>4, <1>5, <1>6 DEF Next, TypeInv

LEMMA TypeInvariance == Spec => []TypeInv
BY TypeInit, TypeStep, PTL DEF Spec

\* However requests overlap and writes fail, what memory and file hold stays well
\* formed and every object in the map is one that was made; on postgres, as long as
\* requests do not overlap and nothing fails, no list in the map has a reference left.
THEOREM TypeCorrect == Spec => []TypeOK
<1>1. TypeInv => TypeOK
  <2> SUFFICES ASSUME TypeInv PROVE TypeOK
    OBVIOUS
  <2>1. /\ file = Garbage \/ Names(file) \subseteq Name
        /\ Names(config) \subseteq Name
    BY ConfigurationFacts DEF TypeInv, FileTypes
  <2>2. phase = "down" => config = <<>> /\ \A r \in Request : request[r] = Idle
    BY DEF TypeInv, FileTypes, IInv, DownIsIdle
  <2>3. \A n \in DOMAIN sources : sources[n].id \in 1..objects
    BY DEF TypeInv, SourceTypes
  <2> QED BY <2>1, <2>2, <2>3 DEF TypeInv, FileTypes, SourceTypes, CountTypes, TypeOK
<1> QED BY <1>1, TypeInvariance, PTL

------------------------------------------------------------------------------
(* The three copies. *)

\* A configuration holds the names clients were promised; where no file lists the
\* source named yahoo twice, with the list they were promised.
Promised(conf, prom) ==
  /\ Resolved(conf)
  /\ \A n \in Name : n \in Names(conf) <=> prom[n] # None
  /\ (\A first \in FirstFile \ {Garbage} : Once(first, Yahoo)) =>
       /\ Once(conf, Yahoo)
       /\ \A e \in ToSet(conf) : e.name = Yahoo => e.symbols = prom[Yahoo]

\* So does the manager, except for names the start has skipped.
Agree(conf, prom) ==
  /\ Promised(conf, prom)
  /\ \A n \in DOMAIN sources : Entry(n, sources[n].symbols) \in ToSet(conf)
  /\ Yahoo \in DOMAIN sources <=> Yahoo \in Names(conf)

Written == file # Garbage /\ Initialize(file, {}) = config

\* The manager has carried out request x, and the configuration does not know yet.
Ahead(x) ==
  /\ Promised(config, promised)
  /\ \A n \in DOMAIN sources \ {x.name} : Entry(n, sources[n].symbols) \in ToSet(config)
  /\ x.name # Yahoo => (Yahoo \in DOMAIN sources <=> Yahoo \in Names(config))
  /\ x.op = "remove" <=> x.name \notin DOMAIN sources
  /\ x.op # "remove" => sources[x.name].symbols = x.symbols
  /\ x.op = "update" => x.name \in Names(config)
  /\ x.op = "add" /\ x.name = Yahoo => Yahoo \notin Names(config)

\* How far a request has brought the three copies.
Stage(x) ==
  /\ x.pc \in {"insert", "apply"} => Agree(config, promised) /\ Written
  /\ x.pc = "apply" => x.name \in DOMAIN sources /\ sources[x.name].id = x.id
  /\ x.pc \in {"read", "write"} => Ahead(x)
  /\ x.pc = "write" => x.seen = config
  /\ x.pc \in {"save", "file"} => Agree(config, [promised EXCEPT ![x.name] = x.symbols])
  /\ x.pc = "file" => file = Garbage /\ x.seen = config

\* Without overlaps there is one request at most, and between requests the copies
\* agree.
UpInStep ==
  quiet /\ phase = "up" =>
    /\ \A q, r \in Request : request[q] # Idle /\ request[r] # Idle => q = r
    /\ \A r \in Request : request[r] # Idle => Stage(request[r])
    /\ (\A r \in Request : request[r] = Idle) => Agree(config, promised) /\ Written

\* What a start finds.
DownInStep ==
  phase = "down" =>
    /\ restarts = 0 => file \in FirstFile
    /\ quiet /\ restarts > 0 => file # Garbage /\ Promised(Initialize(file, {}), promised)

\* Why a start is refused.
RefusedForReason ==
  quiet /\ phase = "failed" =>
    \/ promised[Yahoo] = None
    \/ \E e \in ToSet(file) \union ToSet(config) : e.symbols = {}

InStep == UpInStep /\ DownInStep /\ RefusedForReason

AgreeInv == TypeInv /\ InStep

\* Entries and names.
LEMMA NamesOfEntries ==
  ASSUME NEW conf \in Configuration
  PROVE  /\ \A n \in Name : n \in Names(conf) <=> \E i \in DOMAIN conf : conf[i].name = n
         /\ \A n, symbols : Entry(n, symbols) \in ToSet(conf) => n \in Names(conf)
         /\ \A e \in ToSet(conf) : e = Entry(e.name, e.symbols) /\ e.symbols # None
<1>1. ToSet(conf) \subseteq [name : Name, symbols : SUBSET Symbol]
  BY ConfigurationFacts
<1>2. \A e \in ToSet(conf) : e = Entry(e.name, e.symbols) /\ e.symbols # None
  BY <1>1, FileAssumption DEF Entry
<1>3. \A n, symbols : Entry(n, symbols) \in ToSet(conf) => n \in Names(conf)
  BY DEF Names, Entry
<1>4. \A n \in Name : n \in Names(conf) <=> \E i \in DOMAIN conf : conf[i].name = n
  BY DEF Names, ToSet
<1> QED BY <1>2, <1>3, <1>4

\* Adding to a configuration without the name keeps its promises.
LEMMA AddKeepsPromises ==
  ASSUME NEW conf \in Configuration, NEW prom, DOMAIN prom = Name, Promised(conf, prom),
         NEW n \in Name, NEW symbols \in List, n = Yahoo => Yahoo \notin Names(conf),
         NEW q \in Configuration, Len(q) = Len(conf) + 1,
         \A i \in 1..Len(conf) : q[i] = conf[i], q[Len(conf) + 1] = Entry(n, symbols),
         ToSet(q) = ToSet(conf) \union {Entry(n, symbols)},
         NEW p, \A m \in Name : p[m] = IF m = n THEN symbols ELSE prom[m]
  PROVE  /\ Promised(q, p)
         /\ Names(q) = Names(conf) \union {n}
<1> DEFINE e == Entry(n, symbols)
           E == [name : Name, symbols : SUBSET Symbol]
<1>1. /\ symbols \in SUBSET Symbol /\ symbols # None /\ symbols \intersect Reference = {}
      /\ e \in E /\ e.name = n /\ e.symbols = symbols
  BY ControlAssumption, FileAssumption, ListAssumption DEF Entry
<1>2. /\ q \in Configuration /\ Len(q) = Len(conf) + 1
      /\ \A i \in 1..Len(conf) : q[i] = conf[i]
      /\ q[Len(conf) + 1] = e
      /\ ToSet(q) = ToSet(conf) \union {e}
  OBVIOUS
<1>3. /\ Len(conf) \in Nat /\ DOMAIN conf = 1..Len(conf) /\ DOMAIN q = 1..(Len(conf) + 1)
  BY <1>2, ConfigurationFacts
<1> HIDE DEF e
<1>4. Names(q) = Names(conf) \union {n}
  BY <1>1, <1>2 DEF Names
<1>5. \A m \in Name : p[m] = IF m = n THEN symbols ELSE prom[m]
  OBVIOUS
<1>6. Resolved(q)
  BY <1>1, <1>2 DEF Promised, Resolved
<1>7. \A m \in Name : m \in Names(q) <=> p[m] # None
  BY <1>1, <1>4, <1>5 DEF Promised
<1>8. ASSUME \A first \in FirstFile \ {Garbage} : Once(first, Yahoo)
      PROVE  /\ Once(q, Yahoo)
             /\ \A c \in ToSet(q) : c.name = Yahoo => c.symbols = p[Yahoo]
  <2>1. /\ Once(conf, Yahoo)
        /\ \A c \in ToSet(conf) : c.name = Yahoo => c.symbols = prom[Yahoo]
    BY <1>8 DEF Promised
  <2>2. n = Yahoo => \A i \in DOMAIN conf : conf[i].name # Yahoo
    BY NamesOfEntries
  <2>3. Once(q, Yahoo)
    <3>1. SUFFICES ASSUME NEW i \in DOMAIN q, NEW j \in DOMAIN q,
                          q[i].name = Yahoo, q[j].name = Yahoo
                   PROVE  i = j
      BY DEF Once
    <3>2. CASE n = Yahoo
      <4>1. \A k \in DOMAIN q : q[k].name = Yahoo => k = Len(conf) + 1
        BY <1>2, <1>3, <2>2, <3>2
      <4> QED BY <3>1, <4>1
    <3>3. CASE n # Yahoo
      <4>1. \A k \in DOMAIN q : q[k].name = Yahoo => k \in DOMAIN conf /\ q[k] = conf[k]
        BY <1>1, <1>2, <1>3, <3>3
      <4> QED BY <2>1, <3>1, <4>1 DEF Once
    <3> QED BY <3>2, <3>3
  <2>4. \A c \in ToSet(q) : c.name = Yahoo => c.symbols = p[Yahoo]
    <3>1. n = Yahoo => \A c \in ToSet(conf) : c.name # Yahoo
      BY DEF Names
    <3>2. Yahoo \in Name
      BY ControlAssumption
    <3> QED BY <1>1, <1>2, <1>5, <2>1, <3>1, <3>2
  <2> QED BY <2>3, <2>4
<1>9. Promised(q, p)
  BY <1>6, <1>7, <1>8 DEF Promised
<1> QED BY <1>4, <1>9

\* So does removing all its entries.
LEMMA RemoveKeepsPromises ==
  ASSUME NEW conf \in Configuration, NEW prom, DOMAIN prom = Name, Promised(conf, prom),
         NEW n \in Name
  PROVE  /\ Promised(Without(conf, n), [prom EXCEPT ![n] = None])
         /\ ToSet(Without(conf, n)) = {e \in ToSet(conf) : e.name # n}
         /\ Names(Without(conf, n)) = Names(conf) \ {n}
<1> DEFINE q == Without(conf, n)
           p == [prom EXCEPT ![n] = None]
<1>1. /\ q \in Configuration /\ ToSet(q) = {e \in ToSet(conf) : e.name # n}
      /\ Once(conf, Yahoo) => Once(q, Yahoo)
  BY WithoutKeeps
<1> HIDE DEF q
<1>2. Names(q) = Names(conf) \ {n}
  BY <1>1 DEF Names
<1>3. \A m \in Name : p[m] = IF m = n THEN None ELSE prom[m]
  OBVIOUS
<1> HIDE DEF p
<1>4. Resolved(q)
  BY <1>1 DEF Promised, Resolved
<1>5. \A m \in Name : m \in Names(q) <=> p[m] # None
  BY <1>2, <1>3 DEF Promised
<1>6. (\A first \in FirstFile \ {Garbage} : Once(first, Yahoo)) =>
        /\ Once(q, Yahoo)
        /\ \A e \in ToSet(q) : e.name = Yahoo => e.symbols = p[Yahoo]
  BY <1>1, <1>3, ControlAssumption DEF Promised
<1>7. Promised(q, p)
  BY <1>4, <1>5, <1>6 DEF Promised
<1> QED BY <1>1, <1>2, <1>7 DEF q, p

\* And another list for its first entry.
LEMMA UpdateKeepsPromises ==
  ASSUME NEW conf \in Configuration, NEW prom, DOMAIN prom = Name, Promised(conf, prom),
         NEW n \in Name, NEW symbols \in List, n \in Names(conf),
         NEW i \in DOMAIN conf, conf[i].name = n,
         NEW q \in Configuration, DOMAIN q = DOMAIN conf, q[i] = Entry(n, symbols),
         \A j \in DOMAIN conf : j # i => q[j] = conf[j],
         NEW p, \A m \in Name : p[m] = IF m = n THEN symbols ELSE prom[m]
  PROVE  /\ Promised(q, p)
         /\ Entry(n, symbols) \in ToSet(q)
         /\ \A e \in ToSet(conf) : e.name # n => e \in ToSet(q)
         /\ Names(q) = Names(conf)
<1>1. /\ symbols \in SUBSET Symbol /\ symbols # None /\ symbols \intersect Reference = {}
  BY ControlAssumption, FileAssumption, ListAssumption
<1>2. i \in DOMAIN conf /\ conf[i].name = n
  OBVIOUS
<1>3. /\ q \in Configuration /\ DOMAIN q = DOMAIN conf
      /\ q[i] = Entry(n, symbols)
      /\ \A j \in DOMAIN conf : j # i => q[j] = conf[j]
  OBVIOUS
<1>4. Entry(n, symbols).name = n /\ Entry(n, symbols).symbols = symbols
  BY DEF Entry
<1>5. \A j \in DOMAIN conf : q[j].name = conf[j].name
  BY <1>2, <1>3, <1>4
<1>6. Names(q) = Names(conf)
  BY <1>3, <1>5 DEF Names, ToSet
<1>7. \A m \in Name : p[m] = IF m = n THEN symbols ELSE prom[m]
  OBVIOUS
<1>8. Resolved(q)
  BY <1>1, <1>2, <1>3, <1>4 DEF Promised, Resolved, ToSet
<1>9. \A m \in Name : m \in Names(q) <=> p[m] # None
  BY <1>1, <1>6, <1>7 DEF Promised
<1>10. ASSUME \A first \in FirstFile \ {Garbage} : Once(first, Yahoo)
       PROVE  /\ Once(q, Yahoo)
              /\ \A e \in ToSet(q) : e.name = Yahoo => e.symbols = p[Yahoo]
  <2>1. /\ Once(conf, Yahoo)
        /\ \A e \in ToSet(conf) : e.name = Yahoo => e.symbols = prom[Yahoo]
    BY <1>10 DEF Promised
  <2>2. Once(q, Yahoo)
    BY <1>3, <1>5, <2>1 DEF Once
  <2>3. ASSUME NEW j \in DOMAIN q, q[j].name = Yahoo
        PROVE  q[j].symbols = p[Yahoo]
    <3>1. CASE n = Yahoo
      <4>1. j = i
        BY <1>2, <1>3, <1>5, <2>1, <2>3, <3>1 DEF Once
      <4> QED BY <1>3, <1>4, <1>7, <3>1, <4>1
    <3>2. CASE n # Yahoo
      <4>1. q[j] = conf[j] /\ j \in DOMAIN conf
        BY <1>3, <1>4, <2>3, <3>2
      <4> QED BY <1>7, <2>1, <2>3, <3>2, <4>1, ControlAssumption DEF ToSet
    <3> QED BY <3>1, <3>2
  <2> QED BY <2>2, <2>3 DEF ToSet
<1>11. Promised(q, p)
  BY <1>8, <1>9, <1>10 DEF Promised
<1>12. Entry(n, symbols) \in ToSet(q)
  BY <1>2, <1>3 DEF ToSet
<1>13. \A e \in ToSet(conf) : e.name # n => e \in ToSet(q)
  BY <1>2, <1>3 DEF ToSet
<1> QED BY <1>2, <1>6, <1>11, <1>12, <1>13

\* The configuration catches up with the manager.
LEMMA WriteAgrees ==
  ASSUME AgreeInv, NEW r \in Request, Write(r), Ahead(request[r]), request[r].seen = config
  PROVE  LET x == request[r]
         IN  /\ Agree(config', [promised EXCEPT ![x.name] = x.symbols])
             /\ x.op = "update" => IndexOf(x.seen, x.name) \in DOMAIN config
<1> DEFINE x == request[r]
           p == [promised EXCEPT ![x.name] = x.symbols]
<1>1. Holds(x) /\ Carries(x) /\ x.pc = "write"
  BY GoesWithWhatItHas DEF Write, AgreeInv
<1>2. /\ config \in Configuration /\ DOMAIN promised = Name
      /\ DOMAIN sources \subseteq Name
      /\ x.name \in Name /\ x.op \in {"add", "remove", "update"}
  BY <1>1 DEF AgreeInv, TypeInv, FileTypes, CountTypes, SourceTypes, Holds
<1>3. /\ Promised(config, promised)
      /\ \A n \in DOMAIN sources \ {x.name} : Entry(n, sources[n].symbols) \in ToSet(config)
      /\ x.name # Yahoo => (Yahoo \in DOMAIN sources <=> Yahoo \in Names(config))
      /\ x.op = "remove" <=> x.name \notin DOMAIN sources
      /\ x.op # "remove" => sources[x.name].symbols = x.symbols
      /\ x.op = "update" => x.name \in Names(config)
      /\ x.op = "add" /\ x.name = Yahoo => Yahoo \notin Names(config)
  BY DEF Ahead
<1>4. Entry(x.name, x.symbols).name = x.name /\ \A n, symbols : Entry(n, symbols).name = n
  BY DEF Entry
<1>5. CASE x.op = "add"
  <2>1. config' = Append(config, Entry(x.name, x.symbols)) /\ x.symbols \in List
    BY <1>1, <1>5 DEF Write, Carries
  <2> HIDE DEF x
  <2>2. /\ Promised(config', p)
        /\ ToSet(config') = ToSet(config) \union {Entry(x.name, x.symbols)}
        /\ Names(config') = Names(config) \union {x.name}
    <3>1. x.name = Yahoo => Yahoo \notin Names(config)
      BY <1>3, <1>5
    <3>2. config \in Configuration /\ DOMAIN promised = Name /\ Promised(config, promised)
          /\ x.name \in Name /\ x.symbols \in List
      BY <1>2, <1>3, <2>1
    <3>3. \A m \in Name : p[m] = IF m = x.name THEN x.symbols ELSE promised[m]
      BY <1>2
    <3> HIDE DEF p
    <3>4. Entry(x.name, x.symbols) \in [name : Name, symbols : SUBSET Symbol]
      BY <3>2, ControlAssumption DEF Entry
    <3>5. /\ config' \in Configuration
          /\ Len(config') = Len(config) + 1
          /\ \A i \in 1..Len(config) : config'[i] = config[i]
          /\ config'[Len(config) + 1] = Entry(x.name, x.symbols)
          /\ ToSet(config') = ToSet(config) \union {Entry(x.name, x.symbols)}
      BY <2>1, <3>2, <3>4, AppendedConfiguration
    <3> QED BY <3>1, <3>2, <3>3, <3>5, AddKeepsPromises
  <2> HIDE DEF p
  <2>3. \A n \in DOMAIN sources : Entry(n, sources[n].symbols) \in ToSet(config')
    BY <1>3, <1>5, <2>2
  <2>4. Yahoo \in DOMAIN sources <=> Yahoo \in Names(config')
    BY <1>3, <1>5, <2>2
  <2> QED BY <1>5, <2>2, <2>3, <2>4 DEF Agree, x, p
<1>6. CASE x.op = "remove"
  <2>1. config' = Without(config, x.name) /\ x.symbols = None
    BY <1>1, <1>6 DEF Write, Carries
  <2> HIDE DEF x
  <2>2. /\ Promised(config', p)
        /\ ToSet(config') = {e \in ToSet(config) : e.name # x.name}
        /\ Names(config') = Names(config) \ {x.name}
    BY <1>2, <1>3, <2>1, RemoveKeepsPromises
  <2> HIDE DEF p
  <2>3. \A n \in DOMAIN sources : Entry(n, sources[n].symbols) \in ToSet(config')
    BY <1>3, <1>4, <1>6, <2>2
  <2>4. Yahoo \in DOMAIN sources <=> Yahoo \in Names(config')
    BY <1>3, <1>6, <2>2
  <2> QED BY <1>6, <2>2, <2>3, <2>4 DEF Agree, x, p
<1>7. CASE x.op = "update"
  <2> DEFINE i == IndexOf(config, x.name)
  <2>1. /\ config' = IF i \in DOMAIN config THEN [config EXCEPT ![i].symbols = x.symbols] ELSE config
        /\ x.symbols \in List
    BY <1>1, <1>7 DEF Write, Carries
  <2> HIDE DEF x
  <2>2. x.name \in Names(config)
    BY <1>3, <1>7
  <2>3. i \in DOMAIN config
    BY <1>2, <2>2, IndexOfFinds
  <2>4. config' = [config EXCEPT ![i].symbols = x.symbols]
    BY <2>1, <2>3
  <2>5. /\ Promised(config', p)
        /\ Entry(x.name, x.symbols) \in ToSet(config')
        /\ \A e \in ToSet(config) : e.name # x.name => e \in ToSet(config')
        /\ Names(config') = Names(config)
    <3>1. config \in Configuration /\ DOMAIN promised = Name /\ Promised(config, promised)
          /\ x.name \in Name /\ x.symbols \in List
      BY <1>2, <1>3, <2>1
    <3>2. \A m \in Name : p[m] = IF m = x.name THEN x.symbols ELSE promised[m]
      BY <1>2
    <3>3. config[i].name = x.name
      BY <1>2, <2>2, IndexOfFinds
    <3> HIDE DEF i, p
    <3>4. x.symbols \in SUBSET Symbol
      BY <3>1, ControlAssumption
    <3>5. /\ config' \in Configuration
          /\ DOMAIN config' = DOMAIN config
          /\ config'[i] = Entry(config[i].name, x.symbols)
          /\ \A j \in DOMAIN config : j # i => config'[j] = config[j]
      BY <2>3, <2>4, <3>1, <3>4, ChangedConfiguration
    <3> QED BY <2>2, <2>3, <3>1, <3>2, <3>3, <3>5, UpdateKeepsPromises
  <2> HIDE DEF i, p
  <2>6. \A n \in DOMAIN sources : Entry(n, sources[n].symbols) \in ToSet(config')
    BY <1>3, <1>4, <1>7, <2>5
  <2>7. Yahoo \in DOMAIN sources <=> Yahoo \in Names(config')
    BY <1>3, <1>7, <2>5
  <2>8. x.seen = config
    BY DEF x
  <2> QED BY <2>3, <2>5, <2>6, <2>7, <2>8 DEF Agree, x, p, i
<1> QED BY <1>2, <1>5, <1>6, <1>7

\* A request that moves keeps the copies in step if it is the only one and they are
\* where its new stage, or no request at all, wants them.
LEMMA MovesInStep ==
  ASSUME TypeInv, NEW r \in Request, NEW v, Moves(r, v),
         phase' # "down", quiet' => phase' = "up",
         quiet' => \A q \in Request \ {r} : request[q] = Idle,
         quiet' /\ v # Idle => Stage(request[r])',
         quiet' /\ v = Idle => Agree(config, promised)' /\ Written'
  PROVE  InStep'
<1>1. request'[r] = v /\ \A q \in Request \ {r} : request'[q] = request[q]
  BY MovesKeepRequests
<1>2. ASSUME quiet'
      PROVE  \A q \in Request : request'[q] # Idle' => q = r
  BY <1>1, <1>2 DEF Idle
<1>3. Idle' = Idle
  BY DEF Idle
<1>4. ASSUME quiet', phase' = "up"
      PROVE  /\ \A p, q \in Request : request'[q] # Idle' /\ request'[p] # Idle' => q = p
             /\ \A q \in Request : request'[q] # Idle' => Stage(request[q])'
             /\ (\A q \in Request : request'[q] = Idle') => Agree(config, promised)' /\ Written'
  <2>1. \A q \in Request : request'[q] # Idle' => Stage(request[q])'
    <3>1. SUFFICES ASSUME NEW q \in Request, request'[q] # Idle'
                   PROVE  Stage(request[q])'
      OBVIOUS
    <3>2. q = r
      BY <1>2, <1>4, <3>1
    <3>3. Stage(request[r])'
      BY <1>1, <1>3, <1>4, <3>1, <3>2
    <3> QED BY <3>2, <3>3
  <2> QED BY <1>1, <1>2, <1>3, <1>4, <2>1
<1>5. UpInStep'
  BY <1>4 DEF UpInStep
<1>6. DownInStep' /\ RefusedForReason'
  BY DEF DownInStep, RefusedForReason
<1> QED BY <1>5, <1>6 DEF InStep

\* What a request may count on.
LEMMA AloneInStage ==
  ASSUME AgreeInv, NEW r \in Request, NEW p, At(r, p), quiet
  PROVE  Stage(request[r]) /\ \A q \in Request \ {r} : request[q] = Idle
<1>1. phase = "up" /\ Holds(request[r])
  BY AtHolds DEF AgreeInv, TypeInv, IInv
<1>2. request[r] # Idle
  BY <1>1 DEF Holds, Idle
<1> QED BY <1>1, <1>2 DEF AgreeInv, InStep, UpInStep

\* Where nothing changes the copies agree as before.
LEMMA AgreeStays ==
  ASSUME UNCHANGED <<dbType, sources, config, promised>>
  PROVE  /\ Agree(config, promised) => Agree(config, promised)'
         /\ Promised(config, promised) => Promised(config, promised)'
BY DEF Agree, Promised, Resolved

LEMMA WrittenStays ==
  ASSUME UNCHANGED <<dbType, file, config>>, Written
  PROVE  Written'
BY DEF Written, Initialize

\* The first look of AddSource and UpdateSymbols changes none of the copies.
LEMMA AcceptInStep ==
  ASSUME AgreeInv, NEW r \in Request, NEW n \in Name, NEW symbols \in List,
         AddSource(r, n, symbols) \/ UpdateSymbols(r, n, symbols)
  PROVE  InStep'
<1>1. /\ phase = "up" /\ phase' = phase
      /\ quiet' = (quiet /\ \A q \in Request : request[q] = Idle)
      /\ UNCHANGED <<dbType, file, config, sources, promised>>
  BY DEF AddSource, UpdateSymbols, Accept, state
<1>2. ASSUME quiet'
      PROVE  Agree(config, promised) /\ Written
  BY <1>1, <1>2 DEF AgreeInv, InStep, UpInStep
<1>3. ASSUME quiet'
      PROVE  Agree(config, promised)' /\ Written'
  BY <1>1, <1>2, <1>3, AgreeStays, WrittenStays
<1>4. CASE AddSource(r, n, symbols)
  <2> DEFINE v == Busy("add", "insert", n, symbols, 0)
  <2>1. Moves(r, v)
    BY <1>4, NewRequest DEF AddSource, Accept, Moves, AgreeInv
  <2>2. request'[r] = v
    BY <2>1, MovesKeepRequests DEF AgreeInv
  <2>3. v.pc = "insert"
    BY DEF Busy
  <2>4. quiet' => Stage(request[r])'
    BY <1>3, <2>2, <2>3 DEF Stage
  <2>5. v # Idle
    BY DEF Busy, Idle
  <2> HIDE DEF v
  <2> QED BY <1>1, <2>1, <2>4, <2>5, MovesInStep DEF AgreeInv
<1>5. CASE UpdateSymbols(r, n, symbols)
  <2> DEFINE v == Busy("update", "apply", n, symbols, sources[n].id)
  <2>1. Moves(r, v)
    BY <1>5, NewRequest DEF UpdateSymbols, Accept, Moves, AgreeInv
  <2>2. request'[r] = v
    BY <2>1, MovesKeepRequests DEF AgreeInv
  <2>3. v.pc = "apply" /\ v.name = n /\ v.id = sources[n].id
    BY DEF Busy
  <2>4. n \in DOMAIN sources'
    BY <1>1, <1>5 DEF UpdateSymbols
  <2>5. quiet' => Stage(request[r])'
    BY <1>1, <1>3, <2>2, <2>3, <2>4 DEF Stage
  <2>6. v # Idle
    BY DEF Busy, Idle
  <2> HIDE DEF v
  <2> QED BY <1>1, <2>1, <2>5, <2>6, MovesInStep DEF AgreeInv
<1> QED BY <1>4, <1>5

\* RemoveSource goes ahead of the configuration at once.
LEMMA RemoveInStep ==
  ASSUME AgreeInv, NEW r \in Request, NEW n \in Name, RemoveSource(r, n)
  PROVE  InStep'
<1> DEFINE v == Busy("remove", "read", n, None, 0)
<1>1. /\ phase = "up" /\ phase' = phase
      /\ quiet' = (quiet /\ \A q \in Request : request[q] = Idle)
      /\ UNCHANGED <<dbType, file, config, promised>>
      /\ sources' = [m \in DOMAIN sources \ {n} |-> sources[m]]
  BY DEF RemoveSource, Accept, Restrict
<1>2. Moves(r, v)
  BY NewRequest DEF RemoveSource, Accept, Moves, AgreeInv
<1>3. request'[r] = v
  BY <1>2, MovesKeepRequests DEF AgreeInv
<1>4. v.pc = "read" /\ v.name = n /\ v.op = "remove" /\ v # Idle
  BY DEF Busy, Idle
<1> HIDE DEF v
<1>5. ASSUME quiet'
      PROVE  Stage(request[r])'
  <2>1. Agree(config, promised)
    BY <1>1, <1>5 DEF AgreeInv, InStep, UpInStep
  <2>2. Promised(config, promised)'
    BY <1>1, <2>1 DEF Agree, Promised, Resolved
  <2>3. DOMAIN sources' = DOMAIN sources \ {n} /\ \A m \in DOMAIN sources' : sources'[m] = sources[m]
    BY <1>1
  <2>4. \A m \in DOMAIN sources' : Entry(m, sources'[m].symbols) \in ToSet(config')
    BY <1>1, <2>1, <2>3 DEF Agree
  <2>5. Yahoo # n => (Yahoo \in DOMAIN sources' <=> Yahoo \in Names(config'))
    BY <1>1, <2>1, <2>3 DEF Agree
  <2>6. Ahead(request[r])'
    BY <1>3, <1>4, <2>2, <2>3, <2>4, <2>5 DEF Ahead
  <2> QED BY <1>3, <1>4, <2>6 DEF Stage
<1> QED BY <1>1, <1>2, <1>4, <1>5, MovesInStep DEF AgreeInv

\* So do the other two when they reach the manager, and a second AddSource ends.
LEMMA InsertInStep ==
  ASSUME AgreeInv, NEW r \in Request, Insert(r)
  PROVE  InStep'
<1> DEFINE x == request[r]
           v == Going(x, "read", x.seen)
<1>1. /\ phase = "up" /\ At(r, "insert") /\ Holds(x) /\ Carries(x) /\ x.pc = "insert"
      /\ Goes(r, "read") => Moves(r, v)
  BY GoesWithWhatItHas DEF Insert, AgreeInv
<1>2. UNCHANGED <<dbType, file, config, phase, promised, quiet>>
  BY DEF Insert, history
<1>3. ASSUME quiet'
      PROVE  /\ Agree(config, promised) /\ Written
             /\ \A q \in Request \ {r} : request[q] = Idle
  BY <1>1, <1>2, <1>3, AloneInStage DEF Stage
<1>4. CASE x.name \notin DOMAIN sources
  <2>1. Moves(r, v) /\ Put(x.name, x.symbols)
    BY <1>1, <1>4 DEF Insert
  <2>2. request'[r] = v
    BY <2>1, MovesKeepRequests DEF AgreeInv
  <2>3. /\ v.pc = "read" /\ v.name = x.name /\ v.op = "add" /\ v.symbols = x.symbols /\ v # Idle
    BY <1>1 DEF Going, Idle, Holds
  <2>4. /\ DOMAIN sources' = DOMAIN sources \union {x.name}
        /\ sources'[x.name].symbols = x.symbols
        /\ \A m \in DOMAIN sources' \ {x.name} : sources'[m] = sources[m]
    BY <2>1 DEF Put
  <2> HIDE DEF v, x
  <2>5. ASSUME quiet'
        PROVE  Stage(request[r])'
    <3>1. Promised(config, promised)'
      BY <1>2, <1>3, <2>5 DEF Agree, Promised, Resolved
    <3>2. \A m \in DOMAIN sources' \ {x.name} : Entry(m, sources'[m].symbols) \in ToSet(config')
      BY <1>2, <1>3, <2>4, <2>5 DEF Agree
    <3>3. Yahoo # x.name => (Yahoo \in DOMAIN sources' <=> Yahoo \in Names(config'))
      BY <1>2, <1>3, <2>4, <2>5 DEF Agree
    <3>4. x.name = Yahoo => Yahoo \notin Names(config')
      BY <1>2, <1>3, <1>4, <2>5 DEF Agree
    <3>5. Ahead(request[r])'
      BY <2>2, <2>3, <2>4, <3>1, <3>2, <3>3, <3>4 DEF Ahead
    <3> QED BY <2>2, <2>3, <3>5 DEF Stage
  <2> QED BY <1>1, <1>2, <1>3, <2>1, <2>3, <2>5, MovesInStep DEF AgreeInv
<1>5. CASE x.name \in DOMAIN sources
  <2>1. UNCHANGED sources /\ Moves(r, Idle)
    BY <1>5 DEF Insert, Moves
  <2>2. quiet' => Agree(config, promised)' /\ Written'
    BY <1>2, <1>3, <2>1, AgreeStays, WrittenStays
  <2> QED BY <1>1, <1>2, <1>3, <2>1, <2>2, MovesInStep DEF AgreeInv
<1> QED BY <1>4, <1>5

LEMMA ApplyInStep ==
  ASSUME AgreeInv, NEW r \in Request, Apply(r)
  PROVE  InStep'
<1> DEFINE x == request[r]
           v == Going(x, "read", x.seen)
<1>1. /\ phase = "up" /\ At(r, "apply") /\ Holds(x) /\ Carries(x) /\ x.pc = "apply"
      /\ Moves(r, v)
  BY GoesWithWhatItHas DEF Apply, AgreeInv
<1>2. UNCHANGED <<dbType, file, config, phase, promised, quiet>>
  BY DEF Apply, history
<1>3. ASSUME quiet'
      PROVE  /\ Agree(config, promised)
             /\ x.name \in DOMAIN sources /\ sources[x.name].id = x.id
             /\ \A q \in Request \ {r} : request[q] = Idle
  BY <1>1, <1>2, <1>3, AloneInStage DEF Stage
<1>4. request'[r] = v
  BY <1>1, MovesKeepRequests DEF AgreeInv
<1>5. v.pc = "read" /\ v.name = x.name /\ v.op = "update" /\ v.symbols = x.symbols /\ v # Idle
  BY <1>1 DEF Going, Idle, Carries
<1>6. ASSUME quiet'
      PROVE  Stage(request[r])'
  <2>1. sources' = [sources EXCEPT ![x.name].symbols = x.symbols]
    BY <1>3, <1>6 DEF Apply
  <2>2. x.name \in DOMAIN sources
        /\ sources \in [DOMAIN sources -> [id : 1..objects, symbols : SUBSET Symbol]]
    BY <1>3, <1>6 DEF AgreeInv, TypeInv, SourceTypes
  <2> HIDE DEF v, x
  <2>3. /\ DOMAIN sources' = DOMAIN sources
        /\ sources'[x.name].symbols = x.symbols
        /\ \A m \in DOMAIN sources' \ {x.name} : sources'[m] = sources[m]
    BY <2>1, <2>2
  <2>4. Promised(config, promised)'
    BY <1>2, <1>3, <1>6 DEF Agree, Promised, Resolved
  <2>5. \A m \in DOMAIN sources' \ {x.name} : Entry(m, sources'[m].symbols) \in ToSet(config')
    BY <1>2, <1>3, <1>6, <2>3 DEF Agree
  <2>6. Yahoo \in DOMAIN sources' <=> Yahoo \in Names(config')
    BY <1>2, <1>3, <1>6, <2>3 DEF Agree
  <2>7. x.name \in Names(config')
    <3>1. Entry(x.name, sources[x.name].symbols) \in ToSet(config)
      BY <1>3, <1>6, <2>2 DEF Agree
    <3>2. config \in Configuration
      BY DEF AgreeInv, TypeInv, FileTypes
    <3> QED BY <1>2, <3>1, <3>2, NamesOfEntries
  <2>8. Ahead(request[r])'
    BY <1>4, <1>5, <2>2, <2>3, <2>4, <2>5, <2>6, <2>7 DEF Ahead
  <2> QED BY <1>4, <1>5, <2>8 DEF Stage
<1> HIDE DEF v
<1> QED BY <1>1, <1>2, <1>3, <1>5, <1>6, MovesInStep DEF AgreeInv

\* What the goroutine has read stays the configuration while it is alone.
LEMMA ReadInStep ==
  ASSUME AgreeInv, NEW r \in Request, Read(r)
  PROVE  InStep'
<1> DEFINE x == request[r]
           v == Going(x, "write", config)
<1>1. /\ phase = "up" /\ At(r, "read") /\ Holds(x) /\ x.pc = "read" /\ Moves(r, v)
  BY GoesWithWhatItHas DEF Read, AgreeInv
<1>2. UNCHANGED <<dbType, file, config, sources, phase, promised, quiet>>
  BY DEF Read, state, history
<1>3. ASSUME quiet'
      PROVE  Ahead(x) /\ \A q \in Request \ {r} : request[q] = Idle
  BY <1>1, <1>2, <1>3, AloneInStage DEF Stage
<1>4. request'[r] = v
  BY <1>1, MovesKeepRequests DEF AgreeInv
<1>5. /\ v.pc = "write" /\ v.name = x.name /\ v.op = x.op /\ v.symbols = x.symbols
      /\ v.seen = config /\ v # Idle
  BY <1>1 DEF Going, Idle, Holds
<1> HIDE DEF v
<1>6. ASSUME quiet'
      PROVE  Stage(request[r])'
  <2>1. Promised(config, promised)'
    BY <1>2, <1>3, <1>6, AgreeStays DEF Ahead
  <2>2. Ahead(request[r])'
    BY <1>2, <1>3, <1>4, <1>5, <1>6, <2>1 DEF Ahead
  <2> QED BY <1>2, <1>4, <1>5, <2>2 DEF Stage
<1> QED BY <1>1, <1>2, <1>3, <1>5, <1>6, MovesInStep DEF AgreeInv

\* The update finds its entry in the list as it is, so it neither panics nor gives up.
LEMMA WriteInStep ==
  ASSUME AgreeInv, NEW r \in Request, Write(r)
  PROVE  InStep'
<1> DEFINE x == request[r]
           i == IndexOf(x.seen, x.name)
           v == Going(x, "save", x.seen)
<1>1. /\ phase = "up" /\ At(r, "write") /\ Holds(x) /\ Carries(x) /\ x.pc = "write"
      /\ Goes(r, "save") => Moves(r, v)
  BY GoesWithWhatItHas DEF Write, AgreeInv
<1>2. /\ UNCHANGED <<dbType, file, sources, quiet>>
      /\ phase' = IF x.op = "update" /\ i > Len(config) THEN "failed" ELSE phase
      /\ IF x.op = "update" /\ i = 0 THEN Answers(r) ELSE Goes(r, "save") /\ promised' = promised
  BY DEF Write
<1>3. ASSUME quiet'
      PROVE  /\ Ahead(x) /\ x.seen = config
             /\ \A q \in Request \ {r} : request[q] = Idle
  BY <1>1, <1>2, <1>3, AloneInStage DEF Stage
<1>4. ASSUME quiet'
      PROVE  /\ Agree(config', [promised EXCEPT ![x.name] = x.symbols])
             /\ x.op = "update" => i \in DOMAIN config
  BY <1>3, <1>4, WriteAgrees
<1>5. ASSUME quiet'
      PROVE  phase' = "up" /\ Moves(r, v) /\ promised' = promised
  <2>1. Len(config) \in Nat /\ DOMAIN config = 1..Len(config)
    BY ConfigurationFacts DEF AgreeInv, TypeInv, FileTypes
  <2>2. x.op = "update" => i # 0 /\ ~(i > Len(config))
    BY <1>4, <1>5, <2>1
  <2> QED BY <1>1, <1>2, <2>2
<1>6. v.pc = "save" /\ v.name = x.name /\ v.symbols = x.symbols /\ v # Idle
  BY <1>1 DEF Going, Idle, Holds
<1>7. ASSUME quiet'
      PROVE  Stage(request[r])'
  <2>1. request'[r] = v
    BY <1>5, <1>7, MovesKeepRequests DEF AgreeInv
  <2> HIDE DEF v, x
  <2>2. (Agree(config, [promised EXCEPT ![request[r].name] = request[r].symbols]))'
    BY <1>2, <1>4, <1>5, <1>6, <1>7, <2>1 DEF Agree, Promised, Resolved
  <2> QED BY <1>6, <2>1, <2>2 DEF Stage
<1>8. phase' # "down"
  BY <1>1, <1>2
<1>9. CASE quiet'
  <2> HIDE DEF v
  <2> QED BY <1>3, <1>5, <1>6, <1>7, <1>8, <1>9, MovesInStep DEF AgreeInv
<1>10. CASE ~quiet'
  BY <1>8, <1>10 DEF InStep, UpInStep, DownInStep, RefusedForReason
<1> QED BY <1>9, <1>10

\* The file holds nothing until the configuration has been written to it.
LEMMA SaveInStep ==
  ASSUME AgreeInv, NEW r \in Request, Save(r)
  PROVE  InStep'
<1> DEFINE x == request[r]
           v == Going(x, "file", config)
<1>1. /\ phase = "up" /\ At(r, "save") /\ Holds(x) /\ x.pc = "save" /\ Moves(r, v)
  BY GoesWithWhatItHas DEF Save, AgreeInv
<1>2. /\ UNCHANGED <<dbType, config, sources, phase, promised, quiet>>
      /\ file' = Garbage
  BY DEF Save, history
<1>3. ASSUME quiet'
      PROVE  /\ Agree(config, [promised EXCEPT ![x.name] = x.symbols])
             /\ \A q \in Request \ {r} : request[q] = Idle
  BY <1>1, <1>2, <1>3, AloneInStage DEF Stage
<1>4. request'[r] = v
  BY <1>1, MovesKeepRequests DEF AgreeInv
<1>5. v.pc = "file" /\ v.name = x.name /\ v.symbols = x.symbols /\ v.seen = config /\ v # Idle
  BY <1>1 DEF Going, Idle, Holds
<1> HIDE DEF v
<1>6. ASSUME quiet'
      PROVE  Stage(request[r])'
  <2> HIDE DEF x
  <2>1. (Agree(config, [promised EXCEPT ![request[r].name] = request[r].symbols]))'
    BY <1>2, <1>3, <1>4, <1>5, <1>6 DEF Agree, Promised, Resolved
  <2> QED BY <1>2, <1>4, <1>5, <2>1 DEF Stage
<1> QED BY <1>1, <1>2, <1>3, <1>5, <1>6, MovesInStep DEF AgreeInv

\* The file catches up with the configuration, and the client with both.
LEMMA WriteFileInStep ==
  ASSUME AgreeInv, NEW r \in Request, NEW failing \in BOOLEAN, WriteFile(r, failing)
  PROVE  InStep'
<1> DEFINE x == request[r]
<1>1. /\ phase = "up" /\ At(r, "file") /\ Holds(x) /\ Carries(x) /\ x.pc = "file"
  BY GoesWithWhatItHas DEF WriteFile, AgreeInv
<1>2. /\ UNCHANGED <<dbType, config, sources, phase>>
      /\ quiet' = (quiet /\ ~failing)
      /\ request' = [request EXCEPT ![r] = Idle]
      /\ promised' = [promised EXCEPT ![x.name] = x.symbols]
      /\ file' \in IF failing THEN {file}
                   ELSE {x.seen} \union (IF file \in {Garbage, x.seen} THEN {} ELSE {Garbage})
  BY DEF WriteFile, Answers
<1>3. ASSUME quiet'
      PROVE  /\ Agree(config, [promised EXCEPT ![x.name] = x.symbols])
             /\ file = Garbage /\ x.seen = config
             /\ \A q \in Request \ {r} : request[q] = Idle
  BY <1>1, <1>2, <1>3, AloneInStage DEF Stage
<1>4. config \in Configuration /\ config # Garbage
  BY FileAssumption DEF AgreeInv, TypeInv, FileTypes
<1> HIDE DEF x
<1>5. ASSUME quiet'
      PROVE  Agree(config, promised)' /\ Written'
  <2>1. file' = config
    BY <1>2, <1>3, <1>5
  <2>2. Agree(config, promised)'
    BY <1>2, <1>3, <1>5 DEF Agree, Promised, Resolved
  <2>3. Resolved(config)
    BY <1>3, <1>5 DEF Agree, Promised
  <2>4. Initialize(config, {}) = config
    BY <1>4, <2>3, Initialized
  <2>5. Written'
    BY <1>2, <1>4, <2>1, <2>4 DEF Written, Initialize
  <2> QED BY <2>2, <2>5
<1>6. Moves(r, Idle)
  BY <1>2 DEF Moves
<1> QED BY <1>1, <1>2, <1>3, <1>5, <1>6, MovesInStep DEF AgreeInv

\* What was acknowledged is in the file when the process ends.
LEMMA RestartInStep ==
  ASSUME AgreeInv, Restart
  PROVE  InStep'
<1>1. /\ phase = "up" /\ phase' = "down"
      /\ restarts \in Nat /\ restarts' = restarts + 1
      /\ quiet' = (quiet /\ \A r \in Request : request[r] = Idle)
      /\ UNCHANGED <<dbType, file, promised>>
  BY DEF Restart, AgreeInv, TypeInv, CountTypes
<1>2. ASSUME quiet'
      PROVE  file' # Garbage' /\ (Promised(Initialize(file, {}), promised))'
  <2>1. Agree(config, promised) /\ Written
    BY <1>1, <1>2 DEF AgreeInv, InStep, UpInStep
  <2>2. file # Garbage /\ Promised(Initialize(file, {}), promised)
    BY <2>1 DEF Agree, Written
  <2> QED BY <1>1, <2>2 DEF Promised, Resolved, Initialize
<1>3. DownInStep'
  BY <1>1, <1>2 DEF DownInStep
<1>4. UpInStep' /\ RefusedForReason'
  BY <1>1 DEF UpInStep, RefusedForReason
<1> QED BY <1>3, <1>4 DEF InStep

\* The first start promises what the file lists, its references resolved.
LEMMA FirstPromises ==
  ASSUME AgreeInv, phase = "down", restarts = 0, file # Garbage,
         NEW conf \in Configuration, conf = Initialize(file, {}),
         NEW p, p = [n \in Name |-> IF \E e \in ToSet(conf) : e.name = n
                                     THEN (CHOOSE e \in ToSet(conf) : e.name = n).symbols
                                     ELSE None]
  PROVE  Promised(conf, p)
<1>1. file \in Configuration /\ file \in FirstFile
  BY DEF AgreeInv, TypeInv, FileTypes, InStep, DownInStep
<1>2. /\ Resolved(conf) /\ DOMAIN conf = DOMAIN file
      /\ \A i \in DOMAIN conf : conf[i].name = file[i].name
  BY <1>1, Initialized
<1>3. \A e \in ToSet(conf) : e.symbols # None
  BY NamesOfEntries
<1>4. \A n \in Name : p[n] = IF \E e \in ToSet(conf) : e.name = n
                             THEN (CHOOSE e \in ToSet(conf) : e.name = n).symbols ELSE None
  OBVIOUS
<1>5. ASSUME NEW n \in Name
      PROVE  n \in Names(conf) <=> p[n] # None
  <2>1. n \in Names(conf) <=> \E e \in ToSet(conf) : e.name = n
    BY DEF Names
  <2>2. CASE n \in Names(conf)
    <3>1. (CHOOSE e \in ToSet(conf) : e.name = n) \in ToSet(conf)
      BY <2>1, <2>2
    <3> QED BY <1>3, <1>4, <2>1, <2>2, <3>1
  <2>3. CASE n \notin Names(conf)
    BY <1>4, <2>1, <2>3
  <2> QED BY <2>2, <2>3
<1>6. ASSUME \A first \in FirstFile \ {Garbage} : Once(first, Yahoo)
      PROVE  /\ Once(conf, Yahoo)
             /\ \A e \in ToSet(conf) : e.name = Yahoo => e.symbols = p[Yahoo]
  <2>1. Once(conf, Yahoo)
    BY <1>1, <1>2, <1>6 DEF Once
  <2>2. ASSUME NEW e \in ToSet(conf), e.name = Yahoo
        PROVE  e.symbols = p[Yahoo]
    <3> DEFINE c == CHOOSE c \in ToSet(conf) : c.name = Yahoo
    <3>1. c \in ToSet(conf) /\ c.name = Yahoo
      BY <2>2
    <3>2. p[Yahoo] = c.symbols
      BY <1>4, <2>2, ControlAssumption
    <3> HIDE DEF c
    <3>3. c = e
      BY <2>1, <2>2, <3>1 DEF ToSet, Once
    <3> QED BY <3>2, <3>3
  <2> QED BY <2>1, <2>2
<1> QED BY <1>2, <1>5, <1>6 DEF Promised

\* A start that succeeds has the source named yahoo, and one that fails has a reason.
LEMMA SetupAgrees ==
  ASSUME NEW conf \in Configuration, NEW p, Promised(conf, p),
         NEW made, made = SetupDataSources(conf)
  PROVE  /\ \A n \in DOMAIN made : Entry(n, made[n].symbols) \in ToSet(conf)
         /\ made # <<>> => Yahoo \in DOMAIN made /\ Yahoo \in Names(conf)
         /\ made = <<>> => p[Yahoo] = None \/ \E e \in ToSet(conf) : e.symbols = {}
<1>1. /\ DOMAIN made = {n \in Name : \E i \in DOMAIN conf : conf[i].name = n /\ IsSource(conf[i])}
      /\ \A n \in DOMAIN made : \E i \in DOMAIN conf :
           made[n] = [id |-> i, symbols |-> conf[i].symbols] /\ conf[i].name = n
      /\ made = [n \in DOMAIN made |-> made[n]]
  BY SetupMakesEntries
<1>2. \A i \in DOMAIN conf : conf[i] \in ToSet(conf) /\ conf[i] = Entry(conf[i].name, conf[i].symbols)
  BY NamesOfEntries DEF ToSet
<1>3. ASSUME NEW n \in DOMAIN made
      PROVE  Entry(n, made[n].symbols) \in ToSet(conf)
  <2>1. PICK i \in DOMAIN conf :
          made[n] = [id |-> i, symbols |-> conf[i].symbols] /\ conf[i].name = n
    BY <1>1
  <2>2. conf[i] = Entry(n, made[n].symbols)
    BY <1>2, <2>1
  <2> QED BY <1>2, <2>2
<1>4. DOMAIN made \subseteq {Yahoo}
  BY <1>1 DEF IsSource
<1>5. made # <<>> => DOMAIN made # {}
  <2>1. ASSUME DOMAIN made = {} PROVE made = <<>>
    <3>1. made \in [{} -> {}]
      BY <1>1, <2>1
    <3>2. <<>> \in [{} -> {}]
      OBVIOUS
    <3> QED BY <3>1, <3>2
  <2> QED BY <2>1
<1>6. made # <<>> => Yahoo \in DOMAIN made /\ Yahoo \in Names(conf)
  BY <1>3, <1>4, <1>5, NamesOfEntries
<1>7. ASSUME made = <<>>, p[Yahoo] # None
      PROVE  \E e \in ToSet(conf) : e.symbols = {}
  <2>1. Yahoo \in Name /\ Yahoo \in Names(conf)
    BY <1>7, ControlAssumption DEF Promised
  <2>2. PICK i \in DOMAIN conf : conf[i].name = Yahoo
    BY <2>1, NamesOfEntries
  <2>3. DOMAIN made = {}
    BY <1>7
  <2>4. conf[i].symbols = {}
    BY <1>1, <2>1, <2>2, <2>3 DEF IsSource
  <2> QED BY <1>2, <2>4
<1> QED BY <1>3, <1>6, <1>7

\* A start brings the copies into step from the file.
LEMMA StartInStep ==
  ASSUME AgreeInv, NEW failing \in SUBSET (1..2), Start(failing)
  PROVE  InStep'
<1> DEFINE conf == Initialize(file, {})
           First(c) == [n \in Name |-> IF \E e \in ToSet(c) : e.name = n
                                     THEN (CHOOSE e \in ToSet(c) : e.name = n).symbols
                                     ELSE None]
<1>1. /\ phase = "down" /\ phase' \in {"up", "failed"}
      /\ quiet' = (quiet /\ failing = {})
      /\ UNCHANGED <<dbType, file, request, restarts>>
      /\ promised' = IF restarts > 0 THEN promised ELSE First(config')
      /\ phase' = IF Validate(file) /\ sources' # <<>> THEN "up" ELSE "failed"
  BY DEF Start
<1>2. /\ restarts \in Nat
      /\ \A r \in Request : request[r] = Idle
      /\ file \in {Garbage} \union Configuration
      /\ config = <<>>
      /\ quiet /\ restarts > 0 => file # Garbage /\ Promised(conf, promised)
  BY <1>1 DEF AgreeInv, TypeInv, IInv, DownIsIdle, CountTypes, FileTypes, InStep, DownInStep
<1>3. DownInStep'
  BY <1>1 DEF DownInStep
<1>4. quiet' => quiet /\ failing = {}
  BY <1>1
<1>5. ASSUME quiet', file # Garbage
      PROVE  /\ conf \in Configuration /\ (ToSet(conf) = {} <=> file = <<>>)
             /\ restarts > 0 => Promised(conf, promised)
             /\ ~(restarts > 0) => Promised(conf, First(conf))
  <2>1. file \in Configuration
    BY <1>2, <1>5
  <2>2. conf \in Configuration /\ DOMAIN conf = DOMAIN file
    BY <2>1, Initialized
  <2>3. /\ Len(file) \in Nat /\ DOMAIN file = 1..Len(file)
    BY <2>1, ConfigurationFacts
  <2> HIDE DEF conf
  <2>4. ToSet(conf) = {} <=> file = <<>>
    <3>1. file = <<>> <=> Len(file) = 0
      BY <2>1, EmptySeq DEF Configuration
    <3>2. CASE Len(file) = 0
      BY <2>2, <2>3, <3>1, <3>2 DEF ToSet
    <3>3. CASE Len(file) # 0
      <4>1. 1 \in DOMAIN conf
        BY <2>2, <2>3, <3>3
      <4>2. conf[1] \in ToSet(conf)
        BY <4>1 DEF ToSet
      <4> QED BY <3>1, <3>3, <4>2
    <3> QED BY <3>2, <3>3
  <2>5. CASE restarts > 0
    BY <1>2, <1>5, <1>4, <2>2, <2>4, <2>5 DEF conf
  <2>6. CASE ~(restarts > 0)
    <3>1. restarts = 0
      BY <1>2, <2>6
    <3>2. Promised(conf, First(conf))
      BY <1>1, <1>5, <2>2, <3>1, FirstPromises DEF conf
    <3> HIDE DEF First
    <3> QED BY <2>2, <2>4, <2>6, <3>2
  <2> QED BY <2>5, <2>6
<1>6. ASSUME quiet', Validate(file)
      PROVE  InStep'
  <2>1. file # Garbage /\ failing = {}
    BY <1>1, <1>6 DEF Validate
  <2>2. /\ config' = conf /\ sources' = SetupDataSources(conf)
        /\ promised' = IF restarts > 0 THEN promised ELSE First(conf)
    BY <1>1, <1>6, <2>1 DEF Start
  <2> HIDE DEF conf, First
  <2>3. conf \in Configuration /\ Promised(conf, promised')
    BY <1>5, <1>6, <2>1, <2>2
  <2>4. /\ \A n \in DOMAIN sources' : Entry(n, sources'[n].symbols) \in ToSet(conf)
        /\ sources' # <<>> => Yahoo \in DOMAIN sources' /\ Yahoo \in Names(conf)
        /\ sources' = <<>> => promised'[Yahoo] = None \/ \E e \in ToSet(conf) : e.symbols = {}
    BY <2>2, <2>3, SetupAgrees
  <2>5. Written'
    BY <1>1, <2>1, <2>2 DEF Written, Initialize, conf
  <2>6. ASSUME phase' = "up"
        PROVE  Agree(config, promised)'
    <3>1. Yahoo \in DOMAIN sources' /\ Yahoo \in Names(conf)
      BY <1>1, <2>4, <2>6
    <3>2. Promised(config, promised)'
      BY <1>1, <2>2, <2>3 DEF Promised, Resolved
    <3> QED BY <2>2, <2>4, <3>1, <3>2 DEF Agree
  <2>7. UpInStep'
    BY <1>1, <1>2, <2>5, <2>6 DEF UpInStep, Idle
  <2>8. RefusedForReason'
    BY <1>1, <1>6, <2>2, <2>4 DEF RefusedForReason
  <2> QED BY <1>3, <2>7, <2>8 DEF InStep
<1>7. ASSUME quiet', ~Validate(file)
      PROVE  InStep'
  <2>1. phase' = "failed" /\ config' = <<>>
    BY <1>1, <1>2, <1>7 DEF Start
  <2>2. ToSet(<<>>) = {}
    BY DEF ToSet
  <2>3. Yahoo \in Name
    BY ControlAssumption
  <2>4. \/ promised'[Yahoo] = None
        \/ \E e \in ToSet(file) : e.symbols = {}
    <3>1. CASE restarts = 0
      BY <1>1, <2>1, <2>2, <2>3, <3>1
    <3>2. CASE restarts # 0 /\ file = <<>>
      <4>1. restarts > 0 /\ file # Garbage
        BY <1>2, <1>7, <1>4, <3>2
      <4>2. promised' = promised
        BY <1>1, <4>1
      <4> HIDE DEF conf, First
      <4>3. ToSet(conf) = {} /\ Promised(conf, promised)
        BY <1>1, <1>2, <1>5, <1>7, <3>2, <4>1
      <4>4. Yahoo \notin Names(conf)
        BY <4>3 DEF Names
      <4> QED BY <2>3, <4>2, <4>3, <4>4 DEF Promised
    <3>3. CASE restarts # 0 /\ file # <<>>
      <4>1. file # Garbage
        BY <1>2, <1>7, <1>4, <3>3
      <4> QED BY <1>7, <3>3, <4>1 DEF Validate
    <3> QED BY <3>1, <3>2, <3>3
  <2>5. UpInStep'
    BY <2>1 DEF UpInStep
  <2>6. RefusedForReason'
    BY <1>1, <2>4 DEF RefusedForReason
  <2> QED BY <1>3, <2>5, <2>6 DEF InStep
<1>8. CASE ~quiet'
  BY <1>3, <1>8 DEF InStep, UpInStep, RefusedForReason
<1> QED BY <1>6, <1>7, <1>8

------------------------------------------------------------------------------

\* The invariant of the copies holds at the start and is inductive.
LEMMA InStepInit == Init => AgreeInv
<1> SUFFICES ASSUME Init PROVE AgreeInv
  OBVIOUS
<1>1. TypeInv
  BY TypeInit
<1>2. InStep
  BY DEF Init, InStep, UpInStep, DownInStep, RefusedForReason
<1> QED BY <1>1, <1>2 DEF AgreeInv

LEMMA InStepStep == AgreeInv /\ [Next]_vars => AgreeInv'
<1>1. SUFFICES ASSUME AgreeInv, [Next]_vars PROVE AgreeInv'
  OBVIOUS
<1>2. TypeInv'
  BY <1>1, TypeStep DEF AgreeInv
<1>3. ASSUME NEW failing \in SUBSET (1..2), Start(failing) PROVE InStep'
  BY <1>1, <1>3, StartInStep
<1>4. ASSUME Restart PROVE InStep'
  BY <1>1, <1>4, RestartInStep
<1>5. ASSUME NEW r \in Request, Handler(r) PROVE InStep'
  <2>1. ASSUME NEW n \in Name, NEW symbols \in List,
               AddSource(r, n, symbols) \/ UpdateSymbols(r, n, symbols)
        PROVE  InStep'
    BY <1>1, <2>1, AcceptInStep
  <2>2. ASSUME NEW n \in Name, RemoveSource(r, n) PROVE InStep'
    BY <1>1, <2>2, RemoveInStep
  <2>3. ASSUME NEW failing \in BOOLEAN, WriteFile(r, failing) PROVE InStep'
    BY <1>1, <2>3, WriteFileInStep
  <2>4. Insert(r) \/ Apply(r) \/ Read(r) \/ Write(r) \/ Save(r) => InStep'
    BY <1>1, InsertInStep, ApplyInStep, ReadInStep, WriteInStep, SaveInStep
  <2> QED BY <1>5, <2>1, <2>2, <2>3, <2>4 DEF Handler
<1>6. ASSUME UNCHANGED vars PROVE InStep'
  <2>1. UNCHANGED <<dbType, file, config, sources, phase, request, restarts, promised, quiet>>
    BY <1>6 DEF vars, state, counts, history
  <2>2. UpInStep'
    BY <1>1, <2>1 DEF AgreeInv, InStep, UpInStep, Idle, Stage, Ahead, Agree, Written,
                      Promised, Resolved, Initialize
  <2>3. DownInStep' /\ RefusedForReason'
    BY <1>1, <2>1 DEF AgreeInv, InStep, DownInStep, RefusedForReason, Promised, Resolved, Initialize
  <2> QED BY <2>2, <2>3 DEF InStep
<1> QED BY <1>1, <1>2, <1>3, <1>4, <1>5, <1>6 DEF Next, AgreeInv

\* Requests that do not overlap, and writes that succeed, keep the manager's map, the
\* configuration in memory and the file in step: every source the manager has is in the
\* configuration with its list, the configuration names what clients were promised, and
\* the file holds what the configuration does.
THEOREM ConfigurationFollows == Spec => []ConfigFollowsManager
<1>1. AgreeInv => ConfigFollowsManager
  BY DEF AgreeInv, InStep, UpInStep, Agree, Promised, Written, ConfigFollowsManager, AtRest
<1> QED BY <1>1, InStepInit, InStepStep, PTL DEF Spec

\* A restart brings back the list last acknowledged for the source named yahoo, and a
\* start is refused only when that source was removed or a list left empty.
THEOREM AcknowledgementsSurvive == Spec => []AcknowledgedSurvives
<1>1. AgreeInv => AcknowledgedSurvives
  <2> SUFFICES ASSUME AgreeInv, quiet PROVE AcknowledgedSurvives
    BY DEF AcknowledgedSurvives
  <2>1. ASSUME AtRest
        PROVE  promised[Yahoo] = IF Yahoo \in DOMAIN sources THEN sources[Yahoo].symbols ELSE None
    <3>1. Agree(config, promised)
      BY <2>1 DEF AgreeInv, InStep, UpInStep, AtRest
    <3>2. \A first \in FirstFile \ {Garbage} : Once(first, Yahoo)
      BY UniqueAssumption DEF Once
    <3>3. CASE Yahoo \in DOMAIN sources
      <4>1. Entry(Yahoo, sources[Yahoo].symbols) \in ToSet(config)
        BY <3>1, <3>3 DEF Agree
      <4>2. /\ Entry(Yahoo, sources[Yahoo].symbols).name = Yahoo
            /\ Entry(Yahoo, sources[Yahoo].symbols).symbols = sources[Yahoo].symbols
        BY DEF Entry
      <4> QED BY <3>1, <3>2, <3>3, <4>1, <4>2 DEF Agree, Promised
    <3>4. CASE Yahoo \notin DOMAIN sources
      BY <3>1, <3>4, ControlAssumption DEF Agree, Promised
    <3> QED BY <3>3, <3>4
  <2>2. phase = "failed" => \/ promised[Yahoo] = None
                            \/ \E e \in ToSet(file) \union ToSet(config) : e.symbols = {}
    BY DEF AgreeInv, InStep, RefusedForReason
  <2> QED BY <2>1, <2>2 DEF AcknowledgedSurvives
<1> QED BY <1>1, InStepInit, InStepStep, PTL DEF Spec
==============================================================================
