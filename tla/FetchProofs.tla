----------------------------- MODULE FetchProofs -----------------------------
(***************************************************************************)
(* Theorems about Fetch, for every set of sources and symbols, every list  *)
(* of proxies, every limit and every set of answers.  The second part is   *)
(* about what is fetched: the order of the rows, and the sums of series    *)
(* and errors.                                                             *)
(***************************************************************************)
EXTENDS Fetch, FiniteSetTheorems, SequenceTheorems, TLAPS

Busy == {"send", "rotate", "create", "publish", "refresh", "give up"}

Ends == {"done", "failed"}

State == [pc : {"off", "queued"} \union Ends \union Busy,
          attempt : 0..MaxRetries, rotations : 0..2, built : {Direct} \union Proxy]

Types ==
  /\ proxies \in Seq(Proxy)
  /\ index \in 0..(IF proxies = <<>> THEN 0 ELSE Len(proxies) - 1)
  /\ accepted \in AcceptedLists \union {<<>>}
  /\ client \in {Direct} \union Proxy
  /\ direct \subseteq {"quotes", "proxies"}
  /\ worker \in [Worker -> State]
  /\ DOMAIN sem = Source

\* A worker on its way to a new client has a rotation to do.
RotationsLeft ==
  \A w \in Worker : worker[w].pc \in {"rotate", "create", "publish"} =>
    worker[w].rotations \in 1..2

\* The slots of a batch are those of the workers that hold one.
Holders(s) == {i \in Place : worker[<<s, i>>].pc \in Busy}

SlotsCounted ==
  \A s \in Source : IsFiniteSet(Holders(s)) /\ sem[s] = Cardinality(Holders(s))

\* Workers work for a running batch, and batches run during a fetch.
WorkersHaveBatch ==
  /\ \A s \in Source : \A i \in Place :
       worker[<<s, i>>].pc \in {"queued"} \union Busy =>
         i \in DOMAIN list[s] /\ batch[s] = "running"
  /\ \A s \in Source : batch[s] = "running" => fetching
  /\ batch \in [Source -> {"off", "running", "ok", "failed"}]

\* With accepted proxies that are URLs the list has such proxies for ever, and no
\* client that is built, published or not, goes without one.
Usable == Proxy \ Unparsable

AllUsable == accepted # <<>> /\ ToSet(accepted) \intersect Unparsable = {}

AlwaysProxied ==
  AllUsable =>
    /\ proxies # <<>> /\ proxies \in Seq(Usable)
    /\ client # Direct /\ "quotes" \notin direct
    /\ \A w \in Worker : worker[w].pc = "publish" => worker[w].built # Direct

IInv == Types /\ RotationsLeft /\ SlotsCounted /\ WorkersHaveBatch /\ AlwaysProxied

------------------------------------------------------------------------------
(* The list of proxies. *)

\* Scraped proxies are proxies, and URLs.
LEMMA ScrapedUsable == Seq(Scraped) \subseteq Seq(Usable) /\ Seq(Usable) \subseteq Seq(Proxy)
<1>1. Scraped \subseteq Usable /\ Usable \subseteq Proxy
  <2>1. Scraped \intersect Unparsable = {}
    BY FetchAssumption
  <2> QED BY <2>1 DEF Usable, Proxy
<1>2. ASSUME NEW S, NEW T, S \subseteq T, NEW q \in Seq(S)
      PROVE  q \in Seq(T)
  <2>1. Len(q) \in Nat /\ q \in [1..Len(q) -> S]
    BY LenProperties
  <2>2. q \in [1..Len(q) -> T]
    BY <1>2, <2>1
  <2> QED BY <2>1, <2>2, SeqDef
<1> QED BY <1>1, <1>2

\* A page lists finitely many proxies.
LEMMA PagesListProxies ==
  ASSUME NEW found \in Pages
  PROVE  found \in Seq(Scraped)
<1>1. PICK page \in SUBSET Scraped : found \in SetToSeqs(page)
  BY DEF Pages
<1>2. found \in [1..Cardinality(page) -> page]
  BY <1>1 DEF SetToSeqs
<1>3. Cardinality(page) \in Nat
  BY <1>1, FetchAssumption, FS_Subset, FS_CardinalityType
<1>4. found \in [1..Cardinality(page) -> Scraped]
  BY <1>1, <1>2
<1> QED BY <1>3, <1>4, SeqDef

\* A refresh leaves the list, or one of scraped proxies that is not empty, and an
\* index within it.
LEMMA RefreshKeeps ==
  ASSUME Types, NEW found \in Seq(Scraped), RefreshProxies(found)
  PROVE  /\ proxies' = proxies \/ (proxies' \in Seq(Scraped) /\ proxies' # <<>>)
         /\ index' \in 0..(IF proxies' = <<>> THEN 0 ELSE Len(proxies') - 1)
<1>1. CASE found = <<>>
  BY <1>1 DEF RefreshProxies, Install, Types
<1>2. CASE found # <<>>
  <2> DEFINE n == Min({Len(found), ProxyLimit})
  <2>1. Len(found) \in Nat /\ Len(found) > 0 /\ ProxyLimit \in Nat \ {0}
    BY <1>2, LenProperties, EmptySeq, FetchAssumption
  <2>2. n \in 1..Len(found)
    <3>1. \E x \in {Len(found), ProxyLimit} : \A y \in {Len(found), ProxyLimit} : x <= y
      BY <2>1
    <3>2. n \in {Len(found), ProxyLimit} /\ n <= Len(found) /\ n <= ProxyLimit
      BY <3>1 DEF Min
    <3> QED BY <2>1, <3>2
  <2>3. proxies' = SubSeq(found, 1, n) /\ index' = 0
    BY <1>2 DEF RefreshProxies, Install
  <2> HIDE DEF n
  <2>4. 1 \in 1..(Len(found) + 1) /\ n \in 0..Len(found)
    BY <2>1, <2>2
  <2>5. SubSeq(found, 1, n) \in Seq(Scraped) /\ Len(SubSeq(found, 1, n)) = n
    BY <2>1, <2>2, <2>4, SubSeqProperties
  <2>6. SubSeq(found, 1, n) # <<>>
    BY <2>1, <2>2, <2>5
  <2> QED BY <2>1, <2>2, <2>3, <2>5, <2>6
<1> QED BY <1>1, <1>2

\* createClient makes a client for a proxy of the list, or for none.
LEMMA CurrentIsProxy ==
  ASSUME Types
  PROVE  /\ Current \in {Direct} \union Proxy
         /\ proxies # <<>> /\ proxies \in Seq(Usable) => Current # Direct
<1>1. Direct \notin Proxy
  BY FetchAssumption
<1>2. CASE proxies # <<>>
  <2>1. /\ proxies \in Seq(Proxy) /\ Len(proxies) \in Nat /\ Len(proxies) > 0
        /\ index \in 0..(Len(proxies) - 1)
    BY <1>2, LenProperties, EmptySeq DEF Types
  <2>2. index + 1 \in 1..Len(proxies)
    BY <2>1
  <2>3. proxies[index + 1] \in Proxy
    BY <2>1, <2>2, ElementOfSeq
  <2>4. proxies \in Seq(Usable) => proxies[index + 1] \in Usable
    BY <2>2, ElementOfSeq
  <2> QED BY <1>1, <1>2, <2>3, <2>4 DEF Current, Usable
<1>3. CASE proxies = <<>>
  BY <1>3 DEF Current
<1> QED BY <1>2, <1>3

------------------------------------------------------------------------------
(* The steps of a worker. *)

\* How a worker moves and what its move does to the semaphore: it takes a slot,
\* goes on with it, or ends and gives it back.
Moves(w, v) ==
  /\ worker' = [worker EXCEPT ![w] = v]
  /\ v.pc \in {"rotate", "create", "publish"} => v.rotations \in 1..2
  /\ v.pc = "publish" => v.built = Current
  /\ \/ worker[w].pc = "queued" /\ v.pc \in Busy /\ sem' = [sem EXCEPT ![w[1]] = @ + 1]
     \/ worker[w].pc \in Busy /\ v.pc \in Busy /\ sem' = sem
     \/ worker[w].pc \in Busy /\ v.pc \in Ends /\ sem' = [sem EXCEPT ![w[1]] = @ - 1]

\* Every step of a worker is such a move.
LEMMA WorkMoves ==
  ASSUME Types, RotationsLeft, NEW w \in Worker, Work(w)
  PROVE  \E v \in State : Moves(w, v)
<1> DEFINE x == worker[w]
<1>1. /\ x \in State /\ x.pc \in {"off", "queued"} \union Ends \union Busy
      /\ x.attempt \in 0..MaxRetries /\ x.rotations \in 0..2 /\ x.built \in {Direct} \union Proxy
      /\ x = [pc |-> x.pc, attempt |-> x.attempt, rotations |-> x.rotations, built |-> x.built]
      /\ DOMAIN worker = Worker /\ MaxRetries \in Nat
      /\ Current \in {Direct} \union Proxy
  BY FetchAssumption, CurrentIsProxy DEF Types, State
<1>2. x.pc \in {"rotate", "create", "publish"} => x.rotations \in 1..2
  BY DEF RotationsLeft
<1>3. \A p \in {"off", "queued"} \union Ends \union Busy :
        [x EXCEPT !.pc = p] = [pc |-> p, attempt |-> x.attempt, rotations |-> x.rotations,
                               built |-> x.built]
  BY <1>1
<1>4. ASSUME NEW p \in Busy, Goes(w, p), sem' = sem, x.pc \in Busy,
             p = "send" \/ p = "refresh" \/ (p = "create" /\ x.pc = "rotate")
      PROVE  \E v \in State : Moves(w, v)
  <2> DEFINE v == [pc |-> p, attempt |-> x.attempt, rotations |-> x.rotations, built |-> x.built]
  <2>1. worker' = [worker EXCEPT ![w] = v]
    BY <1>1, <1>3, <1>4 DEF Goes
  <2>2. v \in State
    BY <1>1 DEF State
  <2>3. Moves(w, v)
    BY <1>2, <1>4, <2>1 DEF Moves
  <2> QED BY <2>2, <2>3
<1>5. ASSUME NEW n \in 1..2, Retries(w, n), sem' = sem, x.pc \in Busy
      PROVE  \E v \in State : Moves(w, v)
  <2>1. CASE x.attempt < MaxRetries
    <3> DEFINE v == [pc |-> "rotate", attempt |-> x.attempt + 1, rotations |-> n,
                     built |-> x.built]
    <3>1. worker' = [worker EXCEPT ![w] = v]
      BY <1>1, <1>5, <2>1 DEF Retries
    <3>2. x.attempt + 1 \in 0..MaxRetries /\ n \in 0..2
      BY <1>1, <2>1
    <3>3. v \in State
      BY <1>1, <3>2 DEF State, Busy
    <3>4. Moves(w, v)
      BY <1>5, <3>1 DEF Moves, Busy
    <3> QED BY <3>3, <3>4
  <2>2. CASE ~(x.attempt < MaxRetries)
    <3> DEFINE v == [pc |-> "give up", attempt |-> x.attempt, rotations |-> x.rotations,
                     built |-> x.built]
    <3>0. [x EXCEPT !.pc = "give up"] = v
      BY <1>3 DEF Busy
    <3>1. worker' = [worker EXCEPT ![w] = v]
      <4> HIDE DEF v
      <4> QED BY <1>5, <2>2, <3>0 DEF Retries
    <3>2. v \in State
      BY <1>1 DEF State, Busy
    <3>3. Moves(w, v)
      BY <1>5, <3>1 DEF Moves, Busy
    <3> QED BY <3>2, <3>3
  <2> QED BY <2>1, <2>2
<1>6. ASSUME NEW p \in Ends, x.pc \in Busy,
             worker' = [worker EXCEPT ![w] = [Off EXCEPT !.pc = p]],
             sem' = [sem EXCEPT ![w[1]] = @ - 1]
      PROVE  \E v \in State : Moves(w, v)
  <2> DEFINE v == [pc |-> p, attempt |-> 0, rotations |-> 0, built |-> Direct]
  <2>0. [Off EXCEPT !.pc = p] = v
    BY DEF Off
  <2>1. worker' = [worker EXCEPT ![w] = v]
    BY <1>6, <2>0
  <2>2. v \in State
    BY <1>1 DEF State
  <2>3. Moves(w, v)
    BY <1>6, <2>1 DEF Moves, Ends, Busy
  <2> QED BY <2>2, <2>3
<1>7. CASE Acquire(w)
  <2> DEFINE v == [pc |-> "send", attempt |-> x.attempt, rotations |-> x.rotations,
                   built |-> x.built]
  <2>0. [x EXCEPT !.pc = "send"] = v
    BY <1>3 DEF Busy
  <2>1. worker' = [worker EXCEPT ![w] = v]
    <3> HIDE DEF v
    <3> QED BY <1>7, <2>0 DEF Acquire, Goes
  <2>2. v \in State
    BY <1>1 DEF State, Busy
  <2>3. Moves(w, v)
    BY <1>7, <2>1 DEF Moves, Acquire, At, Busy
  <2> QED BY <2>2, <2>3
<1>8. ASSUME NEW body \in Bodies, Answered(w, body)
      PROVE  \E v \in State : Moves(w, v)
  BY <1>6, <1>8 DEF Answered, Fails, Delivers, At, Busy, Ends
<1>9. CASE Refused(w)
  BY <1>6, <1>9 DEF Refused, Fails, At, Busy, Ends
<1>10. CASE Failed(w)
  BY <1>5, <1>10 DEF Failed, At, Busy
<1>11. CASE Blocked(w)
  <2>1. "refresh" \in Busy /\ 1 \in 1..2 /\ sem' = sem /\ x.pc \in Busy
    BY <1>11 DEF Busy, Blocked, At
  <2>2. Goes(w, "refresh") \/ Retries(w, 1)
    BY <1>11 DEF Blocked
  <2> QED BY <1>4, <1>5, <2>1, <2>2
<1>12. ASSUME NEW found \in Pages, Refresh(w, found)
       PROVE  \E v \in State : Moves(w, v)
  <2>1. sem' = sem /\ x.pc \in Busy /\ 1 \in 1..2 /\ 2 \in 1..2
    BY <1>12 DEF Refresh, At, Busy
  <2>2. Retries(w, 1) \/ Retries(w, 2)
    BY <1>12 DEF Refresh
  <2> QED BY <1>5, <2>1, <2>2
<1>13. CASE RotateProxy(w)
  <2>1. sem' = sem /\ x.pc \in Busy /\ x.pc = "rotate" /\ "send" \in Busy /\ "create" \in Busy
    BY <1>13 DEF RotateProxy, At, Busy
  <2>2. Goes(w, "send") \/ Goes(w, "create")
    BY <1>13 DEF RotateProxy
  <2> QED BY <1>4, <2>1, <2>2
<1>14. CASE CreateClient(w)
  <2> DEFINE v == [pc |-> "publish", attempt |-> x.attempt, rotations |-> x.rotations,
                   built |-> Current]
  <2>1. worker' = [worker EXCEPT ![w] = v]
    BY <1>1, <1>14 DEF CreateClient
  <2>2. v \in State
    BY <1>1 DEF State, Busy
  <2>3. x.pc = "create" /\ sem' = sem
    BY <1>14 DEF CreateClient, At
  <2>4. Moves(w, v)
    BY <1>2, <2>1, <2>3 DEF Moves, Busy
  <2> QED BY <2>2, <2>4
<1>15. CASE SetClient(w)
  <2> DEFINE v == [pc |-> IF x.rotations = 2 THEN "rotate" ELSE "send", attempt |-> x.attempt,
                   rotations |-> x.rotations - 1, built |-> Direct]
  <2>1. worker' = [worker EXCEPT ![w] = v]
    BY <1>1, <1>15 DEF SetClient
  <2>2. x.pc = "publish" /\ x.rotations \in 1..2 /\ sem' = sem
    BY <1>2, <1>15 DEF SetClient, At
  <2>3. /\ x.rotations - 1 \in 0..2
        /\ (IF x.rotations = 2 THEN "rotate" ELSE "send") \in {"off", "queued"} \union Ends \union Busy
    BY <2>2 DEF Busy
  <2>4. v \in State
    BY <1>1, <2>3 DEF State
  <2>5. Moves(w, v)
    BY <2>1, <2>2 DEF Moves, Busy
  <2> QED BY <2>4, <2>5
<1>16. ASSUME NEW found, GiveUp(w, found)
       PROVE  \E v \in State : Moves(w, v)
  BY <1>6, <1>16 DEF GiveUp, Fails, At, Busy, Ends
<1> QED BY <1>7, <1>8, <1>9, <1>10, <1>11, <1>12, <1>13, <1>14, <1>15, <1>16 DEF Work

\* The list of proxies and the index after a step: the index is within the list, and
\* the list is the old one, or a scraped one.
ListKept ==
  /\ proxies' = proxies \/ (proxies' \in Seq(Scraped) /\ proxies' # <<>>)
  /\ index' \in 0..(IF proxies' = <<>> THEN 0 ELSE Len(proxies') - 1)

\* What was asked for without a proxy after a step.
AskedByClient ==
  /\ direct' \subseteq {"quotes", "proxies"}
  /\ "quotes" \in direct' => "quotes" \in direct \/ client = Direct

\* A step of a worker leaves the manager alone and the list of proxies as it should
\* be, and the client becomes the one the worker has built, or stays.
LEMMA WorkKeepsNetwork ==
  ASSUME Types, NEW w \in Worker, Work(w)
  PROVE  /\ UNCHANGED <<enabled, accepted, list, batch, fetching>>
         /\ ListKept /\ AskedByClient
         /\ client' = client \/ (worker[w].pc = "publish" /\ client' = worker[w].built)
<1> DEFINE Goal == /\ UNCHANGED <<enabled, accepted, list, batch, fetching>>
                   /\ ListKept /\ AskedByClient
                   /\ client' = client \/ (worker[w].pc = "publish" /\ client' = worker[w].built)
<1>1. ASSUME UNCHANGED <<config, proxies, index, client, manager>>, direct' = direct \/ Asks
      PROVE  Goal
  BY <1>1 DEF config, manager, Types, ListKept, AskedByClient, Asks
<1>2. ASSUME NEW found \in Seq(Scraped), RefreshProxies(found), UNCHANGED <<config, client, manager>>
      PROVE  Goal
  <2>1. ListKept
    BY <1>2, RefreshKeeps DEF ListKept
  <2>2. AskedByClient
    BY <1>2 DEF RefreshProxies, AskedByClient, Types
  <2> QED BY <1>2, <2>1, <2>2 DEF config, manager
<1>3. CASE RotateProxy(w)
  <2>1. UNCHANGED <<enabled, accepted, proxies, client, direct, list, batch, fetching>>
    BY <1>3 DEF RotateProxy, config, manager
  <2>2. index' \in 0..(IF proxies = <<>> THEN 0 ELSE Len(proxies) - 1)
    <3>1. CASE index' = index
      BY <3>1 DEF Types
    <3>2. CASE proxies # <<>> /\ index' = (index + 1) % Len(proxies)
      <4>1. Len(proxies) \in Nat /\ Len(proxies) > 0 /\ index \in Nat
        BY <3>2, LenProperties, EmptySeq DEF Types
      <4>2. (index + 1) % Len(proxies) \in 0..(Len(proxies) - 1)
        BY <4>1
      <4> QED BY <3>2, <4>2
    <3> QED BY <1>3, <3>1, <3>2 DEF RotateProxy
  <2> QED BY <2>1, <2>2 DEF Types, ListKept, AskedByClient
<1>4. CASE SetClient(w)
  BY <1>4 DEF SetClient, At, config, manager, Types, ListKept, AskedByClient
<1>5. ASSUME NEW found \in Pages, Refresh(w, found)
      PROVE  Goal
  BY <1>2, <1>5, PagesListProxies DEF Refresh
<1>6. ASSUME NEW found \in IF enabled THEN Pages ELSE {<<>>}, GiveUp(w, found)
      PROVE  Goal
  <2>1. CASE enabled
    BY <1>2, <1>6, <2>1, PagesListProxies DEF GiveUp
  <2>2. CASE ~enabled
    BY <1>1, <1>6, <2>2 DEF GiveUp
  <2> QED BY <2>1, <2>2
<1>7. CASE Acquire(w) \/ Refused(w) \/ (\E body \in Bodies : Answered(w, body))
  BY <1>1, <1>7 DEF Acquire, Refused, Answered, network
<1>8. CASE Failed(w) \/ Blocked(w) \/ CreateClient(w)
  BY <1>1, <1>8 DEF Failed, Blocked, CreateClient, network
<1> QED BY <1>3, <1>4, <1>5, <1>6, <1>7, <1>8 DEF Work

\* A worker that takes a slot is one holder more, one that ends one less.
LEMMA WorkCountsSlots ==
  ASSUME Types, SlotsCounted, NEW w \in Worker, NEW v \in State, Moves(w, v)
  PROVE  SlotsCounted'
<1>1. /\ w[1] \in Source /\ w[2] \in Place /\ w = <<w[1], w[2]>>
      /\ DOMAIN worker = Worker /\ DOMAIN sem = Source
      /\ worker' = [worker EXCEPT ![w] = v]
  BY DEF Worker, Types, Moves
<1>2. \A u \in Worker : worker'[u] = IF u = w THEN v ELSE worker[u]
  BY <1>1
<1>3. SUFFICES ASSUME NEW s \in Source
               PROVE  IsFiniteSet(Holders(s)') /\ sem'[s] = Cardinality(Holders(s)')
  BY DEF SlotsCounted
<1>4. /\ IsFiniteSet(Holders(s)) /\ sem[s] = Cardinality(Holders(s))
      /\ Cardinality(Holders(s)) \in Nat
  BY FS_CardinalityType DEF SlotsCounted
<1>5. Holders(s)' = {i \in Place : worker'[<<s, i>>].pc \in Busy}
  BY DEF Holders
<1>6. \A i \in Place : <<s, i>> \in Worker /\ (<<s, i>> = w <=> s = w[1] /\ i = w[2])
  BY <1>1 DEF Worker
<1>7. CASE s # w[1] \/ (worker[w].pc \in Busy /\ v.pc \in Busy /\ sem' = sem)
  <2>1. Holders(s)' = Holders(s)
    BY <1>2, <1>5, <1>6, <1>7 DEF Holders
  <2>2. sem'[s] = sem[s]
    BY <1>1, <1>7 DEF Moves
  <2> QED BY <1>4, <2>1, <2>2
<1>8. CASE s = w[1] /\ worker[w].pc = "queued" /\ v.pc \in Busy
  <2>1. w[2] \notin Holders(s)
    <3>1. worker[<<s, w[2]>>].pc = "queued"
      BY <1>1, <1>8
    <3> QED BY <3>1 DEF Holders, Busy
  <2>2. Holders(s)' = Holders(s) \union {w[2]}
    BY <1>1, <1>2, <1>5, <1>6, <1>8 DEF Holders
  <2>3. sem' = [sem EXCEPT ![w[1]] = @ + 1]
    BY <1>8 DEF Moves, Busy
  <2>4. sem'[s] = sem[s] + 1
    BY <1>1, <1>8, <2>3
  <2>5. IsFiniteSet(Holders(s)') /\ Cardinality(Holders(s)') = Cardinality(Holders(s)) + 1
    <3>1. /\ IsFiniteSet(Holders(s) \union {w[2]})
          /\ Cardinality(Holders(s) \union {w[2]}) = Cardinality(Holders(s)) + 1
      <4>1. IsFiniteSet(Holders(s))
        BY <1>4
      <4> QED BY <2>1, <4>1, FS_AddElement
    <3> QED BY <2>2, <3>1
  <2> QED BY <1>4, <2>4, <2>5
<1>9. CASE s = w[1] /\ worker[w].pc \in Busy /\ v.pc \in Ends
  <2>1. w[2] \in Holders(s)
    <3>1. worker[<<s, w[2]>>].pc \in Busy
      BY <1>1, <1>9
    <3> QED BY <1>1, <3>1 DEF Holders
  <2>2. Holders(s)' = Holders(s) \ {w[2]}
    BY <1>1, <1>2, <1>5, <1>6, <1>9 DEF Holders, Busy, Ends
  <2>3. sem' = [sem EXCEPT ![w[1]] = @ - 1]
    BY <1>9 DEF Moves, Busy, Ends
  <2>4. sem'[s] = sem[s] - 1
    BY <1>1, <1>9, <2>3
  <2>5. IsFiniteSet(Holders(s)') /\ Cardinality(Holders(s)') = Cardinality(Holders(s)) - 1
    <3>1. /\ IsFiniteSet(Holders(s) \ {w[2]})
          /\ Cardinality(Holders(s) \ {w[2]}) = Cardinality(Holders(s)) - 1
      <4>1. IsFiniteSet(Holders(s))
        BY <1>4
      <4> QED BY <2>1, <4>1, FS_RemoveElement
    <3> QED BY <2>2, <3>1
  <2> QED BY <1>4, <2>4, <2>5
<1> QED BY <1>7, <1>8, <1>9 DEF Moves

\* A step of a worker preserves the invariant.
LEMMA WorkPreserves ==
  ASSUME IInv, NEW w \in Worker, Work(w)
  PROVE  IInv'
<1>1. PICK v \in State : Moves(w, v)
  BY WorkMoves DEF IInv
<1>2. /\ UNCHANGED <<enabled, accepted, list, batch, fetching>>
      /\ ListKept /\ AskedByClient
      /\ client' = client \/ (worker[w].pc = "publish" /\ client' = worker[w].built)
  BY WorkKeepsNetwork DEF IInv
<1>3. DOMAIN worker = Worker /\ worker' = [worker EXCEPT ![w] = v]
  BY <1>1 DEF IInv, Types, Moves
<1>4. \A u \in Worker : worker'[u] = IF u = w THEN v ELSE worker[u]
  BY <1>3
<1>5. Types'
  <2>1. worker' \in [Worker -> State]
    BY <1>3 DEF IInv, Types
  <2>2. client' \in {Direct} \union Proxy
    <3>1. worker[w] \in State /\ client \in {Direct} \union Proxy
      BY DEF IInv, Types
    <3>2. worker[w].built \in {Direct} \union Proxy
      BY <3>1 DEF State
    <3> QED BY <1>2, <3>1, <3>2
  <2>3. DOMAIN sem' = Source
    BY <1>1 DEF Moves, IInv, Types
  <2>4. proxies' \in Seq(Proxy)
    BY <1>2, ScrapedUsable DEF IInv, Types, ListKept
  <2> QED BY <1>2, <2>1, <2>2, <2>3, <2>4 DEF IInv, Types, ListKept, AskedByClient
<1>6. RotationsLeft'
  BY <1>1, <1>4 DEF IInv, RotationsLeft, Moves
<1>7. SlotsCounted'
  BY <1>1, WorkCountsSlots DEF IInv
<1>8. WorkersHaveBatch'
  <2>1. ASSUME NEW s \in Source, NEW i \in Place,
               worker'[<<s, i>>].pc \in {"queued"} \union Busy
        PROVE  worker[<<s, i>>].pc \in {"queued"} \union Busy
    <3>1. <<s, i>> \in Worker
      BY DEF Worker
    <3> QED BY <1>1, <1>4, <2>1, <3>1 DEF Moves, Ends, Busy
  <2> QED BY <1>2, <2>1 DEF IInv, WorkersHaveBatch
<1>9. AlwaysProxied'
  <2>1. SUFFICES ASSUME AllUsable
                 PROVE  /\ proxies' # <<>> /\ proxies' \in Seq(Usable)
                        /\ client' # Direct /\ "quotes" \notin direct'
                        /\ \A u \in Worker : worker'[u].pc = "publish" => worker'[u].built # Direct
    BY <1>2 DEF AlwaysProxied, AllUsable
  <2>2. /\ proxies # <<>> /\ proxies \in Seq(Usable) /\ client # Direct /\ "quotes" \notin direct
        /\ \A u \in Worker : worker[u].pc = "publish" => worker[u].built # Direct
    BY <2>1 DEF IInv, AlwaysProxied
  <2>3. Current # Direct
    BY <2>2, CurrentIsProxy DEF IInv
  <2>4. v.pc = "publish" => v.built # Direct
    BY <1>1, <2>3 DEF Moves
  <2>5. proxies' # <<>> /\ proxies' \in Seq(Usable)
    BY <1>2, <2>2, ScrapedUsable DEF ListKept
  <2>6. client' # Direct /\ "quotes" \notin direct'
    BY <1>2, <2>2 DEF AskedByClient
  <2> QED BY <1>4, <2>2, <2>4, <2>5, <2>6
<1> QED BY <1>5, <1>6, <1>7, <1>8, <1>9 DEF IInv

------------------------------------------------------------------------------
(* The steps of the batches and of the manager. *)

\* A fetch begins when no worker holds a slot.
LEMMA FetchPreserves ==
  ASSUME IInv, Fetch
  PROVE  IInv'
<1>1. /\ UNCHANGED <<enabled, accepted, proxies, index, client, direct, sem>>
      /\ ~fetching /\ fetching' = TRUE
      /\ batch' = [s \in Source |-> "running"]
      /\ worker' = [w \in Worker |->
                      IF w[2] \in DOMAIN list'[w[1]] THEN [Off EXCEPT !.pc = "queued"] ELSE Off]
  BY DEF Fetch, network, config
<1>2. /\ Off \in State /\ [Off EXCEPT !.pc = "queued"] \in State
      /\ Off.pc = "off" /\ [Off EXCEPT !.pc = "queued"].pc = "queued"
  BY FetchAssumption DEF Off, State
<1>3. \A w \in Worker : /\ worker'[w] \in State /\ worker'[w].pc \in {"off", "queued"}
                        /\ worker'[w].pc = "queued" => w[2] \in DOMAIN list'[w[1]]
  BY <1>1, <1>2
<1>4. worker' \in [Worker -> State]
  BY <1>1, <1>2
<1>5. Types'
  BY <1>1, <1>4 DEF IInv, Types
<1>6. RotationsLeft'
  BY <1>3 DEF RotationsLeft
<1>7. SlotsCounted'
  <2>1. SUFFICES ASSUME NEW s \in Source
                 PROVE  IsFiniteSet(Holders(s)') /\ sem'[s] = Cardinality(Holders(s)')
    BY DEF SlotsCounted
  <2>2. \A i \in Place : <<s, i>> \in Worker
    BY DEF Worker
  <2>3. Holders(s) = {}
    BY <1>1 DEF IInv, WorkersHaveBatch, Holders
  <2>4. Holders(s)' = {}
    BY <1>3, <2>2 DEF Holders, Busy
  <2> QED BY <1>1, <2>3, <2>4 DEF IInv, SlotsCounted
<1>8. WorkersHaveBatch'
  <2>1. \A s \in Source : batch'[s] = "running"
    BY <1>1
  <2>2. batch' \in [Source -> {"off", "running", "ok", "failed"}]
    BY <1>1
  <2>3. ASSUME NEW s \in Source, NEW i \in Place, worker'[<<s, i>>].pc \in {"queued"} \union Busy
        PROVE  i \in DOMAIN list'[s]
    <3>1. <<s, i>> \in Worker /\ <<s, i>>[1] = s /\ <<s, i>>[2] = i
      BY DEF Worker
    <3> QED BY <1>3, <2>3, <3>1 DEF Busy
  <2> QED BY <1>1, <2>1, <2>2, <2>3 DEF WorkersHaveBatch
<1>9. AlwaysProxied'
  BY <1>1, <1>3 DEF IInv, AlwaysProxied, AllUsable
<1> QED BY <1>5, <1>6, <1>7, <1>8, <1>9 DEF IInv

\* A batch ends when its workers have, a fetch when its batches have.
LEMMA EndPreserves ==
  ASSUME IInv, (\E s \in Source : Merge(s)) \/ Return
  PROVE  IInv'
<1>1. UNCHANGED <<enabled, accepted, proxies, index, client, direct, worker, sem, list>>
  BY DEF Merge, Return, network, config, batches
<1>2. Types' /\ RotationsLeft' /\ AlwaysProxied'
  BY <1>1 DEF IInv, Types, RotationsLeft, AlwaysProxied, AllUsable
<1>3. SlotsCounted'
  BY <1>1 DEF IInv, SlotsCounted, Holders
<1>4. WorkersHaveBatch'
  <2>1. ASSUME NEW s \in Source, Merge(s)
        PROVE  WorkersHaveBatch'
    <3>1. PICK e \in {"ok", "failed"} : batch' = [batch EXCEPT ![s] = e]
      BY <2>1 DEF Merge
    <3>2. fetching' = fetching
      BY <2>1 DEF Merge
    <3>3. \A i \in Place : worker[<<s, i>>].pc \notin {"queued"} \union Busy
      BY <2>1 DEF Merge, At, IInv, WorkersHaveBatch, Busy
    <3> QED BY <1>1, <3>1, <3>2, <3>3 DEF IInv, WorkersHaveBatch
  <2>2. CASE Return
    BY <1>1, <2>2 DEF Return, IInv, WorkersHaveBatch
  <2> QED BY <2>1, <2>2
<1> QED BY <1>2, <1>3, <1>4 DEF IInv

\* The invariant holds at the start.
LEMMA InitInv == Init => IInv
<1>1. SUFFICES ASSUME Init
               PROVE  IInv
  OBVIOUS
<1>2. /\ accepted \in AcceptedLists \union {<<>>} /\ proxies = accepted /\ direct = {}
      /\ index = 0 /\ client = Current /\ worker = [w \in Worker |-> Off]
      /\ sem = [s \in Source |-> 0] /\ batch = [s \in Source |-> "off"]
  BY <1>1 DEF Init
<1>3. Off \in State /\ Off.pc = "off"
  BY FetchAssumption DEF Off, State
<1>4. \A w \in Worker : worker[w] = Off
  BY <1>2
<1>5. proxies \in Seq(Proxy) /\ index \in 0..(IF proxies = <<>> THEN 0 ELSE Len(proxies) - 1)
  <2>1. accepted \in Seq(Proxy)
    <3>1. CASE accepted \in AcceptedLists
      <4>1. Len(accepted) \in Nat /\ accepted \in [1..Len(accepted) -> ToSet(accepted)]
        BY <3>1, FetchAssumption, LenProperties
      <4>2. accepted \in [1..Len(accepted) -> Proxy]
        BY <3>1, <4>1 DEF Proxy
      <4> QED BY <4>1, <4>2, SeqDef
    <3> QED BY <1>2, <3>1, EmptySeq
  <2>2. proxies \in Seq(Proxy)
    BY <1>2, <2>1
  <2>3. proxies # <<>> => Len(proxies) \in Nat /\ Len(proxies) > 0
    BY <2>2, LenProperties, EmptySeq
  <2> QED BY <1>2, <2>2, <2>3
<1>6. /\ Current \in {Direct} \union Proxy
      /\ AllUsable => proxies \in Seq(Usable) /\ Current # Direct
  <2>1. Direct \notin Proxy
    BY FetchAssumption
  <2>2. CASE proxies # <<>>
    <3>1. Len(proxies) \in Nat /\ Len(proxies) > 0 /\ index + 1 \in 1..Len(proxies)
      BY <1>2, <1>5, <2>2, LenProperties, EmptySeq
    <3>2. \A i \in 1..Len(proxies) : proxies[i] \in Proxy /\ proxies[i] \in ToSet(accepted)
      BY <1>2, <1>5, ElementOfSeq, LenProperties DEF ToSet
    <3>3. AllUsable => \A i \in 1..Len(proxies) : proxies[i] \in Usable
      BY <3>2 DEF AllUsable, Usable
    <3>4. AllUsable => proxies \in [1..Len(proxies) -> Usable]
      BY <1>5, <3>3, LenProperties
    <3>5. AllUsable => proxies \in Seq(Usable)
      BY <3>1, <3>4, SeqDef
    <3> QED BY <2>1, <2>2, <3>1, <3>2, <3>3, <3>5 DEF Current, Usable
  <2>3. CASE proxies = <<>>
    BY <1>2, <2>3 DEF Current, AllUsable
  <2> QED BY <2>2, <2>3
<1>7. Types
  BY <1>2, <1>3, <1>5, <1>6 DEF Types
<1>8. RotationsLeft /\ WorkersHaveBatch
  <2>1. \A s \in Source : \A i \in Place : <<s, i>> \in Worker
    BY DEF Worker
  <2> QED BY <1>2, <1>3, <1>4, <2>1 DEF RotationsLeft, WorkersHaveBatch, Busy
<1>9. SlotsCounted
  <2>1. SUFFICES ASSUME NEW s \in Source
                 PROVE  IsFiniteSet(Holders(s)) /\ sem[s] = Cardinality(Holders(s))
    BY DEF SlotsCounted
  <2>2. \A i \in Place : <<s, i>> \in Worker
    BY DEF Worker
  <2>3. Holders(s) = {}
    BY <1>3, <1>4, <2>2 DEF Holders, Busy
  <2> QED BY <1>2, <2>3, FS_EmptySet
<1>10. AlwaysProxied
  BY <1>2, <1>3, <1>4, <1>6 DEF AlwaysProxied, AllUsable
<1> QED BY <1>7, <1>8, <1>9, <1>10 DEF IInv

\* The invariant is inductive.
LEMMA StepInv == IInv /\ [Next]_vars => IInv'
<1>1. SUFFICES ASSUME IInv, [Next]_vars
               PROVE  IInv'
  OBVIOUS
<1>2. CASE Fetch
  BY <1>1, <1>2, FetchPreserves
<1>3. ASSUME NEW w \in Worker, Work(w)
      PROVE  IInv'
  BY <1>1, <1>3, WorkPreserves
<1>4. CASE (\E s \in Source : Merge(s)) \/ Return
  BY <1>1, <1>4, EndPreserves
<1>5. CASE UNCHANGED vars
  BY <1>1, <1>5 DEF vars, network, config, batches, manager, IInv, Types, RotationsLeft,
     SlotsCounted, Holders, WorkersHaveBatch, AlwaysProxied, AllUsable
<1> QED BY <1>1, <1>2, <1>3, <1>4, <1>5 DEF Next

------------------------------------------------------------------------------

\* The index is one of the list, whatever refreshes and rotations overlap, so
\* GetCurrentProxy never panics; attempts and rotations stay within their bounds, and
\* the taken slots of a batch are those of the workers that are at their request.
THEOREM TypeCorrect == Spec => []TypeOK
<1>1. IInv => TypeOK
  <2>1. SUFFICES ASSUME IInv
                 PROVE  TypeOK
    OBVIOUS
  <2>2. ASSUME NEW s \in Source
        PROVE  Holders(s) = {i \in Place : worker[<<s, i>>].pc \notin
                                             {"off", "queued", "done", "failed"}}
    <3>1. \A i \in Place : worker[<<s, i>>] \in State
      BY <2>1 DEF IInv, Types, Worker
    <3>2. \A i \in Place : worker[<<s, i>>].pc \in {"off", "queued"} \union Ends \union Busy
      BY <3>1 DEF State
    <3> QED BY <3>2 DEF Holders, Busy, Ends
  <2>3. \A w \in Worker : worker[w].attempt \in 0..MaxRetries /\ worker[w].rotations \in 0..2
    <3>1. \A w \in Worker : worker[w] \in State
      BY <2>1 DEF IInv, Types
    <3> QED BY <3>1 DEF State
  <2> QED BY <2>1, <2>2, <2>3 DEF IInv, Types, SlotsCounted, TypeOK
<1> QED BY <1>1, InitInv, StepInv, PTL DEF Spec

\* With proxies accepted at the start, all of them URLs, no quote is ever asked for
\* without a proxy, whatever order the workers rotate, refresh and publish their
\* clients in.
THEOREM NeverGoesDirect == Spec => []NeverDirect
<1>1. IInv => NeverDirect
  BY DEF IInv, AlwaysProxied, AllUsable, NeverDirect
<1> QED BY <1>1, InitInv, StepInv, PTL DEF Spec

-----------------------------------------------------------------------------
(* What the batches got.                                                    *)

\* The rows of an answer and what their order is.
LEMMA RowsOrdered ==
  ASSUME NEW body \in Bodies, NEW i \in Valid(body.rows), NEW j \in Valid(body.rows)
  PROVE  /\ IsFiniteSet(Valid(body.rows))
         /\ body.rows[i].timestamp \in Int
         /\ ~Earlier(body.rows, i, i)
         /\ i = j \/ Earlier(body.rows, i, j) \/ Earlier(body.rows, j, i)
         /\ Earlier(body.rows, i, j) => ~Earlier(body.rows, j, i)
         /\ Earlier(body.rows, i, j) => body.rows[i].timestamp <= body.rows[j].timestamp
         /\ \A k \in Valid(body.rows) :
              Earlier(body.rows, k, i) /\ Earlier(body.rows, i, j) => Earlier(body.rows, k, j)
<1> DEFINE rows == body.rows
           R == [timestamp : Int, close : Int, volume : Int]
<1>1. rows \in Seq({Null} \union R)
  BY BodyAssumption
<1> HIDE DEF rows
<1>2. Len(rows) \in Nat /\ DOMAIN rows = 1..Len(rows) /\ \A k \in 1..Len(rows) : rows[k] \in {Null} \union R
  BY <1>1, LenProperties, ElementOfSeq
<1>3. \A k \in Valid(rows) : k \in Int /\ rows[k].timestamp \in Int
  BY <1>2 DEF Valid
<1>4. IsFiniteSet(Valid(rows))
  <2>1. IsFiniteSet(1..Len(rows))
    BY <1>2, FS_Interval
  <2>2. Valid(rows) \subseteq 1..Len(rows)
    BY <1>2 DEF Valid
  <2> QED BY <2>1, <2>2, FS_Subset
<1>5. i \in Valid(rows) /\ j \in Valid(rows)
  BY DEF rows
<1>6. /\ ~Earlier(rows, i, i)
      /\ i = j \/ Earlier(rows, i, j) \/ Earlier(rows, j, i)
      /\ Earlier(rows, i, j) => ~Earlier(rows, j, i)
      /\ Earlier(rows, i, j) => rows[i].timestamp <= rows[j].timestamp
      /\ \A k \in Valid(rows) : Earlier(rows, k, i) /\ Earlier(rows, i, j) => Earlier(rows, k, j)
  BY <1>3, <1>5 DEF Earlier
<1> QED BY <1>3, <1>4, <1>5, <1>6 DEF rows

\* All of a sequence is the sequence.
LEMMA WholeSubSeq ==
  ASSUME NEW S, NEW n \in Nat, NEW g \in [1..n -> S]
  PROVE  SubSeq(g, 1, n) = g
<1>1. g \in Seq(S) /\ Len(g) = n /\ DOMAIN g = 1..n
  BY SeqDef, LenProperties
<1>2. /\ SubSeq(g, 1, n) \in Seq(S) /\ Len(SubSeq(g, 1, n)) = n
      /\ \A i \in 1..n : SubSeq(g, 1, n)[i] = g[i]
  <2>1. 1 \in 1..(Len(g) + 1) /\ n \in (1 - 1)..Len(g) /\ n - 1 + 1 = n /\ \A i \in 1..n : 1 + i - 1 = i
    BY <1>1
  <2> QED BY <1>1, <2>1, SubSeqProperties
<1> QED BY <1>1, <1>2, SeqEqual

\* Clean puts the valid rows into the order of their timestamps: every place is that
\* of one row, as the number of earlier rows maps the rows one to one to the places.
LEMMA CleanIsChronological ==
  ASSUME NEW body \in Bodies
  PROVE  LET points == Clean(body) IN
         \E n \in Nat :
           /\ points = [k \in 1..n |-> points[k]]
           /\ \A k \in 1..n : points[k].timestamp \in Int
           /\ \A k, l \in 1..n : k <= l => points[k].timestamp <= points[l].timestamp
<1> DEFINE rows == body.rows
           V == Valid(rows)
           Before(j) == {i \in V : Earlier(rows, i, j)}
           place == [j \in V |-> Cardinality(Before(j)) + 1]
           n == Cardinality(V)
           at(k) == CHOOSE j \in V : place[j] = k
           points == Clean(body)
<1>1. IsFiniteSet(V) /\ n \in Nat
  <2>1. IsFiniteSet(V)
    BY RowsOrdered, FS_EmptySet
  <2> QED BY <2>1, FS_CardinalityType
<1>2. points = [k \in 1..n |-> rows[at(k)]]
  <2> DEFINE g == [k \in 1..n |-> rows[at(k)]]
             S == {g[k] : k \in 1..n}
  <2>1. points = SubSeq(g, 1, n)
    BY DEF Clean, InOrderOfTime
  <2>2. g \in [1..n -> S]
    OBVIOUS
  <2> HIDE DEF g, S, n
  <2>3. SubSeq(g, 1, n) = g
    BY <1>1, <2>2, WholeSubSeq
  <2> QED BY <2>1, <2>3 DEF g
<1>3. \A i, j \in V :
        /\ rows[i].timestamp \in Int
        /\ ~Earlier(rows, i, i)
        /\ i = j \/ Earlier(rows, i, j) \/ Earlier(rows, j, i)
        /\ Earlier(rows, i, j) => rows[i].timestamp <= rows[j].timestamp
        /\ \A k \in V : Earlier(rows, k, i) /\ Earlier(rows, i, j) => Earlier(rows, k, j)
  BY RowsOrdered
<1> HIDE DEF V, rows
<1>4. \A j \in V : IsFiniteSet(Before(j)) /\ Cardinality(Before(j)) \in Nat
  <2>1. ASSUME NEW j \in V
        PROVE  IsFiniteSet(Before(j)) /\ Cardinality(Before(j)) \in Nat
    <3>1. Before(j) \in SUBSET V
      OBVIOUS
    <3> HIDE DEF Before
    <3> QED BY <1>1, <3>1, FS_Subset, FS_CardinalityType
  <2> QED BY <2>1
<1>5. ASSUME NEW i \in V, NEW j \in V, Earlier(rows, i, j)
      PROVE  place[i] < place[j]
  <2>1. Before(i) \union {i} \subseteq Before(j) /\ i \notin Before(i)
    BY <1>3, <1>5
  <2> HIDE DEF Before
  <2>2. /\ IsFiniteSet(Before(i) \union {i})
        /\ Cardinality(Before(i) \union {i}) = Cardinality(Before(i)) + 1
    BY <1>4, <2>1, FS_AddElement
  <2>3. Cardinality(Before(i) \union {i}) <= Cardinality(Before(j))
    BY <1>4, <2>1, FS_Subset
  <2> QED BY <1>4, <2>2, <2>3
<1>6. place \in [V -> 1..n]
  <2>1. ASSUME NEW j \in V
        PROVE  Cardinality(Before(j)) + 1 \in 1..n
    <3>1. Before(j) \union {j} \subseteq V /\ j \notin Before(j)
      BY <1>3
    <3> HIDE DEF Before
    <3>2. Cardinality(Before(j) \union {j}) = Cardinality(Before(j)) + 1
      BY <1>4, <3>1, FS_AddElement
    <3>3. Cardinality(Before(j) \union {j}) <= n
      BY <1>1, <3>1, FS_Subset
    <3> QED BY <1>1, <1>4, <3>2, <3>3
  <2> HIDE DEF Before
  <2> QED BY <2>1
<1>7. ASSUME NEW i \in V, NEW j \in V, place[i] <= place[j]
      PROVE  i = j \/ Earlier(rows, i, j)
  <2>1. place[i] \in Int /\ place[j] \in Int
    <3> HIDE DEF place
    <3> QED BY <1>1, <1>6
  <2>2. ~Earlier(rows, j, i)
    <3> HIDE DEF place
    <3> QED BY <1>5, <1>7, <2>1
  <2> QED BY <1>3, <2>2
<1> HIDE DEF place, Before, n
<1>8. \A k \in 1..n : at(k) \in V /\ place[at(k)] = k
  <2>1. \A i, j \in V : place[i] = place[j] => i = j
    <3>1. SUFFICES ASSUME NEW i \in V, NEW j \in V, place[i] = place[j]
                   PROVE  i = j
      OBVIOUS
    <3>2. place[i] \in Int /\ place[j] \in Int
      BY <1>1, <1>6
    <3>3. ~Earlier(rows, i, j) /\ ~Earlier(rows, j, i)
      BY <1>5, <3>1, <3>2
    <3> QED BY <1>3, <3>3
  <2>2. place \in Injection(V, 1..n)
    BY <1>6, <2>1 DEF Injection, IsInjective
  <2>3. IsFiniteSet(1..n) /\ Cardinality(1..n) = n
    BY <1>1, FS_Interval
  <2>4. place \in Surjection(V, 1..n)
    BY <2>2, <2>3, FS_Injection DEF n
  <2>5. \A k \in 1..n : \E j \in V : place[j] = k
    BY <2>4 DEF Surjection
  <2> QED BY <2>5
<1>9. ASSUME NEW k \in 1..n
      PROVE  points[k] = rows[at(k)] /\ points[k].timestamp \in Int
  BY <1>2, <1>3, <1>8
<1> HIDE DEF at, points
<1>10. ASSUME NEW k \in 1..n, NEW l \in 1..n, k <= l
       PROVE  points[k].timestamp <= points[l].timestamp
  <2>1. at(k) \in V /\ at(l) \in V /\ place[at(k)] <= place[at(l)]
    BY <1>8, <1>10
  <2>2. at(k) = at(l) \/ Earlier(rows, at(k), at(l))
    BY <1>7, <2>1
  <2>3. rows[at(k)].timestamp \in Int /\ rows[at(k)].timestamp <= rows[at(l)].timestamp
    BY <1>3, <2>1, <2>2
  <2> QED BY <1>9, <2>3
<1>11. points = [k \in 1..n |-> points[k]]
  BY <1>2, <1>9
<1> QED BY <1>1, <1>9, <1>10, <1>11 DEF points

\* A series ends with its newest point.
EndsWithNewest(series) ==
  \A k \in DOMAIN series : Last(series).timestamp >= series[k].timestamp

\* So do those parseChartResponse returns.
LEMMA ParsedEndsWithNewest ==
  ASSUME NEW body \in Bodies, NEW series, series = ParseChartResponse(body), series # NoData
  PROVE  EndsWithNewest(series)
<1> DEFINE points == Clean(body)
<1>1. PICK n \in Nat : /\ points = [k \in 1..n |-> points[k]]
                       /\ \A k \in 1..n : points[k].timestamp \in Int
                       /\ \A k, l \in 1..n : k <= l => points[k].timestamp <= points[l].timestamp
  BY CleanIsChronological
<1>2. /\ DOMAIN series = DOMAIN points
      /\ \A k \in DOMAIN points : series[k].timestamp = points[k].timestamp
      /\ series = [k \in DOMAIN points |-> series[k]]
  BY DEF ParseChartResponse
<1> HIDE DEF points
<1>3. DOMAIN series = 1..n /\ series = [k \in 1..n |-> series[k]]
  BY <1>1, <1>2
<1>4. Len(series) = n
  <2> DEFINE S == {series[k] : k \in 1..n}
  <2>1. series \in [1..n -> S]
    BY <1>3
  <2>2. series \in Seq(S)
    BY <1>1, <2>1, SeqDef
  <2> HIDE DEF S
  <2>3. Len(series) \in Nat /\ DOMAIN series = 1..Len(series)
    BY <2>2, LenProperties
  <2>4. 1..n = 1..Len(series)
    BY <1>3, <2>3
  <2> QED BY <1>1, <2>3, <2>4
<1>5. n # 0
  <2>1. ASSUME n = 0 PROVE series = <<>>
    <3>1. series \in [{} -> {}]
      BY <1>3, <2>1
    <3>2. <<>> \in [{} -> {}]
      OBVIOUS
    <3> QED BY <3>1, <3>2
  <2> QED BY <2>1 DEF NoData
<1>6. Last(series) = series[n]
  BY <1>4 DEF Last
<1>7. ASSUME NEW k \in 1..n
      PROVE  series[n].timestamp >= series[k].timestamp
  <2>1. n \in 1..n /\ k <= n
    BY <1>1, <1>5
  <2>2. points[k].timestamp <= points[n].timestamp /\ points[k].timestamp \in Int /\ points[n].timestamp \in Int
    BY <1>1, <2>1
  <2>3. series[k].timestamp = points[k].timestamp /\ series[n].timestamp = points[n].timestamp
    BY <1>2, <1>3, <2>1
  <2> QED BY <2>2, <2>3
<1> QED BY <1>3, <1>6, <1>7 DEF EndsWithNewest

\* What a batch has got, with Got, and whether it is over.
Failures(s) == {i \in DOMAIN list[s] : worker[<<s, i>>].pc = "failed"}

Tables ==
  /\ DOMAIN results = Source /\ DOMAIN errors = Source /\ DOMAIN lastTimestamps = Source
  /\ \A s \in Source : errors[s] \in Nat
  /\ \A s \in Source : list[s] \in Lists \union {<<>>}
  /\ operation \in {"none", "initial", "update"}
  /\ operation = "none" => ~fetching

\* Each place of a list has a worker; those that ended well have left a series of
\* their symbol, the others have been counted.
Tallied(s) ==
  /\ \A i \in Place : worker[<<s, i>>].pc = "off" <=> i \notin DOMAIN list[s]
  /\ DOMAIN results[s] = {list[s][i] : i \in Got(s)}
  /\ IsFiniteSet(Failures(s)) /\ errors[s] = Cardinality(Failures(s))
  /\ \A y \in DOMAIN results[s] : EndsWithNewest(results[s][y])

\* What a batch that is over has left.
Ended(s) ==
  /\ batch[s] # "off"
  /\ batch[s] # "running" => DOMAIN list[s] = Got(s) \union Failures(s)
  /\ batch[s] = "failed" => list[s] # <<>> /\ Got(s) = {}
  /\ batch[s] = "ok" =>
       /\ list[s] = <<>> \/ Got(s) # {}
       /\ DOMAIN results[s] \subseteq DOMAIN merged
       /\ operation = "initial" =>
            \A y \in DOMAIN results[s] : lastTimestamps[s][y] = Last(results[s][y]).timestamp

MergedFromBatches ==
  \A y \in DOMAIN merged : \E s \in Source :
    batch[s] = "ok" /\ y \in DOMAIN results[s] /\ merged[y] = results[s][y]

Accounts ==
  operation # "none" => (\A s \in Source : Tallied(s) /\ Ended(s)) /\ MergedFromBatches

AccountInv == IInv /\ Tables /\ Accounts

\* A step of a worker goes on, or ends with an error or with a series.
LEMMA WorkFills ==
  ASSUME Types, NEW w \in Worker, Work(w)
  PROVE  /\ UNCHANGED <<list, batch, operation, fetching, merged, lastTimestamps>>
         /\ \/ worker'[w].pc \in {"queued"} \union Busy /\ UNCHANGED <<results, errors>>
            \/ worker'[w].pc = "failed" /\ Fails(w)
            \/ worker'[w].pc = "done" /\ \E series : EndsWithNewest(series) /\ Delivers(w, series)
<1> DEFINE x == worker[w]
           Goal == /\ UNCHANGED <<list, batch, operation, fetching, merged, lastTimestamps>>
                   /\ \/ worker'[w].pc \in {"queued"} \union Busy /\ UNCHANGED <<results, errors>>
                      \/ worker'[w].pc = "failed" /\ Fails(w)
                      \/ worker'[w].pc = "done" /\ \E series : EndsWithNewest(series) /\ Delivers(w, series)
<1>1. /\ DOMAIN worker = Worker
      /\ x = [pc |-> x.pc, attempt |-> x.attempt, rotations |-> x.rotations, built |-> x.built]
  BY DEF Types, State
<1>2. ASSUME NEW v, worker' = [worker EXCEPT ![w] = v], v.pc \in {"queued"} \union Busy,
             UNCHANGED <<results, errors, manager>>
      PROVE  Goal
  BY <1>1, <1>2 DEF manager
<1>3. ASSUME NEW p, Goes(w, p), p \in {"queued"} \union Busy, UNCHANGED <<results, errors, manager>>
      PROVE  Goal
  <2> DEFINE v == [x EXCEPT !.pc = p]
  <2>1. v.pc = p
    BY <1>1
  <2>2. worker' = [worker EXCEPT ![w] = v]
    BY <1>1, <1>3 DEF Goes
  <2> HIDE DEF v, Goal
  <2> QED BY <1>2, <1>3, <2>1, <2>2
<1>4. ASSUME NEW n, Retries(w, n), UNCHANGED <<results, errors, manager>>
      PROVE  Goal
  <2> DEFINE v == IF x.attempt < MaxRetries
                  THEN [pc |-> "rotate", attempt |-> x.attempt + 1, rotations |-> n, built |-> x.built]
                  ELSE [x EXCEPT !.pc = "give up"]
  <2>1. v.pc \in {"rotate", "give up"}
    BY <1>1
  <2>2. worker' = [worker EXCEPT ![w] = v]
    BY <1>1, <1>4 DEF Retries
  <2> HIDE DEF v, Goal
  <2> QED BY <1>2, <1>4, <2>1, <2>2 DEF Busy
<1>5. ASSUME NEW p, worker' = [worker EXCEPT ![w] = [Off EXCEPT !.pc = p]]
      PROVE  worker'[w].pc = p
  BY <1>1, <1>5 DEF Off
<1>6. ASSUME Fails(w), UNCHANGED manager
      PROVE  Goal
  BY <1>5, <1>6 DEF Fails, manager
<1>7. ASSUME NEW series, EndsWithNewest(series), Delivers(w, series), UNCHANGED manager
      PROVE  Goal
  BY <1>5, <1>7 DEF Delivers, manager
<1> HIDE DEF Goal
<1>8. ASSUME NEW body \in Bodies, Answered(w, body)
      PROVE  Goal
  BY <1>6, <1>7, <1>8, ParsedEndsWithNewest DEF Answered
<1>9. ASSUME Refused(w) \/ (\E found : GiveUp(w, found)) PROVE Goal
  BY <1>6, <1>9 DEF Refused, GiveUp
<1>10. ASSUME Acquire(w) PROVE Goal
  BY <1>3, <1>10 DEF Acquire, Busy
<1>11. ASSUME Failed(w) PROVE Goal
  BY <1>4, <1>11 DEF Failed
<1>12. ASSUME Blocked(w) PROVE Goal
  BY <1>3, <1>4, <1>12 DEF Blocked, Busy
<1>13. ASSUME \E found : Refresh(w, found) PROVE Goal
  BY <1>4, <1>13 DEF Refresh
<1>14. ASSUME RotateProxy(w) PROVE Goal
  BY <1>3, <1>14 DEF RotateProxy, Busy
<1>15. ASSUME CreateClient(w) PROVE Goal
  BY <1>1, <1>2, <1>15 DEF CreateClient, Busy
<1>16. ASSUME SetClient(w) PROVE Goal
  <2> DEFINE v == [pc |-> IF x.rotations = 2 THEN "rotate" ELSE "send", attempt |-> x.attempt,
                   rotations |-> x.rotations - 1, built |-> Direct]
  <2>1. v.pc \in {"rotate", "send"}
    OBVIOUS
  <2>2. worker' = [worker EXCEPT ![w] = v]
    BY <1>1, <1>16 DEF SetClient
  <2> HIDE DEF v
  <2> QED BY <1>2, <1>16, <2>1, <2>2 DEF SetClient, Busy
<1> QED BY <1>8, <1>9, <1>10, <1>11, <1>12, <1>13, <1>14, <1>15, <1>16 DEF Work, Goal

\* A list is a sequence of symbols; its places have workers.
LEMMA ListIsSeq ==
  ASSUME NEW symbols \in Lists \union {<<>>}
  PROVE  /\ Len(symbols) \in Nat /\ DOMAIN symbols = 1..Len(symbols)
         /\ IsFiniteSet(DOMAIN symbols) /\ DOMAIN symbols \subseteq Place
         /\ symbols = <<>> <=> DOMAIN symbols = {}
<1>1. symbols \in Seq(Symbol)
  BY ListsAssumption, EmptySeq
<1>2. Len(symbols) \in Nat /\ DOMAIN symbols = 1..Len(symbols)
  BY <1>1, LenProperties
<1>3. IsFiniteSet(DOMAIN symbols)
  BY <1>2, FS_Interval
<1>4. symbols = <<>> <=> DOMAIN symbols = {}
  <2>1. Len(symbols) = 0 <=> symbols = <<>>
    BY <1>1, EmptySeq
  <2> QED BY <1>2, <2>1
<1>5. DOMAIN symbols \subseteq Place
  BY <1>4 DEF Place
<1> QED BY <1>2, <1>3, <1>4, <1>5

\* A worker that ends is one more that has left a series, or one error more.
LEMMA WorkTallies ==
  ASSUME AccountInv, operation # "none", NEW w \in Worker, Work(w), NEW s \in Source
  PROVE  /\ Tallied(s)'
         /\ s # w[1] => /\ Got(s)' = Got(s) /\ Failures(s)' = Failures(s)
                        /\ results'[s] = results[s]
         /\ errors'[s] \in Nat /\ DOMAIN results' = Source /\ DOMAIN errors' = Source
<1> DEFINE k == w[2]
<1>1. PICK v \in State : Moves(w, v)
  BY WorkMoves DEF AccountInv, IInv
<1>2. /\ w[1] \in Source /\ k \in Place /\ w = <<w[1], k>>
      /\ DOMAIN worker = Worker /\ DOMAIN results = Source /\ DOMAIN errors = Source
      /\ errors[s] \in Nat
  BY DEF Worker, AccountInv, IInv, Types, Tables
<1>3. /\ \A u \in Worker \ {w} : worker'[u] = worker[u]
      /\ worker'[w] = v /\ worker[w].pc \in {"queued"} \union Busy
      /\ v.pc \in Busy \union Ends
  BY <1>1, <1>2 DEF Moves
<1>4. \A i \in Place : <<s, i>> \in Worker /\ (<<s, i>> = w <=> s = w[1] /\ i = k)
  BY <1>2 DEF Worker
<1>5. /\ list' = list
      /\ \/ v.pc \in {"queued"} \union Busy /\ UNCHANGED <<results, errors>>
         \/ v.pc = "failed" /\ Fails(w)
         \/ v.pc = "done" /\ \E series : EndsWithNewest(series) /\ Delivers(w, series)
  BY <1>3, WorkFills DEF AccountInv, IInv
<1>6. Tallied(s) /\ DOMAIN list[s] \subseteq Place
  BY ListIsSeq DEF AccountInv, Accounts, Tables
<1>7. \A i \in Place : worker'[<<s, i>>].pc = "off" <=> i \notin DOMAIN list'[s]
  BY <1>3, <1>4, <1>5, <1>6 DEF Tallied, Busy, Ends
<1>8. /\ Got(s)' = {i \in DOMAIN list[s] : worker'[<<s, i>>].pc = "done"}
      /\ Got(s) = {i \in DOMAIN list[s] : worker[<<s, i>>].pc = "done"}
      /\ Failures(s)' = {i \in DOMAIN list[s] : worker'[<<s, i>>].pc = "failed"}
  BY <1>5 DEF Got, At, Failures
<1>9. \A i \in DOMAIN list[s] : (s # w[1] \/ i # k) => worker'[<<s, i>>] = worker[<<s, i>>]
  BY <1>3, <1>4, <1>6
<1>10. CASE s # w[1] \/ v.pc \in Busy
  <2>1. Got(s)' = Got(s) /\ Failures(s)' = Failures(s)
    <3>1. CASE s # w[1]
      BY <1>8, <1>9, <3>1 DEF Failures
    <3>2. CASE s = w[1] /\ v.pc \in Busy
      <4>1. worker[<<s, k>>].pc \notin Ends /\ worker'[<<s, k>>].pc \notin Ends
        BY <1>2, <1>3, <3>2 DEF Busy, Ends
      <4> QED BY <1>8, <1>9, <4>1 DEF Failures, Ends
    <3> QED BY <1>10, <3>1, <3>2
  <2>2. results'[s] = results[s] /\ errors'[s] = errors[s]
    BY <1>2, <1>5, <1>10 DEF Fails, Delivers, Busy
  <2>3. DOMAIN results' = Source /\ DOMAIN errors' = Source
    BY <1>2, <1>5 DEF Fails, Delivers
  <2>4. Tallied(s)'
    BY <1>5, <1>6, <1>7, <2>1, <2>2 DEF Tallied, EndsWithNewest
  <2> QED BY <1>2, <2>1, <2>2, <2>3, <2>4
<1>11. CASE s = w[1] /\ v.pc \in Ends
  <2>1. /\ k \in DOMAIN list[s] /\ SymbolOf(w) = list[s][k]
        /\ worker[<<s, k>>].pc \notin Ends /\ worker'[<<s, k>>].pc = v.pc
    BY <1>2, <1>3, <1>6, <1>11 DEF Tallied, Busy, Ends, SymbolOf
  <2>2. CASE v.pc = "failed" /\ Fails(w)
    <3>1. results' = results /\ errors' = [errors EXCEPT ![w[1]] = @ + 1]
      BY <2>2 DEF Fails
    <3>2. errors'[s] = errors[s] + 1 /\ DOMAIN errors' = Source
      BY <1>2, <1>11, <3>1
    <3>3. Got(s)' = Got(s)
      BY <1>8, <1>9, <2>1, <2>2 DEF Ends
    <3>4. Failures(s)' = Failures(s) \union {k} /\ k \notin Failures(s)
      BY <1>8, <1>9, <2>1, <2>2 DEF Ends, Failures
    <3>5. IsFiniteSet(Failures(s)) /\ errors[s] = Cardinality(Failures(s))
      BY <1>6 DEF Tallied
    <3>6. /\ IsFiniteSet(Failures(s) \union {k})
          /\ Cardinality(Failures(s) \union {k}) = Cardinality(Failures(s)) + 1
      BY <3>4, <3>5, FS_AddElement
    <3>7. IsFiniteSet(Failures(s)') /\ errors'[s] = Cardinality(Failures(s)')
      BY <3>2, <3>4, <3>5, <3>6
    <3>8. DOMAIN results'[s] = {list'[s][i] : i \in Got(s)'}
      BY <1>5, <1>6, <3>1, <3>3 DEF Tallied
    <3>9. \A y \in DOMAIN results'[s] : EndsWithNewest(results'[s][y])
      BY <1>6, <3>1 DEF Tallied
    <3>10. Tallied(s)'
      BY <1>7, <3>7, <3>8, <3>9 DEF Tallied, EndsWithNewest
    <3> QED BY <1>2, <1>11, <3>1, <3>2, <3>10
  <2>3. ASSUME NEW series, EndsWithNewest(series), Delivers(w, series), v.pc = "done"
        PROVE  /\ Tallied(s)'
               /\ errors'[s] \in Nat /\ DOMAIN results' = Source /\ DOMAIN errors' = Source
    <3>1. errors' = errors
          /\ results' = [results EXCEPT ![w[1]] = Over([y \in {SymbolOf(w)} |-> series], @)]
      BY <2>3 DEF Delivers
    <3>2. DOMAIN results' = Source /\ results'[s] = Over([y \in {list[s][k]} |-> series], results[s])
      BY <1>2, <1>11, <2>1, <3>1
    <3>3. /\ DOMAIN results'[s] = DOMAIN results[s] \union {list[s][k]}
          /\ \A y \in DOMAIN results'[s] :
               results'[s][y] = IF y = list[s][k] THEN series ELSE results[s][y]
      BY <3>2 DEF Over
    <3>4. Got(s)' = Got(s) \union {k}
      BY <1>8, <1>9, <2>1, <2>3 DEF Ends
    <3>5. Failures(s)' = Failures(s)
      BY <1>8, <1>9, <2>1, <2>3 DEF Ends, Failures
    <3>6. DOMAIN results[s] = {list[s][i] : i \in Got(s)}
      BY <1>6 DEF Tallied
    <3>7. DOMAIN results'[s] = {list'[s][i] : i \in Got(s)'}
      BY <1>5, <3>3, <3>4, <3>6
    <3>8. \A y \in DOMAIN results'[s] : EndsWithNewest(results'[s][y])
      BY <1>6, <2>3, <3>3 DEF Tallied
    <3>9. IsFiniteSet(Failures(s)') /\ errors'[s] = Cardinality(Failures(s)')
      BY <1>6, <3>1, <3>5 DEF Tallied
    <3>10. Tallied(s)'
      BY <1>7, <3>7, <3>8, <3>9 DEF Tallied, EndsWithNewest
    <3> QED BY <1>2, <3>1, <3>2, <3>10
  <2> QED BY <1>5, <1>11, <2>2, <2>3 DEF Busy, Ends
<1> QED BY <1>3, <1>10, <1>11

\* A worker's step disturbs neither the batches that are over nor the merged map.
LEMMA WorkAccounts ==
  ASSUME AccountInv, NEW w \in Worker, Work(w)
  PROVE  Tables' /\ Accounts'
<1>1. UNCHANGED <<list, batch, operation, fetching, merged, lastTimestamps>>
  BY WorkFills DEF AccountInv, IInv
<1>2. w[1] \in Source /\ batch[w[1]] = "running"
  <2>1. w[1] \in Source /\ w[2] \in Place /\ w = <<w[1], w[2]>>
    BY DEF Worker
  <2>2. worker[w].pc \in {"queued"} \union Busy
    BY WorkMoves DEF AccountInv, IInv, Moves
  <2>3. worker[<<w[1], w[2]>>].pc \in {"queued"} \union Busy
    BY <2>1, <2>2
  <2> QED BY <2>1, <2>3 DEF AccountInv, IInv, WorkersHaveBatch
<1>3. operation # "none"
  BY <1>2 DEF AccountInv, IInv, WorkersHaveBatch, Tables
<1>4. \A s \in Source :
        /\ Tallied(s)'
        /\ s # w[1] => /\ Got(s)' = Got(s) /\ Failures(s)' = Failures(s)
                       /\ results'[s] = results[s]
        /\ errors'[s] \in Nat /\ DOMAIN results' = Source /\ DOMAIN errors' = Source
  BY <1>3, WorkTallies
<1>5. Tables'
  BY <1>1, <1>2, <1>4 DEF AccountInv, Tables
<1>6. ASSUME NEW s \in Source
      PROVE  Ended(s)'
  <2>1. Ended(s)
    BY <1>3 DEF AccountInv, Accounts
  <2>2. CASE s = w[1]
    BY <1>1, <1>2, <2>2 DEF Ended
  <2>3. CASE s # w[1]
    <3>1. Got(s)' = Got(s) /\ Failures(s)' = Failures(s) /\ results'[s] = results[s]
      BY <1>4, <2>3
    <3> QED BY <1>1, <2>1, <3>1 DEF Ended
  <2> QED BY <2>2, <2>3
<1>7. MergedFromBatches'
  <2>1. MergedFromBatches
    BY <1>3 DEF AccountInv, Accounts
  <2>2. ASSUME NEW y \in DOMAIN merged
        PROVE  \E s \in Source : batch'[s] = "ok" /\ y \in DOMAIN results'[s] /\ merged'[y] = results'[s][y]
    <3>1. PICK s \in Source : batch[s] = "ok" /\ y \in DOMAIN results[s] /\ merged[y] = results[s][y]
      BY <2>1 DEF MergedFromBatches
    <3>2. results'[s] = results[s]
      BY <1>2, <1>4, <3>1
    <3> QED BY <1>1, <3>1, <3>2
  <2> QED BY <1>1, <2>2 DEF MergedFromBatches
<1> QED BY <1>4, <1>5, <1>6, <1>7 DEF Accounts

\* A fetch starts with a worker for each symbol and without results.
LEMMA FetchAccountsStart ==
  ASSUME AccountInv, Fetch
  PROVE  Tables' /\ Accounts'
<1>1. /\ operation' \in {"initial", "update"} /\ fetching' = TRUE
      /\ batch' = [s \in Source |-> "running"]
      /\ list' \in [Source -> Lists]
      /\ worker' = [w \in Worker |->
                      IF w[2] \in DOMAIN list'[w[1]] THEN [Off EXCEPT !.pc = "queued"] ELSE Off]
      /\ results' = [s \in Source |-> <<>>] /\ errors' = [s \in Source |-> 0] /\ merged' = <<>>
      /\ lastTimestamps' = lastTimestamps
  BY DEF Fetch
<1>2. Off.pc = "off" /\ [Off EXCEPT !.pc = "queued"].pc = "queued"
  BY DEF Off
<1>3. \A s \in Source : list'[s] \in Lists /\ DOMAIN list'[s] \subseteq Place
  BY <1>1, ListIsSeq
<1>4. Tables'
  BY <1>1, <1>3 DEF AccountInv, Tables
<1>5. ASSUME NEW s \in Source
      PROVE  Tallied(s)' /\ Ended(s)'
  <2>1. \A i \in Place : worker'[<<s, i>>].pc = IF i \in DOMAIN list'[s] THEN "queued" ELSE "off"
    <3>1. ASSUME NEW i \in Place
          PROVE  worker'[<<s, i>>].pc = IF i \in DOMAIN list'[s] THEN "queued" ELSE "off"
      <4>1. <<s, i>> \in Worker /\ <<s, i>>[1] = s /\ <<s, i>>[2] = i
        BY DEF Worker
      <4> QED BY <1>1, <1>2, <4>1
    <3> QED BY <3>1
  <2>2. Got(s)' = {} /\ Failures(s)' = {}
    BY <1>3, <2>1 DEF Got, At, Failures
  <2>3. results'[s] = <<>> /\ errors'[s] = 0 /\ batch'[s] = "running"
    BY <1>1
  <2>4. DOMAIN results'[s] = {} /\ IsFiniteSet({}) /\ Cardinality({}) = 0
    BY <2>3, FS_EmptySet
  <2>5. Tallied(s)'
    BY <2>1, <2>2, <2>3, <2>4 DEF Tallied
  <2>6. Ended(s)'
    BY <2>3 DEF Ended
  <2> QED BY <2>5, <2>6
<1>6. MergedFromBatches'
  BY <1>1 DEF MergedFromBatches
<1> QED BY <1>4, <1>5, <1>6 DEF Accounts

\* A batch that ends leaves its series in the merged map, unless all symbols failed.
LEMMA MergeAccounts ==
  ASSUME AccountInv, NEW s \in Source, Merge(s)
  PROVE  Tables' /\ Accounts'
<1>1. /\ batch[s] = "running"
      /\ \A i \in DOMAIN list[s] : worker[<<s, i>>].pc \in {"done", "failed"}
      /\ UNCHANGED <<worker, results, errors, list, operation, fetching>>
  BY DEF Merge, At, batches
<1>2. \/ AllFailed(s) /\ batch' = [batch EXCEPT ![s] = "failed"] /\ UNCHANGED <<merged, lastTimestamps>>
      \/ /\ ~AllFailed(s) /\ batch' = [batch EXCEPT ![s] = "ok"]
         /\ merged' = Over(results[s], merged)
         /\ lastTimestamps' = IF operation = "initial"
                              THEN [lastTimestamps EXCEPT ![s] = Over(NewestOf(s), @)]
                              ELSE lastTimestamps
  BY DEF Merge
<1>3. /\ operation # "none" /\ DOMAIN batch = Source
      /\ DOMAIN lastTimestamps = Source /\ errors[s] \in Nat
      /\ list[s] \in Lists \union {<<>>}
  BY <1>1 DEF AccountInv, IInv, WorkersHaveBatch, Tables
<1>4. Tables'
  BY <1>1, <1>2 DEF AccountInv, Tables
<1>5. (\A r \in Source : Tallied(r) /\ Ended(r)) /\ MergedFromBatches
  BY <1>3 DEF AccountInv, Accounts
<1>6. \A r \in Source : Tallied(r)' /\ Got(r)' = Got(r) /\ Failures(r)' = Failures(r)
  <2>1. \A r \in Source : Got(r)' = Got(r) /\ Failures(r)' = Failures(r)
    BY <1>1 DEF Got, At, Failures
  <2> QED BY <1>1, <1>5, <2>1 DEF Tallied, EndsWithNewest
<1>7. /\ DOMAIN list[s] = Got(s) \union Failures(s)
      /\ list[s] = <<>> <=> DOMAIN list[s] = {}
      /\ DOMAIN results[s] = {} <=> Got(s) = {}
      /\ errors[s] = 0 <=> Failures(s) = {}
  <2>1. DOMAIN list[s] = Got(s) \union Failures(s)
    BY <1>1 DEF Got, At, Failures
  <2>2. list[s] = <<>> <=> DOMAIN list[s] = {}
    BY <1>3, ListIsSeq
  <2>3. DOMAIN results[s] = {} <=> Got(s) = {}
    BY <1>5 DEF Tallied
  <2>4. errors[s] = 0 <=> Failures(s) = {}
    BY <1>5, FS_EmptySet DEF Tallied
  <2> QED BY <2>1, <2>2, <2>3, <2>4
<1>8. /\ batch'[s] # "running" /\ batch'[s] # "off"
      /\ \A r \in Source \ {s} : batch'[r] = batch[r] /\ lastTimestamps'[r] = lastTimestamps[r]
      /\ DOMAIN merged \subseteq DOMAIN merged'
  BY <1>2, <1>3 DEF Over
<1>9. ASSUME NEW r \in Source
      PROVE  Ended(r)'
  <2>1. CASE r # s
    BY <1>1, <1>5, <1>6, <1>8, <2>1 DEF Ended
  <2>2. CASE r = s /\ AllFailed(s)
    <3>1. batch'[s] = "failed"
      BY <1>2, <1>3, <2>2
    <3>2. DOMAIN results[s] = {} /\ errors[s] > 0
      BY <2>2 DEF AllFailed
    <3>3. Got(s) = {} /\ list[s] # <<>>
      BY <1>3, <1>7, <3>2
    <3> QED BY <1>1, <1>6, <1>7, <2>2, <3>1, <3>3 DEF Ended
  <2>3. CASE r = s /\ ~AllFailed(s)
    <3>1. batch'[s] = "ok" /\ merged' = Over(results[s], merged)
      BY <1>2, <1>3, <2>3
    <3>2. list[s] = <<>> \/ Got(s) # {}
      BY <1>3, <1>7, <2>3 DEF AllFailed
    <3>3. DOMAIN results[s] \subseteq DOMAIN merged'
      BY <3>1 DEF Over
    <3>4. ASSUME operation = "initial", NEW y \in DOMAIN results[s]
          PROVE  lastTimestamps'[s][y] = Last(results[s][y]).timestamp
      <4>1. lastTimestamps'[s] = Over(NewestOf(s), lastTimestamps[s])
        BY <1>2, <1>3, <2>3, <3>4
      <4>2. y \in DOMAIN NewestOf(s) /\ NewestOf(s)[y] = Last(results[s][y]).timestamp
        BY <3>4 DEF NewestOf
      <4> QED BY <4>1, <4>2 DEF Over
    <3> QED BY <1>1, <1>6, <1>7, <2>3, <3>1, <3>2, <3>3, <3>4 DEF Ended
  <2> QED BY <2>1, <2>2, <2>3
<1>10. MergedFromBatches'
  <2>1. ASSUME NEW y \in DOMAIN merged'
        PROVE  \E r \in Source : batch'[r] = "ok" /\ y \in DOMAIN results[r] /\ merged'[y] = results[r][y]
    <3>1. CASE ~AllFailed(s) /\ y \in DOMAIN results[s]
      <4>1. batch'[s] = "ok" /\ merged'[y] = results[s][y]
        BY <1>2, <1>3, <3>1 DEF Over
      <4> QED BY <3>1, <4>1
    <3>2. CASE AllFailed(s) \/ y \notin DOMAIN results[s]
      <4>1. y \in DOMAIN merged /\ merged'[y] = merged[y]
        BY <1>2, <2>1, <3>2 DEF Over
      <4>2. PICK r \in Source : batch[r] = "ok" /\ y \in DOMAIN results[r] /\ merged[y] = results[r][y]
        BY <1>5, <4>1 DEF MergedFromBatches
      <4>3. batch'[r] = "ok"
        BY <1>1, <1>8, <4>2
      <4> QED BY <4>1, <4>2, <4>3
    <3> QED BY <3>1, <3>2
  <2> QED BY <1>1, <2>1 DEF MergedFromBatches
<1> QED BY <1>4, <1>6, <1>9, <1>10 DEF Accounts

\* The invariant of the results holds at the start and is inductive.
LEMMA AccountInit == Init => AccountInv
<1> SUFFICES ASSUME Init PROVE AccountInv
  OBVIOUS
<1>1. IInv
  BY InitInv
<1>2. Tables /\ operation = "none"
  BY DEF Init, Tables
<1> QED BY <1>1, <1>2 DEF AccountInv, Accounts

\* Every step keeps it.
LEMMA AccountStep == AccountInv /\ [Next]_vars => AccountInv'
<1>1. SUFFICES ASSUME AccountInv, [Next]_vars PROVE AccountInv'
  OBVIOUS
<1>2. IInv'
  BY <1>1, StepInv DEF AccountInv
<1>3. ASSUME Fetch PROVE Tables' /\ Accounts'
  BY <1>1, <1>3, FetchAccountsStart
<1>4. ASSUME NEW w \in Worker, Work(w) PROVE Tables' /\ Accounts'
  BY <1>1, <1>4, WorkAccounts
<1>5. ASSUME NEW s \in Source, Merge(s) PROVE Tables' /\ Accounts'
  BY <1>1, <1>5, MergeAccounts
<1>6. ASSUME Return \/ UNCHANGED vars PROVE Tables' /\ Accounts'
  <2>1. /\ UNCHANGED <<worker, results, errors, list, batch, operation, merged, lastTimestamps>>
        /\ fetching' => fetching
    BY <1>6 DEF Return, vars, batches, manager
  <2>2. Tables'
    BY <1>1, <2>1 DEF AccountInv, Tables
  <2>3. \A s \in Source : (Tallied(s) => Tallied(s)') /\ (Ended(s) => Ended(s)')
    BY <2>1 DEF Got, At, Failures, Tallied, Ended, EndsWithNewest
  <2>4. MergedFromBatches => MergedFromBatches'
    BY <2>1 DEF MergedFromBatches
  <2> QED BY <1>1, <2>1, <2>2, <2>3, <2>4 DEF AccountInv, Accounts
<1> QED BY <1>1, <1>2, <1>3, <1>4, <1>5, <1>6 DEF Next, AccountInv

\* A fetch returns a series of every symbol some worker got data for and of no other,
\* whole and from one source, and counts an error for every other worker; a symbol that
\* failed takes no other with it, a source without any data no other source; and an
\* initial fetch leaves as a source's last timestamp of a symbol the newest valid one,
\* in whatever order the rows came.  Lists may repeat symbols (fetchBatch,
\* FetchInitialData of source and manager, parseChartResponse).
THEOREM FetchAlwaysAccounts == Spec => []FetchAccounts
<1>1. AccountInv => FetchAccounts
  <2> SUFFICES ASSUME AccountInv, operation # "none", ~fetching PROVE FetchAccounts
    BY DEF FetchAccounts
  <2>1. ASSUME NEW s \in Source
        PROVE  /\ Tallied(s) /\ Ended(s) /\ batch[s] \in {"ok", "failed"}
               /\ DOMAIN list[s] = Got(s) \union Failures(s)
    <3>1. Tallied(s) /\ Ended(s)
      BY DEF AccountInv, Accounts
    <3>2. batch[s] \in {"ok", "failed"}
      BY <3>1 DEF AccountInv, IInv, WorkersHaveBatch, Ended
    <3> QED BY <3>1, <3>2 DEF Ended
  <2>2. ASSUME NEW s \in Source
        PROVE  /\ DOMAIN results[s] = {list[s][i] : i \in Got(s)}
               /\ errors[s] = Cardinality(DOMAIN list[s] \ Got(s))
               /\ batch[s] = "failed" <=> list[s] # <<>> /\ Got(s) = {}
    <3>1. DOMAIN list[s] \ Got(s) = Failures(s)
      BY <2>1 DEF Got, At, Failures
    <3> QED BY <2>1, <3>1 DEF Tallied, Ended
  <2>3. ASSUME NEW s \in Source, operation = "initial", NEW y \in DOMAIN results[s],
               NEW i \in DOMAIN results[s][y]
        PROVE  lastTimestamps[s][y] >= results[s][y][i].timestamp
    <3>1. batch[s] = "ok"
      BY <2>1, <2>2, <2>3 DEF Ended
    <3>2. lastTimestamps[s][y] = Last(results[s][y]).timestamp
      BY <2>1, <2>3, <3>1 DEF Ended
    <3> QED BY <2>1, <2>3, <3>2 DEF Tallied, EndsWithNewest
  <2>4. DOMAIN merged = UNION {DOMAIN results[s] : s \in Source}
    <3>1. \A s \in Source : DOMAIN results[s] \subseteq DOMAIN merged
      BY <2>1, <2>2 DEF Ended
    <3>2. \A y \in DOMAIN merged : \E s \in Source : y \in DOMAIN results[s]
      BY DEF AccountInv, Accounts, MergedFromBatches
    <3> QED BY <3>1, <3>2
  <2>5. \A y \in DOMAIN merged : \E s \in Source : y \in DOMAIN results[s] /\ merged[y] = results[s][y]
    BY DEF AccountInv, Accounts, MergedFromBatches
  <2> QED BY <2>2, <2>3, <2>4, <2>5 DEF FetchAccounts
<1> QED BY <1>1, AccountInit, AccountStep, PTL DEF Spec
==============================================================================
