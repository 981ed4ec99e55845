-------------------------------- MODULE Fetch --------------------------------
(***************************************************************************)
(* A fetch of all sources: MultiSourceManager starts one goroutine for     *)
(* each source, fetchBatch of YahooFinanceSource one for each symbol, and  *)
(* AsyncNetworkManager.Get makes their requests with retries.  What they   *)
(* share is not one thing: the semaphore and the results are of a batch,   *)
(* the merged map is of the fetch, the HTTP client and the list of proxies *)
(* are of the process.  The proxies have a lock, the client has none.      *)
(*                                                                         *)
(* setup.go makes at most one source at the start; the manager is written  *)
(* for several, which gRPC requests add.  Nothing keeps a list of symbols  *)
(* from naming one twice (default.yaml does), and then it has two workers. *)
(***************************************************************************)
EXTENDS Integers, Sequences, FiniteSets, SequencesExt, Common

CONSTANTS Source,
          Symbol,
          Lists,              \* the lists of symbols a source may have, repeats included
          BadSymbol,          \* symbols that make no valid URL
          Bodies,             \* answers with status 200
          AcceptedLists,      \* what NewProxyManager may keep of Network.Proxies, in order
          Unparsable,         \* kept entries that are no URL once FormatProxy has put
                              \* "http://" before them ("foo bar")
          Scraped,            \* proxies the page of sslproxies.org may list
          ProxyLimit,         \* how many of them RefreshProxies keeps (50)
          Direct,             \* an HTTP client without a proxy
          Null,               \* a row of an answer with a missing value
          MaxRetries,
          ConcurrentRequests,
          MaxFetches          \* bound: fetches

Proxy == (UNION {ToSet(kept) : kept \in AcceptedLists}) \union Scraped

ASSUME FetchAssumption ==
  /\ \A kept \in AcceptedLists : kept \in Seq(ToSet(kept))
  /\ Direct \notin Proxy
  /\ Scraped \intersect Unparsable = {}      \* they are digits and dots
  /\ IsFiniteSet(Scraped)
  /\ ProxyLimit \in Nat \ {0}
  /\ MaxRetries \in Nat
  /\ ConcurrentRequests \in Nat \ {0}

ASSUME ListsAssumption == Lists \subseteq Seq(Symbol)

ASSUME BodyAssumption ==
  \A body \in Bodies :
    body.rows \in Seq({Null} \union [timestamp : Int, close : Int, volume : Int])

\* A worker for each place of a source's list.
Place == UNION {DOMAIN symbols : symbols \in Lists}
Worker == Source \X Place

VARIABLES
  enabled,         \* Network.Enabled
  accepted,        \* the list NewProxyManager began with
  proxies, index,  \* ProxyManager, index from 0
  client,          \* nm.Client: the proxy it goes through, or Direct
  direct,          \* what was asked through no proxy: "quotes", "proxies"
  worker,          \* [pc, attempt, rotations, built] of each goroutine of a batch
  sem,             \* taken slots of each batch's semaphore
  results,         \* per source: symbol -> time series
  errors,          \* per source: failed workers
  list,            \* the list a source read when its batch began
  batch,           \* per source: "off", "running", "ok" or "failed"
  operation,       \* "none", "initial" or "update": the last fetch
  fetching,        \* whether it is still under way
  fetches,
  merged,          \* what it returns
  lastTimestamps   \* newest timestamp of each source's initial data

config == <<enabled, accepted>>
network == <<config, proxies, index, client, direct>>
batches == <<worker, sem, results, errors>>
manager == <<list, batch, operation, fetching, fetches, merged, lastTimestamps>>
vars == <<network, batches, manager>>

\* createClient: HasProxies and GetCurrentProxy.  A proxy that is no URL makes a
\* client without one, and no error.
Current ==
  IF proxies = <<>> \/ proxies[index + 1] \in Unparsable THEN Direct ELSE proxies[index + 1]

Off == [pc |-> "off", attempt |-> 0, rotations |-> 0, built |-> Direct]

\* NewAsyncNetworkManager; no source has been asked yet.
Init ==
  /\ enabled \in BOOLEAN
  /\ accepted \in IF enabled THEN AcceptedLists ELSE {<<>>}
  /\ proxies = accepted
  /\ index = 0
  /\ client = Current
  /\ direct = {}
  /\ worker = [w \in Worker |-> Off]
  /\ sem = [s \in Source |-> 0]
  /\ results = [s \in Source |-> <<>>]
  /\ errors = [s \in Source |-> 0]
  /\ list = [s \in Source |-> <<>>]
  /\ batch = [s \in Source |-> "off"]
  /\ operation = "none"
  /\ fetching = FALSE
  /\ fetches = 0
  /\ merged = <<>>
  /\ lastTimestamps = [s \in Source |-> <<>>]

-----------------------------------------------------------------------------
(* parseChartResponse.  An answer is [rows, previous], the rows Null or     *)
(* [timestamp, close, volume] and previous the close before the first of    *)
(* them; one that does not parse, reports an error or has arrays of         *)
(* different lengths is taken to be one without rows.                       *)

NoData == <<>>

Change(new, old) == IF old > 0 THEN <<new - old, old>> ELSE <<0, 1>>

Valid(rows) == {i \in DOMAIN rows : rows[i] # Null /\ rows[i].close > 0 /\ rows[i].volume >= 0}

Clean(body) == InOrderOfTime(body.rows, Valid(body.rows))

ParseChartResponse(body) ==
  LET points == Clean(body)
      Before(i) == IF i > 1 THEN points[i - 1]
                   ELSE [points[1] EXCEPT !.close = IF body.previous > 0 THEN body.previous ELSE @]
  IN  [i \in DOMAIN points |->
         [timestamp |-> points[i].timestamp,
          price |-> points[i].close, volume |-> points[i].volume,
          pricePercentChange |-> Change(points[i].close, Before(i).close),
          volumePercentChange |-> Change(points[i].volume, Before(i).volume)]]

-----------------------------------------------------------------------------
(* Get.  Sleeping before a retry takes time and changes nothing.            *)

At(w, pc) == worker[w].pc = pc
SymbolOf(w) == list[w[1]][w[2]]
Goes(w, pc) == worker' = [worker EXCEPT ![w].pc = pc]

KeepsSlot(w) ==                      \* Error: the slot is not given back
  /\ worker' = [worker EXCEPT ![w] = [Off EXCEPT !.pc = "failed"]]
  /\ errors' = [errors EXCEPT ![w[1]] = @ + 1]
  /\ UNCHANGED <<results, sem>>

\* The end of a worker of fetchBatch, without data and with it.
Fails(w) ==
  /\ worker' = [worker EXCEPT ![w] = [Off EXCEPT !.pc = "failed"]]
  /\ errors' = [errors EXCEPT ![w[1]] = @ + 1]
  /\ sem' = [sem EXCEPT ![w[1]] = @ - 1]
  /\ UNCHANGED results

Delivers(w, series) ==
  /\ worker' = [worker EXCEPT ![w] = [Off EXCEPT !.pc = "done"]]
  /\ results' = [results EXCEPT ![w[1]] = Over([y \in {SymbolOf(w)} |-> series], @)]
  /\ sem' = [sem EXCEPT ![w[1]] = @ - 1]
  /\ UNCHANGED errors

Acquire(w) ==
  /\ At(w, "queued")
  /\ sem[w[1]] < ConcurrentRequests
  /\ sem' = [sem EXCEPT ![w[1]] = @ + 1]
  /\ Goes(w, "send")
  /\ UNCHANGED <<network, results, errors, manager>>

\* The next attempt, after rotations of the proxy, or the end of the loop.
Retries(w, rotations) ==
  worker' = [worker EXCEPT ![w] =
               IF @.attempt < MaxRetries
               THEN [pc |-> "rotate", attempt |-> @.attempt + 1, rotations |-> rotations,
                     built |-> @.built]
               ELSE [@ EXCEPT !.pc = "give up"]]

\* client.Do by the client there is now.
Asks == direct' = IF client = Direct THEN direct \union {"quotes"} ELSE direct

Answered(w, body) ==
  /\ At(w, "send")
  /\ SymbolOf(w) \notin BadSymbol
  /\ LET series == ParseChartResponse(body)
     IN  IF series = NoData THEN Fails(w) ELSE Delivers(w, series)
  /\ Asks
  /\ UNCHANGED <<config, proxies, index, client, manager>>

\* No valid URL: an error without an attempt.
Refused(w) ==
  /\ At(w, "send")
  /\ SymbolOf(w) \in BadSymbol
  /\ Fails(w)
  /\ UNCHANGED <<network, manager>>

\* No answer, a bad status, or a body that breaks off.
Failed(w) ==
  /\ At(w, "send")
  /\ SymbolOf(w) \notin BadSymbol
  /\ Retries(w, 1)
  /\ Asks
  /\ UNCHANGED <<config, proxies, index, client, sem, results, errors, manager>>

\* Status 429 or 403: the attempt before the last also refreshes the proxies.
Blocked(w) ==
  /\ At(w, "send")
  /\ SymbolOf(w) \notin BadSymbol
  /\ IF worker[w].attempt = MaxRetries - 1 /\ enabled THEN Goes(w, "refresh") ELSE Retries(w, 1)
  /\ Asks
  /\ UNCHANGED <<config, proxies, index, client, sem, results, errors, manager>>

InstallAll(found) ==                 \* Error: an empty page empties the list
  /\ proxies' = found
  /\ index' = 0
InstallAtIndex(found) ==             \* Error: the index is not reset
  /\ proxies' = IF found = <<>> THEN proxies ELSE SubSeq(found, 1, Min({Len(found), ProxyLimit}))
  /\ UNCHANGED index

\* RefreshProxies: what it found on the page, shuffled, replaces the list.  It asks
\* for the page with a client of its own, which has none of the proxies.
Install(found) ==
  IF found = <<>> THEN UNCHANGED <<proxies, index>>
  ELSE /\ proxies' = SubSeq(found, 1, Min({Len(found), ProxyLimit}))
       /\ index' = 0

RefreshProxies(found) ==
  /\ direct' = direct \union {"proxies"}
  /\ Install(found)

Refresh(w, found) ==
  /\ At(w, "refresh")
  /\ RefreshProxies(found)
  /\ Retries(w, IF found = <<>> THEN 1 ELSE 2)
  /\ UNCHANGED <<config, client, sem, results, errors, manager>>

\* rotateProxy: the index, the new client and the field that holds it are three
\* steps, and other workers take theirs in between.
RotateProxy(w) ==
  /\ At(w, "rotate")
  /\ IF proxies = <<>>
     THEN Goes(w, "send") /\ UNCHANGED index
     ELSE /\ Goes(w, "create")
          /\ index' = IF Len(proxies) = 1 THEN index ELSE (index + 1) % Len(proxies)
  /\ UNCHANGED <<config, proxies, client, direct, sem, results, errors, manager>>

CreateClient(w) ==
  /\ At(w, "create")
  /\ worker' = [worker EXCEPT ![w] = [pc |-> "publish", attempt |-> @.attempt,
                                      rotations |-> @.rotations, built |-> Current]]
  /\ UNCHANGED <<network, sem, results, errors, manager>>

SetClient(w) ==
  /\ At(w, "publish")
  /\ client' = worker[w].built
  /\ worker' = [worker EXCEPT ![w] =
                  [pc |-> IF @.rotations = 2 THEN "rotate" ELSE "send", attempt |-> @.attempt,
                   rotations |-> @.rotations - 1, built |-> Direct]]
  /\ UNCHANGED <<config, proxies, index, direct, sem, results, errors, manager>>

\* Max retries exceeded; the last refresh leaves the client as it is.
GiveUp(w, found) ==
  /\ At(w, "give up")
  /\ IF enabled THEN RefreshProxies(found) ELSE UNCHANGED <<proxies, index, direct>>
  /\ Fails(w)
  /\ UNCHANGED <<config, client, manager>>

Pages == UNION {SetToSeqs(page) : page \in SUBSET Scraped}

Work(w) ==
  \/ Acquire(w)
  \/ \E body \in Bodies : Answered(w, body)
  \/ Refused(w)
  \/ Failed(w)
  \/ Blocked(w)
  \/ \E found \in Pages : Refresh(w, found)
  \/ RotateProxy(w)
  \/ CreateClient(w)
  \/ SetClient(w)
  \/ \E found \in IF enabled THEN Pages ELSE {<<>>} : GiveUp(w, found)

-----------------------------------------------------------------------------
(* The batch of a source and the fetch of the manager.                      *)

\* FetchInitialData comes first, at the start; FetchUpdateData is for later.
Fetch ==
  /\ ~fetching
  /\ fetches < MaxFetches
  /\ operation' = IF fetches = 0 THEN "initial" ELSE "update"
  /\ fetching' = TRUE
  /\ fetches' = fetches + 1
  /\ batch' = [s \in Source |-> "running"]
  /\ list' \in [Source -> Lists]
  /\ worker' = [w \in Worker |->
                  IF w[2] \in DOMAIN list'[w[1]] THEN [Off EXCEPT !.pc = "queued"] ELSE Off]
  /\ results' = [s \in Source |-> <<>>]
  /\ errors' = [s \in Source |-> 0]
  /\ merged' = <<>>
  /\ UNCHANGED <<network, sem, lastTimestamps>>

AnyFailed(s) == errors[s] > 0        \* Error: one failed worker fails the batch
AllFailed(s) == DOMAIN results[s] = {} /\ errors[s] > 0

\* The last point of each series, what FetchInitialData of the source remembers.
NewestOf(s) == [y \in DOMAIN results[s] |-> Last(results[s][y]).timestamp]

\* wg.Wait of fetchBatch; then the source's data go into the merged map, over
\* those of a source that was faster, or an error is logged and forgotten.
Merge(s) ==
  /\ batch[s] = "running"
  /\ \A i \in DOMAIN list[s] : worker[<<s, i>>].pc \in {"done", "failed"}
  /\ IF AllFailed(s)
     THEN /\ batch' = [batch EXCEPT ![s] = "failed"]
          /\ UNCHANGED <<merged, lastTimestamps>>
     ELSE /\ batch' = [batch EXCEPT ![s] = "ok"]
          /\ merged' = Over(results[s], merged)
          /\ lastTimestamps' =
               IF operation = "initial"
               THEN [lastTimestamps EXCEPT ![s] = Over(NewestOf(s), @)] ELSE lastTimestamps
  /\ UNCHANGED <<network, batches, list, operation, fetching, fetches>>

\* wg.Wait of the manager: it returns what there is, and never an error.
Return ==
  /\ fetching
  /\ \A s \in Source : batch[s] # "running"
  /\ fetching' = FALSE
  /\ UNCHANGED <<network, batches, list, batch, operation, fetches, merged, lastTimestamps>>

Next ==
  \/ Fetch
  \/ \E w \in Worker : Work(w)
  \/ \E s \in Source : Merge(s)
  \/ Return

Spec == Init /\ [][Next]_vars

\* Goroutines run, and requests end by their timeout.
Fairness ==
  /\ \A w \in Worker : WF_vars(Work(w))
  /\ \A s \in Source : WF_vars(Merge(s))
  /\ WF_vars(Return)

FairSpec == Spec /\ Fairness

-----------------------------------------------------------------------------
(* Properties. *)

\* The index is one of the list, whatever refreshes and rotations overlap, so
\* GetCurrentProxy never panics; no batch uses more slots than it has.
TypeOK ==
  /\ accepted \in AcceptedLists \union {<<>>} /\ direct \subseteq {"quotes", "proxies"}
  /\ index \in 0..(IF proxies = <<>> THEN 0 ELSE Len(proxies) - 1)
  /\ client \in {Direct} \union Proxy
  /\ \A w \in Worker : worker[w].attempt \in 0..MaxRetries /\ worker[w].rotations \in 0..2
  /\ \A s \in Source :
       sem[s] = Cardinality({i \in Place : worker[<<s, i>>].pc \notin
                                            {"off", "queued", "done", "failed"}})

\* With proxies accepted at the start, all of them URLs, no quote is ever asked for
\* without a proxy, though the client is replaced from a list another worker may be
\* replacing.  (One that is no URL makes a client without a proxy, and a refresh
\* asks for its page without one: neither is an error in the code.)
NeverDirect ==
  accepted # <<>> /\ ToSet(accepted) \intersect Unparsable = {} =>
    client # Direct /\ "quotes" \notin direct

\* The workers of a source that got data.
Got(s) == {i \in DOMAIN list[s] : At(<<s, i>>, "done")}

\* A fetch returns a series of every symbol some worker got data for and of no
\* other, whole and from one source, and counts an error for every other worker; a
\* symbol that failed takes no other with it, a source without any data no other
\* source; and an initial fetch leaves as a source's last timestamp of a symbol the
\* newest valid one, in whatever order the rows came.  Lists may repeat a symbol:
\* then the results and errors need not be as many as the list is long.
FetchAccounts ==
  operation # "none" /\ ~fetching =>
    /\ \A s \in Source :
         /\ DOMAIN results[s] = {list[s][i] : i \in Got(s)}
         /\ errors[s] = Cardinality(DOMAIN list[s] \ Got(s))
         /\ batch[s] = "failed" <=> list[s] # <<>> /\ Got(s) = {}
         /\ operation = "initial" =>
              \A y \in DOMAIN results[s] : \A i \in DOMAIN results[s][y] :
                lastTimestamps[s][y] >= results[s][y][i].timestamp
    /\ DOMAIN merged = UNION {DOMAIN results[s] : s \in Source}
    /\ \A y \in DOMAIN merged : \E s \in Source : y \in DOMAIN results[s] /\ merged[y] = results[s][y]

\* A fetch ends, however often requests fail, with fewer slots than symbols.
FetchReturns == fetching ~> ~fetching
=============================================================================
