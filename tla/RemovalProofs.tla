---------------------------- MODULE RemovalProofs ----------------------------
(***************************************************************************)
(* Without edits of the Glidein Manager URL, a removed GlideinSet leaves   *)
(* no handler behind in the pollers, for any number of GlideinSets, URLs   *)
(* and pollers.  removeGlideinManagerWatcher stops at the first poller in  *)
(* which it finds a handler, so the proof shows that there is never a      *)
(* second one: the entries of the watch list follow spec.                  *)
(***************************************************************************)
EXTENDS WatchListProofs

(* A GlideinSet watches its own URL, until it is gone. *)
EntriesAreCurrent ==
    \A g \in GlideinSets : \A u \in watched[g] : spec[g] \in {u, Deleting}

OneEntry == \A g \in GlideinSets : \A u, v \in watched[g] : u = v

(* The worker is past removeGlideinManagerWatcher's search. *)
Searched == worker.pc \in Stopping \cup {"finish"}

(* The object of a reconcile stays until the reconcile is over. *)
WorkerHasObject == worker.pc # "idle" => spec[worker.gs] # None

(* The URL that an add has read is the only one that the GlideinSet had. *)
AddsCurrentUrl ==
    worker.pc = "add" \/ (Searched /\ worker.target # None) =>
        /\ spec[worker.gs] \in {worker.url, Deleting}
        /\ watched[worker.gs] \subseteq {worker.url}

RemovedBeforeFinish ==
    Searched /\ worker.target = None => watched[worker.gs] = {}

RemovalInv ==
    /\ EntriesAreCurrent /\ OneEntry
    /\ WorkerHasObject /\ AddsCurrentUrl /\ RemovedBeforeFinish

-----------------------------------------------------------------------------

LEMMA WatchedType ==
  watched \in [GlideinSets -> SUBSET Urls] /\ watched' \in [GlideinSets -> SUBSET Urls]
  BY WatchedEntries

(* Who holds a handler has an entry in the list. *)
LEMMA HoldersAreWatched ==
  ASSUME IInv, NEW g \in GlideinSets, NEW p \in Holders(g)
  PROVE  url[p] \in watched[g]
<1>1. p \in Pollers /\ url[p] \in Urls /\ registry[url[p]] = p /\ g \in handlers[p]
  BY DEF Holders, Registered, IInv, TypeOK, Maybe
<1>2. Entry(g, url[p])
  BY <1>1, NoneAssumption DEF Entry
<1>3. QED
  BY <1>1, <1>2, WatchedEntries

LEMMA WatchedAreHeld ==
  ASSUME IInv, NEW g \in GlideinSets, NEW u \in watched[g]
  PROVE  Holders(g) # {}
<1>1. u \in Urls /\ Entry(g, u)
  BY WatchedEntries
<1>2. registry[u] \in Pollers /\ url[registry[u]] = u /\ g \in handlers[registry[u]]
  BY <1>1, OwnUrlOnly DEF Entry
<1>3. registry[u] \in Holders(g)
  BY <1>1, <1>2, NoneAssumption DEF Holders, Registered
<1>4. QED
  BY <1>3

LEMMA SearchResult ==
  ASSUME TypeOK, NEW g, NEW target, RemoveHandler(g, target)
  PROVE  /\ worker'.pc \in {"stopData", "finish"} /\ worker'.target = target
         /\ worker'.gs = worker.gs /\ worker'.url = worker.url
BY DEF RemoveHandler, TypeOK

-----------------------------------------------------------------------------
(* One lemma for the steps that leave the list alone, one for the others. *)

LEMMA ListUnchangedRemovalInv ==
  ASSUME ~UrlMayChange, IInv, RemovalInv, [Next]_vars, UNCHANGED <<registry, handlers>>
  PROVE  RemovalInv' \/ AddToExistingPoller \/ RemoveWatcher \/ FinishAdd
                     \/ AddToNewPoller \/ Restart
<1> USE NoneAssumption DEF RemovalInv, IInv
<1>1. watched' = watched
  BY WatchedEntries DEF Entry
<1>2. \A g \in GlideinSets : spec[g] = None => watched[g] = {}
  BY WatchedType DEF EntriesAreCurrent
<1>3. worker.pc # "idle" => worker.gs \in GlideinSets
  BY DEF TypeOK, Maybe
<1>4. CASE UNCHANGED <<spec, worker>>
  BY <1>1, <1>4 DEF EntriesAreCurrent, OneEntry, WorkerHasObject, AddsCurrentUrl,
                    RemovedBeforeFinish, Searched
<1>5. ASSUME NEW g \in GlideinSets, NEW u \in Urls, CreateGlideinSet(g, u)
      PROVE  RemovalInv'
  <2>1. /\ spec[g] = None /\ watched[g] = {} /\ worker' = worker
        /\ \A h \in GlideinSets : h # g => spec'[h] = spec[h]
    BY <1>2, <1>5 DEF CreateGlideinSet, TypeOK
  <2>2. EntriesAreCurrent' /\ OneEntry'
    BY <1>1, <2>1 DEF EntriesAreCurrent, OneEntry
  <2>3. worker.pc # "idle" => spec'[worker.gs] = spec[worker.gs]
    BY <1>3, <2>1 DEF WorkerHasObject
  <2>4. WorkerHasObject' /\ AddsCurrentUrl' /\ RemovedBeforeFinish'
    BY <1>1, <2>1, <2>3 DEF WorkerHasObject, AddsCurrentUrl, RemovedBeforeFinish, Searched,
                            Stopping
  <2>5. QED
    BY <2>2, <2>4
<1>6. ASSUME NEW g \in GlideinSets, DeleteGlideinSet(g)
      PROVE  RemovalInv'
  <2>1. /\ spec'[g] = Deleting /\ worker' = worker
        /\ \A h \in GlideinSets : h # g => spec'[h] = spec[h]
    BY <1>6 DEF DeleteGlideinSet, TypeOK
  <2>2. EntriesAreCurrent' /\ OneEntry'
    BY <1>1, <2>1 DEF EntriesAreCurrent, OneEntry
  <2>3. worker.pc # "idle" => spec'[worker.gs] \in {spec[worker.gs], Deleting}
    BY <1>3, <2>1
  <2>4. WorkerHasObject' /\ AddsCurrentUrl' /\ RemovedBeforeFinish'
    BY <1>1, <2>1, <2>3 DEF WorkerHasObject, AddsCurrentUrl, RemovedBeforeFinish, Searched,
                            Stopping
  <2>5. QED
    BY <2>2, <2>4
<1>7. ASSUME NEW g \in GlideinSets, Reconcile(g)
      PROVE  RemovalInv'
  <2>1. spec' = spec /\ spec[g] # None
    BY <1>7 DEF Reconcile, outVars
  <2>2. EntriesAreCurrent' /\ OneEntry'
    BY <1>1, <2>1 DEF EntriesAreCurrent, OneEntry
  <2>3. \/ spec[g] = Deleting /\ worker'.pc = "remove" /\ worker'.gs = g
        \/ spec[g] # Deleting /\ worker'.pc = "add" /\ worker'.gs = g /\ worker'.url = spec[g]
    BY <1>7 DEF Reconcile, Idle
  <2>4. spec[g] # Deleting => watched[g] \subseteq {spec[g]}
    BY DEF EntriesAreCurrent
  <2>5. WorkerHasObject' /\ AddsCurrentUrl' /\ RemovedBeforeFinish'
    BY <1>1, <2>1, <2>3, <2>4
    DEF WorkerHasObject, AddsCurrentUrl, RemovedBeforeFinish, Searched, Stopping
  <2>6. QED
    BY <2>2, <2>5
<1>8. CASE AddIsNoop
  BY <1>1, <1>8 DEF AddIsNoop, Idle, outVars, EntriesAreCurrent, OneEntry, WorkerHasObject,
                    AddsCurrentUrl, RemovedBeforeFinish, Searched, Stopping
<1>9. CASE StopStep \/ Receive
  <2>1. /\ spec' = spec /\ Searched /\ Searched' /\ worker.pc # "idle" /\ worker'.pc # "add"
        /\ worker'.gs = worker.gs /\ worker'.url = worker.url /\ worker'.target = worker.target
    BY <1>9 DEF StopStep, StopDataTicker, StopRefreshTicker, DecideToSend, Receive,
                DataLoopReceives, RefreshLoopReceives, outVars, Searched, Stopping, TypeOK
  <2>2. EntriesAreCurrent' /\ OneEntry'
    BY <1>1, <2>1 DEF EntriesAreCurrent, OneEntry
  <2>3. WorkerHasObject' /\ AddsCurrentUrl' /\ RemovedBeforeFinish'
    BY <1>1, <2>1 DEF WorkerHasObject, AddsCurrentUrl, RemovedBeforeFinish
  <2>4. QED
    BY <2>2, <2>3
<1>10. CASE FinishRemove
  <2>1. /\ worker.gs \in GlideinSets /\ watched[worker.gs] = {} /\ worker'.pc = "idle"
        /\ \A h \in GlideinSets : h # worker.gs => spec'[h] = spec[h]
    BY <1>3, <1>10 DEF FinishRemove, Idle, RemovedBeforeFinish, Searched, TypeOK
  <2>2. EntriesAreCurrent' /\ OneEntry'
    BY <1>1, <2>1 DEF EntriesAreCurrent, OneEntry
  <2>3. WorkerHasObject' /\ AddsCurrentUrl' /\ RemovedBeforeFinish'
    BY <2>1 DEF WorkerHasObject, AddsCurrentUrl, RemovedBeforeFinish, Searched, Stopping
  <2>4. QED
    BY <2>2, <2>3
<1>11. ASSUME NEW p \in Pollers, Starter(p) \/ DataStep(p) \/ RefreshStep(p)
       PROVE  UNCHANGED <<spec, worker>>
  BY <1>11 DEF Starter, StarterAttempt, StartData, StartRefresh, DataStep, DataTick, DataPolled,
               RefreshStep, RefreshTick, RefreshAttempt, outVars
<1>12. CASE GmosToggle \/ UNCHANGED vars
  BY <1>4, <1>12 DEF GmosToggle, vars, outVars
<1>13. CASE Environment
  BY <1>5, <1>6, <1>12, <1>13 DEF Environment, ChangeUrl
<1>14. CASE Worker
  BY <1>7, <1>8, <1>9, <1>10, <1>14 DEF Worker, Busy
<1>15. QED
  BY <1>4, <1>11, <1>12, <1>13, <1>14 DEF Next

LEMMA ListChangedRemovalInv ==
  ASSUME IInv, RemovalInv,
         \/ AddToExistingPoller \/ RemoveWatcher \/ FinishAdd \/ AddToNewPoller \/ Restart
  PROVE  RemovalInv'
<1> USE NoneAssumption DEF RemovalInv, IInv
<1>1. CASE AddToNewPoller \/ FinishAdd
  <2> DEFINE g == worker.gs
             u == worker.url
  <2>1. g \in GlideinSets /\ u \in Urls /\ watched' = [watched EXCEPT ![g] = @ \cup {u}]
    BY <1>1, AddToNewPollerWatches, FinishAddWatches DEF List!Watch
  <2>2. spec' = spec /\ worker'.pc = "idle"
    BY <1>1 DEF AddToNewPoller, FinishAdd, outVars, Idle
  <2>3. spec[g] \in {u, Deleting} /\ watched[g] \subseteq {u}
    BY <1>1 DEF AddToNewPoller, FinishAdd, AddsCurrentUrl, Searched
  <2>4. \A h \in GlideinSets : watched'[h] = IF h = g THEN {u} ELSE watched[h]
    BY <2>1, <2>3, WatchedType
  <2>5. EntriesAreCurrent' /\ OneEntry'
    BY <2>2, <2>3, <2>4 DEF EntriesAreCurrent, OneEntry
  <2>6. WorkerHasObject' /\ AddsCurrentUrl' /\ RemovedBeforeFinish'
    BY <2>2 DEF WorkerHasObject, AddsCurrentUrl, RemovedBeforeFinish, Searched, Stopping
  <2>7. QED
    BY <2>5, <2>6
<1>2. CASE AddToExistingPoller
  <2> DEFINE g == worker.gs
             u == worker.url
  <2>1. /\ g \in GlideinSets /\ u \in Urls /\ worker.pc = "add"
        /\ registry[u] # None /\ g \notin handlers[registry[u]]
        /\ RemoveHandler(g, registry[u]) /\ spec' = spec /\ UNCHANGED process
    BY <1>2 DEF AddToExistingPoller, TypeOK, Maybe, outVars
  <2>2. watched[g] = {}
    <3>1. u \notin watched[g]
      BY <2>1, WatchedEntries DEF Entry
    <3>2. QED
      BY <2>1, <3>1 DEF AddsCurrentUrl
  <2>3. watched' = watched
    BY <2>1, <2>2, RemoveHandlerUnwatches
  <2>4. /\ worker'.pc \in {"stopData", "finish"} /\ worker'.target # None
        /\ worker'.gs = g /\ worker'.url = u
    BY <2>1, SearchResult
  <2>5. EntriesAreCurrent' /\ OneEntry'
    BY <2>1, <2>3 DEF EntriesAreCurrent, OneEntry
  <2>6. WorkerHasObject' /\ AddsCurrentUrl' /\ RemovedBeforeFinish'
    BY <2>1, <2>3, <2>4 DEF WorkerHasObject, AddsCurrentUrl, RemovedBeforeFinish
  <2>7. QED
    BY <2>5, <2>6
<1>3. CASE RemoveWatcher
  <2> DEFINE g == worker.gs
  <2>1. /\ g \in GlideinSets /\ worker.pc = "remove"
        /\ RemoveHandler(g, None) /\ spec' = spec /\ UNCHANGED process
    BY <1>3 DEF RemoveWatcher, TypeOK, Maybe, outVars
  <2>2. /\ \A h \in GlideinSets : watched'[h] \subseteq watched[h]
        /\ watched'[g] = {}
    <3>1. CASE Holders(g) = {} /\ watched' = watched
      BY <2>1, <3>1, WatchedAreHeld
    <3>2. ASSUME NEW u \in Urls, u \in watched[g], List!Unwatch(g, u)
          PROVE  /\ \A h \in GlideinSets : watched'[h] \subseteq watched[h]
                 /\ watched'[g] = {}
      <4>1. watched' = [watched EXCEPT ![g] = @ \ {u}]
        BY <3>2 DEF List!Unwatch
      <4>2. watched[g] = {u}
        BY <2>1, <3>2 DEF OneEntry
      <4>3. QED
        BY <2>1, <4>1, <4>2, WatchedType
    <3>3. QED
      BY <2>1, <3>1, <3>2, RemoveHandlerUnwatches
  <2>3. /\ worker'.pc \in {"stopData", "finish"} /\ worker'.target = None
        /\ worker'.gs = g
    BY <2>1, SearchResult
  <2>4. EntriesAreCurrent' /\ OneEntry'
    BY <2>1, <2>2 DEF EntriesAreCurrent, OneEntry
  <2>5. WorkerHasObject' /\ AddsCurrentUrl' /\ RemovedBeforeFinish'
    BY <2>1, <2>2, <2>3 DEF WorkerHasObject, AddsCurrentUrl, RemovedBeforeFinish
  <2>6. QED
    BY <2>4, <2>5
<1>4. CASE Restart
  <2>1. \A g \in GlideinSets : watched'[g] = {}
    BY <1>4, RestartEmptiesList DEF List!Restart
  <2>2. worker'.pc = "idle"
    BY <1>4 DEF Restart, Idle
  <2>3. QED
    BY <2>1, <2>2 DEF EntriesAreCurrent, OneEntry, WorkerHasObject, AddsCurrentUrl,
                      RemovedBeforeFinish, Searched, Stopping
<1>5. QED
  BY <1>1, <1>2, <1>3, <1>4

(* If nobody edits the URL of a live GlideinSet, finalizeGlideinSet leaves *)
(* no handler of a removed GlideinSet behind.                              *)
THEOREM RemovedLeavesNoHandler ==
  ASSUME ~UrlMayChange
  PROVE  Spec => []RemovedIsUnwatched
<1>1. Init => RemovalInv
  <2>1. ASSUME Init PROVE \A g \in GlideinSets : watched[g] = {}
    BY <2>1, WatchedEntries DEF Init, Entry
  <2>2. Init => worker.pc = "idle"
    BY DEF Init, Idle
  <2>3. QED
    BY <2>1, <2>2 DEF RemovalInv, EntriesAreCurrent, OneEntry, WorkerHasObject, AddsCurrentUrl,
                      RemovedBeforeFinish, Searched, Stopping
<1>2. IInv /\ RemovalInv /\ [Next]_vars => RemovalInv'
  <2>1. ASSUME [Next]_vars
        PROVE  \/ UNCHANGED <<registry, handlers>>
               \/ AddToExistingPoller \/ RemoveWatcher \/ FinishAdd \/ AddToNewPoller \/ Restart
    BY <2>1
    DEF Next, vars, structVars, Environment, CreateGlideinSet, ChangeUrl, DeleteGlideinSet,
        GmosToggle, Worker, Busy, Reconcile, AddIsNoop, StopStep, StopDataTicker,
        StopRefreshTicker, DecideToSend, FinishRemove, Receive, DataLoopReceives,
        RefreshLoopReceives, Starter, StarterAttempt, StartData, StartRefresh, DataStep,
        DataTick, DataPolled, RefreshStep, RefreshTick, RefreshAttempt
  <2>2. QED
    BY <2>1, ListUnchangedRemovalInv, ListChangedRemovalInv
<1>3. IInv /\ RemovalInv => RemovedIsUnwatched
  <2> SUFFICES ASSUME IInv, RemovalInv, NEW g \in GlideinSets, spec[g] = None,
                      NEW p \in Holders(g)
               PROVE  FALSE
    BY DEF RemovedIsUnwatched
  <2>1. url[p] \in watched[g] /\ url[p] \in Urls
    BY HoldersAreWatched, WatchedType
  <2>2. QED
    BY <2>1, NoneAssumption DEF RemovalInv, EntriesAreCurrent
<1>4. QED
  BY <1>1, <1>2, <1>3, Inductive, PTL DEF Spec
=============================================================================
