--------------------------- MODULE WatchListProofs ---------------------------
(***************************************************************************)
(* GlideinManagerPollers implements WatchList, for any number of           *)
(* GlideinSets, URLs and pollers.  The proof needs the inductive invariant *)
(* of GlideinManagerPollersProofs: a poller is in the map only under its   *)
(* own URL, so that a write to its handlers changes one entry of the list, *)
(* and an add that first removes a handler still finds its poller there.   *)
(***************************************************************************)
EXTENDS GlideinManagerPollersProofs

(* GlideinSet h has an update handler in the registered poller of URL v. *)
Entry(h, v) == registry[v] # None /\ h \in handlers[registry[v]]

LEMMA WatchedEntries ==
  /\ watched = [h \in GlideinSets |-> {v \in Urls : Entry(h, v)}]
  /\ watched' = [h \in GlideinSets |-> {v \in Urls : Entry(h, v)'}]
  BY DEF watched, Entry

(* A step that adds one entry, or takes one out, is a step of the list. *)
LEMMA OneEntryAdded ==
  ASSUME NEW g \in GlideinSets, NEW u \in Urls,
         \A h \in GlideinSets, v \in Urls :
            Entry(h, v)' <=> Entry(h, v) \/ (h = g /\ v = u),
         UNCHANGED process
  PROVE  List!Watch(g, u)
<1>1. \A h \in GlideinSets :
         {v \in Urls : Entry(h, v)'}
            = IF h = g THEN {v \in Urls : Entry(h, v)} \cup {u} ELSE {v \in Urls : Entry(h, v)}
  OBVIOUS
<1>2. \A h \in GlideinSets : watched'[h] = IF h = g THEN watched[h] \cup {u} ELSE watched[h]
  BY <1>1, WatchedEntries, Zenon
<1>3. watched' = [watched EXCEPT ![g] = @ \cup {u}]
  BY <1>2, WatchedEntries
<1>4. QED
  BY <1>3 DEF List!Watch

LEMMA OneEntryRemoved ==
  ASSUME NEW g \in GlideinSets, NEW u \in Urls,
         \A h \in GlideinSets, v \in Urls :
            Entry(h, v)' <=> Entry(h, v) /\ ~(h = g /\ v = u),
         UNCHANGED process
  PROVE  List!Unwatch(g, u)
<1>1. \A h \in GlideinSets :
         {v \in Urls : Entry(h, v)'}
            = IF h = g THEN {v \in Urls : Entry(h, v)} \ {u} ELSE {v \in Urls : Entry(h, v)}
  OBVIOUS
<1>2. \A h \in GlideinSets : watched'[h] = IF h = g THEN watched[h] \ {u} ELSE watched[h]
  BY <1>1, WatchedEntries, Zenon
<1>3. watched' = [watched EXCEPT ![g] = @ \ {u}]
  BY <1>2, WatchedEntries
<1>4. QED
  BY <1>3 DEF List!Unwatch

(* A poller that is found in the map under a URL has that URL. *)
LEMMA OwnUrlOnly ==
  ASSUME IInv, NEW v \in Urls, registry[v] # None
  PROVE  registry[v] \in Pollers /\ url[registry[v]] = v
  BY DEF IInv, MapInv, MapConsistent, TypeOK, Maybe

LEMMA AddToNewPollerWatches ==
  ASSUME IInv, AddToNewPoller
  PROVE  /\ worker.gs \in GlideinSets /\ worker.url \in Urls
         /\ List!Watch(worker.gs, worker.url)
<1> DEFINE g == worker.gs
           u == worker.url
<1>1. PICK q \in Pollers :
        /\ url[q] = None
        /\ handlers' = [handlers EXCEPT ![q] = {g}]
        /\ registry' = [registry EXCEPT ![u] = q]
  BY DEF AddToNewPoller
<1>2. g \in GlideinSets /\ u \in Urls /\ registry[u] = None /\ UNCHANGED process
  BY DEF AddToNewPoller, outVars, IInv, TypeOK, Maybe
<1>3. ASSUME NEW h \in GlideinSets, NEW v \in Urls
      PROVE  Entry(h, v)' <=> Entry(h, v) \/ (h = g /\ v = u)
  <2>1. CASE v = u
    <3>1. registry'[v] = q /\ handlers'[q] = {g} /\ q # None
      BY <1>1, <1>2, <2>1, NoneAssumption DEF IInv, TypeOK
    <3>2. QED
      BY <1>2, <2>1, <3>1 DEF Entry
  <2>2. CASE v # u
    <3>1. registry'[v] = registry[v]
      BY <1>1, <2>2 DEF IInv, TypeOK
    <3>2. CASE registry[v] = None
      BY <2>2, <3>1, <3>2 DEF Entry
    <3>3. CASE registry[v] # None
      <4>1. registry[v] \in Pollers /\ registry[v] # q
        BY <1>1, <3>3, OwnUrlOnly, NoneAssumption
      <4>2. handlers'[registry[v]] = handlers[registry[v]]
        BY <1>1, <4>1 DEF IInv, TypeOK
      <4>3. QED
        BY <2>2, <3>1, <4>2 DEF Entry
    <3>4. QED
      BY <3>2, <3>3
  <2>3. QED
    BY <2>1, <2>2
<1>4. QED
  BY <1>2, <1>3, OneEntryAdded

(* removeGlideinManagerWatcher takes one entry out, and with the last one  *)
(* of a poller the poller, which held no other.                            *)
LEMMA RemoveHandlerUnwatches ==
  ASSUME IInv, NEW g \in GlideinSets, NEW target, RemoveHandler(g, target),
         UNCHANGED process
  PROVE  \/ Holders(g) = {} /\ watched' = watched
         \/ \E u \in Urls : u \in watched[g] /\ List!Unwatch(g, u)
<1>1. CASE Holders(g) = {} /\ UNCHANGED structVars
  BY <1>1, WatchedEntries DEF structVars, Entry
<1>2. ASSUME NEW p \in Holders(g),
             handlers' = [handlers EXCEPT ![p] = @ \ {g}],
             registry' = IF handlers[p] = {g} THEN [registry EXCEPT ![url[p]] = None]
                                              ELSE registry
      PROVE  \E u \in Urls : u \in watched[g] /\ List!Unwatch(g, u)
  <2> DEFINE u == url[p]
  <2>1. /\ p \in Pollers /\ u \in Urls /\ registry[u] = p /\ p # None
        /\ g \in handlers[p]
    BY NoneAssumption DEF Holders, Registered, IInv, TypeOK, Maybe
  <2>2. handlers'[p] = handlers[p] \ {g}
    BY <1>2, <2>1 DEF IInv, TypeOK
  <2>3. ASSUME NEW h \in GlideinSets, NEW v \in Urls
        PROVE  Entry(h, v)' <=> Entry(h, v) /\ ~(h = g /\ v = u)
    <3>1. CASE v = u
      <4>1. CASE handlers[p] = {g}
        <5>1. registry'[v] = None
          BY <1>2, <2>1, <3>1, <4>1 DEF IInv, TypeOK
        <5>2. QED
          BY <2>1, <3>1, <4>1, <5>1 DEF Entry
      <4>2. CASE handlers[p] # {g}
        <5>1. registry'[v] = p
          BY <1>2, <2>1, <3>1, <4>2
        <5>2. QED
          BY <2>1, <2>2, <3>1, <5>1 DEF Entry
      <4>3. QED
        BY <4>1, <4>2
    <3>2. CASE v # u
      <4>1. registry'[v] = registry[v]
        BY <1>2, <2>1, <3>2 DEF IInv, TypeOK
      <4>2. CASE registry[v] = None
        BY <3>2, <4>1, <4>2 DEF Entry
      <4>3. CASE registry[v] # None
        <5>1. registry[v] \in Pollers /\ registry[v] # p
          BY <3>2, <4>3, OwnUrlOnly
        <5>2. handlers'[registry[v]] = handlers[registry[v]]
          BY <1>2, <5>1 DEF IInv, TypeOK
        <5>3. QED
          BY <3>2, <4>1, <5>2 DEF Entry
      <4>4. QED
        BY <4>2, <4>3
    <3>3. QED
      BY <3>1, <3>2
  <2>4. List!Unwatch(g, u)
    BY <2>1, <2>3, OneEntryRemoved
  <2>5. u \in watched[g]
    BY <2>1, WatchedEntries DEF Entry
  <2>6. QED
    BY <2>1, <2>4, <2>5
<1>3. QED
  BY <1>1, <1>2 DEF RemoveHandler

(* setUpdateHandler on the poller of the new URL. *)
LEMMA FinishAddWatches ==
  ASSUME IInv, FinishAdd
  PROVE  /\ worker.gs \in GlideinSets /\ worker.url \in Urls
         /\ List!Watch(worker.gs, worker.url)
<1> DEFINE g == worker.gs
           u == worker.url
           q == worker.target
<1>1. /\ g \in GlideinSets /\ u \in Urls /\ registry[u] = q /\ q \in Pollers /\ q # None
      /\ handlers' = [handlers EXCEPT ![q] = @ \cup {g}]
      /\ registry' = registry /\ UNCHANGED process
  BY NoneAssumption
  DEF FinishAdd, outVars, IInv, MapInv, TargetRegistered, TypeOK, Maybe
<1>2. ASSUME NEW h \in GlideinSets, NEW v \in Urls
      PROVE  Entry(h, v)' <=> Entry(h, v) \/ (h = g /\ v = u)
  <2>1. CASE v = u
    <3>1. handlers'[q] = handlers[q] \cup {g}
      BY <1>1 DEF IInv, TypeOK
    <3>2. QED
      BY <1>1, <2>1, <3>1 DEF Entry
  <2>2. CASE v # u
    <3>1. CASE registry[v] = None
      BY <1>1, <2>2, <3>1 DEF Entry
    <3>2. CASE registry[v] # None
      <4>1. registry[v] \in Pollers /\ registry[v] # q
        BY <1>1, <2>2, <3>2, OwnUrlOnly
      <4>2. handlers'[registry[v]] = handlers[registry[v]]
        BY <1>1, <4>1 DEF IInv, TypeOK
      <4>3. QED
        BY <1>1, <2>2, <4>2 DEF Entry
    <3>3. QED
      BY <3>1, <3>2
  <2>3. QED
    BY <2>1, <2>2
<1>3. QED
  BY <1>1, <1>2, OneEntryAdded

LEMMA RestartEmptiesList ==
  ASSUME Restart, TypeOK
  PROVE  List!Restart
<1>1. \A h \in GlideinSets, v \in Urls : ~Entry(h, v)'
  BY DEF Restart, Entry
<1>2. process' # process
  BY DEF Restart, TypeOK
<1>3. QED
  BY <1>1, <1>2, WatchedEntries DEF List!Restart

(* Every step of the pollers is a step of the list or leaves it alone. *)
LEMMA StepImplements ==
  ASSUME IInv, [Next]_vars
  PROVE  [List!Next]_(List!list)
<1> USE DEF structVars, outVars
<1>1. CASE UNCHANGED <<registry, handlers, process>>
  BY <1>1, WatchedEntries DEF Entry, List!list
<1>2. CASE UNCHANGED vars
  BY <1>1, <1>2 DEF vars
<1>3. CASE Environment
  <2>1. CASE Restart
    BY <2>1, RestartEmptiesList DEF IInv, List!Next
  <2>2. QED
    BY <1>1, <1>3, <2>1
    DEF Environment, CreateGlideinSet, ChangeUrl, DeleteGlideinSet, GmosToggle
<1>4. ASSUME NEW p \in Pollers, Starter(p) \/ DataStep(p) \/ RefreshStep(p)
      PROVE  [List!Next]_(List!list)
  BY <1>1, <1>4
  DEF Starter, StarterAttempt, StartData, StartRefresh, DataStep, DataTick, DataPolled,
      RefreshStep, RefreshTick, RefreshAttempt
<1>5. CASE Worker
  <2>1. CASE AddToNewPoller
    BY <2>1, AddToNewPollerWatches DEF List!Next
  <2>2. CASE AddToExistingPoller
    <3>1. worker.gs \in GlideinSets
      BY <2>2 DEF AddToExistingPoller, IInv, TypeOK, Maybe
    <3>2. UNCHANGED process
      BY <2>2 DEF AddToExistingPoller
    <3>3. QED
      BY <2>2, <3>1, <3>2, RemoveHandlerUnwatches DEF AddToExistingPoller, List!Next, List!list
  <2>3. CASE RemoveWatcher
    <3>1. worker.gs \in GlideinSets
      BY <2>3 DEF RemoveWatcher, IInv, TypeOK, Maybe
    <3>2. UNCHANGED process
      BY <2>3 DEF RemoveWatcher
    <3>3. QED
      BY <2>3, <3>1, <3>2, RemoveHandlerUnwatches DEF RemoveWatcher, List!Next, List!list
  <2>4. CASE FinishAdd
    BY <2>4, FinishAddWatches DEF List!Next
  <2>5. ASSUME \/ \E g \in GlideinSets : Reconcile(g)
               \/ AddIsNoop \/ StopStep \/ FinishRemove \/ Receive
        PROVE  UNCHANGED <<registry, handlers, process>>
    BY <2>5
    DEF Reconcile, AddIsNoop, StopStep, StopDataTicker, StopRefreshTicker, DecideToSend,
        FinishRemove, Receive, DataLoopReceives, RefreshLoopReceives
  <2>6. QED
    BY <1>1, <1>5, <2>1, <2>2, <2>3, <2>4, <2>5 DEF Worker, Busy
<1>6. QED
  BY <1>2, <1>3, <1>4, <1>5 DEF Next

(* addGlideinManagerWatcher and removeGlideinManagerWatcher keep a list of *)
(* who watches which URL, one entry per step, although they work on shared *)
(* pollers and a removal in the middle of an add is seen by all goroutines. *)
THEOREM WatchListImplemented == Spec => ImplementsWatchList
<1>1. Init => List!Init
  <2>1. ASSUME Init PROVE process = 0 /\ \A h \in GlideinSets, v \in Urls : ~Entry(h, v)
    BY <2>1 DEF Init, Entry
  <2>2. QED
    BY <2>1, WatchedEntries DEF List!Init
<1>2. IInv /\ [Next]_vars => [List!Next]_(List!list)
  BY StepImplements
<1>3. QED
  BY <1>1, <1>2, Inductive, PTL DEF Spec, ImplementsWatchList, List!Spec
=============================================================================
