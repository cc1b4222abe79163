--------------------- MODULE GlideinManagerPollersProofs ---------------------
(***************************************************************************)
(* Proofs about GlideinManagerPollers, for any number of GlideinSets, URLs *)
(* and pollers.  The inductive invariant is IInv: the safety invariants do *)
(* not suffice, because what a blocked stopPolling relies on was decided   *)
(* several steps earlier, by the worker (the poller left the static map)   *)
(* and by the starter goroutine (ticker and loop exist together).          *)
(***************************************************************************)
EXTENDS GlideinManagerPollers, TLAPS

(* A poller is in the static map only under the URL it was made for. *)
MapConsistent ==
    \A u \in Urls : registry[u] # None => url[registry[u]] = u

(* An add that first removes the old handler still has its poller in the   *)
(* map when it comes to set the new one.                                   *)
TargetRegistered ==
    worker.pc \in Stopping \cup {"finish"} /\ worker.target # None
        => worker.url \in Urls /\ registry[worker.url] = worker.target

(* startPolling makes the data ticker and its loop, then the refresh ticker. *)
TickersFollowLoops ==
    \A p \in Pollers :
        /\ dataTicker[p] = "nil" <=> dataLoop[p] = "none"
        /\ refreshTicker[p] # "nil" => dataTicker[p] # "nil"
        /\ starter[p] = "startRefresh" => dataTicker[p] # "nil"

(* Only a data loop that received from doneChan has exited: its poller left *)
(* the map before, and is not being stopped again.                         *)
ExitedIsRetired ==
    \A p \in Pollers :
        dataLoop[p] = "exited"
            => Retired(p) /\ ~(worker.pc \in Stopping /\ worker.stopping = p)

(* stopPolling runs on a poller that has left the map, and blocks only if  *)
(* the polling had started.                                                *)
StoppingIsRetired ==
    /\ worker.pc \in Stopping => Retired(worker.stopping)
    /\ worker.pc = "sending" => dataTicker[worker.stopping] # "nil"

MapInv ==
    /\ MapConsistent
    /\ RegisteredIffWatched
    /\ TargetRegistered
    /\ WatchedWhereLastReconciled

PollingInv ==
    /\ TickersFollowLoops
    /\ ExitedIsRetired
    /\ StoppingIsRetired

IInv == TypeOK /\ MapInv /\ PollingInv

-----------------------------------------------------------------------------
(* Type correctness *)

LEMMA InitTypeOK == Init => TypeOK
  BY RetriesAssumption DEF Init, TypeOK, Maybe, Idle, TickerState, StarterState,
     DataState, RefreshState, WorkerState, Stopping

(* The environment touches the API objects or starts a new process. *)
LEMMA EnvironmentTypeOK ==
  ASSUME TypeOK, Environment
  PROVE  TypeOK'
<1> USE RetriesAssumption
<1> USE DEF TypeOK, Maybe, outVars, structVars, tickerVars, loopVars
<1>1. ASSUME NEW g \in GlideinSets, NEW u \in Urls,
             CreateGlideinSet(g, u) \/ ChangeUrl(g, u)
      PROVE  TypeOK'
  BY <1>1 DEF CreateGlideinSet, ChangeUrl
<1>2. ASSUME NEW g \in GlideinSets, DeleteGlideinSet(g) PROVE TypeOK'
  BY <1>2 DEF DeleteGlideinSet
<1>3. CASE GmosToggle
  BY <1>3 DEF GmosToggle
<1>4. CASE Restart
  BY <1>4 DEF Restart, Idle, TickerState, StarterState, DataState, RefreshState,
     WorkerState, Stopping
<1>5. QED
  BY <1>1, <1>2, <1>3, <1>4 DEF Environment

(* removeGlideinManagerWatcher, whoever calls it. *)
LEMMA RemoveHandlerTypeOK ==
  ASSUME TypeOK, NEW g \in GlideinSets, NEW target \in Maybe(Pollers),
         worker.gs = g,
         RemoveHandler(g, target),
         UNCHANGED <<outVars, tickerVars, loopVars, synced>>
  PROVE  TypeOK'
<1> USE DEF TypeOK, Maybe, outVars, structVars, tickerVars, loopVars, WorkerState, Stopping
<1>1. CASE Holders(g) = {} /\ worker' = [worker EXCEPT !.pc = "finish", !.target = target]
           /\ UNCHANGED structVars
  BY <1>1, NoneAssumption
<1>2. ASSUME NEW p \in Holders(g),
             handlers' = [handlers EXCEPT ![p] = @ \ {g}],
             registry' = IF handlers[p] = {g} THEN [registry EXCEPT ![url[p]] = None]
                                              ELSE registry,
             worker' = [worker EXCEPT !.pc = IF handlers[p] = {g} THEN "stopData" ELSE "finish",
                                      !.stopping = p, !.target = target],
             UNCHANGED url
      PROVE  TypeOK'
  <2>1. p \in Pollers /\ url[p] \in Urls
    BY <1>2 DEF Holders, Registered
  <2>2. /\ registry' \in [Urls -> Maybe(Pollers)]
        /\ handlers' \in [Pollers -> SUBSET GlideinSets]
    BY <1>2, <2>1
  <2>3. /\ worker' \in [pc : WorkerState, gs : Maybe(GlideinSets), url : Maybe(Urls),
                        stopping : Maybe(Pollers), target : Maybe(Pollers)]
        /\ worker'.pc \in {"stopData", "finish"}
        /\ worker'.stopping = p
        /\ worker'.gs = g
    BY <1>2, <2>1
  <2>4. QED
    BY <1>2, <2>1, <2>2, <2>3, NoneAssumption
<1>3. QED
  BY <1>1, <1>2 DEF RemoveHandler

LEMMA WorkerTypeOK ==
  ASSUME TypeOK, Worker
  PROVE  TypeOK'
<1> USE NoneAssumption, DeletingAssumption
<1> USE DEF TypeOK, Maybe, outVars, structVars, tickerVars, loopVars, Idle,
    TickerState, StarterState, DataState, RefreshState, WorkerState, Stopping
<1>1. ASSUME NEW g \in GlideinSets, Reconcile(g) PROVE TypeOK'
  <2>1. CASE spec[g] = Deleting
    <3>1. worker' = [pc |-> "remove", gs |-> g, url |-> None, stopping |-> None, target |-> None]
      BY <1>1, <2>1 DEF Reconcile
    <3>2. QED
      BY <1>1, <3>1 DEF Reconcile
  <2>2. CASE spec[g] # Deleting
    <3>1. spec[g] \in Urls
      BY <1>1, <2>2 DEF Reconcile
    <3>2. worker' = [pc |-> "add", gs |-> g, url |-> spec[g], stopping |-> None, target |-> None]
      BY <1>1, <2>2 DEF Reconcile
    <3>3. QED
      BY <1>1, <3>1, <3>2 DEF Reconcile
  <2>3. QED
    BY <2>1, <2>2
<1>2. CASE AddToNewPoller
  <2>1. PICK p \in Pollers :
          /\ url' = [url EXCEPT ![p] = worker.url]
          /\ handlers' = [handlers EXCEPT ![p] = {worker.gs}]
          /\ registry' = [registry EXCEPT ![worker.url] = p]
          /\ starter' = [starter EXCEPT ![p] = "handshake"]
    BY <1>2 DEF AddToNewPoller
  <2>2. worker.pc = "add" /\ worker.url \in Urls /\ worker.gs \in GlideinSets
    BY <1>2 DEF AddToNewPoller
  <2>3. /\ url' \in [Pollers -> Maybe(Urls)]
        /\ handlers' \in [Pollers -> SUBSET GlideinSets]
        /\ registry' \in [Urls -> Maybe(Pollers)]
        /\ starter' \in [Pollers -> StarterState]
    BY <2>1, <2>2
  <2>4. synced' \in [GlideinSets -> Maybe(Urls)]
    BY <1>2, <2>2 DEF AddToNewPoller
  <2>5. QED
    BY <1>2, <2>3, <2>4 DEF AddToNewPoller
<1>3. CASE AddIsNoop
  BY <1>3 DEF AddIsNoop
<1>4. CASE AddToExistingPoller
  BY <1>4, RemoveHandlerTypeOK DEF AddToExistingPoller
<1>5. CASE RemoveWatcher
  BY <1>5, RemoveHandlerTypeOK DEF RemoveWatcher
<1>6. CASE StopDataTicker
  BY <1>6 DEF StopDataTicker, StopTicker
<1>7. CASE StopRefreshTicker
  BY <1>7 DEF StopRefreshTicker, StopTicker
<1>8. CASE DecideToSend
  BY <1>8 DEF DecideToSend
<1>9. CASE DataLoopReceives
  BY <1>9 DEF DataLoopReceives
<1>10. CASE RefreshLoopReceives
  BY <1>10 DEF RefreshLoopReceives
<1>11. CASE FinishAdd
  BY <1>11 DEF FinishAdd
<1>12. CASE FinishRemove
  BY <1>12 DEF FinishRemove
<1>13. QED
  BY <1>1, <1>2, <1>3, <1>4, <1>5, <1>6, <1>7, <1>8, <1>9, <1>10, <1>11, <1>12
  DEF Worker, Busy, StopStep, Receive

(* A handshake counts at most Retries - 1 failures before it gives up. *)
LEMMA AttemptTries ==
  ASSUME TypeOK, NEW p \in Pollers, NEW w \in Goroutine,
         tries' \in {[tries EXCEPT ![p][w] = 0],
                    [tries EXCEPT ![p][w] = IF tries[p][w] + 1 = Retries THEN 0 ELSE @ + 1]}
  PROVE  tries' \in [Pollers -> [Goroutine -> 0 .. Retries - 1]]
<1>1. tries[p][w] \in 0 .. Retries - 1
  BY DEF TypeOK
<1>2. 0 \in 0 .. Retries - 1
  BY RetriesAssumption
<1>3. (IF tries[p][w] + 1 = Retries THEN 0 ELSE tries[p][w] + 1) \in 0 .. Retries - 1
  BY <1>1, RetriesAssumption
<1>4. ASSUME NEW n \in 0 .. Retries - 1
      PROVE  [tries EXCEPT ![p][w] = n] \in [Pollers -> [Goroutine -> 0 .. Retries - 1]]
  BY DEF TypeOK
<1>5. QED
  BY <1>2, <1>3, <1>4

LEMMA GoroutineTypeOK ==
  ASSUME TypeOK, NEW p \in Pollers, Starter(p) \/ DataStep(p) \/ RefreshStep(p)
  PROVE  TypeOK'
<1> USE RetriesAssumption
<1> USE DEF TypeOK, Maybe, outVars, structVars, tickerVars, loopVars, Goroutine,
    TickerState, StarterState, DataState, RefreshState
<1>1. CASE StarterAttempt(p)
  <2>1. tries' \in [Pollers -> [Goroutine -> 0 .. Retries - 1]]
    <3>1. "starter" \in Goroutine
      BY DEF Goroutine
    <3>2. tries' \in {[tries EXCEPT ![p]["starter"] = 0],
                     [tries EXCEPT ![p]["starter"] = IF tries[p]["starter"] + 1 = Retries
                                                THEN 0 ELSE @ + 1]}
      BY <1>1 DEF StarterAttempt, Attempt
    <3>3. QED
      BY <3>1, <3>2, AttemptTries
  <2>2. starter' \in [Pollers -> StarterState]
    <3>1. starter' \in {starter, [starter EXCEPT ![p] = "startData"],
                        [starter EXCEPT ![p] = "failed"]}
      BY <1>1 DEF StarterAttempt, Attempt
    <3>2. QED
      BY <3>1
  <2>3. QED
    BY <1>1, <2>1, <2>2 DEF StarterAttempt
<1>2. CASE StartData(p)
  BY <1>2 DEF StartData
<1>3. CASE StartRefresh(p)
  BY <1>3 DEF StartRefresh
<1>4. CASE DataTick(p)
  BY <1>4 DEF DataTick
<1>5. CASE DataPolled(p)
  BY <1>5 DEF DataPolled
<1>6. CASE RefreshTick(p)
  BY <1>6 DEF RefreshTick
<1>7. CASE RefreshAttempt(p)
  <2>1. tries' \in [Pollers -> [Goroutine -> 0 .. Retries - 1]]
    <3>1. "refresh" \in Goroutine
      BY DEF Goroutine
    <3>2. tries' \in {[tries EXCEPT ![p]["refresh"] = 0],
                     [tries EXCEPT ![p]["refresh"] = IF tries[p]["refresh"] + 1 = Retries
                                                THEN 0 ELSE @ + 1]}
      BY <1>7 DEF RefreshAttempt, Attempt
    <3>3. QED
      BY <3>1, <3>2, AttemptTries
  <2>2. refreshLoop' \in [Pollers -> RefreshState]
    <3>1. refreshLoop' \in {refreshLoop, [refreshLoop EXCEPT ![p] = "waiting"],
                            [refreshLoop EXCEPT ![p] = "exited"]}
      BY <1>7 DEF RefreshAttempt, Attempt
    <3>2. QED
      BY <3>1
  <2>3. QED
    BY <1>7, <2>1, <2>2 DEF RefreshAttempt
<1>8. QED
  BY <1>1, <1>2, <1>3, <1>4, <1>5, <1>6, <1>7 DEF Starter, DataStep, RefreshStep

LEMMA StutterTypeOK ==
  ASSUME TypeOK, UNCHANGED vars
  PROVE  TypeOK'
  BY DEF TypeOK, vars, outVars, structVars, tickerVars, loopVars

(* Every variable keeps its type; in particular a worker that is stopping a *)
(* poller has one to stop.                                                 *)
THEOREM TypeCorrect == Spec => []TypeOK
<1>1. Init => TypeOK
  BY InitTypeOK
<1>2. TypeOK /\ [Next]_vars => TypeOK'
  BY EnvironmentTypeOK, WorkerTypeOK, GoroutineTypeOK, StutterTypeOK DEF Next
<1>3. QED
  BY <1>1, <1>2, PTL DEF Spec
-----------------------------------------------------------------------------
(* The inductive invariant *)

LEMMA InitIInv == Init => IInv
<1> SUFFICES ASSUME Init PROVE MapInv /\ PollingInv
  BY InitTypeOK DEF IInv
<1> USE DEF Init, Idle, Registered, Holders, Retired, Stopping
<1>1. MapInv
  BY NoneAssumption
  DEF MapInv, MapConsistent, RegisteredIffWatched, TargetRegistered,
      WatchedWhereLastReconciled
<1>2. PollingInv
  BY DEF PollingInv, TickersFollowLoops, ExitedIsRetired, StoppingIsRetired
<1>3. QED
  BY <1>1, <1>2

(* Steps that leave the static map, the handlers, the worker and its        *)
(* history alone preserve all that is said about them.                      *)
LEMMA MapInvUnchanged ==
  ASSUME MapInv, UNCHANGED <<structVars, worker, synced>>
  PROVE  MapInv'
  BY DEF MapInv, MapConsistent, RegisteredIffWatched, TargetRegistered,
         WatchedWhereLastReconciled, structVars, Registered, Holders

LEMMA EnvironmentIInv ==
  ASSUME IInv, Environment
  PROVE  IInv'
<1>1. CASE Restart
  <2>1. TypeOK'
    BY EnvironmentTypeOK DEF IInv
  <2>2. MapInv'
    BY <1>1, NoneAssumption
    DEF Restart, Idle, MapInv, MapConsistent, RegisteredIffWatched, TargetRegistered,
        WatchedWhereLastReconciled, Registered, Holders, Stopping
  <2>3. PollingInv'
    BY <1>1
    DEF Restart, Idle, PollingInv, TickersFollowLoops, ExitedIsRetired, StoppingIsRetired,
        Registered, Retired, Stopping
  <2>4. QED
    BY <2>1, <2>2, <2>3 DEF IInv
<1>2. CASE UNCHANGED <<structVars, tickerVars, loopVars, worker, synced>>
  BY <1>2, EnvironmentTypeOK, MapInvUnchanged
  DEF IInv, PollingInv, TickersFollowLoops, ExitedIsRetired, StoppingIsRetired,
      structVars, tickerVars, loopVars, Registered, Retired
<1>3. QED
  BY <1>1, <1>2 DEF Environment, CreateGlideinSet, ChangeUrl, DeleteGlideinSet, GmosToggle

(* A goroutine of a poller touches only its own tickers and loops, never   *)
(* takes them back to nil, and never ends the data loop.                   *)
LEMMA GoroutineIInv ==
  ASSUME IInv, NEW p \in Pollers, Starter(p) \/ DataStep(p) \/ RefreshStep(p)
  PROVE  IInv'
<1> USE DEF IInv
<1>1. TypeOK'
  BY GoroutineTypeOK
<1>2. UNCHANGED <<structVars, worker, synced>>
  BY DEF Starter, StarterAttempt, StartData, StartRefresh, DataStep, DataTick, DataPolled,
         RefreshStep, RefreshTick, RefreshAttempt, structVars
<1>3. MapInv'
  BY <1>2, MapInvUnchanged
<1>4. PollingInv'
  <2> USE DEF PollingInv, TickersFollowLoops, ExitedIsRetired, StoppingIsRetired,
      structVars, tickerVars, Registered, Retired
  <2>1. CASE StarterAttempt(p)
    <3>1. starter' \in {starter, [starter EXCEPT ![p] = "startData"],
                        [starter EXCEPT ![p] = "failed"]}
      BY <2>1 DEF StarterAttempt, Attempt
    <3>2. \A q \in Pollers : starter'[q] = "startRefresh" => starter[q] = "startRefresh"
      BY <3>1 DEF TypeOK
    <3>3. QED
      BY <1>2, <2>1, <3>2 DEF StarterAttempt
  <2>2. CASE StartData(p)
    BY <1>2, <2>2 DEF StartData, TypeOK, Stopping
  <2>3. CASE StartRefresh(p)
    BY <1>2, <2>3 DEF StartRefresh, TypeOK
  <2>4. CASE DataTick(p)
    BY <1>2, <2>4 DEF DataTick, TypeOK
  <2>5. CASE DataPolled(p)
    BY <1>2, <2>5 DEF DataPolled, TypeOK
  <2>6. CASE RefreshStep(p)
    BY <1>2, <2>6 DEF RefreshStep, RefreshTick, RefreshAttempt
  <2>7. QED
    BY <2>1, <2>2, <2>3, <2>4, <2>5, <2>6 DEF Starter, DataStep
<1>5. QED
  BY <1>1, <1>3, <1>4

(* A poller that leaves or enters the map: who is registered afterwards.   *)
LEMMA RegisteredAfterRemoval ==
  ASSUME TypeOK, MapConsistent, NEW q \in Pollers, Registered(q),
         url' = url, registry' = [registry EXCEPT ![url[q]] = None]
  PROVE  \A p \in Pollers : Registered(p)' <=> Registered(p) /\ p # q
  BY NoneAssumption DEF TypeOK, MapConsistent, Registered, Maybe

LEMMA RegisteredAfterAdd ==
  ASSUME TypeOK, MapConsistent, NEW q \in Pollers, NEW u \in Urls,
         url[q] = None, registry[u] = None,
         url' = [url EXCEPT ![q] = u], registry' = [registry EXCEPT ![u] = q]
  PROVE  \A p \in Pollers : Registered(p)' <=> Registered(p) \/ p = q
  BY NoneAssumption DEF TypeOK, MapConsistent, Registered, Maybe

(* removeGlideinManagerWatcher for g, with the effect it has on its caller. *)
LEMMA RemoveHandlerIInv ==
  ASSUME IInv, NEW g \in GlideinSets, NEW target \in Maybe(Pollers),
         worker.gs = g, worker.pc \notin Stopping,
         target # None => /\ worker.url \in Urls /\ registry[worker.url] = target
                          /\ g \notin handlers[target],
         RemoveHandler(g, target),
         UNCHANGED <<outVars, tickerVars, loopVars, synced>>
  PROVE  IInv'
<1> USE DEF IInv
<1>1. TypeOK'
  BY RemoveHandlerTypeOK
<1>2. CASE Holders(g) = {} /\ worker' = [worker EXCEPT !.pc = "finish", !.target = target]
           /\ UNCHANGED structVars
  <2>1. worker'.pc = "finish" /\ worker'.gs = g /\ worker'.target = target
        /\ worker'.url = worker.url /\ worker'.pc \notin Stopping
    BY <1>2 DEF TypeOK, Stopping
  <2>2. MapInv'
    BY <1>2, <2>1
    DEF MapInv, MapConsistent, RegisteredIffWatched, TargetRegistered,
        WatchedWhereLastReconciled, structVars, Registered, Holders
  <2>3. PollingInv'
    BY <1>2, <2>1
    DEF PollingInv, TickersFollowLoops, ExitedIsRetired, StoppingIsRetired,
        structVars, tickerVars, loopVars, Registered, Retired, Stopping
  <2>4. QED
    BY <1>1, <2>2, <2>3
<1>3. ASSUME NEW q \in Holders(g),
             handlers' = [handlers EXCEPT ![q] = @ \ {g}],
             registry' = IF handlers[q] = {g} THEN [registry EXCEPT ![url[q]] = None]
                                              ELSE registry,
             worker' = [worker EXCEPT !.pc = IF handlers[q] = {g} THEN "stopData" ELSE "finish",
                                      !.stopping = q, !.target = target],
             UNCHANGED url
      PROVE  IInv'
  <2>1. q \in Pollers /\ Registered(q) /\ g \in handlers[q]
    BY <1>3 DEF Holders
  <2>2. /\ worker'.pc = IF handlers[q] = {g} THEN "stopData" ELSE "finish"
        /\ worker'.stopping = q /\ worker'.target = target
        /\ worker'.gs = g /\ worker'.url = worker.url
    BY <1>3 DEF TypeOK
  <2>3. \A p \in Pollers :
           Registered(p)' <=> Registered(p) /\ ~(p = q /\ handlers[q] = {g})
    <3>1. CASE handlers[q] = {g}
      BY <1>3, <2>1, <3>1, RegisteredAfterRemoval DEF MapInv
    <3>2. CASE handlers[q] # {g}
      BY <1>3, <3>2 DEF Registered
    <3>3. QED
      BY <3>1, <3>2
  <2>4. \A p \in Pollers : handlers'[p] = IF p = q THEN handlers[p] \ {g} ELSE handlers[p]
    BY <1>3, <2>1 DEF TypeOK
  <2>5. MapConsistent'
    BY <1>3, <2>1 DEF MapInv, MapConsistent, TypeOK, Maybe, Registered
  <2>6. RegisteredIffWatched'
    BY <2>1, <2>3, <2>4 DEF MapInv, RegisteredIffWatched, TypeOK
  <2>7. TargetRegistered'
    <3>1. CASE target = None
      BY <2>2, <3>1 DEF TargetRegistered
    <3>2. CASE target # None
      <4>1. worker.url \in Urls /\ registry[worker.url] = target /\ target # q
        BY <2>1, <3>2
      <4>2. url[q] # worker.url
        BY <2>1, <4>1 DEF Registered
      <4>3. registry'[worker.url] = target
        BY <1>3, <4>1, <4>2 DEF TypeOK
      <4>4. QED
        BY <2>2, <4>1, <4>3 DEF TargetRegistered
    <3>3. QED
      BY <3>1, <3>2
  <2>8. WatchedWhereLastReconciled'
    <3> SUFFICES ASSUME NEW h \in GlideinSets, synced'[h] # None, worker'.gs # h
                 PROVE  \E p \in Holders(h)' : url'[p] = synced'[h]
      BY DEF WatchedWhereLastReconciled
    <3>1. h # g /\ synced[h] # None
      BY <2>2
    <3>2. PICK p \in Holders(h) : url[p] = synced[h]
      BY <3>1 DEF MapInv, WatchedWhereLastReconciled
    <3>3. p \in Pollers /\ Registered(p) /\ h \in handlers[p]
      BY <3>2 DEF Holders
    <3>4. Registered(p)' /\ h \in handlers'[p]
      BY <2>3, <2>4, <3>1, <3>3
    <3>5. QED
      BY <1>3, <3>2, <3>3, <3>4 DEF Holders
  <2>9. PollingInv'
    <3>1. TickersFollowLoops'
      BY DEF PollingInv, TickersFollowLoops, tickerVars, loopVars
    <3>2. dataLoop[q] # "exited"
      BY <2>1 DEF PollingInv, ExitedIsRetired, Retired
    <3>3. \A p \in Pollers : Retired(p) => Retired(p)'
      BY <1>3, <2>3 DEF Retired
    <3>4. ExitedIsRetired'
      BY <2>1, <2>2, <3>2, <3>3 DEF PollingInv, ExitedIsRetired, loopVars
    <3>5. StoppingIsRetired'
      <4>1. CASE handlers[q] = {g}
        BY <1>3, <2>1, <2>2, <2>3, <4>1 DEF StoppingIsRetired, Retired, Registered
      <4>2. CASE handlers[q] # {g}
        BY <2>2, <4>2 DEF StoppingIsRetired, Stopping
      <4>3. QED
        BY <4>1, <4>2
    <3>6. QED
      BY <3>1, <3>4, <3>5 DEF PollingInv
  <2>10. QED
    BY <1>1, <2>5, <2>6, <2>7, <2>8, <2>9 DEF MapInv
<1>4. QED
  BY <1>2, <1>3 DEF RemoveHandler

(* The steps of stopPolling and of the rendezvous: the map stays as it is. *)
LEMMA StopIInv ==
  ASSUME IInv, StopStep \/ Receive
  PROVE  IInv'
<1> USE DEF IInv
<1>1. TypeOK'
  BY WorkerTypeOK DEF Worker, Busy
<1> DEFINE p == worker.stopping
<1>2. /\ worker.pc \in Stopping /\ p \in Pollers
      /\ worker'.pc \in Stopping \cup {"finish"}
      /\ worker'.stopping = p /\ worker'.target = worker.target
      /\ worker'.gs = worker.gs /\ worker'.url = worker.url
      /\ UNCHANGED <<structVars, synced>>
  BY DEF StopStep, Receive, StopDataTicker, StopRefreshTicker, DecideToSend,
         DataLoopReceives, RefreshLoopReceives, TypeOK, Stopping
<1>3. MapInv'
  BY <1>2
  DEF MapInv, MapConsistent, RegisteredIffWatched, TargetRegistered,
      WatchedWhereLastReconciled, structVars, Registered, Holders
<1>4. \A q \in Pollers : Retired(q)' <=> Retired(q)
  BY <1>2 DEF Retired, Registered, structVars
<1>5. Retired(p)
  BY <1>2 DEF PollingInv, StoppingIsRetired
<1>6. PollingInv'
  <2> USE DEF PollingInv, TickersFollowLoops, ExitedIsRetired, StoppingIsRetired,
      tickerVars, loopVars
  <2>1. CASE StopDataTicker
    <3>1. \A q \in Pollers : dataTicker'[q] = "nil" <=> dataTicker[q] = "nil"
      BY <2>1 DEF StopDataTicker, StopTicker, TypeOK
    <3>2. worker'.pc # "sending"
      BY <2>1 DEF StopDataTicker, TypeOK
    <3>3. QED
      BY <1>2, <1>4, <2>1, <3>1, <3>2 DEF StopDataTicker, Stopping
  <2>2. CASE StopRefreshTicker
    <3>1. \A q \in Pollers : refreshTicker'[q] = "nil" <=> refreshTicker[q] = "nil"
      BY <2>2 DEF StopRefreshTicker, StopTicker, TypeOK
    <3>2. worker'.pc # "sending"
      BY <2>2 DEF StopRefreshTicker, TypeOK
    <3>3. QED
      BY <1>2, <1>4, <2>2, <3>1, <3>2 DEF StopRefreshTicker, Stopping
  <2>3. CASE DecideToSend
    <3>1. worker'.pc = "sending" => dataTicker[p] # "nil" \/ refreshTicker[p] # "nil"
      BY <2>3 DEF DecideToSend, TypeOK
    <3>2. worker'.pc = "sending" => dataTicker[p] # "nil"
      BY <1>2, <3>1
    <3>3. QED
      BY <1>2, <1>4, <2>3, <3>2 DEF DecideToSend
  <2>4. CASE DataLoopReceives
    <3>1. worker'.pc \notin Stopping
      BY <2>4 DEF DataLoopReceives, TypeOK, Stopping
    <3>2. \A q \in Pollers : dataLoop'[q] = IF q = p THEN "exited" ELSE dataLoop[q]
      BY <2>4 DEF DataLoopReceives, TypeOK
    <3>3. dataLoop[p] = "waiting"
      BY <2>4 DEF DataLoopReceives
    <3>4. QED
      BY <1>2, <1>4, <1>5, <2>4, <3>1, <3>2, <3>3 DEF DataLoopReceives, Stopping
  <2>5. CASE RefreshLoopReceives
    <3>1. worker'.pc \notin Stopping
      BY <2>5 DEF RefreshLoopReceives, TypeOK, Stopping
    <3>2. QED
      BY <1>2, <1>4, <2>5, <3>1 DEF RefreshLoopReceives, Stopping
  <2>6. QED
    BY <2>1, <2>2, <2>3, <2>4, <2>5 DEF StopStep, Receive
<1>7. QED
  BY <1>1, <1>3, <1>6

(* addGlideinManagerWatcher for a URL that has no poller. *)
LEMMA AddToNewPollerIInv ==
  ASSUME IInv, AddToNewPoller
  PROVE  IInv'
<1> USE DEF IInv
<1>1. TypeOK'
  BY WorkerTypeOK DEF Worker, Busy
<1> DEFINE g == worker.gs
           u == worker.url
<1>2. PICK q \in Pollers :
        /\ url[q] = None
        /\ url' = [url EXCEPT ![q] = u]
        /\ handlers' = [handlers EXCEPT ![q] = {g}]
        /\ registry' = [registry EXCEPT ![u] = q]
  BY DEF AddToNewPoller
<1>3. /\ g \in GlideinSets /\ u \in Urls /\ registry[u] = None
      /\ worker'.pc = "idle" /\ worker'.gs = None
      /\ synced' = [synced EXCEPT ![g] = u]
      /\ UNCHANGED <<dataTicker, refreshTicker, dataLoop>>
      /\ \A p \in Pollers : starter'[p] \in {starter[p], "handshake"}
  BY DEF AddToNewPoller, TypeOK, Maybe, Idle, tickerVars
<1>4. \A p \in Pollers : Registered(p)' <=> Registered(p) \/ p = q
  BY <1>2, <1>3, RegisteredAfterAdd DEF MapInv
<1>5. ~Registered(q)
  BY <1>2 DEF Registered
<1>6. \A p \in Pollers : handlers'[p] = IF p = q THEN {g} ELSE handlers[p]
  BY <1>2 DEF TypeOK
<1>7. MapInv'
  <2>1. MapConsistent'
    BY <1>2, <1>3, NoneAssumption DEF MapInv, MapConsistent, TypeOK, Maybe
  <2>2. RegisteredIffWatched'
    BY <1>4, <1>6 DEF MapInv, RegisteredIffWatched
  <2>3. TargetRegistered'
    BY <1>3 DEF TargetRegistered, Stopping
  <2>4. WatchedWhereLastReconciled'
    <3> SUFFICES ASSUME NEW h \in GlideinSets, synced'[h] # None
                 PROVE  \E p \in Holders(h)' : url'[p] = synced'[h]
      BY DEF WatchedWhereLastReconciled
    <3>1. CASE h = g
      <4>1. url'[q] = u /\ synced'[h] = u
        BY <1>2, <1>3, <3>1 DEF TypeOK
      <4>2. q \in Holders(h)'
        BY <1>4, <1>6, <3>1 DEF Holders
      <4>3. QED
        BY <4>1, <4>2
    <3>2. CASE h # g
      <4>1. synced'[h] = synced[h] /\ worker.gs # h
        BY <1>3, <3>2 DEF TypeOK
      <4>2. PICK p \in Holders(h) : url[p] = synced[h]
        BY <4>1 DEF MapInv, WatchedWhereLastReconciled
      <4>3. p \in Pollers /\ Registered(p) /\ p # q /\ h \in handlers[p]
        BY <1>5, <4>2 DEF Holders
      <4>4. p \in Holders(h)' /\ url'[p] = url[p]
        BY <1>2, <1>4, <1>6, <4>3 DEF Holders, TypeOK
      <4>5. QED
        BY <4>1, <4>2, <4>4
    <3>3. QED
      BY <3>1, <3>2
  <2>5. QED
    BY <2>1, <2>2, <2>3, <2>4 DEF MapInv
<1>8. PollingInv'
  <2>1. TickersFollowLoops'
    BY <1>3 DEF PollingInv, TickersFollowLoops
  <2>2. ExitedIsRetired'
    <3> SUFFICES ASSUME NEW p \in Pollers, dataLoop[p] = "exited"
                 PROVE  Retired(p)'
      BY <1>3 DEF ExitedIsRetired, Stopping
    <3>1. Retired(p)
      BY DEF PollingInv, ExitedIsRetired
    <3>2. p # q /\ url'[p] = url[p]
      BY <1>2, <3>1 DEF Retired, TypeOK
    <3>3. QED
      BY <1>4, <3>1, <3>2 DEF Retired
  <2>3. StoppingIsRetired'
    BY <1>3 DEF StoppingIsRetired, Stopping
  <2>4. QED
    BY <2>1, <2>2, <2>3 DEF PollingInv
<1>9. QED
  BY <1>1, <1>7, <1>8

(* The last step of a reconcile that removed a handler, and the one that   *)
(* found nothing to do.                                                    *)
LEMMA FinishIInv ==
  ASSUME IInv, AddIsNoop \/ FinishAdd \/ FinishRemove
  PROVE  IInv'
<1> USE DEF IInv
<1>1. TypeOK'
  BY WorkerTypeOK DEF Worker, Busy
<1> DEFINE g == worker.gs
<1>2. /\ g \in GlideinSets
      /\ worker'.pc = "idle" /\ worker'.gs = None
      /\ UNCHANGED <<registry, url, dataTicker, refreshTicker, starter, dataLoop>>
  BY DEF AddIsNoop, FinishAdd, FinishRemove, TypeOK, Maybe, Idle, tickerVars, loopVars,
         structVars
<1>3. \A p \in Pollers : Registered(p)' <=> Registered(p)
  BY <1>2 DEF Registered
<1>4. PollingInv'
  BY <1>2, <1>3
  DEF PollingInv, TickersFollowLoops, ExitedIsRetired, StoppingIsRetired, Retired, Stopping
<1>5. MapConsistent' /\ TargetRegistered'
  BY <1>2 DEF MapInv, MapConsistent, TargetRegistered, Stopping
<1>6. CASE FinishRemove
  <2>1. synced' = [synced EXCEPT ![g] = None] /\ handlers' = handlers
    BY <1>6 DEF FinishRemove, structVars
  <2>2. RegisteredIffWatched'
    BY <1>3, <2>1 DEF MapInv, RegisteredIffWatched
  <2>3. WatchedWhereLastReconciled'
    BY <1>2, <1>3, <2>1 DEF MapInv, WatchedWhereLastReconciled, Holders, TypeOK
  <2>4. QED
    BY <1>1, <1>4, <1>5, <2>2, <2>3 DEF MapInv
<1>7. CASE AddIsNoop \/ FinishAdd
  <2>1. PICK q \in Pollers :
          /\ worker.url \in Urls /\ registry[worker.url] = q
          /\ handlers' = [handlers EXCEPT ![q] = @ \cup {g}]
          /\ synced' = [synced EXCEPT ![g] = worker.url]
    <3>1. CASE AddIsNoop
      <4>1. worker.url \in Urls /\ registry[worker.url] \in Pollers
        BY <3>1 DEF AddIsNoop, TypeOK, Maybe
      <4>2. handlers' = handlers /\ g \in handlers[registry[worker.url]]
        BY <3>1 DEF AddIsNoop, structVars
      <4>3. handlers = [handlers EXCEPT ![registry[worker.url]] = @ \cup {g}]
        BY <4>1, <4>2 DEF TypeOK
      <4>4. QED
        BY <3>1, <4>1, <4>2, <4>3 DEF AddIsNoop
    <3>2. CASE FinishAdd
      <4>1. /\ worker.url \in Urls /\ registry[worker.url] = worker.target
            /\ worker.target \in Pollers
        BY <3>2 DEF FinishAdd, MapInv, TargetRegistered, TypeOK, Maybe
      <4>2. QED
        BY <3>2, <4>1 DEF FinishAdd
    <3>3. QED
      BY <1>7, <3>1, <3>2
  <2>2. \A p \in Pollers :
           handlers'[p] = IF p = q THEN handlers[p] \cup {g} ELSE handlers[p]
    BY <2>1 DEF TypeOK
  <2>3. url[q] = worker.url
    BY <2>1, NoneAssumption DEF MapInv, MapConsistent
  <2>4. Registered(q)
    BY <2>1, <2>3, NoneAssumption DEF Registered
  <2>5. RegisteredIffWatched'
    BY <1>3, <2>2, <2>4 DEF MapInv, RegisteredIffWatched
  <2>6. WatchedWhereLastReconciled'
    <3> SUFFICES ASSUME NEW h \in GlideinSets, synced'[h] # None
                 PROVE  \E p \in Holders(h)' : url'[p] = synced'[h]
      BY DEF WatchedWhereLastReconciled
    <3>1. CASE h = g
      BY <1>2, <1>3, <2>1, <2>2, <2>3, <2>4, <3>1 DEF Holders, TypeOK
    <3>2. CASE h # g
      <4>1. synced'[h] = synced[h] /\ worker.gs # h
        BY <2>1, <3>2 DEF TypeOK
      <4>2. PICK p \in Holders(h) : url[p] = synced[h]
        BY <4>1 DEF MapInv, WatchedWhereLastReconciled
      <4>3. p \in Holders(h)'
        BY <1>3, <2>2, <4>2 DEF Holders
      <4>4. QED
        BY <1>2, <4>1, <4>2, <4>3
    <3>3. QED
      BY <3>1, <3>2
  <2>7. QED
    BY <1>1, <1>4, <1>5, <2>5, <2>6 DEF MapInv
<1>8. QED
  BY <1>6, <1>7

LEMMA WorkerIInv ==
  ASSUME IInv, Worker
  PROVE  IInv'
<1> USE DEF IInv
<1>1. TypeOK'
  BY WorkerTypeOK
<1>2. ASSUME NEW g \in GlideinSets, Reconcile(g)
      PROVE  IInv'
  <2>1. /\ worker.pc = "idle" /\ worker.gs = None
        /\ worker'.pc \in {"add", "remove"}
        /\ UNCHANGED <<structVars, tickerVars, loopVars, synced>>
    BY <1>2 DEF Reconcile, Idle, TypeOK
  <2>2. MapInv'
    BY <2>1, NoneAssumption
    DEF MapInv, MapConsistent, RegisteredIffWatched, TargetRegistered,
        WatchedWhereLastReconciled, structVars, Registered, Holders, Stopping
  <2>3. PollingInv'
    BY <2>1
    DEF PollingInv, TickersFollowLoops, ExitedIsRetired, StoppingIsRetired,
        structVars, tickerVars, loopVars, Registered, Retired, Stopping
  <2>4. QED
    BY <1>1, <2>2, <2>3
<1>3. CASE AddToNewPoller
  BY <1>3, AddToNewPollerIInv
<1>4. CASE AddToExistingPoller
  <2>1. worker.pc = "add" /\ worker.url \in Urls /\ worker.gs \in GlideinSets
    BY <1>4 DEF AddToExistingPoller, TypeOK, Maybe
  <2>2. registry[worker.url] \in Pollers /\ worker.gs \notin handlers[registry[worker.url]]
    BY <1>4, <2>1 DEF AddToExistingPoller, TypeOK, Maybe
  <2>3. QED
    BY <1>4, <2>1, <2>2, RemoveHandlerIInv DEF AddToExistingPoller, Maybe, Stopping
<1>5. CASE RemoveWatcher
  <2>1. worker.pc = "remove" /\ worker.gs \in GlideinSets
    BY <1>5 DEF RemoveWatcher, TypeOK, Maybe
  <2>2. QED
    BY <1>5, <2>1, RemoveHandlerIInv DEF RemoveWatcher, Maybe, Stopping
<1>6. CASE StopStep \/ Receive
  BY <1>6, StopIInv
<1>7. CASE AddIsNoop \/ FinishAdd \/ FinishRemove
  BY <1>7, FinishIInv
<1>8. QED
  BY <1>2, <1>3, <1>4, <1>5, <1>6, <1>7 DEF Worker, Busy

LEMMA StutterIInv ==
  ASSUME IInv, UNCHANGED vars
  PROVE  IInv'
<1>1. UNCHANGED <<structVars, tickerVars, loopVars, worker, synced>>
  BY DEF vars
<1>2. TypeOK'
  BY StutterTypeOK DEF IInv
<1>3. PollingInv'
  BY <1>1
  DEF IInv, PollingInv, TickersFollowLoops, ExitedIsRetired, StoppingIsRetired,
      structVars, tickerVars, loopVars, Registered, Retired
<1>4. QED
  BY <1>1, <1>2, <1>3, MapInvUnchanged DEF IInv

THEOREM Inductive == Spec => []IInv
<1>1. Init => IInv
  BY InitIInv
<1>2. IInv /\ [Next]_vars => IInv'
  BY EnvironmentIInv, WorkerIInv, GoroutineIInv, StutterIInv DEF Next
<1>3. QED
  BY <1>1, <1>2, PTL DEF Spec

-----------------------------------------------------------------------------
(* What follows from it *)

(* A poller is in the static map exactly while it has an update handler.   *)
THEOREM MapHoldsWatched == Spec => []RegisteredIffWatched
<1>1. IInv => RegisteredIffWatched
  BY DEF IInv, MapInv
<1>2. QED
  BY <1>1, Inductive, PTL

(* No removal takes away the handler that another GlideinSet's last         *)
(* reconcile left behind.                                                  *)
THEOREM WatchIsKept == Spec => []WatchedWhereLastReconciled
<1>1. IInv => WatchedWhereLastReconciled
  BY DEF IInv, MapInv
<1>2. QED
  BY <1>1, Inductive, PTL

(* The reconcile worker never blocks on a poller whose data loop has       *)
(* returned: the loop and its ticker were made together, the poller being  *)
(* stopped left the map in this same reconcile, and only the value that    *)
(* this stop sends can end the loop.                                       *)
THEOREM StopIsHeard == Spec => []StopHasReceiver
<1>1. IInv => StopHasReceiver
  <2> SUFFICES ASSUME IInv, worker.pc = "sending"
               PROVE  dataLoop[worker.stopping] \in {"waiting", "polling"}
    BY DEF StopHasReceiver
  <2>1. worker.pc \in Stopping /\ worker.stopping \in Pollers
    BY DEF IInv, TypeOK, Stopping
  <2>2. dataLoop[worker.stopping] \in DataState
    BY <2>1 DEF IInv, TypeOK
  <2>3. dataLoop[worker.stopping] # "none"
    BY <2>1 DEF IInv, PollingInv, StoppingIsRetired, TickersFollowLoops
  <2>4. dataLoop[worker.stopping] # "exited"
    BY <2>1 DEF IInv, PollingInv, ExitedIsRetired
  <2>5. QED
    BY <2>2, <2>3, <2>4 DEF DataState
<1>2. QED
  BY <1>1, Inductive, PTL
=============================================================================
