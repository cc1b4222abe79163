------------------------ MODULE GlideinManagerPollers ------------------------
(***************************************************************************)
(* The Glidein Manager pollers of the operator process                     *)
(* (internal/controller/glideinmanager_client.go): the static map          *)
(* activeGlideinManagerPollers, the GlideinManagerPoller structs it points *)
(* to, the three goroutines of a poller, and the one worker goroutine of   *)
(* the GlideinSet controller that registers and removes update handlers.   *)
(*                                                                         *)
(* The worker and the goroutines share pollers without a lock.  They meet  *)
(* only at the unbuffered doneChan: stopPolling sends one value on it, and *)
(* both the data loop and the refresh loop receive from it.                *)
(*                                                                         *)
(* What a poll does to the watched GlideinSets is not in this module: here *)
(* a poll is the interval in which the data loop cannot receive from       *)
(* doneChan.                                                               *)
(***************************************************************************)
EXTENDS Naturals

CONSTANTS
    GlideinSets,   \* namespaced names of GlideinSets, the keys of updateHandlers
    Urls,          \* Glidein Manager URLs, the keys of the static map
    Pollers,       \* structs that one process may allocate (bounds the model)
    Retries,       \* attempts of doHandshakeWithRetry, 15 in the code
    UrlMayChange,  \* may the URL of a live GlideinSet be edited?
    MayRestart,    \* may the operator process die and be restarted?
    Deleting,      \* spec of a GlideinSet with a deletion timestamp and a finalizer
    None           \* Go's nil, and "no value"

ASSUME RetriesAssumption == Retries \in Nat \ {0}
ASSUME NoneAssumption    == None \notin GlideinSets \cup Urls \cup Pollers \cup {Deleting}
ASSUME DeletingAssumption == Deleting \notin Urls
ASSUME SwitchAssumption  == UrlMayChange \in BOOLEAN /\ MayRestart \in BOOLEAN

VARIABLES
    spec,           \* GlideinManagerUrl of each live GlideinSet; Deleting; None: gone
    gmosUp,         \* do handshakes with the Glidein Managers succeed?
    registry,       \* activeGlideinManagerPollers
    url,            \* client.ManagerUrl of a poller; None: not allocated
    handlers,       \* the keys of updateHandlers of a poller
    dataTicker,     \* dataUpdateTicker of a poller
    refreshTicker,  \* refreshTicker of a poller
    starter,        \* goroutine of addGlideinManagerWatcher: handshake, then start
    dataLoop,       \* first goroutine of startPolling
    refreshLoop,    \* second goroutine of startPolling
    tries,          \* failed attempts of the handshake that each goroutine runs
    worker,         \* the reconcile worker
    process,        \* which operator process runs (of two numbers, taken in turn)
    synced          \* history: URL of the last completed reconcile; None: removed

outVars    == <<spec, gmosUp, process>>
structVars == <<registry, url, handlers>>
tickerVars == <<dataTicker, refreshTicker>>
loopVars   == <<starter, dataLoop, refreshLoop, tries>>
vars       == <<outVars, structVars, tickerVars, loopVars, worker, synced>>

Maybe(S) == S \cup {None}

TickerState  == {"nil", "running", "stopped"}
StarterState == {"none", "handshake", "startData", "startRefresh", "done", "failed"}
DataState    == {"none", "waiting", "polling", "exited"}
RefreshState == {"none", "waiting", "handshake", "exited"}
WorkerState  == {"idle", "add", "remove", "stopData", "stopRefresh", "stopSend",
                 "sending", "finish"}
Stopping     == {"stopData", "stopRefresh", "stopSend", "sending"}
Goroutine    == {"starter", "refresh"}

Idle == [pc |-> "idle", gs |-> None, url |-> None, stopping |-> None, target |-> None]

TypeOK ==
    /\ spec \in [GlideinSets -> Maybe(Urls) \cup {Deleting}]
    /\ gmosUp \in BOOLEAN /\ process \in {0, 1}
    /\ registry \in [Urls -> Maybe(Pollers)]
    /\ url \in [Pollers -> Maybe(Urls)]
    /\ handlers \in [Pollers -> SUBSET GlideinSets]
    /\ dataTicker \in [Pollers -> TickerState]
    /\ refreshTicker \in [Pollers -> TickerState]
    /\ starter \in [Pollers -> StarterState]
    /\ dataLoop \in [Pollers -> DataState]
    /\ refreshLoop \in [Pollers -> RefreshState]
    /\ tries \in [Pollers -> [Goroutine -> 0 .. Retries - 1]]
    /\ worker \in [pc : WorkerState, gs : Maybe(GlideinSets), url : Maybe(Urls),
                   stopping : Maybe(Pollers), target : Maybe(Pollers)]
    /\ worker.pc \in Stopping => worker.stopping \in Pollers
    /\ worker.pc = "idle" <=> worker.gs = None
    /\ worker.pc = "add" => worker.url \in Urls
    /\ synced \in [GlideinSets -> Maybe(Urls)]

(* A process starts with an empty static map; the fields of a poller have   *)
(* these values until newGlidenManagerPoller allocates it.                 *)
Init ==
    /\ spec \in [GlideinSets -> Maybe(Urls)]
    /\ gmosUp \in BOOLEAN /\ process = 0
    /\ registry      = [u \in Urls |-> None]
    /\ url           = [p \in Pollers |-> None]
    /\ handlers      = [p \in Pollers |-> {}]
    /\ dataTicker    = [p \in Pollers |-> "nil"]
    /\ refreshTicker = [p \in Pollers |-> "nil"]
    /\ starter       = [p \in Pollers |-> "none"]
    /\ dataLoop      = [p \in Pollers |-> "none"]
    /\ refreshLoop   = [p \in Pollers |-> "none"]
    /\ tries         = [p \in Pollers |-> [w \in Goroutine |-> 0]]
    /\ worker = Idle
    /\ synced = [g \in GlideinSets |-> None]

-----------------------------------------------------------------------------
(* Which pollers hold a handler for g; the registered poller of a URL. *)

Registered(p) == url[p] # None /\ registry[url[p]] = p
Holders(g)    == {p \in Pollers : Registered(p) /\ g \in handlers[p]}
Retired(p)    == url[p] # None /\ ~Registered(p)

-----------------------------------------------------------------------------
(* The environment: GlideinSets are created, edited and deleted by the     *)
(* collection controller, Glidein Managers come and go.  Deletion marks the *)
(* object: it is gone once the worker has removed its finalizer.  (An      *)
(* object deleted before it has a finalizer never reaches a poller.)       *)

CreateGlideinSet(g, u) ==
    /\ spec[g] = None
    /\ spec' = [spec EXCEPT ![g] = u]
    /\ UNCHANGED <<gmosUp, process, structVars, tickerVars, loopVars, worker, synced>>

ChangeUrl(g, u) ==
    /\ UrlMayChange /\ spec[g] \in Urls \ {u}
    /\ spec' = [spec EXCEPT ![g] = u]
    /\ UNCHANGED <<gmosUp, process, structVars, tickerVars, loopVars, worker, synced>>

DeleteGlideinSet(g) ==
    /\ spec[g] \in Urls
    /\ spec' = [spec EXCEPT ![g] = Deleting]
    /\ UNCHANGED <<gmosUp, process, structVars, tickerVars, loopVars, worker, synced>>

GmosToggle ==
    /\ gmosUp' = ~gmosUp
    /\ UNCHANGED <<spec, process, structVars, tickerVars, loopVars, worker, synced>>

(* The operator dies - one way is the fatal error that the Go runtime      *)
(* raises when the worker writes updateHandlers while the data loop ranges *)
(* over it - and a new process starts with empty memory.                   *)
Restart ==
    /\ MayRestart /\ process' = 1 - process
    /\ registry'      = [u \in Urls |-> None]
    /\ url'           = [p \in Pollers |-> None]
    /\ handlers'      = [p \in Pollers |-> {}]
    /\ dataTicker'    = [p \in Pollers |-> "nil"]
    /\ refreshTicker' = [p \in Pollers |-> "nil"]
    /\ starter'       = [p \in Pollers |-> "none"]
    /\ dataLoop'      = [p \in Pollers |-> "none"]
    /\ refreshLoop'   = [p \in Pollers |-> "none"]
    /\ tries'         = [p \in Pollers |-> [w \in Goroutine |-> 0]]
    /\ worker' = Idle
    /\ synced' = [g \in GlideinSets |-> None]
    /\ UNCHANGED <<spec, gmosUp>>

-----------------------------------------------------------------------------
(* The reconcile worker.  Reconcile reads the GlideinSet, and ends in      *)
(* addGlideinManagerWatcher or, if it is being deleted, in                 *)
(* removeGlideinManagerWatcher.                                            *)

Reconcile(g) ==
    /\ worker.pc = "idle" /\ spec[g] # None
    /\ worker' = IF spec[g] = Deleting
                 THEN [Idle EXCEPT !.pc = "remove", !.gs = g]
                 ELSE [Idle EXCEPT !.pc = "add", !.gs = g, !.url = spec[g]]
    /\ UNCHANGED <<outVars, structVars, tickerVars, loopVars, synced>>

(* No poller for the URL yet: allocate one with this handler, publish it,  *)
(* and start the goroutine that does the handshake and starts the polling. *)
AddToNewPoller ==
    /\ worker.pc = "add" /\ registry[worker.url] = None
    /\ \E p \in Pollers :
          /\ url[p] = None
          /\ url' = [url EXCEPT ![p] = worker.url]
          /\ handlers' = [handlers EXCEPT ![p] = {worker.gs}]
          /\ registry' = [registry EXCEPT ![worker.url] = p]
          /\ starter' = [starter EXCEPT ![p] = "handshake"]
    /\ synced' = [synced EXCEPT ![worker.gs] = worker.url]
    /\ worker' = Idle
    /\ UNCHANGED <<outVars, tickerVars, dataLoop, refreshLoop, tries>>

(* The poller of the URL already holds a handler for the GlideinSet. *)
AddIsNoop ==
    /\ worker.pc = "add" /\ registry[worker.url] # None
    /\ worker.gs \in handlers[registry[worker.url]]
    /\ synced' = [synced EXCEPT ![worker.gs] = worker.url]
    /\ worker' = Idle
    /\ UNCHANGED <<outVars, structVars, tickerVars, loopVars>>

(* removeGlideinManagerWatcher up to stopPolling: the first poller that    *)
(* the map range meets with a handler for g loses it; a poller without     *)
(* handlers leaves the static map before it is stopped.                    *)
FaultKeepInMap(g, target) ==
    IF Holders(g) = {}
    THEN /\ worker' = [worker EXCEPT !.pc = "finish", !.target = target]
         /\ UNCHANGED structVars
    ELSE \E p \in Holders(g) :
            /\ handlers' = [handlers EXCEPT ![p] = @ \ {g}]
            /\ registry' = registry
            /\ worker' = [worker EXCEPT !.pc = IF handlers[p] = {g} THEN "stopData" ELSE "finish",
                                        !.stopping = p, !.target = target]
            /\ UNCHANGED url

FaultStopShared(g, target) ==
    IF Holders(g) = {}
    THEN /\ worker' = [worker EXCEPT !.pc = "finish", !.target = target]
         /\ UNCHANGED structVars
    ELSE \E p \in Holders(g) :
            /\ handlers' = [handlers EXCEPT ![p] = {}]
            /\ registry' = [registry EXCEPT ![url[p]] = None]
            /\ worker' = [worker EXCEPT !.pc = "stopData", !.stopping = p, !.target = target]
            /\ UNCHANGED url

FaultKeepShared(g, target) ==
    \/ /\ \A p \in Holders(g) : handlers[p] # {g}
       /\ worker' = [worker EXCEPT !.pc = "finish", !.target = target]
       /\ UNCHANGED structVars
    \/ \E p \in Holders(g) :
          /\ handlers[p] = {g}
          /\ handlers' = [handlers EXCEPT ![p] = {}]
          /\ registry' = [registry EXCEPT ![url[p]] = None]
          /\ worker' = [worker EXCEPT !.pc = "stopData", !.stopping = p, !.target = target]
          /\ UNCHANGED url

RemoveHandler(g, target) ==
    \/ /\ Holders(g) = {}
       /\ worker' = [worker EXCEPT !.pc = "finish", !.target = target]
       /\ UNCHANGED structVars
    \/ \E p \in Holders(g) :
          /\ handlers' = [handlers EXCEPT ![p] = @ \ {g}]
          /\ registry' = IF handlers[p] = {g} THEN [registry EXCEPT ![url[p]] = None]
                                              ELSE registry
          /\ worker' = [worker EXCEPT !.pc = IF handlers[p] = {g} THEN "stopData" ELSE "finish",
                                      !.stopping = p, !.target = target]
          /\ UNCHANGED url

(* The URL has a poller without this GlideinSet: remove it elsewhere first. *)
AddToExistingPoller ==
    /\ worker.pc = "add" /\ registry[worker.url] # None
    /\ worker.gs \notin handlers[registry[worker.url]]
    /\ RemoveHandler(worker.gs, registry[worker.url])
    /\ UNCHANGED <<outVars, tickerVars, loopVars, synced>>

(* finalizeGlideinSet *)
RemoveWatcher ==
    /\ worker.pc = "remove"
    /\ RemoveHandler(worker.gs, None)
    /\ UNCHANGED <<outVars, tickerVars, loopVars, synced>>

(* stopPolling, statement by statement: it reads the tickers while the     *)
(* starter goroutine may be setting them.                                  *)
StopTicker(ticker, p) ==
    [ticker EXCEPT ![p] = IF @ = "nil" THEN "nil" ELSE "stopped"]

StopDataTicker ==
    /\ worker.pc = "stopData"
    /\ dataTicker' = StopTicker(dataTicker, worker.stopping)
    /\ worker' = [worker EXCEPT !.pc = "stopRefresh"]
    /\ UNCHANGED <<outVars, structVars, refreshTicker, loopVars, synced>>

StopRefreshTicker ==
    /\ worker.pc = "stopRefresh"
    /\ refreshTicker' = StopTicker(refreshTicker, worker.stopping)
    /\ worker' = [worker EXCEPT !.pc = "stopSend"]
    /\ UNCHANGED <<outVars, structVars, dataTicker, loopVars, synced>>

FaultAlwaysSend ==
    /\ worker.pc = "stopSend"
    /\ worker' = [worker EXCEPT !.pc = "sending"]
    /\ UNCHANGED <<outVars, structVars, tickerVars, loopVars, synced>>

DecideToSend ==
    LET p == worker.stopping
        started == dataTicker[p] # "nil" \/ refreshTicker[p] # "nil"
    IN  /\ worker.pc = "stopSend"
        /\ worker' = [worker EXCEPT !.pc = IF started THEN "sending" ELSE "finish"]
        /\ UNCHANGED <<outVars, structVars, tickerVars, loopVars, synced>>

(* The rendezvous on doneChan with whichever loop is waiting in its select. *)
DataLoopReceives ==
    /\ worker.pc = "sending" /\ dataLoop[worker.stopping] = "waiting"
    /\ dataLoop' = [dataLoop EXCEPT ![worker.stopping] = "exited"]
    /\ worker' = [worker EXCEPT !.pc = "finish"]
    /\ UNCHANGED <<outVars, structVars, tickerVars, starter, refreshLoop, tries, synced>>

RefreshLoopReceives ==
    /\ worker.pc = "sending" /\ refreshLoop[worker.stopping] = "waiting"
    /\ refreshLoop' = [refreshLoop EXCEPT ![worker.stopping] = "exited"]
    /\ worker' = [worker EXCEPT !.pc = "finish"]
    /\ UNCHANGED <<outVars, structVars, tickerVars, starter, dataLoop, tries, synced>>

(* The add ends with setUpdateHandler on the poller of the new URL. *)
FinishAdd ==
    /\ worker.pc = "finish" /\ worker.target # None
    /\ handlers' = [handlers EXCEPT ![worker.target] = @ \cup {worker.gs}]
    /\ synced' = [synced EXCEPT ![worker.gs] = worker.url]
    /\ worker' = Idle
    /\ UNCHANGED <<outVars, registry, url, tickerVars, loopVars>>

(* After the removal Reconcile updates the object without its finalizer,   *)
(* which deletes it, unless the update fails.                              *)
FinishRemove ==
    /\ worker.pc = "finish" /\ worker.target = None
    /\ spec' \in {spec, [spec EXCEPT ![worker.gs] = None]}
    /\ synced' = [synced EXCEPT ![worker.gs] = None]
    /\ worker' = Idle
    /\ UNCHANGED <<gmosUp, process, structVars, tickerVars, loopVars>>

-----------------------------------------------------------------------------
(* The goroutines of a poller. *)

FaultOneMoreAttempt(state, p, w, ok, failed) ==
    LET last == tries[p][w] = Retries
    IN  IF gmosUp
        THEN /\ state' = [state EXCEPT ![p] = ok]
             /\ tries' = [tries EXCEPT ![p][w] = 0]
        ELSE /\ state' = IF last THEN [state EXCEPT ![p] = failed] ELSE state
             /\ tries' = [tries EXCEPT ![p][w] = IF last THEN 0 ELSE @ + 1]

(* One attempt of doHandshakeWithRetry by goroutine w of poller p: the     *)
(* state of the goroutine moves to ok, stays, or moves to failed after the *)
(* last attempt.                                                           *)
Attempt(state, p, w, ok, failed) ==
    LET last == tries[p][w] + 1 = Retries
    IN  IF gmosUp
        THEN /\ state' = [state EXCEPT ![p] = ok]
             /\ tries' = [tries EXCEPT ![p][w] = 0]
        ELSE /\ state' = IF last THEN [state EXCEPT ![p] = failed] ELSE state
             /\ tries' = [tries EXCEPT ![p][w] = IF last THEN 0 ELSE @ + 1]

StarterAttempt(p) ==
    /\ starter[p] = "handshake"
    /\ Attempt(starter, p, "starter", "startData", "failed")
    /\ UNCHANGED <<outVars, structVars, tickerVars, dataLoop, refreshLoop, worker, synced>>

(* startPolling: the data ticker and its loop, then the refresh ticker and *)
(* its loop.                                                               *)
StartData(p) ==
    /\ starter[p] = "startData"
    /\ dataTicker' = [dataTicker EXCEPT ![p] = "running"]
    /\ dataLoop' = [dataLoop EXCEPT ![p] = "waiting"]
    /\ starter' = [starter EXCEPT ![p] = "startRefresh"]
    /\ UNCHANGED <<outVars, structVars, refreshTicker, refreshLoop, tries, worker, synced>>

StartRefresh(p) ==
    /\ starter[p] = "startRefresh"
    /\ refreshTicker' = [refreshTicker EXCEPT ![p] = "running"]
    /\ refreshLoop' = [refreshLoop EXCEPT ![p] = "waiting"]
    /\ starter' = [starter EXCEPT ![p] = "done"]
    /\ UNCHANGED <<outVars, structVars, dataTicker, dataLoop, tries, worker, synced>>

(* checkForGitUpdates and checkForSecretUpdates: every error in them is    *)
(* logged, none ends the loop.                                             *)
DataTick(p) ==
    /\ dataLoop[p] = "waiting" /\ dataTicker[p] = "running"
    /\ dataLoop' = [dataLoop EXCEPT ![p] = "polling"]
    /\ UNCHANGED <<outVars, structVars, tickerVars, starter, refreshLoop, tries, worker, synced>>

FaultExitOnError(p) ==
    /\ dataLoop[p] = "polling"
    /\ \E next \in {"waiting", "exited"} : dataLoop' = [dataLoop EXCEPT ![p] = next]
    /\ UNCHANGED <<outVars, structVars, tickerVars, starter, refreshLoop, tries, worker, synced>>

DataPolled(p) ==
    /\ dataLoop[p] = "polling"
    /\ dataLoop' = [dataLoop EXCEPT ![p] = "waiting"]
    /\ UNCHANGED <<outVars, structVars, tickerVars, starter, refreshLoop, tries, worker, synced>>

RefreshTick(p) ==
    /\ refreshLoop[p] = "waiting" /\ refreshTicker[p] = "running"
    /\ refreshLoop' = [refreshLoop EXCEPT ![p] = "handshake"]
    /\ UNCHANGED <<outVars, structVars, tickerVars, starter, dataLoop, tries, worker, synced>>

RefreshAttempt(p) ==
    /\ refreshLoop[p] = "handshake"
    /\ Attempt(refreshLoop, p, "refresh", "waiting", "exited")
    /\ UNCHANGED <<outVars, structVars, tickerVars, starter, dataLoop, worker, synced>>

-----------------------------------------------------------------------------

Environment ==
    \/ \E g \in GlideinSets : \/ \E u \in Urls : CreateGlideinSet(g, u) \/ ChangeUrl(g, u)
                              \/ DeleteGlideinSet(g)
    \/ GmosToggle
    \/ Restart

StopStep == StopDataTicker \/ StopRefreshTicker \/ DecideToSend
Receive  == DataLoopReceives \/ RefreshLoopReceives

Busy ==
    \/ AddToNewPoller \/ AddIsNoop \/ AddToExistingPoller \/ RemoveWatcher
    \/ StopStep \/ FinishAdd \/ FinishRemove

Worker == (\E g \in GlideinSets : Reconcile(g)) \/ Busy \/ Receive

Starter(p)  == StarterAttempt(p) \/ StartData(p) \/ StartRefresh(p)
DataStep(p) == DataTick(p) \/ DataPolled(p)
RefreshStep(p) == RefreshTick(p) \/ RefreshAttempt(p)

Next == \/ Environment
        \/ Worker
        \/ \E p \in Pollers : Starter(p) \/ DataStep(p) \/ RefreshStep(p)

Spec == Init /\ [][Next]_vars

(* Goroutines that can run do run, network calls return, tickers fire.  A  *)
(* blocked sender wins a select sooner or later, though the ticker of the  *)
(* same loop keeps firing: Go picks among ready cases at random.           *)
Fairness ==
    /\ WF_vars(Busy) /\ SF_vars(Receive)
    /\ \A p \in Pollers : WF_vars(Starter(p)) /\ WF_vars(DataStep(p)) /\ WF_vars(RefreshStep(p))

FairSpec == Spec /\ Fairness

-----------------------------------------------------------------------------
(* Safety *)

(* The static map holds exactly the pollers that have someone to poll for: *)
(* removeGlideinManagerWatcher drops a poller with its last handler, never *)
(* earlier and never later, so a poller outside the map updates nobody.    *)
RegisteredIffWatched ==
    \A p \in Pollers : Registered(p) <=> handlers[p] # {}

(* Outside its own reconcile, a GlideinSet whose last reconcile saw URL u  *)
(* is polled from u: neither another GlideinSet's removal nor the removal  *)
(* on its own move to a new URL may take that handler away.                *)
WatchedWhereLastReconciled ==
    \A g \in GlideinSets :
        synced[g] # None /\ worker.gs # g
          => \E p \in Holders(g) : url[p] = synced[g]

(* When stopPolling blocks on doneChan the data loop of that poller is     *)
(* alive to receive: the only reconcile worker of the operator cannot be   *)
(* stuck on a goroutine that has returned.                                 *)
StopHasReceiver ==
    worker.pc = "sending" => dataLoop[worker.stopping] \in {"waiting", "polling"}

(* The pollers implement WatchList: whatever the goroutines are doing, and *)
(* though several GlideinSets share a poller that comes and goes with its  *)
(* last handler, a step changes one entry of the list, or a restart all.   *)
watched ==
    [g \in GlideinSets |->
        {u \in Urls : registry[u] # None /\ g \in handlers[registry[u]]}]

List == INSTANCE WatchList

ImplementsWatchList == List!Spec

(* A GlideinSet that is gone has no handler left in any poller (the test   *)
(* "Should remove clients when deleted").                                  *)
RemovedIsUnwatched ==
    \A g \in GlideinSets : spec[g] = None => Holders(g) = {}

(* "Stop polling the upstream Git repo once all watchers have been         *)
(* removed": once stopPolling of a poller has returned, its data loop and  *)
(* its ticker do not both live on.                                         *)
RemovedPollerStops ==
    \A p \in Pollers :
        Retired(p) /\ worker.stopping # p
          => ~(dataTicker[p] = "running" /\ dataLoop[p] \in {"waiting", "polling"})

-----------------------------------------------------------------------------
(* Liveness *)

(* stopPolling returns, and with it the reconcile that runs the finalizer. *)
StopReturns == worker.pc = "sending" ~> worker.pc # "sending"

(* A registered poller that has started polls again and again until its    *)
(* last GlideinSet is removed: no error of a poll, no failed refresh of the *)
(* handshake and no removal of one of several GlideinSets ends its data    *)
(* loop or its ticker.                                                     *)
PollsWhileRegistered ==
    \A p \in Pollers :
        Registered(p) /\ dataTicker[p] # "nil" ~> dataLoop[p] = "polling" \/ ~Registered(p)

(* "just keep trying it over and over again until it works": a poller that *)
(* has a live GlideinSet to poll for, and whose Glidein Manager answers     *)
(* from some time on, does start to poll.                                  *)
HandshakeUntilItWorks ==
    \A p \in Pollers :
        <>[](gmosUp /\ Registered(p) /\ \E g \in handlers[p] : spec[g] = url[p])
            => <>(dataTicker[p] # "nil")

=============================================================================
