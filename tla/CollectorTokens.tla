--------------------------- MODULE CollectorTokens ---------------------------
(***************************************************************************)
(* The credentials of one GlideinSet (internal/controller/                 *)
(* collector_client.go, collector_schemas.go, the Secret updaters of       *)
(* pilotset_schemas.go): its two token Secrets and their three writers.    *)
(* The reconcile worker creates them with a placeholder, the goroutine of  *)
(* a CollectorClient puts collector tokens into both, and the data loop of *)
(* the Glidein Manager poller puts the upstream secret into one of them.   *)
(*                                                                         *)
(* The writers go through the cache and are refused if their copy is not   *)
(* the stored version.  Every stored write makes all copies out of date,   *)
(* so instead of resource versions the module keeps the set of holders     *)
(* whose copy is up to date.                                               *)
(***************************************************************************)
EXTENDS Naturals

CONSTANTS
    Clients,     \* CollectorClient structs; one whose loop has ended is reused
    DstName,     \* key of the upstream secret in the Secret: the base name of its Dst
    MaxVersion,  \* versions of the upstream secret (first 63 characters of its hash)
    None

ASSUME BoundsAssumption == MaxVersion \in Nat
ASSUME ClientAssumption == None \notin Clients \cup {"cache", "poller"}
                           /\ Clients \cap {"cache", "poller"} = {}

(* checkForSecretUpdates skips a manifest without a Dst.  The base name may *)
(* be that of the collector's token, but not that of the placeholder.      *)
ASSUME DstAssumption == DstName # "placeholder"

VARIABLES
    phase,      \* the GlideinSet: "live", "deleting" or "gone"
    secret,     \* the Secrets at the API server
    orphaned,   \* those of them whose owner, an earlier GlideinSet, is gone
    cached,     \* the Secrets in the informer cache
    upToDate,   \* for each holder of copies, the Secrets it has in the stored version
    podRunning, \* is there exactly one running collector pod?
    upstream,   \* version of the secret at the Glidein Manager
    client,     \* collectorClients entry of the GlideinSet
    ticking,    \* clients whose tokenUpdateTicker runs
    loop,       \* the goroutine of each client: pc and its copy of a Secret
    watched,    \* does the poller have an update handler of the GlideinSet?
    poll,       \* checkForSecretUpdates of the poller: pc, copy, fetched version
    worker      \* the reconcile worker

apiVars    == <<secret, cached, upToDate>>
outVars    == <<phase, orphaned, podRunning, upstream>>
clientVars == <<client, ticking, loop>>
vars       == <<apiVars, outVars, clientVars, watched, poll, worker>>

Secrets == {"collectorTokens", "tokens"}
Holders == Clients \cup {"cache", "poller"}

(* Data keys: EMPTY_MAP_KEY, the collector's token, the one that            *)
(* shouldUpdateTokens looks for, and the upstream secret's.                *)
Keys    == {"placeholder", "collector.tkn", "cluster.tkn", DstName}
Version == 0 .. MaxVersion  \* of the secret-version label; 0: no label
SecretObject == [keys : SUBSET Keys, version : Version]

LoopState == {"none", "waiting", "check", "exec", "get", "put"}

TypeOK ==
    /\ phase \in {"live", "deleting", "gone"}
    /\ {secret, cached} \subseteq [Secrets -> SecretObject \cup {None}]
    /\ upToDate \in [Holders -> SUBSET Secrets] /\ orphaned \subseteq Secrets
    /\ podRunning \in BOOLEAN /\ upstream \in Version
    /\ client \in Clients \cup {None} /\ ticking \subseteq Clients
    /\ loop \in [Clients -> [pc : LoopState, sec : Secrets, copy : SecretObject \cup {None}]]
    /\ watched \in BOOLEAN
    /\ poll \in [pc : {"idle", "get", "put"}, copy : SecretObject \cup {None}, version : Version]
    /\ worker \in {"idle", "collectorTokens", "tokens", "add", "stop", "send", "unregister"}
    /\ worker \in {"send", "unregister"} => client # None

NoLoop   == [pc |-> "none", sec |-> "collectorTokens", copy |-> None]
Waiting  == [NoLoop EXCEPT !.pc = "waiting"]
IdlePoll == [pc |-> "idle", copy |-> None, version |-> 0]

Init ==
    /\ phase = "gone" /\ orphaned = {} /\ podRunning \in BOOLEAN /\ upstream = 0
    /\ secret = [s \in Secrets |-> None] /\ cached = secret
    /\ upToDate = [h \in Holders |-> IF h = "cache" THEN Secrets ELSE {}]
    /\ client = None /\ ticking = {} /\ loop = [c \in Clients |-> NoLoop]
    /\ watched = FALSE /\ poll = IdlePoll
    /\ worker = "idle"

-----------------------------------------------------------------------------
(* The API server and the cache. *)

Change(s, value) ==
    /\ secret' = [secret EXCEPT ![s] = value]
    /\ upToDate' = [h \in Holders |-> upToDate[h] \ {s}]
    /\ UNCHANGED cached

(* A copy read from the cache is as good as the cache. *)
Copied(h, s) ==
    upToDate' = [upToDate EXCEPT ![h] = (@ \ {s}) \cup (upToDate["cache"] \cap {s})]

FaultAcceptAny(h, s, value) ==
    IF secret[s] # None THEN Change(s, value) ELSE UNCHANGED apiVars

(* Update: refused unless the holder's copy is the stored version. *)
Update(h, s, value) ==
    IF secret[s] # None /\ s \in upToDate[h] THEN Change(s, value) ELSE UNCHANGED apiVars

Deliver(s) ==
    /\ s \notin upToDate["cache"]
    /\ cached' = [cached EXCEPT ![s] = secret[s]]
    /\ upToDate' = [upToDate EXCEPT !["cache"] = @ \cup {s}]
    /\ UNCHANGED <<secret, outVars, clientVars, watched, poll, worker>>

-----------------------------------------------------------------------------
(* Around the operator. *)

CreateGlideinSet ==
    /\ phase = "gone" /\ phase' = "live"
    /\ UNCHANGED <<apiVars, orphaned, podRunning, upstream, clientVars, watched, poll, worker>>

DeleteGlideinSet ==
    /\ phase = "live" /\ phase' = "deleting"
    /\ UNCHANGED <<apiVars, orphaned, podRunning, upstream, clientVars, watched, poll, worker>>

(* The object goes away, and leaves its Secrets to the garbage collector.  *)
Leave == phase' = "gone" /\ orphaned' = {s \in Secrets : secret[s] # None}

(* They may go when a GlideinSet of the same name is there already, which  *)
(* has found them and has made none of its own.                            *)
CollectGarbage(s) ==
    /\ s \in orphaned /\ orphaned' = orphaned \ {s}
    /\ Change(s, None)
    /\ UNCHANGED <<phase, podRunning, upstream, clientVars, watched, poll, worker>>

PodStartsOrStops ==
    /\ podRunning' = ~podRunning
    /\ UNCHANGED <<apiVars, phase, orphaned, upstream, clientVars, watched, poll, worker>>

RotateSecret ==
    /\ upstream < MaxVersion /\ upstream' = upstream + 1
    /\ UNCHANGED <<apiVars, phase, orphaned, podRunning, clientVars, watched, poll, worker>>

(* The memory of the operator is lost; the new process fills its cache and *)
(* then reconciles what there is.                                          *)
Restart ==
    /\ cached' = secret
    /\ upToDate' = [h \in Holders |-> IF h = "cache" THEN Secrets ELSE {}]
    /\ client' = None /\ ticking' = {} /\ loop' = [c \in Clients |-> NoLoop]
    /\ watched' = FALSE /\ poll' = IdlePoll
    /\ worker' = "idle"
    /\ UNCHANGED <<secret, phase, orphaned, podRunning, upstream>>

-----------------------------------------------------------------------------
(* The reconcile worker. *)

Reconcile ==
    /\ worker = "idle"
    /\ \/ phase = "live" /\ worker' = "collectorTokens"
       \/ phase = "deleting" /\ worker' = "stop"
    /\ UNCHANGED <<apiVars, outVars, clientVars, watched, poll>>

FaultEmptyData == [keys |-> {}, version |-> 0]

EmptySecretCreator == [keys |-> {"placeholder"}, version |-> 0]

(* createResourceIfNotExists, by the cache; AlreadyExists ends the reconcile. *)
CreateSecret(s) ==
    /\ worker = s
    /\ worker' = IF cached[s] = None /\ secret[s] # None THEN "idle"
                 ELSE IF s = "collectorTokens" THEN "tokens" ELSE "add"
    /\ IF cached[s] = None /\ secret[s] = None
       THEN Change(s, EmptySecretCreator) ELSE UNCHANGED apiVars
    /\ UNCHANGED <<outVars, clientVars, watched, poll>>

(* addGlideinManagerWatcher, and addCollectorClient, which starts the loop *)
(* of a new client before it publishes the client.                         *)
AddCollectorClient ==
    /\ worker = "add" /\ worker' = "idle"
    /\ watched' = TRUE
    /\ \/ client # None /\ UNCHANGED clientVars
       \/ /\ client = None
          /\ \E c \in Clients : /\ loop[c].pc = "none"
                                /\ loop' = [loop EXCEPT ![c] = Waiting]
                                /\ ticking' = ticking \cup {c}
                                /\ client' = c
    /\ UNCHANGED <<apiVars, outVars, poll>>

FaultDropRunning ==
    /\ worker = "stop"
    /\ watched' = FALSE
    /\ ticking' = ticking \ {client}
    /\ worker' = "idle" /\ client' = None
    /\ Leave
    /\ UNCHANGED <<apiVars, podRunning, upstream, loop, poll>>

FaultStopAlways ==
    /\ worker = "stop"
    /\ watched' = FALSE
    /\ ticking' = ticking \ {client}
    /\ worker' = "send" /\ UNCHANGED <<phase, orphaned>>
    /\ UNCHANGED <<apiVars, podRunning, upstream, client, loop, poll>>

(* The finalizer; without a client there is nothing to stop. *)
RemoveCollectorClient ==
    /\ worker = "stop"
    /\ watched' = FALSE
    /\ ticking' = ticking \ {client}
    /\ worker' = IF client = None THEN "idle" ELSE "send"
    /\ IF client = None THEN Leave ELSE UNCHANGED <<phase, orphaned>>
    /\ UNCHANGED <<apiVars, podRunning, upstream, client, loop, poll>>

(* doneChan is unbuffered: the loop takes the value between two ticks. *)
LoopReceives ==
    /\ worker = "send" /\ loop[client].pc = "waiting"
    /\ loop' = [loop EXCEPT ![client] = NoLoop]
    /\ worker' = "unregister"
    /\ UNCHANGED <<apiVars, outVars, client, ticking, watched, poll>>

(* The client leaves the map, the finalizer the object. *)
Unregister ==
    /\ worker = "unregister"
    /\ client' = None /\ Leave /\ worker' = "idle"
    /\ UNCHANGED <<apiVars, podRunning, upstream, ticking, loop, watched, poll>>

-----------------------------------------------------------------------------
(* The loop of a collector client (handleTokenUpdates). *)

looping == <<outVars, client, ticking, watched, poll, worker>>

(* shouldUpdateTokens looks for cluster.tkn in two Secrets that exist. *)
ShouldUpdateTokens ==
    /\ \A s \in Secrets : cached[s] # None
    /\ \E s \in Secrets : "cluster.tkn" \notin cached[s].keys

Tick(c) ==
    /\ loop[c].pc = "waiting" /\ c \in ticking
    /\ loop' = [loop EXCEPT ![c].pc = "check"]
    /\ UNCHANGED <<apiVars, looping>>

FaultReturnOnError(c) ==
    /\ loop[c].pc = "check"
    /\ loop' = [loop EXCEPT ![c] = IF ShouldUpdateTokens THEN [@ EXCEPT !.pc = "exec"]
                                   ELSE NoLoop]
    /\ UNCHANGED <<apiVars, looping>>

(* One Secret missing is an error, two are not; the loop goes on after both. *)
CheckTokens(c) ==
    /\ loop[c].pc = "check"
    /\ loop' = [loop EXCEPT ![c] = IF ShouldUpdateTokens THEN [@ EXCEPT !.pc = "exec"]
                                   ELSE Waiting]
    /\ UNCHANGED <<apiVars, looping>>

(* execInCollector, twice; then applyTokensUpdate begins with one Secret. *)
CreateTokens(c) ==
    /\ loop[c].pc = "exec"
    /\ loop' = [loop EXCEPT ![c] = IF podRunning THEN [@ EXCEPT !.pc = "get"] ELSE Waiting]
    /\ UNCHANGED <<apiVars, looping>>

(* The second Secret is attempted whatever became of the first. *)
Attempted(c) ==
    IF loop[c].sec = "collectorTokens"
    THEN [pc |-> "get", sec |-> "tokens", copy |-> None] ELSE Waiting

GetSecret(c) ==
    LET s == loop[c].sec
    IN  /\ loop[c].pc = "get"
        /\ loop' = [loop EXCEPT ![c] = IF cached[s] = None THEN Attempted(c)
                                       ELSE [@ EXCEPT !.pc = "put", !.copy = cached[s]]]
        /\ Copied(c, s)
        /\ UNCHANGED <<secret, cached, looping>>

(* CollectorTokenSecretUpdater: StringData is merged into Data. *)
CollectorTokenSecretUpdater(copy) ==
    [copy EXCEPT !.keys = (@ \ {"placeholder"}) \cup {"collector.tkn"}]

PutTokens(c) ==
    LET s == loop[c].sec
    IN  /\ loop[c].pc = "put"
        /\ Update(c, s, CollectorTokenSecretUpdater(loop[c].copy))
        /\ loop' = [loop EXCEPT ![c] = Attempted(c)]
        /\ UNCHANGED looping

-----------------------------------------------------------------------------
(* checkForSecretUpdates of the poller, which writes one of the Secrets. *)

CheckSecret ==
    /\ poll.pc = "idle" /\ watched /\ upstream # 0
    /\ cached["tokens"] # None /\ cached["tokens"].version # upstream
    /\ poll' = [poll EXCEPT !.pc = "get", !.version = upstream]
    /\ UNCHANGED <<apiVars, outVars, clientVars, watched, worker>>

GetForUpdate ==
    /\ poll.pc = "get"
    /\ poll' = IF cached["tokens"] = None THEN IdlePoll
               ELSE [poll EXCEPT !.pc = "put", !.copy = cached["tokens"]]
    /\ Copied("poller", "tokens")
    /\ UNCHANGED <<secret, cached, outVars, clientVars, watched, worker>>

TokenSecretValueUpdater(copy, version) ==
    [keys |-> (copy.keys \cup {DstName}) \ {"placeholder"}, version |-> version]

PutUpstream ==
    /\ poll.pc = "put"
    /\ Update("poller", "tokens", TokenSecretValueUpdater(poll.copy, poll.version))
    /\ poll' = IdlePoll
    /\ UNCHANGED <<outVars, clientVars, watched, worker>>

-----------------------------------------------------------------------------

Environment ==
    \/ CreateGlideinSet \/ DeleteGlideinSet \/ PodStartsOrStops \/ RotateSecret
    \/ \E s \in Secrets : CollectGarbage(s)
    \/ Restart

(* What a reconcile does once it has begun. *)
Busy == \/ \E s \in Secrets : CreateSecret(s)
        \/ AddCollectorClient \/ RemoveCollectorClient \/ Unregister

LoopStep(c) == Tick(c) \/ CheckTokens(c) \/ CreateTokens(c) \/ GetSecret(c) \/ PutTokens(c)

Poll == CheckSecret \/ GetForUpdate \/ PutUpstream

Next == \/ Environment
        \/ \E s \in Secrets : Deliver(s)
        \/ Reconcile \/ Busy \/ LoopReceives
        \/ \E c \in Clients : LoopStep(c)
        \/ Poll

Spec == Init /\ [][Next]_vars

(* The cache catches up, goroutines run, a blocked send wins its select.   *)
(* That the work queue leads to another reconcile is in Reconcile's        *)
(* fairness; pods and users owe nothing.                                   *)
Fairness ==
    /\ \A s \in Secrets : WF_vars(Deliver(s))
    /\ WF_vars(Reconcile) /\ WF_vars(Busy) /\ SF_vars(LoopReceives)
    /\ \A c \in Clients : WF_vars(LoopStep(c))
    /\ WF_vars(Poll)

FairSpec == Spec /\ Fairness

-----------------------------------------------------------------------------
(* Safety *)

(* A Secret has data at all times, in the cache too: the updaters write    *)
(* into the Data map that they read, which is nil for a Secret without     *)
(* data (hence the placeholder, whose removal must not be the last).       *)
DataNeverEmpty ==
    \A s \in Secrets :
        /\ secret[s] # None => secret[s].keys # {}
        /\ cached[s] # None => cached[s].keys # {}

(* The loop of a client runs only while the client is in collectorClients, *)
(* so a GlideinSet never has two loops that write its Secrets, and none    *)
(* once it is gone.                                                        *)
LoopOnlyWhileRegistered ==
    \A c \in Clients : loop[c].pc # "none" => client = c /\ phase # "gone"

(* Three writers, no lost update: as long as a Secret exists, no write     *)
(* takes away a credential or brings back the placeholder or an older      *)
(* version of the upstream secret.                                         *)
KeepsCredentials(s) ==
    secret[s] # None /\ secret'[s] # None =>
        /\ secret[s].keys \ {"placeholder"} \subseteq secret'[s].keys
        /\ "placeholder" \in secret'[s].keys => "placeholder" \in secret[s].keys
        /\ secret'[s].version >= secret[s].version

NoLostUpdate == [][\A s \in Secrets : KeepsCredentials(s)]_vars

-----------------------------------------------------------------------------
(* Liveness *)

(* The finalizer gets past the loop it has to stop. *)
StopReturns == worker = "send" ~> worker = "idle"

(* If GlideinSet, collector pod and operator stay, both Secrets get their  *)
(* collector tokens, in spite of writes refused because the poller wrote   *)
(* first, and of one Secret being written and the other not.               *)
CollectorTokensArrive ==
    <>[](phase = "live" /\ podRunning) /\ <>[][~Restart]_vars =>
        <>[](\A s \in Secrets : secret[s] # None /\ "collector.tkn" \in secret[s].keys)

(* "For now just check whether secret is populated": once the loop sees    *)
(* both Secrets with their collector token, it generates no others.        *)
PopulatedIsEnough ==
    [][\A c \in Clients :
          loop[c].pc = "check" /\ loop'[c].pc = "exec"
              => \E s \in Secrets : "collector.tkn" \notin cached[s].keys]_vars

=============================================================================
