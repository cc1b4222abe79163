------------------------ MODULE GlideinSetController ------------------------
(***************************************************************************)
(* The life of one GlideinSet custom resource                              *)
(* (internal/controller/glideinset_controller.go, api_util.go): the        *)
(* reconcile worker, the data loop of its Glidein Manager poller, the API  *)
(* server with its resource versions, the informer cache that lags behind  *)
(* it, and the working copy of the Git repository on the operator's disk.  *)
(*                                                                         *)
(* Every read goes to the cache, every write carries the resource version  *)
(* that was read and is refused if the object has changed since.  Worker   *)
(* and data loop hold their own copies of the object across several calls. *)
(* The token Secrets' contents and the handshake of the poller are in      *)
(* other modules; here a registered watcher may poll.                      *)
(***************************************************************************)
EXTENDS Naturals, Sequences

CONSTANTS
    Secrets,        \* its token Secrets: all, or "tokens" alone in small instances
    MaxLives,       \* times that an object of this name is created
    MaxEdits,       \* edits of one object's spec by the collection controller
    MaxCommit,      \* commits of the Git repository, numbered from 1
    Broken,         \* commits whose manifest has no entry for the namespace
    MaxFaults,      \* failing API calls, failing syncs and crashes
    ClonePersists,  \* is the working copy (/tmp) kept when the operator restarts?
    ResyncOn,       \* does the informer's periodic resync happen?
    None

ASSUME BoundsAssumption ==
    /\ {MaxLives, MaxEdits, MaxCommit, MaxFaults} \subseteq Nat
    /\ Broken \subseteq 1 .. MaxCommit
    /\ {ClonePersists, ResyncOn} \subseteq BOOLEAN
ASSUME SecretsAssumption == "tokens" \in Secrets /\ Secrets \subseteq {"collectorTokens", "tokens"}
ASSUME NoneIsNoChild == None \notin [uid : Nat, spec : Nat, commit : Nat, newest : Nat]

VARIABLES
    cr,        \* the GlideinSet at the API server
    cache,     \* the GlideinSet as the informer cache has it
    watch,     \* versions of it on their way to the cache, oldest first
    children,  \* its Secrets and its Deployment at the API server
    seen,      \* the children that the cache has
    queued,    \* does the work queue hold the object's key?
    worker,    \* the reconcile worker: pc, its copy of the object, commit of a file it read
    watcher,   \* is an update handler of the object in a poller?
    collector, \* does collectorClients have a client for the object?
    process,   \* number of the operator process, which holds these two
    poll,      \* the data loop: pc, its copy of the object, the synced commit
    clone,     \* commit of the working copy; 0: not cloned
    head,      \* commit of the upstream repository; 0: empty
    faults     \* faults so far

apiVars  == <<cr, cache, watch>>
kidVars  == <<children, seen>>
memVars  == <<watcher, collector, process>>
gitVars  == <<clone, head>>
vars     == <<apiVars, kidVars, queued, worker, memVars, poll, gitVars, faults>>

(* createResourcesForGlideinSet makes the first two, in this order, and    *)
(* updateResourcesForGlideinSet the others.                                *)
Child      == Secrets \cup {"deployment", "data"}
FirstChild == IF "collectorTokens" \in Secrets THEN "collectorTokens" ELSE "tokens"

Commit == 0 .. MaxCommit

Object == [present : BOOLEAN, uid : 0 .. MaxLives, rv : Nat, finalizer : BOOLEAN,
           deleting : BOOLEAN, spec : 0 .. MaxEdits, commit : Commit]
ChildObject == [uid : 1 .. MaxLives, spec : 0 .. MaxEdits, commit : Commit, newest : Commit]
    \* of the data Secret: commits of its oldest and of its newest file

WorkerState == {"idle", "addFinalizer", "finalize", "refetch", "removeFinalizer",
                "read", "watch", "collector"} \cup Child
PollState   == {"idle", "check", "apply", "put"}

TypeOK ==
    /\ {cr, cache} \subseteq Object
    /\ watch \in Seq(Object)
    /\ children \in [Child -> ChildObject \cup {None}]
    /\ seen \subseteq Child
    /\ {queued, watcher, collector} \subseteq BOOLEAN
    /\ process \in Nat
    /\ worker \in [pc : WorkerState, obj : Object, read : Commit]
    /\ worker.pc # "idle" => worker.obj.present
    /\ poll \in [pc : PollState, obj : Object, commit : Commit]
    /\ clone \in Commit /\ head \in Commit /\ clone <= head
    /\ faults \in 0 .. MaxFaults

NoObject == [present |-> FALSE, uid |-> 0, rv |-> 0, finalizer |-> FALSE,
             deleting |-> FALSE, spec |-> 0, commit |-> 0]

IdleWorker == [pc |-> "idle", obj |-> NoObject, read |-> 0]
IdlePoll   == [pc |-> "idle", obj |-> NoObject, commit |-> 0]

Existing == {c \in Child : children[c] # None}

Init ==
    /\ cr = NoObject /\ cache = NoObject /\ watch = << >>
    /\ children = [c \in Child |-> None] /\ seen = {}
    /\ queued = FALSE
    /\ worker = IdleWorker
    /\ watcher = FALSE /\ collector = FALSE /\ process = 0
    /\ poll = IdlePoll
    /\ clone = 0 /\ head = 0
    /\ faults = 0

-----------------------------------------------------------------------------
(* The API server. *)

(* A write that is stored gets the next resource version, and the watch    *)
(* tells the informer.                                                     *)
Store(obj) ==
    LET new == [obj EXCEPT !.rv = cr.rv + 1]
    IN  /\ cr' = new
        /\ watch' = Append(watch, new)
        /\ UNCHANGED cache

Gone == [NoObject EXCEPT !.uid = cr.uid]

(* Update with a copy whose resource version is the current one.  Without  *)
(* a change nothing is stored; an object that is being deleted goes away   *)
(* with its finalizer.                                                     *)
Current(copy) == cr.present /\ copy.rv = cr.rv

Put(obj) ==
    IF obj = cr THEN UNCHANGED apiVars
    ELSE Store(IF obj.deleting /\ ~obj.finalizer THEN Gone ELSE obj)

-----------------------------------------------------------------------------
(* Around the operator: users and the collection controller, the garbage   *)
(* collector, the Git repository, the watch.                               *)

outside == <<worker, memVars, poll, faults>>

Create ==
    /\ ~cr.present /\ cr.uid < MaxLives
    /\ Store([NoObject EXCEPT !.present = TRUE, !.uid = cr.uid + 1])
    /\ UNCHANGED <<kidVars, queued, gitVars, outside>>

EditSpec ==
    /\ cr.present /\ ~cr.deleting /\ cr.spec < MaxEdits
    /\ Store([cr EXCEPT !.spec = @ + 1])
    /\ UNCHANGED <<kidVars, queued, gitVars, outside>>

Delete ==
    /\ cr.present /\ ~cr.deleting
    /\ Store(IF cr.finalizer THEN [cr EXCEPT !.deleting = TRUE] ELSE Gone)
    /\ UNCHANGED <<kidVars, queued, gitVars, outside>>

(* A child goes some time after the object that its owner reference names. *)
CollectGarbage(c) ==
    /\ children[c] # None
    /\ ~(cr.present /\ children[c].uid = cr.uid)
    /\ children' = [children EXCEPT ![c] = None]
    /\ UNCHANGED <<apiVars, seen, queued, gitVars, outside>>

Push ==
    /\ head < MaxCommit
    /\ head' = head + 1
    /\ UNCHANGED <<apiVars, kidVars, queued, clone, outside>>

(* An event from the watch: the cache takes it and the key is queued. *)
Deliver ==
    /\ watch # << >>
    /\ cache' = Head(watch)
    /\ watch' = Tail(watch)
    /\ queued' = TRUE
    /\ UNCHANGED <<cr, kidVars, gitVars, outside>>

(* The caches of Secrets and Deployments catch up; nothing is queued, for  *)
(* SetupWithManager watches GlideinSets only.                              *)
DeliverChildren ==
    /\ seen # Existing
    /\ seen' = Existing
    /\ UNCHANGED <<apiVars, children, queued, gitVars, outside>>

Resync ==
    /\ ResyncOn /\ cache.present /\ ~queued
    /\ queued' = TRUE
    /\ UNCHANGED <<apiVars, kidVars, gitVars, outside>>

-----------------------------------------------------------------------------
(* The reconcile worker. *)

FaultIgnoreNotFound ==
    /\ worker.pc = "idle" /\ queued
    /\ queued' = FALSE
    /\ worker' = [pc  |-> IF ~cache.finalizer THEN "addFinalizer"
                          ELSE IF cache.deleting THEN "finalize"
                          ELSE FirstChild,
                  obj |-> cache, read |-> 0]
    /\ UNCHANGED <<apiVars, kidVars, memVars, poll, gitVars, faults>>

FaultFinalizeAlways ==
    /\ worker.pc = "idle" /\ queued
    /\ queued' = FALSE
    /\ worker' = [pc  |-> IF ~cache.present THEN "idle"
                          ELSE IF ~cache.finalizer THEN "addFinalizer"
                          ELSE IF cache.deleting THEN "refetch"
                          ELSE FirstChild,
                  obj |-> cache, read |-> 0]
    /\ IF cache.present THEN watcher' = FALSE /\ collector' = FALSE
                        ELSE UNCHANGED <<watcher, collector>>
    /\ UNCHANGED <<apiVars, kidVars, process, poll, gitVars, faults>>

FaultIgnoreDeletion ==
    /\ worker.pc = "idle" /\ queued
    /\ queued' = FALSE
    /\ worker' = [pc  |-> IF ~cache.present THEN "idle"
                          ELSE IF ~cache.finalizer THEN "addFinalizer"
                          ELSE FirstChild,
                  obj |-> cache, read |-> 0]
    /\ UNCHANGED <<apiVars, kidVars, memVars, poll, gitVars, faults>>

(* The first Get decides which way the reconcile goes. *)
Reconcile ==
    /\ worker.pc = "idle" /\ queued
    /\ queued' = FALSE
    /\ worker' = [pc  |-> IF ~cache.present THEN "idle"
                          ELSE IF ~cache.finalizer THEN "addFinalizer"
                          ELSE IF cache.deleting THEN "finalize"
                          ELSE FirstChild,
                  obj |-> cache, read |-> 0]
    /\ UNCHANGED <<apiVars, kidVars, memVars, poll, gitVars, faults>>

GoOn(pc, obj) == worker' = [pc |-> pc, obj |-> obj, read |-> 0] /\ UNCHANGED queued

(* A reconcile that returns an error is retried. *)
FaultNoRetry == worker' = IdleWorker /\ UNCHANGED queued

Fail == worker' = IdleWorker /\ queued' = TRUE

(* An API call of the reconcile fails, or its answer is lost (then the     *)
(* step before this one was the call).                                     *)
WorkerError ==
    /\ worker.pc # "idle" /\ faults < MaxFaults
    /\ faults' = faults + 1
    /\ Fail
    /\ UNCHANGED <<apiVars, kidVars, memVars, poll, gitVars>>

FaultIgnoreRefusal ==
    LET obj == [worker.obj EXCEPT !.finalizer = TRUE]
    IN  /\ worker.pc = "addFinalizer"
        /\ IF Current(worker.obj) THEN Put(obj) ELSE UNCHANGED apiVars
        /\ GoOn(FirstChild, obj)
        /\ UNCHANGED <<kidVars, memVars, poll, gitVars, faults>>

(* Update returns the stored object, with its new resource version. *)
AddFinalizer ==
    LET obj == [worker.obj EXCEPT !.finalizer = TRUE]
    IN  /\ worker.pc = "addFinalizer"
        /\ \/ Current(worker.obj) /\ Put(obj) /\ GoOn(FirstChild, cr')
           \/ ~Current(worker.obj) /\ Fail /\ UNCHANGED apiVars
        /\ UNCHANGED <<kidVars, memVars, poll, gitVars, faults>>

FaultFinalizeNothing ==
    /\ worker.pc = "finalize"
    /\ GoOn("refetch", worker.obj)
    /\ UNCHANGED <<apiVars, kidVars, memVars, poll, gitVars, faults>>

(* removeGlideinManagerWatcher and removeCollectorClient *)
FinalizeGlideinSet ==
    /\ worker.pc = "finalize"
    /\ watcher' = FALSE /\ collector' = FALSE
    /\ GoOn("refetch", worker.obj)
    /\ UNCHANGED <<apiVars, kidVars, process, poll, gitVars, faults>>

Refetch ==
    /\ worker.pc = "refetch"
    /\ IF cache.present THEN GoOn("removeFinalizer", cache) ELSE Fail
    /\ UNCHANGED <<apiVars, kidVars, memVars, poll, gitVars, faults>>

RemoveFinalizer ==
    /\ worker.pc = "removeFinalizer"
    /\ \/ /\ Current(worker.obj)
          /\ Put([worker.obj EXCEPT !.finalizer = FALSE])
          /\ GoOn("idle", NoObject)
       \/ ~Current(worker.obj) /\ Fail /\ UNCHANGED apiVars
    /\ UNCHANGED <<kidVars, memVars, poll, gitVars, faults>>

After(c) == CASE c = "collectorTokens" -> "tokens"
              [] c = "tokens"          -> "deployment"
              [] c = "deployment"      -> "read"
              [] c = "data"            -> "watch"

(* A child is made with an owner reference to the object (its uid).        *)
Owned(spec, oldest, newest) ==
    [uid |-> worker.obj.uid, spec |-> spec, commit |-> oldest, newest |-> newest]

KeepOwner(c, value) == [value EXCEPT !.uid = children[c].uid]

(* createResourceIfNotExists: create what the cache does not have.  It may *)
(* exist all the same (AlreadyExists), and what the cache has may be gone. *)
CreateIfNotExists(c, value) ==
    \/ c \in seen /\ UNCHANGED children /\ GoOn(After(c), worker.obj)
    \/ /\ c \notin seen /\ c \notin Existing
       /\ children' = [children EXCEPT ![c] = value]
       /\ GoOn(After(c), worker.obj)
    \/ c \notin seen /\ c \in Existing /\ UNCHANGED children /\ Fail

FaultUpdateOnly(c, value) ==
    /\ children' = IF c \in seen /\ c \in Existing
                   THEN [children EXCEPT ![c] = KeepOwner(c, value)] ELSE children
    /\ GoOn(After(c), worker.obj)

(* applyUpdateToResource, and creation if there is nothing to update. *)
Apply(c, value) ==
    \/ /\ c \in seen /\ c \in Existing
       /\ children' = [children EXCEPT ![c] = KeepOwner(c, value)]
       /\ GoOn(After(c), worker.obj)
    \/ ~(c \in seen /\ c \in Existing) /\ CreateIfNotExists(c, value)

CreateSecret(c) ==
    /\ worker.pc = c /\ c \in Secrets
    /\ CreateIfNotExists(c, Owned(0, 0, 0))
    /\ UNCHANGED <<apiVars, seen, memVars, poll, gitVars, faults>>

ApplyDeployment ==
    /\ worker.pc = "deployment"
    /\ Apply("deployment", Owned(worker.obj.spec, worker.obj.commit, worker.obj.commit))
    /\ UNCHANGED <<apiVars, seen, memVars, poll, gitVars, faults>>

(* makeDataSecretTemplate reads the files of the working copy as it is now, *)
(* not those of the object's commit.  Without a RemoteManifest it reads    *)
(* nothing; without a working copy its bare return returns ErrNotExist.    *)
ReadFiles ==
    /\ worker.pc = "read"
    /\ \/ worker.obj.commit = 0 /\ GoOn("data", worker.obj)
       \/ /\ worker.obj.commit # 0 /\ clone # 0
          /\ worker' = [worker EXCEPT !.pc = "data", !.read = clone]
          /\ UNCHANGED queued
       \/ worker.obj.commit # 0 /\ clone = 0 /\ Fail
    /\ UNCHANGED <<apiVars, kidVars, memVars, poll, gitVars, faults>>

(* If the data loop has pulled while the files were being read one by one, *)
(* some of them may be those of the newer commit.                          *)
ApplyData ==
    /\ worker.pc = "data"
    /\ \E newest \in {worker.read, IF worker.read = 0 THEN 0 ELSE clone} :
          Apply("data", Owned(0, worker.read, newest))
    /\ UNCHANGED <<apiVars, seen, memVars, poll, gitVars, faults>>

AddWatcher ==
    /\ worker.pc = "watch"
    /\ watcher' = TRUE
    /\ GoOn("collector", worker.obj)
    /\ UNCHANGED <<apiVars, kidVars, collector, process, poll, gitVars, faults>>

AddCollectorClient ==
    /\ worker.pc = "collector"
    /\ collector' = TRUE
    /\ GoOn("idle", NoObject)
    /\ UNCHANGED <<apiVars, kidVars, watcher, process, poll, gitVars, faults>>

-----------------------------------------------------------------------------
(* The data loop of the poller (checkForGitUpdates). *)

polling == <<kidVars, queued, worker, memVars, head>>

(* SyncRepo clones or pulls. *)
FaultKeepClone ==
    /\ poll.pc = "idle" /\ watcher /\ head # 0
    /\ clone' = IF clone = 0 THEN head ELSE clone
    /\ poll' = [poll EXCEPT !.pc = "check", !.commit = head]
    /\ UNCHANGED <<apiVars, faults, polling>>

SyncRepo ==
    /\ poll.pc = "idle" /\ watcher /\ head # 0
    /\ clone' = head
    /\ poll' = [poll EXCEPT !.pc = "check", !.commit = head]
    /\ UNCHANGED <<apiVars, faults, polling>>

(* The handler, if it is still there, compares the commit of the cached    *)
(* object with the synced one.                                             *)
Check ==
    /\ poll.pc = "check"
    /\ poll' = IF watcher /\ cache.present /\ cache.commit # poll.commit
               THEN [poll EXCEPT !.pc = "apply"] ELSE IdlePoll
    /\ UNCHANGED <<apiVars, clone, faults, polling>>

HasConfig(c) == c \notin Broken

(* applyGitUpdate reads the object again, and the manifest on disk. *)
ReadManifest ==
    /\ poll.pc = "apply"
    /\ poll' = IF cache.present /\ HasConfig(clone)
               THEN [poll EXCEPT !.pc = "put", !.obj = [cache EXCEPT !.commit = poll.commit]]
               ELSE IdlePoll
    /\ UNCHANGED <<apiVars, clone, faults, polling>>

FaultForceUpdate ==
    /\ poll.pc = "put"
    /\ IF cr.present /\ poll.obj.uid = cr.uid THEN Put(poll.obj) ELSE UNCHANGED apiVars
    /\ poll' = IdlePoll
    /\ UNCHANGED <<clone, faults, polling>>

PutManifest ==
    /\ poll.pc = "put"
    /\ \/ Current(poll.obj) /\ Put(poll.obj)
       \/ ~Current(poll.obj) /\ UNCHANGED apiVars
    /\ poll' = IdlePoll
    /\ UNCHANGED <<clone, faults, polling>>

(* An error is logged, and the loop waits for the next tick. *)
PollError ==
    /\ poll.pc # "idle" /\ faults < MaxFaults
    /\ faults' = faults + 1
    /\ poll' = IdlePoll
    /\ UNCHANGED <<apiVars, clone, polling>>

(* The container restarts: memory is lost, and with it the files unless    *)
(* they are on a volume.  The new process lists everything first.          *)
Crash ==
    /\ faults < MaxFaults
    /\ faults' = faults + 1
    /\ cache' = cr /\ watch' = << >> /\ seen' = Existing
    /\ queued' = cr.present
    /\ worker' = IdleWorker /\ poll' = IdlePoll
    /\ watcher' = FALSE /\ collector' = FALSE /\ process' = process + 1
    /\ clone' = IF ClonePersists THEN clone ELSE 0
    /\ UNCHANGED <<cr, children, head>>

-----------------------------------------------------------------------------

Environment ==
    \/ Create \/ EditSpec \/ Delete \/ Push
    \/ \E c \in Child : CollectGarbage(c)
    \/ Deliver \/ DeliverChildren \/ Resync

Worker ==
    \/ Reconcile \/ AddFinalizer \/ FinalizeGlideinSet \/ Refetch \/ RemoveFinalizer
    \/ \E c \in Secrets : CreateSecret(c)
    \/ ApplyDeployment \/ ReadFiles \/ ApplyData \/ AddWatcher \/ AddCollectorClient

DataLoop == SyncRepo \/ Check \/ ReadManifest \/ PutManifest

Next == Environment \/ Worker \/ WorkerError \/ DataLoop \/ PollError \/ Crash

Spec == Init /\ [][Next]_vars

(* The worker and the ticking data loop run, the watches deliver, garbage  *)
(* is collected, the resync comes round.  Nobody owes an edit or a push.   *)
Fairness ==
    /\ WF_vars(Worker) /\ WF_vars(DataLoop)
    /\ WF_vars(Deliver) /\ WF_vars(DeliverChildren) /\ WF_vars(Resync)
    /\ \A c \in Child : WF_vars(CollectGarbage(c))

FairSpec == Spec /\ Fairness

-----------------------------------------------------------------------------
(* Safety *)

(* What the operator keeps in memory for the object is there only while    *)
(* the object exists and its finalizer keeps it from going away, so the    *)
(* finalizer always gets to remove it: across crashes, lost answers,       *)
(* refused updates and re-creation under the same name.                    *)
FinalizerProtects ==
    watcher \/ collector => cr.present /\ cr.finalizer

(* A child is only created for the object as it lives at that moment,      *)
(* though the worker acts on a copy from the cache: never for one that is  *)
(* gone or for its predecessor of the same name.                           *)
NoOrphans ==
    [][\A c \in Child :
          children[c] = None /\ children'[c] # None
              => cr.present /\ children'[c].uid = cr.uid]_vars

(* Neither of the two writers undoes the other's or the user's change: in  *)
(* the life of one object its spec and commit, and those of the Deployment *)
(* made from them, only go forward.                                        *)
NeverGoesBack ==
    [][/\ cr'.present /\ cr'.uid = cr.uid => cr'.spec >= cr.spec /\ cr'.commit >= cr.commit
       /\ LET old == children["deployment"]
              new == children'["deployment"]
          IN  old # None /\ new # None /\ new.uid = cr.uid
                  => new.spec >= old.spec /\ new.commit >= old.commit]_vars

(* When a reconcile gets as far as adding the watcher, the data Secret     *)
(* holds the files of the commit that the Deployment was made from, or of  *)
(* a later one, never those of an earlier one.                             *)
DataNotOlder ==
    worker.pc \in {"watch", "collector"} /\ "data" \in Existing
        => children["data"].commit >= worker.obj.commit

-----------------------------------------------------------------------------
(* Liveness *)

InSync ==
    cr.present /\ ~cr.deleting =>
        /\ watcher /\ collector
        /\ Existing = Child
        /\ children["deployment"].spec = cr.spec
        /\ children["deployment"].commit = cr.commit
        /\ head \notin Broken \cup {0} =>
              cr.commit = head /\ children["data"].commit = head /\ children["data"].newest = head

(* Once edits, pushes and faults are over (their number is bounded), the   *)
(* last commit and the last spec arrive in the Deployment and the data     *)
(* Secret, and stay: no event and no retry is lost, and a Secret with      *)
(* files of two commits is replaced.                                       *)
Converges == <>[]InSync

(* A deletion completes: the finalizer is removed, whatever else writes    *)
(* the object in the meantime.                                             *)
DeletionCompletes == cr.deleting ~> ~cr.deleting

lifeState == IF ~cr.present THEN "absent"
             ELSE IF ~cr.finalizer THEN "fresh"
             ELSE IF cr.deleting THEN "deleting"
             ELSE "protected"

Life == INSTANCE GlideinSetLife WITH object <- lifeState, registered <- watcher \/ collector

(* Seen from outside, caches, conflicts, retries, lost answers and crashes  *)
(* included, Reconcile is the finalizer protocol of GlideinSetLife: nothing *)
(* is registered before the object is protected, nothing is unregistered   *)
(* but for a deletion or with the process, and the object goes last.       *)
ImplementsLife == Life!Spec

(* In spite of all these, what the protocol promises happens in the end    *)
(* (an object that stays is registered for good, a deleted one goes).      *)
ProgressesLikeLife == Life!Progress

(* "Corner case where operator hasn't cloned local copies yet, nothing to  *)
(* do": without a working copy a reconcile does the rest of its work, so a *)
(* live object is watched again after a restart.                           *)
WatchedAfterRestart == <>[](cr.present /\ ~cr.deleting) => []<>watcher

=============================================================================
