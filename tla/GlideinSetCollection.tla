------------------------ MODULE GlideinSetCollection ------------------------
(***************************************************************************)
(* GlideinSetCollections and the GlideinSets made from them                *)
(* (internal/controller/glideinsetcollection_controller.go, api_util.go):  *)
(* the one reconcile worker of all collections of a namespace, the         *)
(* objects at the API server, the informer caches that lag behind, the     *)
(* garbage collector, and what the GlideinSet controller does to the life  *)
(* of a GlideinSet.                                                        *)
(*                                                                         *)
(* A name is a sequence of parts, which the code joins with "-".           *)
(***************************************************************************)
EXTENDS Naturals, Sequences

CONSTANTS
    Collections,      \* names of GlideinSetCollections in one namespace
    SetNames,         \* names that a spec gives to its GlideinSets
    CollectorParts,   \* names of the resources in manifests/collector
    MonitoringParts,  \* names of those in manifests/prometheus
    Keys,             \* values of NamespaceToken, the random signing key
    MaxLives,         \* times that a collection of one name is created
    MaxChanges,       \* times that users create it or edit its spec, together
    MaxFaults,        \* failing API calls and crashes
    ResyncOn,         \* does the informer's periodic resync happen?
    None

ASSUME NamesAssumption  == Collections \cup SetNames \cup CollectorParts \cup MonitoringParts
                               \subseteq Seq(STRING)
ASSUME PartsAssumption  == CollectorParts # {} /\ MonitoringParts # {}
                           /\ CollectorParts \cap MonitoringParts = {}
ASSUME BoundsAssumption == {MaxLives, MaxChanges, MaxFaults} \subseteq Nat
ASSUME KeysAssumption   == Keys # {} /\ \A key \in Keys : \E other \in Keys : other # key
ASSUME SwitchAssumption == ResyncOn \in BOOLEAN
ASSUME NoneIsNoSet      == None \notin [owner : Collections, uid : Nat, url : Nat,
                                        finalizer : BOOLEAN, deleting : BOOLEAN]

VARIABLES
    coll,    \* the collections at the API server
    cache,   \* the collections in the informer cache
    sets,    \* the GlideinSets at the API server, by name
    known,   \* the GlideinSets in the informer cache
    fresh,   \* names whose cached GlideinSet is the stored version
    parts,   \* the other children of a collection at the API server
    seen,    \* those of them that the cache has
    queued,  \* collections whose key is in the work queue
    worker,  \* the reconcile: pc, collection, its copy of it, what is left to do
    dropped, \* history: GlideinSets that an edit of the living collection removed
    faults   \* faults so far

collVars == <<coll, cache>>
setVars  == <<sets, known, fresh>>
partVars == <<parts, seen>>
vars     == <<collVars, setVars, partVars, queued, worker, dropped, faults>>

nameFor(c, s) == c \o s

Names == {nameFor(c, s) : c \in Collections, s \in SetNames}
Part  == CollectorParts \cup MonitoringParts

(* Every edit of a spec makes a new version of what the children copy from *)
(* it, "url" for the URL that all GlideinSets get; so a write changes the  *)
(* record for good, and equal copies have the same resource version.       *)
Object == [present : BOOLEAN, uid : 0 .. MaxLives, finalizer : BOOLEAN,
           deleting : BOOLEAN, url : 0 .. MaxChanges, sets : SUBSET SetNames]

GlideinSet == [owner : Collections, uid : 1 .. MaxLives, url : 0 .. MaxChanges,
               finalizer : BOOLEAN, deleting : BOOLEAN]

PartObject == [uid : 1 .. MaxLives, value : Keys \cup (0 .. MaxChanges)]

NoObject == [present |-> FALSE, uid |-> 0, finalizer |-> FALSE, deleting |-> FALSE,
             url |-> 0, sets |-> {}]

Idle == [pc |-> "idle", coll |-> None, obj |-> NoObject, todo |-> {}]

WorkerState == {"addFinalizer", "refetch", "removeFinalizer", "parts", "sets", "delete"}

TypeOK ==
    /\ {coll, cache} \subseteq [Collections -> Object]
    /\ {sets, known} \subseteq [Names -> GlideinSet \cup {None}]
    /\ fresh \subseteq Names
    /\ \A n \in fresh : known[n] = sets[n]
    /\ parts \in [Collections -> [Part -> PartObject \cup {None}]]
    /\ seen \subseteq Collections \X Part
    /\ queued \subseteq Collections
    /\ worker = Idle \/ worker \in [pc : WorkerState, coll : Collections, obj : Object,
                                    todo : SUBSET (Names \cup Part)]
    /\ worker # Idle => worker.obj.present
    /\ dropped \subseteq Names
    /\ faults \in 0 .. MaxFaults

Init ==
    /\ coll  = [c \in Collections |-> NoObject] /\ cache = coll
    /\ sets  = [n \in Names |-> None] /\ known = sets /\ fresh = Names
    /\ parts = [c \in Collections |-> [p \in Part |-> None]] /\ seen = {}
    /\ queued = {}
    /\ worker = Idle
    /\ dropped = {}
    /\ faults = 0

-----------------------------------------------------------------------------
(* The API server and the caches. *)

Live(c)        == coll[c].present /\ ~coll[c].deleting
Wanted(c, obj) == {nameFor(c, s) : s \in obj.sets}
Existing       == {cp \in Collections \X Part : parts[cp[1]][cp[2]] # None}

(* The object whose name and uid an owner reference holds is there. *)
OwnerExists(c, uid) == coll[c].present /\ coll[c].uid = uid

Store(c, obj) == coll' = [coll EXCEPT ![c] = obj] /\ UNCHANGED cache

Gone(c) == [NoObject EXCEPT !.uid = coll[c].uid, !.url = coll[c].url]

StoreSet(n, set) ==
    /\ sets' = [sets EXCEPT ![n] = set]
    /\ fresh' = IF set = known[n] /\ set = None THEN fresh \cup {n} ELSE fresh \ {n}
    /\ UNCHANGED known

(* Delete of a GlideinSet: with a finalizer it is only marked. *)
Remove(n) ==
    IF sets[n].finalizer
    THEN IF sets[n].deleting THEN UNCHANGED setVars
                             ELSE StoreSet(n, [sets[n] EXCEPT !.deleting = TRUE])
    ELSE StoreSet(n, None)

-----------------------------------------------------------------------------
(* Around the operator: users, the watches, the garbage collector, and the *)
(* GlideinSet controller.                                                  *)

outside == <<worker, faults>>

(* A bound on what the users of a collection do, not of the code. *)
MayChange(c) == coll[c].uid + coll[c].url < MaxChanges

Create(c) ==
    /\ ~coll[c].present /\ coll[c].uid < MaxLives /\ MayChange(c)
    /\ \E S \in SUBSET SetNames :
          Store(c, [NoObject EXCEPT !.present = TRUE, !.uid = coll[c].uid + 1,
                                 !.url = coll[c].url, !.sets = S])
    /\ dropped' = dropped \ {nameFor(c, s) : s \in SetNames}
    /\ UNCHANGED <<setVars, partVars, queued, outside>>

Edit(c) ==
    /\ Live(c) /\ MayChange(c)
    /\ \E S \in SUBSET SetNames :
          /\ Store(c, [coll[c] EXCEPT !.url = @ + 1, !.sets = S])
          /\ dropped' = dropped \cup {nameFor(c, s) : s \in coll[c].sets \ S}
    /\ UNCHANGED <<setVars, partVars, queued, outside>>

Delete(c) ==
    /\ Live(c)
    /\ Store(c, IF coll[c].finalizer THEN [coll[c] EXCEPT !.deleting = TRUE] ELSE Gone(c))
    /\ UNCHANGED <<setVars, partVars, queued, dropped, outside>>

Deliver(c) ==
    /\ cache[c] # coll[c]
    /\ cache' = [cache EXCEPT ![c] = coll[c]]
    /\ queued' = queued \cup {c}
    /\ UNCHANGED <<coll, setVars, partVars, dropped, outside>>

(* (A resync during a reconcile has the same effect as one after it.) *)
Resync(c) ==
    /\ ResyncOn /\ cache[c].present /\ c \notin queued /\ worker = Idle
    /\ queued' = queued \cup {c}
    /\ UNCHANGED <<collVars, setVars, partVars, dropped, outside>>

(* The caches of the children catch up.  Nothing is queued: the controller *)
(* watches collections only.                                               *)
DeliverChildren ==
    /\ fresh # Names \/ seen # Existing
    /\ known' = sets /\ fresh' = Names /\ seen' = Existing
    /\ UNCHANGED <<collVars, sets, parts, queued, dropped, outside>>

CollectSet(n) ==
    /\ sets[n] # None /\ ~sets[n].deleting
    /\ ~OwnerExists(sets[n].owner, sets[n].uid)
    /\ Remove(n)
    /\ UNCHANGED <<collVars, partVars, queued, dropped, outside>>

CollectPart(c, p) ==
    /\ parts[c][p] # None /\ ~OwnerExists(c, parts[c][p].uid)
    /\ parts' = [parts EXCEPT ![c][p] = None]
    /\ UNCHANGED <<collVars, setVars, seen, queued, dropped, outside>>

(* The GlideinSet controller adds its finalizer, and removes it in the end. *)
ProtectSet(n) ==
    /\ sets[n] # None /\ ~sets[n].finalizer
    /\ StoreSet(n, [sets[n] EXCEPT !.finalizer = TRUE])
    /\ UNCHANGED <<collVars, partVars, queued, dropped, outside>>

FinalizeSet(n) ==
    /\ sets[n] # None /\ sets[n].deleting
    /\ StoreSet(n, None)
    /\ UNCHANGED <<collVars, partVars, queued, dropped, outside>>

-----------------------------------------------------------------------------
(* The reconcile worker. *)

children == <<setVars, partVars>>

GoOn(pc, obj, todo) ==
    worker' = [worker EXCEPT !.pc = pc, !.obj = obj, !.todo = todo] /\ UNCHANGED queued

Done == worker' = Idle /\ UNCHANGED queued

(* A reconcile that returns an error is retried. *)
Fail == worker' = Idle /\ queued' = queued \cup {worker.coll}

FaultIgnoreNotFound(c) ==
    /\ worker = Idle /\ c \in queued
    /\ queued' = queued \ {c}
    /\ worker' = [pc |-> "addFinalizer", coll |-> c, obj |-> cache[c], todo |-> {}]
    /\ UNCHANGED <<collVars, children, dropped, faults>>

(* The first Get; without the object there is nothing to do. *)
Reconcile(c) ==
    /\ worker = Idle /\ c \in queued
    /\ queued' = queued \ {c}
    /\ worker' = IF cache[c].present
                 THEN [pc   |-> IF ~cache[c].finalizer THEN "addFinalizer"
                                ELSE IF cache[c].deleting THEN "refetch"
                                ELSE "parts",
                       coll |-> c, obj |-> cache[c],
                       todo |-> IF cache[c].finalizer /\ ~cache[c].deleting THEN Part ELSE {}]
                 ELSE Idle
    /\ UNCHANGED <<collVars, children, dropped, faults>>

FaultIgnoreRefusal ==
    LET c   == worker.coll
        obj == [worker.obj EXCEPT !.finalizer = TRUE]
    IN  /\ worker.pc = "addFinalizer"
        /\ IF coll[c] = worker.obj THEN Store(c, obj) ELSE UNCHANGED collVars
        /\ GoOn("parts", obj, Part)
        /\ UNCHANGED <<children, dropped, faults>>

(* Update is refused unless the copy is the stored version. *)
AddFinalizer ==
    LET c   == worker.coll
        obj == [worker.obj EXCEPT !.finalizer = TRUE]
    IN  /\ worker.pc = "addFinalizer"
        /\ \/ coll[c] = worker.obj /\ Store(c, obj) /\ GoOn("parts", obj, Part)
           \/ coll[c] # worker.obj /\ Fail /\ UNCHANGED collVars
        /\ UNCHANGED <<children, dropped, faults>>

(* finalizePilotSet does nothing; then the object is read again. *)
Refetch ==
    LET c == worker.coll
    IN  /\ worker.pc = "refetch"
        /\ IF cache[c].present THEN GoOn("removeFinalizer", cache[c], {}) ELSE Fail
        /\ UNCHANGED <<collVars, children, dropped, faults>>

(* What is being deleted goes with its finalizer.  The object may also be  *)
(* a new one of the name: there is nothing to remove from it yet.          *)
RemoveFinalizer ==
    LET c   == worker.coll
        obj == [worker.obj EXCEPT !.finalizer = FALSE]
    IN  /\ worker.pc = "removeFinalizer"
        /\ \/ /\ coll[c] = worker.obj
              /\ Store(c, IF obj.deleting THEN Gone(c) ELSE obj)
              /\ Done
           \/ coll[c] # worker.obj /\ Fail /\ UNCHANGED collVars
        /\ UNCHANGED <<children, dropped, faults>>

(* After the last of the parts come the GlideinSets of the spec. *)
PartDone(p) ==
    IF worker.todo = {p} THEN GoOn("sets", worker.obj, Wanted(worker.coll, worker.obj))
                         ELSE GoOn("parts", worker.obj, worker.todo \ {p})

(* TemplatedResourceEditor: of a rendered template, its resource keeps what *)
(* the template took from a key or from the spec.                          *)
getTemplatedYaml(obj)            == obj.url
setResourceValue(owner, value)   == [uid |-> owner.uid, value |-> value]
updateResourceValue(part, value) == [part EXCEPT !.value = value]

(* createResourceIfNotExists: create what the cache does not have; it may  *)
(* exist all the same, which is an error.                                  *)
CreateIfNotExists(c, p, value) ==
    \/ <<c, p>> \in seen /\ UNCHANGED parts /\ PartDone(p)
    \/ /\ <<c, p>> \notin seen /\ parts[c][p] = None
       /\ parts' = [parts EXCEPT ![c][p] = setResourceValue(worker.obj, value)]
       /\ PartDone(p)
    \/ <<c, p>> \notin seen /\ parts[c][p] # None /\ UNCHANGED parts /\ Fail

FaultCreateOnly(c, p, value) == CreateIfNotExists(c, p, value)

(* applyUpdateToResource, and creation if there is nothing to update. *)
Apply(c, p, value) ==
    \/ /\ <<c, p>> \in seen /\ parts[c][p] # None
       /\ parts' = [parts EXCEPT ![c][p] = updateResourceValue(@, value)]
       /\ PartDone(p)
    \/ ~(<<c, p>> \in seen /\ parts[c][p] # None) /\ CreateIfNotExists(c, p, value)

(* makeCollectorTemplate: a random key, other than the one in the Secret   *)
(* if there is one (no keys of two different Secrets are ever compared).   *)
NamespaceToken(c, p) ==
    CHOOSE key \in Keys : parts[c][p] = None \/ key # parts[c][p].value

FaultApplyPart(p) ==
    /\ worker.pc = "parts" /\ p \in worker.todo \cap CollectorParts
    /\ Apply(worker.coll, p, NamespaceToken(worker.coll, p))
    /\ UNCHANGED <<collVars, setVars, seen, dropped, faults>>

(* createCollectorForPilotSet, with another random key in every reconcile. *)
CreateCollectorPart(p) ==
    /\ worker.pc = "parts" /\ p \in worker.todo \cap CollectorParts
    /\ CreateIfNotExists(worker.coll, p, NamespaceToken(worker.coll, p))
    /\ UNCHANGED <<collVars, setVars, seen, dropped, faults>>

(* createMonitoringForPilotSet, once the collector's parts are there. *)
ApplyMonitoringPart(p) ==
    /\ worker.pc = "parts" /\ p \in worker.todo /\ worker.todo \subseteq MonitoringParts
    /\ Apply(worker.coll, p, getTemplatedYaml(worker.obj))
    /\ UNCHANGED <<collVars, setVars, seen, dropped, faults>>

SetDone(n) == GoOn("sets", worker.obj, worker.todo \ {n})

UpdateSet(n) ==
    /\ sets[n] # None /\ n \in fresh
    /\ IF sets[n].url = worker.obj.url THEN UNCHANGED setVars
       ELSE StoreSet(n, [sets[n] EXCEPT !.url = worker.obj.url])
    /\ SetDone(n)

CreateSet(n) ==
    /\ sets[n] = None /\ known[n] = None
    /\ StoreSet(n, [owner |-> worker.coll, uid |-> worker.obj.uid, url |-> worker.obj.url,
                    finalizer |-> FALSE, deleting |-> FALSE])
    /\ SetDone(n)

(* One GlideinSet of the spec: it is updated or created, or the write is   *)
(* refused (the cached one is old, or the cache does not have it yet), or  *)
(* nothing happens: the update does not find what the cache still has, and *)
(* the creation then trusts the cache.                                     *)
SyncSet(n) ==
    /\ worker.pc = "sets" /\ n \in worker.todo
    /\ \/ UpdateSet(n)
       \/ CreateSet(n)
       \/ sets[n] # None /\ n \notin fresh /\ Fail /\ UNCHANGED setVars
       \/ sets[n] = None /\ known[n] # None /\ SetDone(n) /\ UNCHANGED setVars
    /\ UNCHANGED <<collVars, partVars, dropped, faults>>

FaultCompareSetNames == {n \in Names : known[n] # None /\ n \notin worker.obj.sets}

(* The requirement on the label is not a valid key and is dropped by the   *)
(* client: the list has the GlideinSets of all collections.                *)
Outdated == {n \in Names : known[n] # None /\ n \notin Wanted(worker.coll, worker.obj)}

ListSets ==
    /\ worker.pc = "sets" /\ worker.todo = {}
    /\ IF Outdated = {} THEN Done ELSE GoOn("delete", worker.obj, Outdated)
    /\ UNCHANGED <<collVars, children, dropped, faults>>

(* The error of List is not looked at. *)
ListError ==
    /\ worker.pc = "sets" /\ worker.todo = {} /\ faults < MaxFaults
    /\ faults' = faults + 1
    /\ Done
    /\ UNCHANGED <<collVars, children, dropped>>

DeleteSet(n) ==
    /\ worker.pc = "delete" /\ n \in worker.todo
    /\ \/ /\ sets[n] # None
          /\ Remove(n)
          /\ IF worker.todo = {n} THEN Done ELSE GoOn("delete", worker.obj, worker.todo \ {n})
       \/ sets[n] = None /\ Fail /\ UNCHANGED setVars
    /\ UNCHANGED <<collVars, partVars, dropped, faults>>

(* An API call fails, or the answer of the one before was lost. *)
WorkerError ==
    /\ worker # Idle /\ faults < MaxFaults
    /\ faults' = faults + 1
    /\ Fail
    /\ UNCHANGED <<collVars, children, dropped>>

(* The process restarts and lists everything. *)
Crash ==
    /\ faults < MaxFaults
    /\ faults' = faults + 1
    /\ cache' = coll /\ known' = sets /\ fresh' = Names /\ seen' = Existing
    /\ queued' = {c \in Collections : coll[c].present}
    /\ worker' = Idle
    /\ UNCHANGED <<coll, sets, parts, dropped>>

-----------------------------------------------------------------------------

Users == \E c \in Collections : Create(c) \/ Edit(c) \/ Delete(c)

Watches == (\E c \in Collections : Deliver(c)) \/ DeliverChildren

Cleanup == \/ \E n \in Names : CollectSet(n) \/ FinalizeSet(n)
           \/ \E c \in Collections, p \in Part : CollectPart(c, p)

Resyncs == \E c \in Collections : Resync(c)

Worker ==
    \/ \E c \in Collections : Reconcile(c)
    \/ AddFinalizer \/ Refetch \/ RemoveFinalizer
    \/ \E p \in Part : CreateCollectorPart(p) \/ ApplyMonitoringPart(p)
    \/ \E n \in Names : SyncSet(n) \/ DeleteSet(n)
    \/ ListSets

Next == \/ Users \/ Watches \/ Cleanup \/ Resyncs \/ \E n \in Names : ProtectSet(n)
        \/ Worker \/ ListError \/ WorkerError \/ Crash

Spec == Init /\ [][Next]_vars

(* API calls return and the worker goes on, caches catch up, garbage and   *)
(* finalizers go, the resync comes round.  Users owe nothing.              *)
Fairness ==
    WF_vars(Worker) /\ WF_vars(Watches) /\ WF_vars(Cleanup) /\ WF_vars(Resyncs)

FairSpec == Spec /\ Fairness

-----------------------------------------------------------------------------
(* Safety *)

(* A GlideinSet that its collection has had in its spec from the beginning *)
(* is never deleted while the collection lives: not by a reconcile that    *)
(* acts on an old copy, not after a crash or a lost answer, not with what  *)
(* is left of a former collection of the name, and not for another         *)
(* collection of the namespace (recoincileGlideinSets).                    *)
KeptSetsSurvive ==
    [][\A c \in Collections, n \in Names \ dropped :
          (/\ Live(c) /\ Live(c)'
           /\ sets[n] # None /\ ~sets[n].deleting
           /\ sets[n].owner = c /\ sets[n].uid = coll[c].uid)
              => sets'[n] # None /\ ~sets'[n].deleting]_vars

(* GlideinSets and other children are created only for the collection as   *)
(* it lives at that moment, never for one that is gone or its predecessor, *)
(* although the reconcile works on a copy from the cache.                  *)
NoOrphans ==
    [][/\ \A n \in Names : sets[n] = None /\ sets'[n] # None
              => OwnerExists(sets'[n].owner, sets'[n].uid)
       /\ \A c \in Collections, p \in Part : parts[c][p] = None /\ parts'[c][p] # None
              => OwnerExists(c, parts'[c][p].uid)]_vars

(* Every reconcile renders the collector's Secret with another random key, *)
(* but the key that signs tokens is the first one as long as the           *)
(* collection lives.                                                       *)
KeyIsKept ==
    [][\A c \in Collections, p \in CollectorParts :
          parts[c][p] # None /\ OwnerExists(c, parts[c][p].uid) /\ OwnerExists(c, parts[c][p].uid)'
              => parts'[c][p] = parts[c][p]]_vars

-----------------------------------------------------------------------------
(* Liveness *)

InSync(c) ==
    LET own == {n \in Names : sets[n] # None /\ sets[n].owner = c}
    IN  IF coll[c].present
        THEN /\ ~coll[c].deleting
             /\ own = Wanted(c, coll[c])
             /\ \A n \in own : /\ ~sets[n].deleting
                               /\ sets[n].uid = coll[c].uid /\ sets[n].url = coll[c].url
             /\ \A p \in Part : parts[c][p] # None /\ parts[c][p].uid = coll[c].uid
             /\ \A p \in MonitoringParts : parts[c][p].value = coll[c].url
        ELSE own = {} /\ \A p \in Part : parts[c][p] = None

(* When edits, deletions and faults are over, each collection that lives   *)
(* has exactly the GlideinSets of its spec, as specified, and all its      *)
(* parts; one that was deleted is gone, and everything of it.  (With the   *)
(* resync: a list that is read too early from the cache, an ignored error, *)
(* or a GlideinSet that is still going away when it is wanted again lead   *)
(* to no event of their own.)                                              *)
Converges == <>[](\A c \in Collections : InSync(c))

=============================================================================
