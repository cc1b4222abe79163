---------------------- MODULE GlideinSetControllerProofs ----------------------
(***************************************************************************)
(* Proofs about GlideinSetController, for any number of lives, edits,      *)
(* commits and faults.  The inductive invariant is IInv.  Its heart is     *)
(* VersionInv: how the versions of the object that are still on their way  *)
(* to the cache relate to each other and to the stored one.  From it       *)
(* follows what a reconcile may conclude from an old copy.                 *)
(***************************************************************************)
EXTENDS GlideinSetController, SequenceTheorems, TLAPS

(* The stored version, the cached one, and those on their way to the cache. *)
Versions == {cr, cache} \cup {watch[i] : i \in 1 .. Len(watch)}

WellFormed(o) ==
    /\ o.present => o.uid > 0
    /\ o.finalizer => o.present
    /\ o.deleting => o.finalizer

(* A resource version stands for one version of the object. *)
SameOrOlder(o, n) == o.rv <= n.rv /\ (o.rv = n.rv => o = n)

(* n is o or a later version.  Between an old version with the finalizer   *)
(* and a later one with it, the finalizer was not removed (the other case  *)
(* would be another object of the name, whose finalizer was added by a     *)
(* reconcile that has seen the end of the first).                          *)
Precedes(o, n) ==
    /\ SameOrOlder(o, n)
    /\ o.uid <= n.uid
    /\ n.present /\ o.uid = n.uid =>
          o.spec <= n.spec /\ o.commit <= n.commit /\ (o.deleting => n.deleting)
    /\ o.finalizer /\ ~o.deleting => n.finalizer
    /\ o.finalizer /\ n.finalizer => o.uid = n.uid

VersionInv ==
    /\ \A o \in Versions : WellFormed(o) /\ o.commit <= head /\ Precedes(o, cr)
    /\ \A i \in 1 .. Len(watch) : Precedes(cache, watch[i])
    /\ \A i, j \in 1 .. Len(watch) : i <= j => Precedes(watch[i], watch[j])

Creating   == Child \cup {"read", "watch", "collector"}
Finalizing == {"finalize", "refetch", "removeFinalizer"}

(* A reconcile that makes children works for the object as it lives now,   *)
(* from a version not newer than any that the next reconcile may see.      *)
CreatingInv ==
    worker.pc \in Creating =>
        /\ cr.finalizer
        /\ \A o \in Versions : o.finalizer =>
              /\ worker.obj.uid = o.uid
              /\ worker.obj.spec <= o.spec /\ worker.obj.commit <= o.commit

(* While the worker finalizes, no live object has the finalizer; it writes *)
(* from a version that the cache has or had.                               *)
WorkerInv ==
    /\ worker.pc # "idle" => WellFormed(worker.obj)
    /\ worker.pc = "addFinalizer" => ~worker.obj.finalizer
    /\ worker.pc \in {"addFinalizer", "removeFinalizer"} =>
          SameOrOlder(worker.obj, cr) /\ worker.obj.rv <= cache.rv
    /\ worker.pc \in Finalizing /\ cr.finalizer => cr.deleting
    /\ worker.pc \in {"refetch", "removeFinalizer"} => ~watcher /\ ~collector
    /\ worker.pc = "data" => worker.obj.commit <= worker.read
    /\ CreatingInv

(* Every commit of a version came out of the working copy. *)
PollInv ==
    /\ clone # 0 => \A o \in Versions : o.commit <= clone
    /\ poll.pc # "idle" => clone # 0 /\ poll.commit = clone
    /\ poll.pc = "put" =>
          /\ poll.obj.rv <= cr.rv
          /\ poll.obj.rv = cr.rv => poll.obj = [cr EXCEPT !.commit = poll.commit]

(* The Deployment is not ahead of any version that a reconcile may see.    *)
DeploymentInv ==
    LET d == children["deployment"]
    IN  d # None =>
          /\ d.uid <= cr.uid
          /\ cr.present /\ d.uid = cr.uid => cr.finalizer
          /\ \A o \in Versions : o.finalizer /\ o.uid = d.uid
                => d.spec <= o.spec /\ d.commit <= o.commit
          /\ worker.pc \in Secrets \cup {"deployment"} /\ worker.obj.uid = d.uid
                => d.spec <= worker.obj.spec /\ d.commit <= worker.obj.commit

IInv ==
    /\ TypeOK
    /\ VersionInv /\ WorkerInv /\ PollInv
    /\ DeploymentInv /\ DataNotOlder
    /\ FinalizerProtects

-----------------------------------------------------------------------------
(* Versions *)

LEMMA Reflexive ==
  ASSUME NEW o \in Object
  PROVE  Precedes(o, o)
  BY BoundsAssumption DEF Precedes, SameOrOlder, Object, Commit

LEMMA VersionTypes ==
  ASSUME TypeOK
  PROVE  /\ cr \in Object /\ cache \in Object /\ Versions \subseteq Object
         /\ \A i \in 1 .. Len(watch) : watch[i] \in Object
         /\ Len(watch) \in Nat
  BY DEF TypeOK, Versions

LEMMA CopyTypes ==
  ASSUME TypeOK
  PROVE  /\ worker.pc \in WorkerState /\ worker.obj \in Object /\ worker.read \in Commit
         /\ {worker.obj.uid, worker.obj.rv, worker.obj.spec, worker.obj.commit} \subseteq Nat
         /\ poll.pc \in PollState /\ poll.obj \in Object /\ poll.commit \in Commit
         /\ poll.obj.rv \in Nat
         /\ clone \in Nat /\ head \in Nat /\ Commit \subseteq Nat
<1>1. /\ worker.pc \in WorkerState /\ worker.obj \in Object /\ worker.read \in Commit
      /\ poll.pc \in PollState /\ poll.obj \in Object /\ poll.commit \in Commit
  BY DEF TypeOK
<1>2. clone \in Nat /\ head \in Nat /\ Commit \subseteq Nat
  BY BoundsAssumption DEF TypeOK, Commit
<1>3. \A o \in Object : {o.uid, o.rv, o.spec, o.commit} \subseteq Nat
  BY BoundsAssumption DEF Object, Commit
<1>4. QED
  BY <1>1, <1>2, <1>3

LEMMA SameVersions ==
  ASSUME UNCHANGED apiVars
  PROVE  Versions' = Versions
  BY DEF apiVars, Versions

(* What a stored write does to the versions. *)
LEMMA StoreVersions ==
  ASSUME TypeOK, NEW obj \in Object, Store(obj)
  PROVE  /\ cr' = [obj EXCEPT !.rv = cr.rv + 1] /\ cr' \in Object
         /\ cache' = cache /\ watch' \in Seq(Object)
         /\ Len(watch') = Len(watch) + 1
         /\ \A i \in 1 .. Len(watch) : watch'[i] = watch[i]
         /\ watch'[Len(watch) + 1] = cr'
         /\ Versions' \subseteq Versions \cup {cr'}
<1>1. /\ cr' = [obj EXCEPT !.rv = cr.rv + 1] /\ cache' = cache
      /\ watch' = Append(watch, cr')
  BY DEF Store
<1>2. cr' \in Object
  <2>1. cr.rv \in Nat
    BY VersionTypes DEF Object
  <2>2. QED
    BY <1>1, <2>1 DEF Object
<1>3. watch \in Seq(Object) /\ Len(watch) \in Nat
  BY DEF TypeOK
<1>4. /\ watch' \in Seq(Object) /\ Len(watch') = Len(watch) + 1
      /\ \A i \in 1 .. Len(watch) : watch'[i] = watch[i]
      /\ watch'[Len(watch) + 1] = cr'
  BY <1>1, <1>2, <1>3, AppendProperties
<1>5. Versions' \subseteq Versions \cup {cr'}
  <2>1. ASSUME NEW i \in 1 .. Len(watch')
        PROVE  watch'[i] \in Versions \cup {cr'}
    <3>1. i \in 1 .. Len(watch) \/ i = Len(watch) + 1
      BY <1>3, <1>4
    <3>2. QED
      BY <1>4, <3>1 DEF Versions
  <2>2. QED
    BY <1>1, <2>1 DEF Versions
<1>6. QED
  BY <1>1, <1>2, <1>4, <1>5

LEMMA StoreVersionInv ==
  ASSUME TypeOK, VersionInv, NEW obj \in Object, Store(obj), head' = head,
         WellFormed(cr'), cr'.commit <= head,
         \A o \in Versions : Precedes(o, cr')
  PROVE  VersionInv'
<1>1. \A o \in Versions' : WellFormed(o) /\ o.commit <= head' /\ Precedes(o, cr')
  BY StoreVersions, Reflexive DEF VersionInv
<1>2. ASSUME NEW i \in 1 .. Len(watch')
      PROVE  Precedes(cache', watch'[i])
  <2>1. i \in 1 .. Len(watch) \/ i = Len(watch) + 1
    BY StoreVersions, VersionTypes
  <2>2. cache \in Versions
    BY DEF Versions
  <2>3. QED
    BY <2>1, <2>2, StoreVersions DEF VersionInv
<1>3. ASSUME NEW i \in 1 .. Len(watch'), NEW j \in 1 .. Len(watch'), i <= j
      PROVE  Precedes(watch'[i], watch'[j])
  <2>1. CASE j \in 1 .. Len(watch)
    <3>1. i \in 1 .. Len(watch)
      BY <1>3, <2>1, StoreVersions, VersionTypes
    <3>2. QED
      BY <1>3, <2>1, <3>1, StoreVersions DEF VersionInv
  <2>2. CASE j = Len(watch) + 1
    <3>1. watch'[i] \in Versions \cup {cr'}
      <4>1. i \in 1 .. Len(watch) \/ i = Len(watch) + 1
        BY StoreVersions, VersionTypes
      <4>2. QED
        BY <4>1, StoreVersions DEF Versions
    <3>2. QED
      BY <2>2, <3>1, StoreVersions, Reflexive
  <2>3. QED
    BY <2>1, <2>2, StoreVersions, VersionTypes
<1>4. QED
  BY <1>1, <1>2, <1>3 DEF VersionInv

(* The cache takes the oldest event. *)
LEMMA DeliverVersionInv ==
  ASSUME TypeOK, VersionInv, Deliver
  PROVE  /\ VersionInv' /\ Versions' \subseteq Versions /\ cr' = cr
         /\ cache' \in Object /\ watch' \in Seq(Object)
         /\ cache.rv <= cache'.rv
<1>1. /\ watch \in Seq(Object) /\ watch # << >> /\ cr' = cr /\ head' = head
      /\ cache' = Head(watch) /\ watch' = Tail(watch)
  BY DEF Deliver, TypeOK, gitVars
<1>2. /\ cache' \in Object /\ watch' \in Seq(Object) /\ Len(watch') = Len(watch) - 1
      /\ \A i \in 1 .. Len(watch') : watch'[i] = watch[i + 1]
  BY <1>1, HeadTailProperties
<1>3. cache' = watch[1] /\ Len(watch) \in Nat /\ Len(watch) # 0 /\ 1 \in 1 .. Len(watch)
  BY <1>1
<1>4. \A i \in 1 .. Len(watch') : i + 1 \in 1 .. Len(watch) /\ 1 <= i + 1
  BY <1>2, <1>3
<1>5. Versions' \subseteq Versions
  BY <1>1, <1>2, <1>3, <1>4 DEF Versions
<1>6. \A o \in Versions' : WellFormed(o) /\ o.commit <= head' /\ Precedes(o, cr')
  BY <1>1, <1>5 DEF VersionInv
<1>7. \A i \in 1 .. Len(watch') : Precedes(cache', watch'[i])
  BY <1>2, <1>3, <1>4 DEF VersionInv
<1>8. \A i, j \in 1 .. Len(watch') : i <= j => Precedes(watch'[i], watch'[j])
  <2>1. \A i, j \in 1 .. Len(watch') : i <= j => i + 1 <= j + 1
    BY <1>2, <1>3
  <2>2. QED
    BY <1>2, <1>4, <2>1 DEF VersionInv
<1>9. VersionInv'
  BY <1>6, <1>7, <1>8 DEF VersionInv
<1>10. cache.rv <= cache'.rv
  BY <1>3 DEF VersionInv, Precedes, SameOrOlder
<1>11. QED
  BY <1>1, <1>2, <1>5, <1>9, <1>10

-----------------------------------------------------------------------------
(* What keeps the parts of the invariant *)

LEMMA Frame ==
  ASSUME IInv
  PROVE  /\ UNCHANGED apiVars /\ head' \in Nat /\ head <= head' => VersionInv'
         /\ UNCHANGED <<apiVars, worker, memVars>> => WorkerInv'
         /\ UNCHANGED <<apiVars, poll, clone>> => PollInv'
         /\ UNCHANGED <<apiVars, worker>> /\ children'["deployment"] = children["deployment"]
               => DeploymentInv'
         /\ UNCHANGED <<worker, children>> => DataNotOlder'
         /\ UNCHANGED <<cr, memVars>> => FinalizerProtects'
<1>1. ASSUME UNCHANGED apiVars, head' \in Nat, head <= head'
      PROVE  VersionInv'
  <2>1. \A o \in Versions : o.commit \in Nat
    BY VersionTypes, BoundsAssumption DEF IInv, Object, Commit
  <2>2. \A o \in Versions : WellFormed(o) /\ o.commit <= head /\ Precedes(o, cr)
    BY DEF IInv, VersionInv
  <2>3. head \in Nat
    BY BoundsAssumption DEF IInv, TypeOK, Commit
  <2>4. \A o \in Versions : o.commit <= head'
    BY <1>1, <2>1, <2>2, <2>3
  <2>5. QED
    BY <1>1, <2>2, <2>4, SameVersions DEF IInv, VersionInv, apiVars
<1>2. ASSUME UNCHANGED <<apiVars, worker, memVars>>
      PROVE  WorkerInv'
  BY <1>2, SameVersions DEF IInv, WorkerInv, CreatingInv, apiVars, memVars
<1>3. ASSUME UNCHANGED <<apiVars, poll, clone>>
      PROVE  PollInv'
  BY <1>3, SameVersions DEF IInv, PollInv, apiVars
<1>4. ASSUME UNCHANGED <<apiVars, worker>>,
             children'["deployment"] = children["deployment"]
      PROVE  DeploymentInv'
  BY <1>4, SameVersions DEF IInv, DeploymentInv, apiVars
<1>5. ASSUME UNCHANGED <<worker, children>>
      PROVE  DataNotOlder'
  BY <1>5 DEF IInv, DataNotOlder, Existing
<1>6. ASSUME UNCHANGED <<cr, memVars>>
      PROVE  FinalizerProtects'
  BY <1>6 DEF IInv, FinalizerProtects, memVars
<1>7. QED
  BY <1>1, <1>2, <1>3, <1>4, <1>5, <1>6

(* A write that neither adds nor removes the finalizer: by the user, the   *)
(* collection controller or the data loop.                                 *)
Continues ==
    /\ WellFormed(cr') /\ cr'.commit <= head /\ (clone # 0 => cr'.commit <= clone)
    /\ cr.uid <= cr'.uid
    /\ cr'.finalizer = cr.finalizer
    /\ cr.finalizer => cr'.uid = cr.uid
    /\ cr'.present /\ cr'.uid = cr.uid =>
          /\ cr.present
          /\ cr.spec <= cr'.spec /\ cr.commit <= cr'.commit
          /\ cr.deleting => cr'.deleting

LEMMA ContinuesPrecedes ==
  ASSUME IInv, Continues, cr' \in Object, cr'.rv = cr.rv + 1, NEW o \in Versions
  PROVE  Precedes(o, cr')
<1>1. o \in Object /\ cr \in Object
  BY VersionTypes DEF IInv
<1>2. Precedes(o, cr)
  BY DEF IInv, VersionInv
<1>3. /\ o.rv \in Nat /\ cr.rv \in Nat
      /\ {o.uid, cr.uid, cr'.uid} \subseteq Nat
      /\ {o.spec, cr.spec, cr'.spec} \subseteq Nat
      /\ {o.commit, cr.commit, cr'.commit} \subseteq Nat
  BY <1>1, BoundsAssumption DEF Object, Commit
<1>4. SameOrOlder(o, cr') /\ o.uid <= cr'.uid
  BY <1>2, <1>3 DEF Precedes, SameOrOlder, Continues
<1>5. ASSUME cr'.present, o.uid = cr'.uid
      PROVE  o.spec <= cr'.spec /\ o.commit <= cr'.commit /\ (o.deleting => cr'.deleting)
  <2>1. o.uid = cr.uid
    BY <1>2, <1>3, <1>5 DEF Precedes, Continues
  <2>2. QED
    BY <1>2, <1>3, <1>5, <2>1 DEF Precedes, Continues
<1>6. /\ o.finalizer /\ ~o.deleting => cr'.finalizer
      /\ o.finalizer /\ cr'.finalizer => o.uid = cr'.uid
  BY <1>2 DEF Precedes, Continues
<1>7. QED
  BY <1>4, <1>5, <1>6 DEF Precedes

LEMMA ContinuesKeeps ==
  ASSUME IInv, NEW obj \in Object, Store(obj), Continues,
         UNCHANGED <<kidVars, worker, memVars, gitVars>>, poll' \in {poll, IdlePoll}
  PROVE  /\ VersionInv' /\ WorkerInv' /\ PollInv' /\ DeploymentInv'
         /\ DataNotOlder' /\ FinalizerProtects'
<1>1. /\ TypeOK /\ VersionInv
      /\ cr \in Object /\ cr' \in Object /\ cr'.rv = cr.rv + 1 /\ cache' = cache
      /\ cr \in Versions /\ Versions' \subseteq Versions \cup {cr'}
  <2>1. TypeOK /\ VersionInv
    BY DEF IInv
  <2>2. cr' = [obj EXCEPT !.rv = cr.rv + 1]
    BY <2>1, StoreVersions
  <2>3. cr'.rv = cr.rv + 1
    BY <2>2 DEF Object
  <2>4. cr \in Versions
    BY DEF Versions
  <2>5. QED
    BY <2>1, <2>3, <2>4, VersionTypes, StoreVersions
<1>2. /\ cr.rv \in Nat /\ {cr.uid, cr'.uid} \subseteq Nat
      /\ {cr.spec, cr'.spec} \subseteq Nat /\ {cr.commit, cr'.commit} \subseteq Nat
  BY <1>1, BoundsAssumption DEF Object, Commit
<1>3. /\ UNCHANGED <<children, worker, watcher, collector, clone, head>>
      /\ UNCHANGED kidVars
  BY DEF kidVars, memVars, gitVars
<1>4. VersionInv'
  BY <1>1, <1>3, StoreVersionInv, ContinuesPrecedes DEF Continues
<1>5. /\ worker.obj.rv \in Nat
      /\ worker.obj.spec \in Nat /\ worker.obj.commit \in Nat
  BY <1>1, CopyTypes
<1>6. WorkerInv'
  <2>1. WorkerInv /\ WellFormed(cr')
    BY DEF IInv, Continues
  <2>2. ASSUME SameOrOlder(worker.obj, cr)
        PROVE  SameOrOlder(worker.obj, cr')
    BY <1>1, <1>2, <1>5, <2>2 DEF SameOrOlder
  <2>3. worker.pc \in Finalizing /\ cr'.finalizer => cr'.deleting
    BY <2>1 DEF WorkerInv, Continues, WellFormed
  <2>4. CreatingInv'
    <3>1. SUFFICES ASSUME worker.pc \in Creating, NEW o \in Versions \cup {cr'}
                   PROVE  /\ cr'.finalizer
                          /\ o.finalizer => /\ worker.obj.uid = o.uid
                                            /\ worker.obj.spec <= o.spec
                                            /\ worker.obj.commit <= o.commit
      BY <1>1, <1>3, <3>1 DEF CreatingInv
    <3>2. /\ cr.finalizer
          /\ \A v \in Versions : v.finalizer =>
                /\ worker.obj.uid = v.uid
                /\ worker.obj.spec <= v.spec /\ worker.obj.commit <= v.commit
      BY <2>1, <3>1 DEF WorkerInv, CreatingInv
    <3>3. cr'.finalizer /\ cr'.present /\ cr'.uid = cr.uid
          /\ cr.spec <= cr'.spec /\ cr.commit <= cr'.commit
      BY <2>1, <3>2 DEF Continues, WellFormed
    <3>4. /\ worker.obj.uid = cr.uid
          /\ worker.obj.spec <= cr.spec /\ worker.obj.commit <= cr.commit
      BY <1>1, <3>2
    <3>5. QED
      BY <1>2, <1>5, <3>1, <3>2, <3>3, <3>4
  <2>5. QED
    BY <1>1, <1>3, <2>1, <2>2, <2>3, <2>4 DEF WorkerInv
<1>7. PollInv'
  <2>1. PollInv
    BY DEF IInv
  <2>2. clone' # 0 => \A o \in Versions' : o.commit <= clone'
    BY <1>1, <1>3, <2>1 DEF PollInv, Continues
  <2>3. poll'.pc # "idle" => poll' = poll
    BY DEF IdlePoll
  <2>4. ASSUME poll'.pc = "put"
        PROVE  poll'.obj.rv <= cr'.rv /\ poll'.obj.rv # cr'.rv
    <3>1. poll' = poll /\ poll.pc = "put" /\ poll.obj.rv \in Nat /\ poll.obj.rv <= cr.rv
      BY <1>1, <2>1, <2>3, <2>4 DEF PollInv, TypeOK, Object
    <3>2. QED
      BY <1>1, <1>2, <3>1
  <2>5. QED
    BY <1>3, <2>1, <2>2, <2>3, <2>4 DEF PollInv
<1>8. DeploymentInv'
  <2> DEFINE d == children["deployment"]
  <2>1. SUFFICES ASSUME d # None
        PROVE  /\ d.uid <= cr'.uid
               /\ cr'.present /\ d.uid = cr'.uid => cr'.finalizer
               /\ \A o \in Versions' : o.finalizer /\ o.uid = d.uid
                     => d.spec <= o.spec /\ d.commit <= o.commit
               /\ worker.pc \in Secrets \cup {"deployment"} /\ worker.obj.uid = d.uid
                     => d.spec <= worker.obj.spec /\ d.commit <= worker.obj.commit
    BY <1>3 DEF DeploymentInv
  <2>2. d.uid \in Nat /\ d.spec \in Nat /\ d.commit \in Nat
    BY <1>1, <2>1, BoundsAssumption DEF TypeOK, ChildObject, Child, Commit
  <2>3. /\ d.uid <= cr.uid
        /\ cr.present /\ d.uid = cr.uid => cr.finalizer
        /\ \A o \in Versions : o.finalizer /\ o.uid = d.uid
              => d.spec <= o.spec /\ d.commit <= o.commit
        /\ worker.pc \in Secrets \cup {"deployment"} /\ worker.obj.uid = d.uid
              => d.spec <= worker.obj.spec /\ d.commit <= worker.obj.commit
    BY <2>1 DEF IInv, DeploymentInv
  <2>4. d.uid <= cr'.uid /\ (cr'.present /\ d.uid = cr'.uid => cr'.finalizer)
    BY <1>2, <2>2, <2>3 DEF Continues
  <2>5. ASSUME cr'.finalizer, cr'.uid = d.uid
        PROVE  d.spec <= cr'.spec /\ d.commit <= cr'.commit
    <3>1. cr.finalizer /\ cr'.present /\ cr'.uid = cr.uid
      BY <2>5 DEF Continues, WellFormed
    <3>2. d.spec <= cr.spec /\ d.commit <= cr.commit
      BY <1>1, <2>3, <2>5, <3>1
    <3>3. QED
      BY <1>2, <2>2, <3>1, <3>2 DEF Continues
  <2>6. QED
    BY <1>1, <2>3, <2>4, <2>5
<1>9. DataNotOlder'
  BY <1>3, Frame
<1>10. FinalizerProtects'
  BY <1>3 DEF IInv, FinalizerProtects, Continues, WellFormed
<1>11. QED
  BY <1>4, <1>6, <1>7, <1>8, <1>9, <1>10

-----------------------------------------------------------------------------
(* The steps around the operator *)

LEMMA NoObjectType ==
  /\ NoObject \in Object /\ IdleWorker \in [pc : WorkerState, obj : Object, read : Commit]
  /\ IdlePoll \in [pc : PollState, obj : Object, commit : Commit]
<1>1. NoObject \in Object /\ 0 \in Commit
  BY BoundsAssumption DEF NoObject, Object, Commit
<1>2. QED
  BY <1>1 DEF IdleWorker, IdlePoll, WorkerState, PollState

LEMMA CreateKeeps ==
  ASSUME IInv, Create
  PROVE  IInv'
<1> DEFINE obj == [NoObject EXCEPT !.present = TRUE, !.uid = cr.uid + 1]
<1>1. /\ TypeOK /\ ~cr.present /\ cr.uid < MaxLives /\ Store(obj)
      /\ UNCHANGED <<kidVars, worker, memVars, poll, gitVars, faults, queued>>
  BY DEF IInv, Create, outside
<1>2. cr.uid \in Nat /\ cr.finalizer = FALSE
  <2>1. cr \in Object /\ WellFormed(cr)
    BY <1>1, VersionTypes DEF IInv, VersionInv, Versions
  <2>2. QED
    BY <1>1, <2>1 DEF Object, WellFormed
<1>3. obj \in Object
  <2>1. cr.uid + 1 \in 0 .. MaxLives
    BY <1>1, <1>2, BoundsAssumption
  <2>2. QED
    BY <2>1, NoObjectType DEF Object
<1>4. /\ cr' = [obj EXCEPT !.rv = cr.rv + 1] /\ cr' \in Object /\ cache' = cache
      /\ watch' \in Seq(Object)
  BY <1>1, <1>3, StoreVersions
<1>5. Continues
  <2>1. /\ cr'.uid = cr.uid + 1 /\ cr'.finalizer = FALSE
        /\ cr'.deleting = FALSE /\ cr'.commit = 0
    BY <1>4 DEF NoObject
  <2>2. clone \in Nat /\ head \in Nat
    BY <1>1, CopyTypes
  <2>3. WellFormed(cr')
    BY <1>2, <2>1 DEF WellFormed
  <2>4. /\ cr'.commit <= head /\ (clone # 0 => cr'.commit <= clone)
        /\ cr.uid <= cr'.uid /\ cr'.uid # cr.uid
    BY <1>2, <2>1, <2>2
  <2>5. cr'.finalizer = cr.finalizer
    BY <1>2, <2>1
  <2>6. ~cr.finalizer
    BY <1>2
  <2>7. QED
    BY <2>3, <2>4, <2>5, <2>6 DEF Continues
<1>6. TypeOK'
  BY <1>1, <1>4 DEF TypeOK, kidVars, memVars, gitVars
<1>7. QED
  BY <1>1, <1>3, <1>5, <1>6, ContinuesKeeps DEF IInv

LEMMA EditSpecKeeps ==
  ASSUME IInv, EditSpec
  PROVE  IInv'
<1> DEFINE obj == [cr EXCEPT !.spec = cr.spec + 1]
<1>1. /\ TypeOK /\ cr.present /\ cr.spec < MaxEdits /\ Store(obj)
      /\ UNCHANGED <<kidVars, worker, memVars, poll, gitVars, faults, queued>>
  BY DEF IInv, EditSpec, outside
<1>2. /\ cr \in Object /\ cr.spec \in Nat /\ cr.uid \in Nat /\ cr.commit \in Nat
      /\ WellFormed(cr) /\ cr.commit <= head /\ (clone # 0 => cr.commit <= clone)
  BY <1>1, VersionTypes, BoundsAssumption
  DEF Object, Commit, IInv, VersionInv, PollInv, Versions
<1>3. obj \in Object
  BY <1>1, <1>2, BoundsAssumption DEF Object
<1>4. cr' = [obj EXCEPT !.rv = cr.rv + 1] /\ cr' \in Object /\ cache' = cache
      /\ watch' \in Seq(Object)
  BY <1>1, <1>3, StoreVersions
<1>5. /\ cr'.present = cr.present /\ cr'.uid = cr.uid /\ cr'.finalizer = cr.finalizer
      /\ cr'.deleting = cr.deleting /\ cr'.spec = cr.spec + 1 /\ cr'.commit = cr.commit
  BY <1>2, <1>4 DEF Object
<1>6. Continues
  BY <1>1, <1>2, <1>5 DEF Continues, WellFormed
<1>7. TypeOK'
  BY <1>1, <1>4 DEF TypeOK, kidVars, memVars, gitVars
<1>8. QED
  BY <1>1, <1>3, <1>6, <1>7, ContinuesKeeps DEF IInv

LEMMA DeleteKeeps ==
  ASSUME IInv, Delete
  PROVE  IInv'
<1> DEFINE obj == IF cr.finalizer THEN [cr EXCEPT !.deleting = TRUE] ELSE Gone
<1>1. /\ TypeOK /\ cr.present /\ Store(obj)
      /\ UNCHANGED <<kidVars, worker, memVars, poll, gitVars, faults, queued>>
  BY DEF IInv, Delete, outside
<1>2. /\ cr \in Object /\ cr.spec \in Nat /\ cr.uid \in Nat /\ cr.commit \in Nat
      /\ WellFormed(cr) /\ cr.commit <= head /\ (clone # 0 => cr.commit <= clone)
  BY <1>1, VersionTypes, BoundsAssumption
  DEF Object, Commit, IInv, VersionInv, PollInv, Versions
<1>3. Gone \in Object
  BY <1>2, NoObjectType DEF Gone, Object
<1>4. obj \in Object
  BY <1>2, <1>3 DEF Object
<1>5. cr' = [obj EXCEPT !.rv = cr.rv + 1] /\ cr' \in Object /\ cache' = cache
      /\ watch' \in Seq(Object)
  BY <1>1, <1>4, StoreVersions
<1>6. Continues
  <2>1. CASE cr.finalizer
    <3>1. obj = [cr EXCEPT !.deleting = TRUE]
      BY <2>1
    <3>2. /\ cr'.present /\ cr'.uid = cr.uid /\ cr'.finalizer = cr.finalizer
          /\ cr'.deleting /\ cr'.spec = cr.spec /\ cr'.commit = cr.commit
      BY <1>1, <1>2, <1>5, <3>1 DEF Object
    <3>3. QED
      BY <1>1, <1>2, <2>1, <3>2 DEF Continues, WellFormed
  <2>2. CASE ~cr.finalizer
    <3>1. obj = Gone
      BY <2>2
    <3>2. /\ cr'.present = FALSE /\ cr'.uid = cr.uid /\ cr'.finalizer = FALSE
          /\ cr'.deleting = FALSE /\ cr'.commit = 0
      BY <1>5, <3>1 DEF Gone, NoObject
    <3>3. cr.finalizer = FALSE
      BY <1>2, <2>2 DEF Object
    <3>4. clone \in Nat /\ head \in Nat
      BY <1>1, CopyTypes
    <3>5. WellFormed(cr')
      BY <3>2 DEF WellFormed
    <3>6. /\ cr'.commit <= head /\ (clone # 0 => cr'.commit <= clone)
          /\ cr.uid <= cr'.uid
      BY <1>2, <3>2, <3>4
    <3>7. cr'.finalizer = cr.finalizer
      BY <3>2, <3>3
    <3>8. ~cr.finalizer /\ ~cr'.present
      BY <3>2, <3>3
    <3>9. QED
      BY <3>5, <3>6, <3>7, <3>8 DEF Continues
  <2>3. QED
    BY <2>1, <2>2
<1>7. TypeOK'
  BY <1>1, <1>5 DEF TypeOK, kidVars, memVars, gitVars
<1>8. QED
  BY <1>1, <1>4, <1>6, <1>7, ContinuesKeeps DEF IInv

LEMMA CollectGarbageKeeps ==
  ASSUME IInv, NEW c \in Child, CollectGarbage(c)
  PROVE  IInv'
<1>1. /\ TypeOK
      /\ children' = [children EXCEPT ![c] = None]
      /\ UNCHANGED <<apiVars, seen, queued, worker, memVars, poll, gitVars, faults>>
  BY DEF IInv, CollectGarbage, outside
<1>2. UNCHANGED apiVars /\ head' = head /\ clone' = clone /\ head' \in Nat /\ head \in Nat
  BY <1>1, CopyTypes DEF gitVars
<1>3. TypeOK'
  BY <1>1 DEF TypeOK, apiVars, memVars, gitVars
<1>4. children \in [Child -> ChildObject \cup {None}]
  BY <1>1 DEF TypeOK
<1>5. DeploymentInv'
  <2>1. CASE c = "deployment"
    <3>1. children'["deployment"] = None
      BY <1>1, <1>4, <2>1
    <3>2. QED
      BY <3>1 DEF DeploymentInv
  <2>2. CASE c # "deployment"
    <3>1. children'["deployment"] = children["deployment"]
      BY <1>1, <1>4, <2>2 DEF Child
    <3>2. QED
      BY <1>1, <3>1, Frame
  <2>3. QED
    BY <2>1, <2>2
<1>6. DataNotOlder'
  <2>1. "data" \in Child
    BY DEF Child
  <2>2. children'["data"] \in {children["data"], None}
    BY <1>1, <1>4, <2>1
  <2>3. "data" \in Existing' => "data" \in Existing /\ children'["data"] = children["data"]
    BY <2>1, <2>2 DEF Existing
  <2>4. QED
    BY <1>1, <2>3 DEF IInv, DataNotOlder
<1>7. VersionInv' /\ WorkerInv' /\ PollInv' /\ FinalizerProtects'
  BY <1>1, <1>2, Frame DEF apiVars, memVars
<1>8. QED
  BY <1>3, <1>5, <1>6, <1>7 DEF IInv

LEMMA PushKeeps ==
  ASSUME IInv, Push
  PROVE  IInv'
<1>1. /\ TypeOK /\ head < MaxCommit /\ head' = head + 1
      /\ UNCHANGED <<apiVars, kidVars, queued, clone, worker, memVars, poll, faults>>
  BY DEF IInv, Push, outside
<1>2. head \in Nat /\ clone \in Nat /\ head' \in Commit /\ head <= head' /\ head' \in Nat
      /\ clone <= head'
  BY <1>1, CopyTypes, BoundsAssumption DEF TypeOK, Commit
<1>3. TypeOK'
  BY <1>1, <1>2 DEF TypeOK, apiVars, kidVars, memVars
<1>4. UNCHANGED <<cr, children>>
  BY <1>1 DEF apiVars, kidVars
<1>5. QED
  BY <1>1, <1>2, <1>3, <1>4, Frame DEF IInv

LEMMA DeliverKeeps ==
  ASSUME IInv, Deliver
  PROVE  IInv'
<1>1. /\ TypeOK /\ VersionInv /\ queued' = TRUE
      /\ UNCHANGED <<cr, children, seen, worker, watcher, collector, process, poll, clone, head, faults>>
  BY DEF IInv, Deliver, outside, kidVars, memVars, gitVars
<1>2. /\ VersionInv' /\ Versions' \subseteq Versions
      /\ cache' \in Object /\ watch' \in Seq(Object) /\ cache.rv <= cache'.rv
  BY <1>1, DeliverVersionInv
<1>3. TypeOK'
  BY <1>1, <1>2 DEF TypeOK
<1>4. cache.rv \in Nat /\ cache'.rv \in Nat
  BY <1>1, <1>2, VersionTypes DEF Object
<1>5. WorkerInv'
  <2>1. WorkerInv
    BY DEF IInv
  <2>2. worker.pc \in {"addFinalizer", "removeFinalizer"} => worker.obj.rv <= cache'.rv
    BY <1>1, <1>2, <1>4, <2>1, CopyTypes DEF WorkerInv
  <2>3. CreatingInv'
    BY <1>1, <1>2, <2>1 DEF WorkerInv, CreatingInv
  <2>4. QED
    BY <1>1, <2>1, <2>2, <2>3 DEF WorkerInv
<1>6. PollInv'
  BY <1>1, <1>2 DEF IInv, PollInv
<1>7. DeploymentInv'
  BY <1>1, <1>2 DEF IInv, DeploymentInv
<1>8. DataNotOlder' /\ FinalizerProtects'
  BY <1>1, Frame DEF memVars
<1>9. QED
  BY <1>2, <1>3, <1>5, <1>6, <1>7, <1>8 DEF IInv

LEMMA DeliverChildrenKeeps ==
  ASSUME IInv, DeliverChildren
  PROVE  IInv'
<1>1. /\ TypeOK /\ seen' = Existing
      /\ UNCHANGED <<apiVars, children, queued, worker, memVars, poll, gitVars, faults>>
  BY DEF IInv, DeliverChildren, outside
<1>2. TypeOK'
  BY <1>1 DEF TypeOK, apiVars, memVars, gitVars, Existing
<1>3. head' \in Nat /\ head <= head' /\ UNCHANGED <<cr, clone>>
  BY <1>1, CopyTypes DEF gitVars, apiVars
<1>4. QED
  BY <1>1, <1>2, <1>3, Frame DEF IInv

LEMMA ResyncKeeps ==
  ASSUME IInv, Resync
  PROVE  IInv'
<1>1. /\ TypeOK /\ queued' = TRUE
      /\ UNCHANGED <<apiVars, kidVars, worker, memVars, poll, gitVars, faults>>
  BY DEF IInv, Resync, outside
<1>2. TypeOK'
  BY <1>1 DEF TypeOK, apiVars, kidVars, memVars, gitVars
<1>3. head' \in Nat /\ head <= head' /\ UNCHANGED <<cr, children, clone>>
  BY <1>1, CopyTypes DEF gitVars, apiVars, kidVars
<1>4. QED
  BY <1>1, <1>2, <1>3, Frame DEF IInv

LEMMA EnvironmentKeeps ==
  ASSUME IInv, Environment
  PROVE  IInv'
  BY CreateKeeps, EditSpecKeeps, DeleteKeeps, PushKeeps, CollectGarbageKeeps,
     DeliverKeeps, DeliverChildrenKeeps, ResyncKeeps
  DEF Environment

-----------------------------------------------------------------------------
(* The data loop, and a restart *)

LEMMA SyncRepoKeeps ==
  ASSUME IInv, SyncRepo
  PROVE  IInv'
<1>1. /\ TypeOK /\ head # 0 /\ clone' = head /\ head' = head
      /\ poll' = [poll EXCEPT !.pc = "check", !.commit = head]
      /\ UNCHANGED <<apiVars, kidVars, queued, worker, memVars, faults>>
  BY DEF IInv, SyncRepo, polling
<1>2. /\ head \in Commit /\ head \in Nat
      /\ poll \in [pc : PollState, obj : Object, commit : Commit]
  BY <1>1, CopyTypes DEF TypeOK
<1>3. poll'.pc = "check" /\ poll'.commit = head
      /\ poll' \in [pc : PollState, obj : Object, commit : Commit]
  BY <1>1, <1>2 DEF PollState
<1>4. TypeOK'
  BY <1>1, <1>2, <1>3 DEF TypeOK, apiVars, kidVars, memVars
<1>5. PollInv'
  BY <1>1, <1>3, SameVersions DEF IInv, VersionInv, PollInv
<1>6. UNCHANGED <<cr, children>>
  BY <1>1 DEF apiVars, kidVars
<1>7. QED
  BY <1>1, <1>2, <1>4, <1>5, <1>6, Frame DEF IInv

LEMMA CheckKeeps ==
  ASSUME IInv, Check
  PROVE  IInv'
<1>1. /\ TypeOK /\ poll.pc = "check"
      /\ poll' = IF watcher /\ cache.present /\ cache.commit # poll.commit
                 THEN [poll EXCEPT !.pc = "apply"] ELSE IdlePoll
      /\ UNCHANGED <<apiVars, clone, kidVars, queued, worker, memVars, faults, head>>
  BY DEF IInv, Check, polling
<1>2. /\ poll' \in [pc : PollState, obj : Object, commit : Commit]
      /\ poll'.pc # "put"
      /\ poll'.pc # "idle" => poll'.commit = poll.commit
  BY <1>1, NoObjectType DEF TypeOK, PollState, IdlePoll
<1>3. TypeOK'
  BY <1>1, <1>2 DEF TypeOK, apiVars, kidVars, memVars
<1>4. PollInv'
  BY <1>1, <1>2, SameVersions DEF IInv, PollInv
<1>5. head' \in Nat /\ head <= head' /\ UNCHANGED <<cr, children>>
  BY <1>1, CopyTypes DEF apiVars, kidVars
<1>6. QED
  BY <1>1, <1>3, <1>4, <1>5, Frame DEF IInv

(* The copy that the data loop will write is an old version, or it differs *)
(* from the stored one in its commit alone.                                *)
LEMMA ReadManifestKeeps ==
  ASSUME IInv, ReadManifest
  PROVE  IInv'
<1> DEFINE copy == [cache EXCEPT !.commit = poll.commit]
<1>1. /\ TypeOK /\ poll.pc = "apply"
      /\ \/ poll' = [poll EXCEPT !.pc = "put", !.obj = copy]
         \/ poll' = IdlePoll
      /\ UNCHANGED <<apiVars, clone, kidVars, queued, worker, memVars, faults, head>>
  BY DEF IInv, ReadManifest, polling
<1>2. /\ cache \in Object /\ cache \in Versions /\ SameOrOlder(cache, cr)
      /\ poll.commit \in Commit
      /\ poll \in [pc : PollState, obj : Object, commit : Commit]
  BY <1>1, VersionTypes, CopyTypes DEF IInv, VersionInv, Versions, Precedes, TypeOK
<1>3. copy \in Object /\ copy.rv = cache.rv
  BY <1>2 DEF Object
<1>4. /\ poll' \in [pc : PollState, obj : Object, commit : Commit]
      /\ poll'.pc # "idle" => poll'.commit = poll.commit /\ poll'.obj = copy
  BY <1>1, <1>2, <1>3, NoObjectType DEF PollState, IdlePoll
<1>5. TypeOK'
  BY <1>1, <1>4 DEF TypeOK, apiVars, kidVars, memVars
<1>6. poll'.pc = "put" =>
          /\ poll'.obj.rv <= cr.rv
          /\ poll'.obj.rv = cr.rv => poll'.obj = [cr EXCEPT !.commit = poll'.commit]
  BY <1>2, <1>3, <1>4 DEF SameOrOlder
<1>7. PollInv'
  <2>1. UNCHANGED <<cr, clone>> /\ Versions' = Versions
    BY <1>1, SameVersions DEF apiVars
  <2>2. QED
    BY <1>1, <1>4, <1>6, <2>1 DEF IInv, PollInv
<1>8. head' \in Nat /\ head <= head' /\ UNCHANGED <<cr, children>>
  BY <1>1, CopyTypes DEF apiVars, kidVars
<1>9. QED
  BY <1>1, <1>5, <1>7, <1>8, Frame DEF IInv

LEMMA IdlePollKeeps ==
  ASSUME IInv, poll' = IdlePoll, faults' \in 0 .. MaxFaults,
         UNCHANGED <<apiVars, clone, polling>>
  PROVE  IInv'
<1>1. /\ TypeOK /\ poll' \in [pc : PollState, obj : Object, commit : Commit]
      /\ poll'.pc = "idle"
      /\ UNCHANGED <<apiVars, clone, kidVars, queued, worker, memVars, head>>
  BY NoObjectType DEF IInv, IdlePoll, polling
<1>2. TypeOK'
  BY <1>1 DEF TypeOK, apiVars, kidVars, memVars
<1>3. PollInv'
  BY <1>1, SameVersions DEF IInv, PollInv
<1>4. head' \in Nat /\ head <= head' /\ UNCHANGED <<cr, children>>
  BY <1>1, CopyTypes DEF apiVars, kidVars
<1>5. QED
  BY <1>1, <1>2, <1>3, <1>4, Frame DEF IInv

(* What the data loop stores: the current object with the commit of the    *)
(* working copy, which is not older than the object's.                     *)
LEMMA StoredManifest ==
  ASSUME IInv, poll.pc = "put", Current(poll.obj), Put(poll.obj), ~UNCHANGED apiVars
  PROVE  /\ poll.obj \in Object /\ Store(poll.obj)
         /\ cr' = [poll.obj EXCEPT !.rv = cr.rv + 1]
         /\ cr' \in Object /\ watch' \in Seq(Object) /\ cache' = cache
         /\ cr'.present /\ cr'.uid = cr.uid /\ cr'.spec = cr.spec
         /\ cr'.finalizer = cr.finalizer /\ cr'.deleting = cr.deleting
         /\ cr'.commit = clone /\ cr.commit <= clone /\ clone <= head
<1>1. /\ TypeOK /\ poll.obj = [cr EXCEPT !.commit = poll.commit] /\ cr.present
      /\ poll.commit = clone /\ clone # 0 /\ cr \in Versions
  BY DEF IInv, PollInv, Current, Versions
<1>2. cr \in Object /\ poll.obj \in Object
  BY <1>1, VersionTypes, CopyTypes
<1>3. cr.commit <= clone /\ WellFormed(cr) /\ clone <= head
  BY <1>1 DEF IInv, PollInv, VersionInv, TypeOK
<1>4. /\ poll.obj.present = cr.present /\ poll.obj.uid = cr.uid /\ poll.obj.spec = cr.spec
      /\ poll.obj.finalizer = cr.finalizer /\ poll.obj.deleting = cr.deleting
      /\ poll.obj.commit = clone
  BY <1>1, <1>2 DEF Object
<1>5. Store(poll.obj)
  <2>1. ~(poll.obj.deleting /\ ~poll.obj.finalizer)
    BY <1>3, <1>4 DEF WellFormed
  <2>2. QED
    BY <2>1 DEF Put
<1>6. /\ cr' = [poll.obj EXCEPT !.rv = cr.rv + 1]
      /\ cr' \in Object /\ watch' \in Seq(Object) /\ cache' = cache
  BY <1>1, <1>2, <1>5, StoreVersions
<1>7. /\ cr'.present = poll.obj.present /\ cr'.uid = poll.obj.uid
      /\ cr'.spec = poll.obj.spec /\ cr'.commit = poll.obj.commit
      /\ cr'.finalizer = poll.obj.finalizer /\ cr'.deleting = poll.obj.deleting
  BY <1>2, <1>6 DEF Object
<1>8. cr'.present
  BY <1>1, <1>4, <1>7
<1>9. QED
  BY <1>2, <1>3, <1>4, <1>5, <1>6, <1>7, <1>8

LEMMA PutManifestKeeps ==
  ASSUME IInv, PutManifest
  PROVE  IInv'
<1>1. /\ TypeOK /\ poll.pc = "put" /\ poll' = IdlePoll
      /\ UNCHANGED <<clone, faults, polling>>
      /\ UNCHANGED <<kidVars, queued, worker, memVars, gitVars>>
  BY DEF IInv, PutManifest, polling, gitVars
<1>2. CASE UNCHANGED apiVars
  BY <1>1, <1>2, IdlePollKeeps DEF TypeOK
<1>3. CASE ~UNCHANGED apiVars
  <2>1. Current(poll.obj) /\ Put(poll.obj)
    BY <1>3 DEF PutManifest
  <2>2. /\ poll.obj \in Object /\ Store(poll.obj)
        /\ cr' \in Object /\ watch' \in Seq(Object) /\ cache' = cache
        /\ cr'.present /\ cr'.uid = cr.uid /\ cr'.spec = cr.spec
        /\ cr'.finalizer = cr.finalizer /\ cr'.deleting = cr.deleting
        /\ cr'.commit = clone /\ cr.commit <= clone /\ clone <= head
    BY <1>1, <1>3, <2>1, StoredManifest
  <2>3. cr.present /\ WellFormed(cr)
    BY <2>1 DEF Current, IInv, VersionInv, Versions
  <2>4. cr.uid \in Nat /\ cr.spec \in Nat /\ clone \in Nat
    BY <1>1, VersionTypes, CopyTypes, BoundsAssumption DEF Object
  <2>5. WellFormed(cr')
    BY <2>2, <2>3 DEF WellFormed
  <2>6. Continues
    BY <2>2, <2>3, <2>4, <2>5 DEF Continues
  <2>7. TypeOK'
    BY <1>1, <2>2, NoObjectType DEF TypeOK, kidVars, memVars, gitVars
  <2>8. QED
    BY <1>1, <2>2, <2>6, <2>7, ContinuesKeeps DEF IInv
<1>4. QED
  BY <1>2, <1>3

LEMMA DataLoopKeeps ==
  ASSUME IInv, DataLoop \/ PollError
  PROVE  IInv'
<1>1. CASE PollError
  <2>1. faults' \in 0 .. MaxFaults
    BY <1>1, BoundsAssumption DEF PollError, IInv, TypeOK
  <2>2. QED
    BY <1>1, <2>1, IdlePollKeeps DEF PollError
<1>2. QED
  BY <1>1, SyncRepoKeeps, CheckKeeps, ReadManifestKeeps, PutManifestKeeps DEF DataLoop

LEMMA CrashKeeps ==
  ASSUME IInv, Crash
  PROVE  IInv'
<1>1. /\ TypeOK /\ faults < MaxFaults /\ faults' = faults + 1
      /\ cache' = cr /\ watch' = << >> /\ seen' = Existing /\ queued' = cr.present
      /\ worker' = IdleWorker /\ poll' = IdlePoll
      /\ watcher' = FALSE /\ collector' = FALSE /\ process' = process + 1
      /\ clone' \in {clone, 0}
      /\ cr' = cr /\ children' = children /\ head' = head
  BY DEF IInv, Crash
<1>2. cr \in Object /\ cr \in Versions /\ cache \in Object
  BY <1>1, VersionTypes DEF Versions
<1>3. Len(watch') = 0 /\ watch' \in Seq(Object)
  BY <1>1
<1>4. Versions' = {cr}
  BY <1>1, <1>3 DEF Versions
<1>5. TypeOK'
  <2>1. queued' \in BOOLEAN
    BY <1>1, <1>2 DEF Object
  <2>2. clone' \in Commit /\ clone' <= head'
    BY <1>1, BoundsAssumption DEF TypeOK, Commit
  <2>3. faults' \in 0 .. MaxFaults
    BY <1>1, BoundsAssumption DEF TypeOK
  <2>4. worker'.pc = "idle"
    BY <1>1 DEF IdleWorker
  <2>5. process' \in Nat
    BY <1>1 DEF TypeOK
  <2>6. /\ children' \in [Child -> ChildObject \cup {None}] /\ seen' \subseteq Child
        /\ head' \in Commit
    BY <1>1 DEF TypeOK, Existing
  <2>7. {queued', watcher', collector'} \subseteq BOOLEAN /\ {cr', cache'} \subseteq Object
    BY <1>1, <1>2, <2>1
  <2>8. QED
    BY <1>1, <1>3, <2>2, <2>3, <2>4, <2>5, <2>6, <2>7, NoObjectType DEF TypeOK
<1>6. VersionInv'
  <2>1. WellFormed(cr) /\ cr.commit <= head /\ Precedes(cr, cr)
    BY <1>2 DEF IInv, VersionInv
  <2>2. QED
    BY <1>1, <1>3, <1>4, <2>1 DEF VersionInv
<1>7. worker'.pc = "idle" /\ poll'.pc = "idle"
  BY <1>1 DEF IdleWorker, IdlePoll
<1>8. WorkerInv'
  <2>1. "idle" \notin Creating \cup Finalizing
    BY SecretsAssumption DEF Creating, Finalizing, Child
  <2>2. QED
    BY <1>7, <2>1 DEF WorkerInv, CreatingInv
<1>9. PollInv'
  BY <1>1, <1>2, <1>4, <1>7 DEF IInv, PollInv
<1>10. DeploymentInv'
  <2>1. "idle" \notin Secrets \cup {"deployment"}
    BY SecretsAssumption
  <2>2. QED
    BY <1>1, <1>2, <1>4, <1>7, <2>1 DEF IInv, DeploymentInv
<1>11. DataNotOlder' /\ FinalizerProtects'
  BY <1>1, <1>7 DEF DataNotOlder, FinalizerProtects
<1>12. QED
  BY <1>5, <1>6, <1>8, <1>9, <1>10, <1>11 DEF IInv

-----------------------------------------------------------------------------
(* The reconcile worker *)

LEMMA Names ==
  /\ FirstChild \in Secrets
  /\ Secrets \subseteq {"collectorTokens", "tokens"}
  /\ Secrets \cap Finalizing = {} /\ Creating \cap Finalizing = {}
  /\ "idle" \notin Creating \cup Finalizing /\ "addFinalizer" \notin Creating \cup Finalizing
  /\ Creating \subseteq WorkerState /\ Finalizing \subseteq WorkerState
  /\ Secrets \subseteq Creating
  /\ {"deployment", "data", "read", "watch", "collector"} \subseteq Creating
<1>1. "tokens" \in Secrets /\ Secrets \subseteq {"collectorTokens", "tokens"}
  BY SecretsAssumption
<1>2. FirstChild \in Secrets
  BY <1>1 DEF FirstChild
<1>3. QED
  BY <1>1, <1>2 DEF Creating, Finalizing, Child, WorkerState

(* The worker's step concerns nothing but itself, and it is idle after it. *)
LEMMA IdleKeeps ==
  ASSUME IInv, worker' \in [pc : {"idle"}, obj : Object, read : Commit],
         queued' \in BOOLEAN, faults' \in 0 .. MaxFaults, process' \in Nat, watcher' = watcher,
         collector' \in BOOLEAN, collector' => cr.present /\ cr.finalizer,
         UNCHANGED <<apiVars, kidVars, poll, gitVars>>
  PROVE  IInv'
<1>1. /\ TypeOK /\ worker'.pc = "idle"
      /\ worker' \in [pc : WorkerState, obj : Object, read : Commit]
      /\ UNCHANGED <<cr, children, clone, head>> /\ head' \in Nat /\ head <= head'
  BY CopyTypes DEF IInv, WorkerState, apiVars, kidVars, gitVars
<1>2. TypeOK'
  BY <1>1 DEF TypeOK, apiVars, kidVars, gitVars
<1>3. WorkerInv'
  BY <1>1, Names DEF WorkerInv, CreatingInv
<1>4. DeploymentInv'
  BY <1>1, Names, SameVersions DEF IInv, DeploymentInv
<1>5. DataNotOlder' /\ FinalizerProtects'
  BY <1>1 DEF DataNotOlder, FinalizerProtects, IInv
<1>6. QED
  BY <1>1, <1>2, <1>3, <1>4, <1>5, Frame DEF IInv

LEMMA FailKeeps ==
  ASSUME IInv, Fail, faults' \in 0 .. MaxFaults,
         UNCHANGED <<apiVars, kidVars, memVars, poll, gitVars>>
  PROVE  IInv'
<1>1. worker' \in [pc : {"idle"}, obj : Object, read : Commit] /\ queued' \in BOOLEAN
  <2>1. IdleWorker.pc = "idle"
    BY DEF IdleWorker
  <2>2. QED
    BY <2>1, NoObjectType DEF Fail, IdleWorker
<1>2. /\ watcher' = watcher /\ collector' \in BOOLEAN
      /\ (collector' => cr.present /\ cr.finalizer) /\ process' \in Nat
  BY DEF memVars, IInv, TypeOK, FinalizerProtects
<1>3. QED
  BY <1>1, <1>2, IdleKeeps

LEMMA WorkerErrorKeeps ==
  ASSUME IInv, WorkerError
  PROVE  IInv'
<1>1. faults' \in 0 .. MaxFaults
  BY BoundsAssumption DEF WorkerError, IInv, TypeOK
<1>2. QED
  BY <1>1, FailKeeps DEF WorkerError

(* What the cached version tells of the others. *)
LEMMA FromTheCache ==
  ASSUME IInv, NEW o \in Versions
  PROVE  Precedes(cache, o)
<1>1. cache \in Object /\ VersionInv
  BY VersionTypes DEF IInv
<1>2. o = cr \/ o = cache \/ \E i \in 1 .. Len(watch) : o = watch[i]
  BY DEF Versions
<1>3. Precedes(cache, cache)
  BY <1>1, Reflexive
<1>4. cache \in Versions
  BY DEF Versions
<1>5. QED
  BY <1>1, <1>2, <1>3, <1>4 DEF VersionInv

LEMMA ReconcileKeeps ==
  ASSUME IInv, Reconcile
  PROVE  IInv'
<1> DEFINE pc == IF ~cache.present THEN "idle"
                 ELSE IF ~cache.finalizer THEN "addFinalizer"
                 ELSE IF cache.deleting THEN "finalize"
                 ELSE FirstChild
<1>1. /\ TypeOK /\ queued' = FALSE /\ worker' = [pc |-> pc, obj |-> cache, read |-> 0]
      /\ UNCHANGED <<apiVars, kidVars, memVars, poll, gitVars, faults>>
  BY DEF IInv, Reconcile
<1>2. /\ cr \in Versions /\ cache \in Versions /\ cr \in Object /\ cache \in Object
      /\ WellFormed(cache) /\ WellFormed(cr) /\ Precedes(cache, cr)
      /\ 0 \in Commit /\ cache.rv \in Nat
  BY <1>1, VersionTypes, BoundsAssumption DEF IInv, VersionInv, Versions, Commit, Object
<1>3. worker'.obj = cache /\ worker'.read = 0 /\ worker'.pc = pc
  BY <1>1
<1>4. /\ UNCHANGED <<cr, cache, children, watcher, collector, process, clone, head>>
      /\ head' \in Nat /\ head <= head' /\ Versions' = Versions
  BY <1>1, CopyTypes, SameVersions DEF apiVars, kidVars, memVars, gitVars
<1>5. CASE ~cache.present
  <2>1. worker' \in [pc : {"idle"}, obj : Object, read : Commit]
    BY <1>1, <1>2, <1>5
  <2>2. /\ queued' \in BOOLEAN /\ faults' \in 0 .. MaxFaults /\ collector' \in BOOLEAN
        /\ (collector' => cr.present /\ cr.finalizer) /\ process' \in Nat
    BY <1>1, <1>4 DEF TypeOK, IInv, FinalizerProtects
  <2>3. QED
    BY <1>1, <1>4, <2>1, <2>2, IdleKeeps
<1>6. CASE cache.present
  <2>1. \/ pc = "addFinalizer" /\ ~cache.finalizer
        \/ pc = "finalize" /\ cache.finalizer /\ cache.deleting
        \/ pc = FirstChild /\ cache.finalizer /\ ~cache.deleting
    BY <1>6
  <2>2. /\ pc \in {"addFinalizer", "finalize"} \cup Secrets
        /\ pc \in WorkerState
    BY <2>1, Names DEF Finalizing, WorkerState
  <2>3. TypeOK'
    <3>1. worker' \in [pc : WorkerState, obj : Object, read : Commit]
      BY <1>1, <1>2, <2>2
    <3>2. QED
      BY <1>1, <1>3, <1>6, <3>1 DEF TypeOK, apiVars, kidVars, memVars, gitVars
  <2>4. WorkerInv'
    <3>1. pc = "addFinalizer" => ~cache.finalizer
      BY <2>1, Names
    <3>2. SameOrOlder(cache, cr) /\ cache.rv <= cache.rv
      BY <1>2 DEF Precedes
    <3>3. pc \in Finalizing /\ cr.finalizer => cr.deleting
      BY <1>2, <2>1, Names DEF Finalizing, Precedes, WellFormed
    <3>4. pc \notin {"refetch", "removeFinalizer", "data"}
      BY <2>2, Names
    <3>5. CreatingInv'
      <4>1. SUFFICES ASSUME pc \in Creating
                     PROVE  /\ cr.finalizer
                            /\ \A o \in Versions : o.finalizer =>
                                  /\ cache.uid = o.uid
                                  /\ cache.spec <= o.spec /\ cache.commit <= o.commit
        BY <1>3, <1>4 DEF CreatingInv
      <4>2. cache.finalizer /\ ~cache.deleting
        BY <2>1, <4>1, Names DEF Finalizing
      <4>3. ASSUME NEW o \in Versions, o.finalizer
            PROVE  /\ cache.uid = o.uid
                   /\ cache.spec <= o.spec /\ cache.commit <= o.commit
        <5>1. Precedes(cache, o) /\ WellFormed(o)
          BY <4>3, FromTheCache DEF IInv, VersionInv
        <5>2. QED
          BY <4>2, <4>3, <5>1 DEF Precedes, WellFormed
      <4>4. QED
        BY <1>2, <4>2, <4>3 DEF Precedes
    <3>6. QED
      BY <1>2, <1>3, <1>4, <3>1, <3>2, <3>3, <3>4, <3>5 DEF WorkerInv
  <2>5. DeploymentInv'
    <3>1. pc \in Secrets \cup {"deployment"} => cache.finalizer
      BY <2>1, Names
    <3>2. QED
      BY <1>2, <1>3, <1>4, <3>1 DEF IInv, DeploymentInv
  <2>6. DataNotOlder'
    BY <1>3, <2>2, Names DEF DataNotOlder
  <2>7. VersionInv' /\ PollInv' /\ FinalizerProtects'
    BY <1>1, <1>4, Frame DEF memVars
  <2>8. QED
    BY <2>3, <2>4, <2>5, <2>6, <2>7 DEF IInv
<1>7. QED
  BY <1>5, <1>6

(* A write of the worker with a copy that came from the cache only goes    *)
(* through when nothing is on its way: the cache has the stored version.   *)
LEMMA UpToDate ==
  ASSUME IInv, worker.pc \in {"addFinalizer", "removeFinalizer"}, Current(worker.obj)
  PROVE  worker.obj = cr /\ Versions = {cr} /\ cr.present
<1>1. /\ SameOrOlder(worker.obj, cr) /\ worker.obj.rv <= cache.rv
      /\ worker.obj.rv = cr.rv /\ cr.present
  BY DEF IInv, WorkerInv, Current
<1>2. cr \in Object /\ cache \in Object /\ cr.rv \in Nat /\ cache.rv \in Nat /\ cr \in Versions
  BY VersionTypes DEF IInv, Object, Versions
<1>3. ASSUME NEW o \in Versions
      PROVE  o = cr
  <2>1. SameOrOlder(cache, o) /\ SameOrOlder(o, cr)
    BY FromTheCache DEF IInv, VersionInv, Precedes
  <2>2. o.rv \in Nat
    BY VersionTypes DEF IInv, Object
  <2>3. o.rv = cr.rv
    BY <1>1, <1>2, <2>1, <2>2 DEF SameOrOlder
  <2>4. QED
    BY <2>1, <2>3 DEF SameOrOlder
<1>4. QED
  BY <1>1, <1>2, <1>3 DEF SameOrOlder

LEMMA AddFinalizerKeeps ==
  ASSUME IInv, AddFinalizer
  PROVE  IInv'
<1> DEFINE obj == [worker.obj EXCEPT !.finalizer = TRUE]
<1>1. /\ TypeOK /\ VersionInv /\ worker.pc = "addFinalizer"
      /\ UNCHANGED <<kidVars, memVars, poll, gitVars, faults>>
  BY DEF IInv, AddFinalizer
<1>2. CASE Fail /\ UNCHANGED apiVars
  BY <1>1, <1>2, FailKeeps DEF IInv, TypeOK
<1>3. CASE Current(worker.obj) /\ Put(obj) /\ GoOn(FirstChild, cr')
  <2>1. worker.obj = cr /\ Versions = {cr} /\ cr.present
    BY <1>1, <1>3, UpToDate
  <2>2. /\ cr \in Object /\ cr.finalizer = FALSE /\ obj \in Object
        /\ WellFormed(cr) /\ cr.commit <= head /\ (clone # 0 => cr.commit <= clone)
    <3>1. cr \in Object /\ ~cr.finalizer
      BY <1>1, <2>1, VersionTypes DEF IInv, WorkerInv
    <3>2. WellFormed(cr) /\ cr.commit <= head /\ (clone # 0 => cr.commit <= clone)
      BY <2>1 DEF IInv, VersionInv, PollInv
    <3>3. QED
      BY <2>1, <3>1, <3>2 DEF Object
  <2>3. obj.finalizer = TRUE
    BY <2>1, <2>2 DEF Object
  <2>4. Store(obj)
    BY <1>3, <2>1, <2>2, <2>3 DEF Put
  <2>5. /\ cr' = [obj EXCEPT !.rv = cr.rv + 1]
        /\ cr' \in Object /\ watch' \in Seq(Object) /\ cache' = cache
        /\ Versions' \subseteq {cr, cr'}
    BY <1>1, <2>1, <2>2, <2>4, StoreVersions
  <2>6. /\ cr'.rv = cr.rv + 1 /\ cr'.uid = cr.uid /\ cr'.spec = cr.spec /\ cr'.commit = cr.commit
    BY <2>1, <2>2, <2>5 DEF Object
  <2>7. cr'.present = cr.present /\ cr'.deleting = cr.deleting /\ cr'.finalizer = TRUE
    BY <2>1, <2>2, <2>5 DEF Object
  <2>8. cr.rv \in Nat /\ cr.uid \in Nat /\ cr.spec \in Nat /\ cr.commit \in Nat
    BY <2>2, BoundsAssumption DEF Object, Commit
  <2>9. cr'.present /\ WellFormed(cr')
    BY <2>1, <2>2, <2>6, <2>7 DEF WellFormed
  <2>10. Precedes(cr, cr')
    BY <2>2, <2>6, <2>7, <2>8 DEF Precedes, SameOrOlder
  <2>11. worker'.pc = FirstChild /\ worker'.obj = cr' /\ worker'.read = 0
         /\ queued' = queued
    BY <1>3 DEF GoOn
  <2>12. UNCHANGED <<children, seen, watcher, collector, process, clone, head>>
    BY <1>1 DEF kidVars, memVars, gitVars
  <2>13. TypeOK'
    <3>1. 0 \in Commit /\ FirstChild \in WorkerState
      BY Names, BoundsAssumption DEF Commit
    <3>2. worker' \in [pc : WorkerState, obj : Object, read : Commit]
      BY <1>3, <2>5, <3>1 DEF GoOn
    <3>3. QED
      BY <1>1, <2>5, <2>9, <2>11, <2>12, <3>2 DEF TypeOK
  <2>14. VersionInv'
    BY <1>1, <2>1, <2>2, <2>4, <2>6, <2>9, <2>10, <2>12, StoreVersionInv
  <2>15. WorkerInv'
    <3>1. FirstChild \notin Finalizing \cup {"addFinalizer", "data"}
      BY Names
    <3>2. ASSUME NEW o \in Versions', o.finalizer
          PROVE  o = cr'
      BY <2>2, <2>5, <3>2
    <3>3. CreatingInv'
      BY <2>6, <2>7, <2>8, <2>11, <3>2 DEF CreatingInv
    <3>4. QED
      BY <2>9, <2>11, <3>1, <3>3 DEF WorkerInv, Finalizing
  <2>16. PollInv'
    <3>1. poll.pc = "put" => poll.obj.rv <= cr'.rv /\ poll.obj.rv # cr'.rv
      BY <1>1, <2>6, <2>8, CopyTypes DEF IInv, PollInv
    <3>2. \A o \in Versions' : o.commit = cr.commit
      BY <2>5, <2>6
    <3>3. QED
      BY <1>1, <2>2, <2>12, <3>1, <3>2 DEF IInv, PollInv
  <2>17. DeploymentInv'
    <3> DEFINE d == children["deployment"]
    <3>1. d # None => d.uid <= cr.uid /\ d.uid # cr.uid
      BY <2>1, <2>2 DEF IInv, DeploymentInv
    <3>2. ASSUME NEW o \in Versions'
          PROVE  o.uid = cr.uid
      BY <2>5, <2>6
    <3>3. QED
      BY <2>6, <2>11, <2>12, <3>1, <3>2 DEF DeploymentInv
  <2>18. DataNotOlder'
    BY <2>11, Names DEF DataNotOlder
  <2>19. FinalizerProtects'
    BY <2>7, <2>9, <2>12 DEF IInv, FinalizerProtects
  <2>20. QED
    BY <2>13, <2>14, <2>15, <2>16, <2>17, <2>18, <2>19 DEF IInv
<1>4. QED
  BY <1>2, <1>3 DEF AddFinalizer

(* A step of the worker within the finalization. *)
LEMMA FinalizingKeeps ==
  ASSUME IInv, GoOn(worker'.pc, worker'.obj),
         worker.pc \in Finalizing, worker'.pc \in {"refetch", "removeFinalizer"},
         worker'.obj \in Object, worker'.obj.present, WellFormed(worker'.obj),
         worker'.pc = "removeFinalizer" =>
            SameOrOlder(worker'.obj, cr) /\ worker'.obj.rv <= cache.rv,
         watcher' = FALSE, collector' = FALSE, process' \in Nat,
         UNCHANGED <<apiVars, kidVars, poll, gitVars, faults>>
  PROVE  IInv'
<1>1. /\ TypeOK /\ WorkerInv /\ queued' = queued
      /\ worker' = [pc |-> worker'.pc, obj |-> worker'.obj, read |-> 0]
  BY DEF IInv, GoOn
<1>2. /\ UNCHANGED <<cr, cache, children, clone, head>>
      /\ head' \in Nat /\ head <= head'
  BY <1>1, CopyTypes DEF apiVars, kidVars, gitVars
<1>3. TypeOK'
  <2>1. 0 \in Commit /\ worker'.pc \in WorkerState
    BY BoundsAssumption DEF Commit, WorkerState
  <2>2. worker' \in [pc : WorkerState, obj : Object, read : Commit]
    BY <1>1, <2>1
  <2>3. QED
    BY <1>1, <2>2 DEF TypeOK, apiVars, kidVars, gitVars
<1>4. WorkerInv'
  <2>1. worker'.pc \notin Creating \cup {"addFinalizer", "data", "finalize"}
    BY Names DEF Finalizing
  <2>2. CreatingInv'
    BY <2>1 DEF CreatingInv
  <2>3. cr.finalizer => cr.deleting
    BY <1>1 DEF WorkerInv
  <2>4. QED
    BY <1>2, <2>1, <2>2, <2>3 DEF WorkerInv
<1>5. DeploymentInv'
  <2>1. worker'.pc \notin Secrets \cup {"deployment"}
    BY Names DEF Finalizing
  <2>2. QED
    BY <1>2, <2>1, SameVersions DEF IInv, DeploymentInv
<1>6. DataNotOlder' /\ FinalizerProtects'
  BY DEF DataNotOlder, FinalizerProtects
<1>7. QED
  BY <1>2, <1>3, <1>4, <1>5, <1>6, Frame DEF IInv

LEMMA FinalizeGlideinSetKeeps ==
  ASSUME IInv, FinalizeGlideinSet
  PROVE  IInv'
<1>1. /\ worker.pc = "finalize" /\ worker'.pc = "refetch" /\ worker'.obj = worker.obj
      /\ watcher' = FALSE /\ collector' = FALSE /\ process' \in Nat
      /\ UNCHANGED <<apiVars, kidVars, poll, gitVars, faults>>
  BY DEF FinalizeGlideinSet, GoOn, IInv, TypeOK
<1>2. GoOn(worker'.pc, worker'.obj)
  BY DEF FinalizeGlideinSet, GoOn
<1>3. worker.obj \in Object /\ worker.obj.present /\ WellFormed(worker.obj)
  BY <1>1, CopyTypes DEF IInv, TypeOK, WorkerInv
<1>4. worker.pc \in Finalizing
  BY <1>1 DEF Finalizing
<1>5. QED
  BY <1>1, <1>2, <1>3, <1>4, FinalizingKeeps

LEMMA RefetchKeeps ==
  ASSUME IInv, Refetch
  PROVE  IInv'
<1>1. /\ TypeOK /\ worker.pc = "refetch"
      /\ UNCHANGED <<apiVars, kidVars, memVars, poll, gitVars, faults>>
  BY DEF IInv, Refetch
<1>2. CASE Fail
  BY <1>1, <1>2, FailKeeps DEF TypeOK
<1>3. CASE cache.present /\ GoOn("removeFinalizer", cache)
  <2>1. /\ worker'.pc = "removeFinalizer" /\ worker'.obj = cache
        /\ GoOn(worker'.pc, worker'.obj)
    BY <1>3 DEF GoOn
  <2>2. /\ cache \in Object /\ cache.rv \in Nat /\ cache.rv <= cache.rv
        /\ WellFormed(cache) /\ SameOrOlder(cache, cr)
    <3>1. cache \in Object /\ cache.rv \in Nat /\ cache \in Versions
      BY <1>1, VersionTypes DEF Versions, Object
    <3>2. QED
      BY <3>1 DEF IInv, VersionInv, Precedes
  <2>3. watcher' = FALSE /\ collector' = FALSE /\ process' \in Nat
    BY <1>1 DEF IInv, TypeOK, WorkerInv, memVars
  <2>4. worker.pc \in Finalizing
    BY <1>1 DEF Finalizing
  <2>5. QED
    BY <1>1, <1>3, <2>1, <2>2, <2>3, <2>4, FinalizingKeeps
<1>4. QED
  BY <1>2, <1>3 DEF Refetch

(* When the finalizer is removed the object is being deleted, so it goes. *)
LEMMA RemovedObject ==
  ASSUME IInv, worker.pc = "removeFinalizer", Current(worker.obj),
         Put([worker.obj EXCEPT !.finalizer = FALSE]), ~UNCHANGED apiVars
  PROVE  /\ cr.present /\ cr.finalizer /\ cr.deleting /\ ~watcher /\ ~collector
         /\ Versions = {cr} /\ Store(Gone) /\ Gone \in Object
         /\ cr' = [Gone EXCEPT !.rv = cr.rv + 1]
<1> DEFINE obj == [worker.obj EXCEPT !.finalizer = FALSE]
<1>1. worker.obj = cr /\ Versions = {cr} /\ cr.present
  BY UpToDate
<1>2. cr \in Object /\ TypeOK /\ WorkerInv
  BY VersionTypes DEF IInv
<1>3. cr.finalizer
  <2>1. SUFFICES ASSUME cr.finalizer = FALSE
                 PROVE  FALSE
    BY <1>2 DEF Object
  <2>2. obj = cr
    BY <1>1, <1>2, <2>1 DEF Object
  <2>3. QED
    BY <2>2 DEF Put
<1>4. cr.deleting /\ ~watcher /\ ~collector
  BY <1>2, <1>3 DEF WorkerInv, Finalizing
<1>5. obj.deleting = cr.deleting /\ obj.finalizer = FALSE
  BY <1>1, <1>2 DEF Object
<1>6. Store(Gone)
  BY <1>3, <1>4, <1>5 DEF Put
<1>7. Gone \in Object
  BY <1>2, NoObjectType DEF Gone, Object
<1>8. QED
  BY <1>1, <1>2, <1>3, <1>4, <1>6, <1>7, StoreVersions

LEMMA RemoveFinalizerKeeps ==
  ASSUME IInv, RemoveFinalizer
  PROVE  IInv'
<1>1. /\ TypeOK /\ VersionInv /\ worker.pc = "removeFinalizer"
      /\ UNCHANGED <<kidVars, memVars, poll, gitVars, faults>>
  BY DEF IInv, RemoveFinalizer
<1>2. CASE Fail /\ UNCHANGED apiVars
  BY <1>1, <1>2, FailKeeps DEF TypeOK
<1>3. CASE Current(worker.obj) /\ Put([worker.obj EXCEPT !.finalizer = FALSE])
           /\ GoOn("idle", NoObject)
  <2>1. /\ worker'.pc = "idle" /\ queued' = queued /\ 0 \in Commit
        /\ worker' = [pc |-> "idle", obj |-> NoObject, read |-> 0]
    BY <1>3, BoundsAssumption DEF GoOn, Commit
  <2>2. worker' \in [pc : {"idle"}, obj : Object, read : Commit]
    BY <2>1, NoObjectType
  <2>3. CASE UNCHANGED apiVars
    <3>1. /\ queued' \in BOOLEAN /\ faults' \in 0 .. MaxFaults /\ watcher' = watcher
          /\ collector' \in BOOLEAN /\ (collector' => cr.present /\ cr.finalizer)
          /\ process' \in Nat
      BY <1>1, <2>1 DEF memVars, IInv, TypeOK, FinalizerProtects
    <3>2. QED
      BY <1>1, <2>2, <2>3, <3>1, IdleKeeps
  <2>4. CASE ~UNCHANGED apiVars
    <3>1. /\ cr.present /\ cr.finalizer /\ cr.deleting /\ ~watcher /\ ~collector
          /\ Versions = {cr} /\ Store(Gone) /\ Gone \in Object
          /\ cr' = [Gone EXCEPT !.rv = cr.rv + 1]
      BY <1>1, <1>3, <2>4, RemovedObject
    <3>2. /\ cr'.uid = cr.uid /\ cr'.rv = cr.rv + 1 /\ cr'.commit = 0
          /\ cr'.present = FALSE /\ cr'.finalizer = FALSE /\ cr'.deleting = FALSE
      BY <3>1 DEF Gone, NoObject
    <3>3. /\ cr' \in Object /\ watch' \in Seq(Object) /\ cache' = cache
          /\ Versions' \subseteq {cr, cr'}
      BY <1>1, <3>1, StoreVersions
    <3>4. /\ cr \in Object /\ cr.rv \in Nat /\ cr.uid \in Nat /\ clone \in Nat /\ head \in Nat
          /\ 0 <= head /\ 0 <= clone
      BY <1>1, VersionTypes, CopyTypes, BoundsAssumption DEF Object
    <3>5. UNCHANGED <<children, seen, watcher, collector, process, clone, head>>
      BY <1>1 DEF kidVars, memVars, gitVars
    <3>6. WellFormed(cr') /\ cr'.commit <= head
      BY <3>2, <3>4 DEF WellFormed
    <3>7. Precedes(cr, cr')
      BY <3>1, <3>2, <3>4 DEF Precedes, SameOrOlder
    <3>8. VersionInv'
      BY <1>1, <3>1, <3>5, <3>6, <3>7, StoreVersionInv
    <3>9. TypeOK'
      <4>1. worker' \in [pc : WorkerState, obj : Object, read : Commit]
        BY <2>2 DEF WorkerState
      <4>2. QED
        BY <1>1, <2>1, <3>3, <3>5, <4>1 DEF TypeOK
    <3>10. WorkerInv'
      BY <2>1, Names DEF WorkerInv, CreatingInv
    <3>11. PollInv'
      <4>1. poll.pc = "put" => poll.obj.rv <= cr'.rv /\ poll.obj.rv # cr'.rv
        BY <1>1, <3>2, <3>4, CopyTypes DEF IInv, PollInv
      <4>2. QED
        BY <1>1, <3>1, <3>2, <3>3, <3>4, <3>5, <4>1 DEF IInv, PollInv
    <3>12. DeploymentInv'
      BY <2>1, <3>1, <3>2, <3>3, <3>5, Names DEF IInv, DeploymentInv
    <3>13. DataNotOlder' /\ FinalizerProtects'
      BY <2>1, <3>1, <3>5 DEF DataNotOlder, FinalizerProtects
    <3>14. QED
      BY <3>8, <3>9, <3>10, <3>11, <3>12, <3>13 DEF IInv
  <2>5. QED
    BY <2>3, <2>4
<1>4. QED
  BY <1>2, <1>3 DEF RemoveFinalizer

(* The copy that a reconcile makes children from. *)
LEMMA CreatingCopy ==
  ASSUME IInv, worker.pc \in Creating
  PROVE  /\ cr.present /\ cr.finalizer
         /\ worker.obj.uid = cr.uid /\ worker.obj.uid \in 1 .. MaxLives
         /\ worker.obj.present /\ worker.obj \in Object
         /\ worker.obj.spec \in 0 .. MaxEdits /\ worker.obj.commit \in Commit
         /\ worker.obj.commit <= cr.commit
<1>1. cr \in Versions /\ TypeOK /\ WorkerInv /\ WellFormed(cr)
  BY DEF IInv, VersionInv, Versions
<1>2. /\ cr.finalizer /\ worker.obj.uid = cr.uid /\ worker.obj.commit <= cr.commit
      /\ cr.present
  BY <1>1 DEF WorkerInv, CreatingInv, WellFormed
<1>3. worker.obj \in Object /\ worker.obj.present /\ WellFormed(worker.obj)
  BY <1>1, Names, CopyTypes DEF TypeOK, WorkerInv
<1>4. worker.obj.uid \in 1 .. MaxLives
  BY <1>3, BoundsAssumption DEF WellFormed, Object
<1>5. QED
  BY <1>2, <1>3, <1>4 DEF Object

(* From one child to the next, with the same copy. *)
LEMMA CreatingKeeps ==
  ASSUME IInv, worker.pc \in Creating, worker'.pc \in Creating,
         worker' \in [pc : WorkerState, obj : Object, read : Commit],
         worker'.obj = worker.obj, queued' = queued,
         worker'.pc = "data" => worker.obj.commit <= worker'.read,
         worker'.pc \in Secrets \cup {"deployment"} =>
            /\ worker.pc \in Secrets \cup {"deployment"}
            /\ children'["deployment"] = children["deployment"],
         children' \in [Child -> ChildObject \cup {None}],
         \/ children'["deployment"] = children["deployment"]
         \/ /\ children'["deployment"].uid = worker.obj.uid
            /\ children'["deployment"].spec = worker.obj.spec
            /\ children'["deployment"].commit = worker.obj.commit
         \/ /\ children["deployment"] # None
            /\ children'["deployment"].uid = children["deployment"].uid
            /\ children'["deployment"].spec = worker.obj.spec
            /\ children'["deployment"].commit = worker.obj.commit,
         DataNotOlder', watcher' \in BOOLEAN, collector' = collector, process' \in Nat,
         UNCHANGED <<apiVars, seen, poll, gitVars, faults>>
  PROVE  IInv'
<1>1. /\ TypeOK /\ WorkerInv
      /\ UNCHANGED <<cr, cache, clone, head>> /\ head' \in Nat /\ head <= head'
      /\ Versions' = Versions /\ cr \in Object
  BY CopyTypes, VersionTypes, SameVersions DEF IInv, apiVars, gitVars
<1>2. cr.present /\ cr.finalizer /\ worker.obj.uid = cr.uid /\ worker.obj.present
  BY CreatingCopy
<1>3. TypeOK'
  BY <1>1, <1>2 DEF TypeOK, apiVars, gitVars
<1>4. WorkerInv'
  <2>1. worker'.pc \notin Finalizing \cup {"addFinalizer", "refetch", "removeFinalizer"}
    BY Names DEF Finalizing
  <2>2. WellFormed(worker.obj)
    BY <1>1, Names DEF WorkerInv
  <2>3. CreatingInv'
    BY <1>1 DEF WorkerInv, CreatingInv
  <2>4. QED
    BY <1>1, <2>1, <2>2, <2>3 DEF WorkerInv
<1>5. DeploymentInv'
  <2>1. CASE children'["deployment"] = children["deployment"]
    BY <1>1, <2>1 DEF IInv, DeploymentInv
  <2>2. CASE /\ children'["deployment"] # children["deployment"]
             /\ children'["deployment"].spec = worker.obj.spec
             /\ children'["deployment"].commit = worker.obj.commit
             /\ children'["deployment"].uid <= cr.uid
    <3>1. worker'.pc \notin Secrets \cup {"deployment"}
      BY <2>2
    <3>2. \A o \in Versions : o.finalizer =>
             worker.obj.spec <= o.spec /\ worker.obj.commit <= o.commit
      BY <1>1 DEF WorkerInv, CreatingInv
    <3>3. QED
      BY <1>1, <1>2, <2>2, <3>1, <3>2 DEF DeploymentInv
  <2>3. cr.uid <= cr.uid
    BY <1>1, BoundsAssumption DEF Object
  <2>4. children["deployment"] # None => children["deployment"].uid <= cr.uid
    BY DEF IInv, DeploymentInv
  <2>5. QED
    BY <1>2, <2>1, <2>2, <2>3, <2>4
<1>6. FinalizerProtects'
  BY <1>1, <1>2 DEF FinalizerProtects
<1>7. QED
  BY <1>1, <1>3, <1>4, <1>5, <1>6, Frame DEF IInv

(* What a step that makes a child does: it gives up, or the child is there *)
(* or was in the cache, and the reconcile goes on.                         *)
LEMMA CreateResult ==
  ASSUME NEW c \in Child, NEW value \in ChildObject, CreateIfNotExists(c, value)
  PROVE  \/ Fail /\ UNCHANGED children
         \/ /\ GoOn(After(c), worker.obj)
            /\ \/ c \in seen /\ UNCHANGED children
               \/ children[c] = None /\ children' = [children EXCEPT ![c] = value]
  BY DEF CreateIfNotExists, Existing

LEMMA ApplyResult ==
  ASSUME NEW c \in Child, NEW value \in ChildObject, Apply(c, value)
  PROVE  \/ Fail /\ UNCHANGED children
         \/ /\ GoOn(After(c), worker.obj)
            /\ \/ children[c] = None /\ UNCHANGED children
               \/ children[c] = None /\ children' = [children EXCEPT ![c] = value]
               \/ children[c] # None /\ children' = [children EXCEPT ![c] = KeepOwner(c, value)]
  BY CreateResult DEF Apply, Existing

LEMMA ChildTypes ==
  ASSUME TypeOK, NEW c \in Child, children[c] # None, NEW value \in ChildObject
  PROVE  /\ children[c] \in ChildObject /\ KeepOwner(c, value) \in ChildObject
         /\ KeepOwner(c, value).uid = children[c].uid
         /\ KeepOwner(c, value).spec = value.spec
         /\ KeepOwner(c, value).commit = value.commit
<1>1. children[c] \in ChildObject
  BY DEF TypeOK
<1>2. QED
  BY <1>1 DEF KeepOwner, ChildObject

LEMMA NoneIsNone ==
  None \notin ChildObject
  BY NoneIsNoChild, BoundsAssumption DEF ChildObject, Commit

LEMMA OwnedTypes ==
  ASSUME IInv, worker.pc \in Creating,
         NEW spec \in 0 .. MaxEdits, NEW oldest \in Commit, NEW newest \in Commit
  PROVE  /\ Owned(spec, oldest, newest) \in ChildObject
         /\ Owned(spec, oldest, newest).uid = worker.obj.uid
         /\ Owned(spec, oldest, newest).spec = spec
         /\ Owned(spec, oldest, newest).commit = oldest
  BY CreatingCopy DEF Owned, ChildObject

LEMMA CreateSecretKeeps ==
  ASSUME IInv, NEW c \in Secrets, CreateSecret(c)
  PROVE  IInv'
<1> DEFINE value == Owned(0, 0, 0)
<1>1. /\ TypeOK /\ worker.pc = c /\ c \in Child /\ worker.pc \in Creating
      /\ c \notin {"deployment", "data"} /\ {"deployment", "data"} \subseteq Child
      /\ UNCHANGED <<apiVars, seen, memVars, poll, gitVars, faults>>
  BY Names DEF IInv, CreateSecret, Child, Creating
<1>2. 0 \in Commit /\ 0 \in 0 .. MaxEdits
  BY BoundsAssumption DEF Commit
<1>3. value \in ChildObject
  BY <1>1, <1>2, OwnedTypes
<1>4. CASE Fail /\ UNCHANGED children
  BY <1>1, <1>4, FailKeeps DEF kidVars, TypeOK
<1>5. CASE /\ GoOn(After(c), worker.obj)
           /\ children' \in {children, [children EXCEPT ![c] = value]}
  <2>1. children \in [Child -> ChildObject \cup {None}]
    BY <1>1 DEF TypeOK
  <2>2. /\ children' \in [Child -> ChildObject \cup {None}]
        /\ children'["deployment"] = children["deployment"]
    BY <1>1, <1>3, <1>5, <2>1
  <2>3. After(c) \in {"tokens", "deployment"}
    BY Names DEF After
  <2>4. /\ worker'.pc = After(c) /\ worker'.obj = worker.obj /\ queued' = queued
        /\ worker' = [pc |-> After(c), obj |-> worker.obj, read |-> 0]
    BY <1>5 DEF GoOn
  <2>5. After(c) \in Creating /\ After(c) \in WorkerState /\ After(c) \notin {"data", "watch", "collector"}
    <3>1. "tokens" \in Secrets
      BY SecretsAssumption
    <3>2. QED
      BY <2>3, <3>1, Names
  <2>6. worker' \in [pc : WorkerState, obj : Object, read : Commit]
    BY <1>1, <1>2, <2>4, <2>5, CopyTypes
  <2>7. DataNotOlder'
    BY <2>4, <2>5 DEF DataNotOlder
  <2>8. watcher' \in BOOLEAN /\ collector' = collector /\ process' \in Nat
    BY <1>1 DEF memVars, TypeOK
  <2>9. QED
    BY <1>1, <2>2, <2>4, <2>5, <2>6, <2>7, <2>8, CreatingKeeps
<1>6. QED
  BY <1>1, <1>3, <1>4, <1>5, CreateResult DEF CreateSecret

LEMMA ApplyDeploymentKeeps ==
  ASSUME IInv, ApplyDeployment
  PROVE  IInv'
<1> DEFINE c     == "deployment"
           value == Owned(worker.obj.spec, worker.obj.commit, worker.obj.commit)
<1>1. /\ TypeOK /\ worker.pc = c /\ c \in Child /\ worker.pc \in Creating
      /\ UNCHANGED <<apiVars, seen, memVars, poll, gitVars, faults>>
  BY Names DEF IInv, ApplyDeployment, Child
<1>2. worker.obj.spec \in 0 .. MaxEdits /\ worker.obj.commit \in Commit
  BY <1>1, CreatingCopy
<1>3. /\ value \in ChildObject /\ value.uid = worker.obj.uid
      /\ value.spec = worker.obj.spec /\ value.commit = worker.obj.commit
  BY <1>1, <1>2, OwnedTypes
<1>4. CASE Fail /\ UNCHANGED children
  BY <1>1, <1>4, FailKeeps DEF kidVars, TypeOK
<1>5. CASE /\ GoOn(After(c), worker.obj)
           /\ \/ UNCHANGED children
              \/ children' = [children EXCEPT ![c] = value]
              \/ children[c] # None /\ children' = [children EXCEPT ![c] = KeepOwner(c, value)]
  <2>1. children \in [Child -> ChildObject \cup {None}]
    BY <1>1 DEF TypeOK
  <2>2. children[c] # None =>
           /\ KeepOwner(c, value) \in ChildObject
           /\ KeepOwner(c, value).uid = children[c].uid
           /\ KeepOwner(c, value).spec = worker.obj.spec
           /\ KeepOwner(c, value).commit = worker.obj.commit
    BY <1>1, <1>3, ChildTypes
  <2>3. children' \in [Child -> ChildObject \cup {None}]
    BY <1>3, <1>5, <2>1, <2>2
  <2>4. \/ children'[c] = children[c]
        \/ children'[c] = value
        \/ children[c] # None /\ children'[c] = KeepOwner(c, value)
    BY <1>1, <1>5, <2>1
  <2>5. /\ worker'.pc = "read" /\ worker'.obj = worker.obj /\ queued' = queued
        /\ worker' = [pc |-> "read", obj |-> worker.obj, read |-> 0]
    BY <1>5 DEF GoOn, After
  <2>6. worker' \in [pc : WorkerState, obj : Object, read : Commit]
    BY <1>1, <2>5, Names, CopyTypes, BoundsAssumption DEF Commit
  <2>7. "read" \in Creating /\ "read" \notin Secrets \cup {"deployment"}
    BY Names
  <2>8. DataNotOlder'
    BY <2>5 DEF DataNotOlder
  <2>9. watcher' \in BOOLEAN /\ collector' = collector /\ process' \in Nat
    BY <1>1 DEF memVars, TypeOK
  <2>10. QED
    BY <1>1, <1>3, <2>2, <2>3, <2>4, <2>5, <2>6, <2>7, <2>8, <2>9, CreatingKeeps
<1>6. QED
  BY <1>1, <1>3, <1>4, <1>5, ApplyResult DEF ApplyDeployment

(* The working copy is not older than any commit an object has. *)
LEMMA ReadFilesKeeps ==
  ASSUME IInv, ReadFiles
  PROVE  IInv'
<1>1. /\ TypeOK /\ worker.pc = "read" /\ worker.pc \in Creating
      /\ UNCHANGED <<apiVars, kidVars, memVars, poll, gitVars, faults>>
  BY Names DEF IInv, ReadFiles
<1>2. CASE Fail
  BY <1>1, <1>2, FailKeeps DEF TypeOK
<1>3. CASE ~Fail
  <2>1. /\ worker'.pc = "data" /\ worker'.obj = worker.obj /\ queued' = queued
        /\ \/ worker.obj.commit = 0 /\ worker'.read = 0
           \/ clone # 0 /\ worker'.read = clone
        /\ worker' \in [pc : WorkerState, obj : Object, read : Commit]
    <3>1. 0 \in Commit /\ clone \in Commit /\ "data" \in WorkerState
      BY <1>1, Names, BoundsAssumption DEF TypeOK, Commit
    <3>2. worker \in [pc : WorkerState, obj : Object, read : Commit]
      BY <1>1 DEF TypeOK
    <3>3. CASE worker.obj.commit = 0 /\ GoOn("data", worker.obj)
      <4>1. worker' = [pc |-> "data", obj |-> worker.obj, read |-> 0] /\ queued' = queued
        BY <3>3 DEF GoOn
      <4>2. QED
        BY <3>1, <3>2, <3>3, <4>1
    <3>4. CASE /\ worker.obj.commit # 0 /\ clone # 0
               /\ worker' = [worker EXCEPT !.pc = "data", !.read = clone]
               /\ UNCHANGED queued
      BY <3>1, <3>2, <3>4
    <3>5. QED
      BY <1>3, <3>3, <3>4 DEF ReadFiles
  <2>2. worker.obj.commit <= worker'.read
    <3>1. cr.commit \in Nat /\ clone \in Nat /\ worker.obj.commit \in Nat /\ cr \in Versions
      BY <1>1, VersionTypes, CopyTypes, BoundsAssumption DEF Object, Commit, Versions
    <3>2. worker.obj.commit <= cr.commit
      BY <1>1, CreatingCopy
    <3>3. clone # 0 => cr.commit <= clone
      BY <3>1 DEF IInv, PollInv
    <3>4. QED
      BY <2>1, <3>1, <3>2, <3>3
  <2>3. "data" \in Creating /\ "data" \notin Secrets \cup {"deployment"}
    BY Names
  <2>4. DataNotOlder'
    BY <2>1 DEF DataNotOlder
  <2>5. /\ watcher' \in BOOLEAN /\ collector' = collector /\ process' \in Nat /\ UNCHANGED <<children, seen>>
        /\ children' \in [Child -> ChildObject \cup {None}]
    BY <1>1 DEF memVars, kidVars, TypeOK
  <2>6. QED
    BY <1>1, <2>1, <2>2, <2>3, <2>4, <2>5, CreatingKeeps
<1>4. QED
  BY <1>2, <1>3

LEMMA ApplyDataKeeps ==
  ASSUME IInv, ApplyData
  PROVE  IInv'
<1> DEFINE c == "data"
<1>1. /\ TypeOK /\ worker.pc = c /\ c \in Child /\ worker.pc \in Creating
      /\ "deployment" \in Child
      /\ UNCHANGED <<apiVars, seen, memVars, poll, gitVars, faults>>
  BY Names DEF IInv, ApplyData, Child
<1>2. PICK newest \in {worker.read, IF worker.read = 0 THEN 0 ELSE clone} :
         Apply("data", Owned(0, worker.read, newest))
  BY DEF ApplyData
<1> DEFINE value == Owned(0, worker.read, newest)
<1>3. /\ 0 \in 0 .. MaxEdits /\ 0 \in Commit /\ worker.read \in Commit /\ newest \in Commit
      /\ worker.obj.commit <= worker.read
  BY <1>1, CopyTypes, BoundsAssumption DEF TypeOK, Commit, IInv, WorkerInv
<1>4. value \in ChildObject /\ value.commit = worker.read
  BY <1>1, <1>3, OwnedTypes
<1>5. CASE Fail /\ UNCHANGED children
  BY <1>1, <1>5, FailKeeps DEF kidVars, TypeOK
<1>6. CASE /\ GoOn(After(c), worker.obj)
           /\ \/ children[c] = None /\ UNCHANGED children
              \/ children' = [children EXCEPT ![c] = value]
              \/ children[c] # None /\ children' = [children EXCEPT ![c] = KeepOwner(c, value)]
  <2>1. children \in [Child -> ChildObject \cup {None}]
    BY <1>1 DEF TypeOK
  <2>2. children[c] # None =>
           KeepOwner(c, value) \in ChildObject /\ KeepOwner(c, value).commit = worker.read
    BY <1>1, <1>4, ChildTypes
  <2>3. /\ children' \in [Child -> ChildObject \cup {None}]
        /\ children'["deployment"] = children["deployment"]
    BY <1>1, <1>4, <1>6, <2>1, <2>2
  <2>4. children'[c] # None => children'[c].commit = worker.read
    BY <1>1, <1>4, <1>6, <2>1, <2>2
  <2>5. /\ worker'.pc = "watch" /\ worker'.obj = worker.obj /\ queued' = queued
        /\ worker' = [pc |-> "watch", obj |-> worker.obj, read |-> 0]
    BY <1>6 DEF GoOn, After
  <2>6. worker' \in [pc : WorkerState, obj : Object, read : Commit]
    BY <1>1, <1>3, <2>5, Names, CopyTypes
  <2>7. "watch" \in Creating /\ "watch" \notin Secrets \cup {"deployment"}
    BY Names
  <2>8. DataNotOlder'
    BY <1>3, <2>4, <2>5 DEF DataNotOlder, Existing
  <2>9. watcher' \in BOOLEAN /\ collector' = collector /\ process' \in Nat
    BY <1>1 DEF memVars, TypeOK
  <2>10. QED
    BY <1>1, <2>3, <2>5, <2>6, <2>7, <2>8, <2>9, CreatingKeeps
<1>7. QED
  BY <1>1, <1>2, <1>4, <1>5, <1>6, ApplyResult

LEMMA AddWatcherKeeps ==
  ASSUME IInv, AddWatcher
  PROVE  IInv'
<1>1. /\ TypeOK /\ worker.pc = "watch" /\ worker.pc \in Creating
      /\ watcher' = TRUE /\ collector' = collector /\ process' = process
      /\ GoOn("collector", worker.obj)
      /\ UNCHANGED <<apiVars, kidVars, poll, gitVars, faults>>
  BY Names DEF IInv, AddWatcher
<1>2. /\ worker'.pc = "collector" /\ worker'.obj = worker.obj /\ queued' = queued
      /\ worker' = [pc |-> "collector", obj |-> worker.obj, read |-> 0]
  BY <1>1 DEF GoOn
<1>3. worker' \in [pc : WorkerState, obj : Object, read : Commit]
  BY <1>1, <1>2, Names, CopyTypes, BoundsAssumption DEF Commit
<1>4. "collector" \in Creating /\ "collector" \notin Secrets \cup {"deployment"}
  BY Names
<1>5. UNCHANGED <<children, seen>> /\ process' \in Nat /\ children' \in [Child -> ChildObject \cup {None}]
  BY <1>1 DEF kidVars, TypeOK
<1>6. DataNotOlder'
  BY <1>1, <1>2, <1>5 DEF IInv, DataNotOlder, Existing
<1>7. QED
  BY <1>1, <1>2, <1>3, <1>4, <1>5, <1>6, CreatingKeeps

LEMMA AddCollectorClientKeeps ==
  ASSUME IInv, AddCollectorClient
  PROVE  IInv'
<1>1. /\ TypeOK /\ worker.pc \in Creating /\ collector' = TRUE /\ watcher' = watcher /\ process' = process
      /\ queued' = queued
      /\ worker' = [pc |-> "idle", obj |-> NoObject, read |-> 0]
      /\ UNCHANGED <<apiVars, kidVars, poll, gitVars, faults>>
  BY Names DEF IInv, AddCollectorClient, GoOn
<1>2. cr.present /\ cr.finalizer
  BY <1>1, CreatingCopy
<1>3. worker' \in [pc : {"idle"}, obj : Object, read : Commit]
  BY <1>1, NoObjectType, BoundsAssumption DEF Commit
<1>4. queued' \in BOOLEAN /\ faults' \in 0 .. MaxFaults /\ process' \in Nat
  BY <1>1 DEF TypeOK
<1>5. QED
  BY <1>1, <1>2, <1>3, <1>4, IdleKeeps

LEMMA WorkerKeeps ==
  ASSUME IInv, Worker
  PROVE  IInv'
  BY ReconcileKeeps, AddFinalizerKeeps, FinalizeGlideinSetKeeps, RefetchKeeps,
     RemoveFinalizerKeeps, CreateSecretKeeps, ApplyDeploymentKeeps, ReadFilesKeeps,
     ApplyDataKeeps, AddWatcherKeeps, AddCollectorClientKeeps
  DEF Worker

-----------------------------------------------------------------------------
(* The invariants *)

LEMMA InitInv ==
  ASSUME Init
  PROVE  IInv
<1>1. /\ cr = NoObject /\ cache = NoObject /\ watch = << >>
      /\ children = [c \in Child |-> None] /\ seen = {} /\ queued = FALSE
      /\ worker = IdleWorker /\ watcher = FALSE /\ collector = FALSE /\ process = 0
      /\ poll = IdlePoll /\ clone = 0 /\ head = 0 /\ faults = 0
  BY DEF Init
<1>2. /\ cr \in Object /\ ~cr.present /\ ~cr.finalizer /\ ~cr.deleting /\ cr.commit = 0
      /\ worker.pc = "idle" /\ poll.pc = "idle"
  <2>1. cr \in Object
    BY <1>1, NoObjectType
  <2>2. ~cr.present /\ ~cr.finalizer /\ ~cr.deleting /\ cr.commit = 0
    BY <1>1 DEF NoObject
  <2>3. worker.pc = "idle" /\ poll.pc = "idle"
    BY <1>1 DEF IdleWorker, IdlePoll
  <2>4. QED
    BY <2>1, <2>2, <2>3
<1>3. Versions = {cr} /\ Len(watch) = 0 /\ watch \in Seq(Object)
  BY <1>1 DEF Versions
<1>4. TypeOK
  <2>1. 0 \in Commit /\ 0 <= 0 /\ 0 \in 0 .. MaxFaults
    BY BoundsAssumption DEF Commit
  <2>2. children \in [Child -> ChildObject \cup {None}] /\ seen \subseteq Child
    BY <1>1
  <2>3. {queued, watcher, collector} \subseteq BOOLEAN
    BY <1>1
  <2>4. QED
    BY <1>1, <1>2, <1>3, <2>1, <2>2, <2>3, NoObjectType DEF TypeOK
<1>5. VersionInv
  BY <1>1, <1>2, <1>3, Reflexive DEF VersionInv, WellFormed
<1>6. WorkerInv
  BY <1>2, Names DEF WorkerInv, CreatingInv
<1>7. PollInv
  BY <1>1, <1>2 DEF PollInv
<1>8. DeploymentInv
  BY <1>1 DEF DeploymentInv, Child
<1>9. DataNotOlder /\ FinalizerProtects
  BY <1>1, <1>2 DEF DataNotOlder, FinalizerProtects
<1>10. QED
  BY <1>4, <1>5, <1>6, <1>7, <1>8, <1>9 DEF IInv

LEMMA NextInv ==
  ASSUME IInv, [Next]_vars
  PROVE  IInv'
<1>1. CASE UNCHANGED vars
  <2>1. /\ TypeOK /\ UNCHANGED <<apiVars, kidVars, queued, worker, memVars, poll, gitVars, faults>>
        /\ UNCHANGED <<cr, children, clone, head>>
    BY <1>1 DEF IInv, vars, apiVars, kidVars, gitVars
  <2>2. TypeOK'
    BY <2>1 DEF TypeOK, apiVars, kidVars, memVars, gitVars
  <2>3. head' \in Nat /\ head <= head'
    BY <2>1, CopyTypes
  <2>4. QED
    BY <2>1, <2>2, <2>3, Frame DEF IInv
<1>2. QED
  BY <1>1, EnvironmentKeeps, WorkerKeeps, WorkerErrorKeeps, DataLoopKeeps, CrashKeeps
  DEF Next

THEOREM Invariance == Spec => []IInv
<1>1. Init => IInv
  BY InitInv
<1>2. IInv /\ [Next]_vars => IInv'
  BY NextInv
<1>3. QED
  BY <1>1, <1>2, PTL DEF Spec

(* Every variable has its type in every reachable state: what AddFinalizer  *)
(* and the other writes of the worker and of the data loop store is an      *)
(* object of the API server.                                                *)
THEOREM TypeCorrect == Spec => []TypeOK
<1>1. IInv => TypeOK
  BY DEF IInv
<1>2. QED
  BY <1>1, Invariance, PTL

(* Nothing is registered in the pollers or in collectorClients for a        *)
(* GlideinSet without the finalizer (Reconcile adds it before the first     *)
(* child, and FinalizeGlideinSet comes before its removal).                 *)
THEOREM Protected == Spec => []FinalizerProtects
<1>1. IInv => FinalizerProtects
  BY DEF IInv
<1>2. QED
  BY <1>1, Invariance, PTL

(* The data Secret is never older than the Deployment of the reconcile that *)
(* has applied both (makeDataSecretTemplate reads what the disk has).       *)
THEOREM DataFollows == Spec => []DataNotOlder
<1>1. IInv => DataNotOlder
  BY DEF IInv
<1>2. QED
  BY <1>1, Invariance, PTL

-----------------------------------------------------------------------------
(* What a step does to the children *)

(* They change one at a time, by the worker from the copy it holds, or by   *)
(* the garbage collector.                                                   *)
LEMMA ChildStep ==
  ASSUME IInv, [Next]_vars
  PROVE  \/ UNCHANGED children
         \/ \E c \in Child : children' = [children EXCEPT ![c] = None]
         \/ \E c \in Child, value \in ChildObject :
               /\ worker.pc = c /\ value.uid = worker.obj.uid
               /\ c = "deployment" =>
                     value.spec = worker.obj.spec /\ value.commit = worker.obj.commit
               /\ \/ children[c] = None /\ children' = [children EXCEPT ![c] = value]
                  \/ /\ children[c] # None
                     /\ children' = [children EXCEPT ![c] = KeepOwner(c, value)]
<1>1. 0 \in 0 .. MaxEdits /\ 0 \in Commit
  BY BoundsAssumption DEF Commit
<1>2. ASSUME NEW c \in Secrets, CreateSecret(c)
      PROVE  \/ UNCHANGED children
             \/ /\ worker.pc = c /\ c \in Child /\ c # "deployment"
                /\ Owned(0, 0, 0) \in ChildObject /\ Owned(0, 0, 0).uid = worker.obj.uid
                /\ children[c] = None /\ children' = [children EXCEPT ![c] = Owned(0, 0, 0)]
  <2>1. worker.pc = c /\ c \in Child /\ worker.pc \in Creating /\ c # "deployment"
    BY <1>2, Names DEF CreateSecret, Child
  <2>2. Owned(0, 0, 0) \in ChildObject /\ Owned(0, 0, 0).uid = worker.obj.uid
    BY <1>1, <2>1, OwnedTypes
  <2>3. QED
    BY <1>2, <2>1, <2>2, CreateResult DEF CreateSecret
<1>3. ASSUME ApplyDeployment
      PROVE  \/ UNCHANGED children
             \/ \E value \in ChildObject :
                  /\ worker.pc = "deployment" /\ value.uid = worker.obj.uid
                  /\ value.spec = worker.obj.spec /\ value.commit = worker.obj.commit
                  /\ \/ /\ children["deployment"] = None
                        /\ children' = [children EXCEPT !["deployment"] = value]
                     \/ /\ children["deployment"] # None
                        /\ children' = [children EXCEPT !["deployment"] =
                                           KeepOwner("deployment", value)]
  <2> DEFINE value == Owned(worker.obj.spec, worker.obj.commit, worker.obj.commit)
  <2>1. worker.pc = "deployment" /\ "deployment" \in Child /\ worker.pc \in Creating
    BY <1>3, Names DEF ApplyDeployment, Child
  <2>2. worker.obj.spec \in 0 .. MaxEdits /\ worker.obj.commit \in Commit
    BY <2>1, CreatingCopy
  <2>3. /\ value \in ChildObject /\ value.uid = worker.obj.uid
        /\ value.spec = worker.obj.spec /\ value.commit = worker.obj.commit
    BY <2>1, <2>2, OwnedTypes
  <2>4. Apply("deployment", value)
    BY <1>3 DEF ApplyDeployment
  <2> HIDE DEF value
  <2>5. \/ UNCHANGED children
        \/ children["deployment"] = None /\ children' = [children EXCEPT !["deployment"] = value]
        \/ /\ children["deployment"] # None
           /\ children' = [children EXCEPT !["deployment"] = KeepOwner("deployment", value)]
    BY <2>1, <2>3, <2>4, ApplyResult
  <2>6. QED
    BY <2>1, <2>3, <2>5
<1>4. ASSUME ApplyData
      PROVE  \/ UNCHANGED children
             \/ \E value \in ChildObject :
                  /\ worker.pc = "data" /\ value.uid = worker.obj.uid
                  /\ \/ /\ children["data"] = None
                        /\ children' = [children EXCEPT !["data"] = value]
                     \/ /\ children["data"] # None
                        /\ children' = [children EXCEPT !["data"] = KeepOwner("data", value)]
  <2>1. PICK newest \in {worker.read, IF worker.read = 0 THEN 0 ELSE clone} :
           Apply("data", Owned(0, worker.read, newest))
    BY <1>4 DEF ApplyData
  <2> DEFINE value == Owned(0, worker.read, newest)
  <2>2. worker.pc = "data" /\ "data" \in Child /\ worker.pc \in Creating
    BY <1>4, Names DEF ApplyData, Child
  <2>3. worker.read \in Commit /\ newest \in Commit
    BY <1>1, CopyTypes DEF IInv, TypeOK
  <2>4. value \in ChildObject /\ value.uid = worker.obj.uid
    BY <1>1, <2>2, <2>3, OwnedTypes
  <2>5. Apply("data", value)
    BY <2>1
  <2> HIDE DEF value
  <2>6. \/ UNCHANGED children
        \/ children["data"] = None /\ children' = [children EXCEPT !["data"] = value]
        \/ /\ children["data"] # None
           /\ children' = [children EXCEPT !["data"] = KeepOwner("data", value)]
    BY <2>2, <2>4, <2>5, ApplyResult
  <2>7. QED
    BY <2>2, <2>4, <2>6
<1>5. ASSUME NEW c \in Child, CollectGarbage(c)
      PROVE  children' = [children EXCEPT ![c] = None]
  BY <1>5 DEF CollectGarbage
<1>6. ASSUME \/ Create \/ EditSpec \/ Delete \/ Push \/ Deliver \/ DeliverChildren \/ Resync
             \/ Reconcile \/ AddFinalizer \/ FinalizeGlideinSet \/ Refetch \/ RemoveFinalizer
             \/ ReadFiles \/ AddWatcher \/ AddCollectorClient
             \/ WorkerError \/ DataLoop \/ PollError \/ Crash \/ UNCHANGED vars
      PROVE  UNCHANGED children
  BY <1>6 DEF Create, EditSpec, Delete, Push, Deliver, DeliverChildren, Resync,
     Reconcile, AddFinalizer, FinalizeGlideinSet, Refetch, RemoveFinalizer, ReadFiles,
     AddWatcher, AddCollectorClient, WorkerError, DataLoop, SyncRepo, Check, ReadManifest,
     PutManifest, PollError, Crash, polling, kidVars, vars
<1>7. "deployment" \in Child /\ "data" \in Child
  BY DEF Child
<1>8. CASE \E c \in Secrets : CreateSecret(c)
  BY <1>2, <1>8
<1>9. CASE ApplyDeployment
  BY <1>3, <1>7, <1>9
<1>10. CASE ApplyData
  BY <1>4, <1>7, <1>10
<1>11. CASE \E c \in Child : CollectGarbage(c)
  BY <1>5, <1>11
<1>12. QED
  BY <1>6, <1>8, <1>9, <1>10, <1>11 DEF Next, Environment, Worker

(* A child is only made for the object as it lives at that moment, although *)
(* createResourcesForGlideinSet works from a copy of the cache.             *)
THEOREM OrphansAreNotMade == Spec => NoOrphans
<1> DEFINE ForTheLiving ==
             \A c \in Child : children[c] = None /\ children'[c] # None
                => cr.present /\ children'[c].uid = cr.uid
<1>1. IInv /\ [Next]_vars => ForTheLiving
  <2>1. SUFFICES ASSUME IInv, [Next]_vars, NEW c \in Child,
                        children[c] = None, children'[c] # None
                 PROVE  cr.present /\ children'[c].uid = cr.uid
    OBVIOUS
  <2>2. children \in [Child -> ChildObject \cup {None}]
    BY <2>1 DEF IInv, TypeOK
  <2>3. PICK value \in ChildObject :
           worker.pc = c /\ value.uid = worker.obj.uid /\ children'[c] = value
    BY <2>1, <2>2, ChildStep
  <2>4. c \in Creating
    BY DEF Creating
  <2>5. QED
    BY <2>1, <2>3, <2>4, CreatingCopy
<1>2. QED
  BY <1>1, Invariance, PTL DEF Spec, NoOrphans

-----------------------------------------------------------------------------
(* What a step does to the object *)

Created   == ~cr.present /\ cr'.present /\ ~cr'.finalizer /\ cr'.uid # cr.uid
Changed   == /\ cr.present /\ cr'.present /\ cr'.uid = cr.uid
             /\ cr.spec <= cr'.spec /\ cr.commit <= cr'.commit
Edited    == Changed /\ cr'.finalizer = cr.finalizer /\ cr'.deleting = cr.deleting
Marked    == Changed /\ cr.finalizer /\ ~cr.deleting /\ cr'.finalizer /\ cr'.deleting
Guarded   == Changed /\ ~cr.finalizer /\ cr'.finalizer /\ ~cr'.deleting
Discarded == cr.present /\ ~cr.finalizer /\ ~cr'.present
Removed   == cr.finalizer /\ cr.deleting /\ ~watcher /\ ~collector /\ ~cr'.present

LEMMA CreateStep ==
  ASSUME IInv, Create
  PROVE  Created
<1> DEFINE obj == [NoObject EXCEPT !.present = TRUE, !.uid = cr.uid + 1]
<1>1. ~cr.present /\ cr' = [obj EXCEPT !.rv = cr.rv + 1]
  BY DEF Create, Store
<1>2. cr.uid \in Nat
  BY VersionTypes, BoundsAssumption DEF IInv, Object
<1>3. cr'.present = TRUE /\ cr'.finalizer = FALSE /\ cr'.uid = cr.uid + 1
  BY <1>1 DEF NoObject
<1>4. cr'.uid # cr.uid
  BY <1>2, <1>3
<1>5. QED
  BY <1>1, <1>3, <1>4 DEF Created

LEMMA ObjectFacts ==
  ASSUME IInv
  PROVE  /\ cr \in Object /\ WellFormed(cr) /\ cr.rv \in Nat
         /\ cr.spec \in Nat /\ cr.commit \in Nat
         /\ cr.spec <= cr.spec /\ cr.commit <= cr.commit
<1>1. cr \in Object /\ cr \in Versions
  BY VersionTypes DEF IInv, Versions
<1>2. cr.rv \in Nat /\ cr.spec \in Nat /\ cr.commit \in Nat
  BY <1>1, BoundsAssumption DEF Object, Commit
<1>3. QED
  BY <1>1, <1>2 DEF IInv, VersionInv

LEMMA EditSpecStep ==
  ASSUME IInv, EditSpec
  PROVE  Edited
<1> DEFINE obj == [cr EXCEPT !.spec = cr.spec + 1]
<1>1. cr.present /\ cr' = [obj EXCEPT !.rv = cr.rv + 1]
  BY DEF EditSpec, Store
<1>2. /\ cr'.present = cr.present /\ cr'.uid = cr.uid
      /\ cr'.finalizer = cr.finalizer /\ cr'.deleting = cr.deleting
      /\ cr'.spec = cr.spec + 1 /\ cr'.commit = cr.commit
  BY <1>1, ObjectFacts DEF Object
<1>3. cr.spec <= cr'.spec /\ cr.commit <= cr'.commit
  BY <1>2, ObjectFacts
<1>4. cr'.present
  BY <1>1, <1>2
<1>5. QED
  BY <1>1, <1>2, <1>3, <1>4 DEF Edited, Changed

LEMMA DeleteStep ==
  ASSUME IInv, Delete
  PROVE  Marked \/ Discarded
<1>1. cr.present /\ ~cr.deleting
  BY DEF Delete
<1>2. CASE cr.finalizer
  <2> DEFINE obj == [cr EXCEPT !.deleting = TRUE]
  <2>1. cr' = [obj EXCEPT !.rv = cr.rv + 1]
    BY <1>2 DEF Delete, Store
  <2>2. /\ cr'.present = cr.present /\ cr'.uid = cr.uid /\ cr'.finalizer = cr.finalizer
        /\ cr'.spec = cr.spec /\ cr'.commit = cr.commit
    BY <2>1, ObjectFacts DEF Object
  <2>3. cr'.deleting
    BY <2>1, ObjectFacts DEF Object
  <2>4. cr'.present /\ cr'.finalizer
    BY <1>1, <1>2, <2>2
  <2>5. QED
    BY <1>1, <1>2, <2>2, <2>3, <2>4, ObjectFacts DEF Marked, Changed
<1>3. CASE ~cr.finalizer
  <2>1. cr' = [Gone EXCEPT !.rv = cr.rv + 1]
    BY <1>3 DEF Delete, Store
  <2>2. ~cr'.present
    BY <2>1 DEF Gone, NoObject
  <2>3. QED
    BY <1>1, <1>3, <2>2 DEF Discarded
<1>4. QED
  BY <1>2, <1>3

LEMMA AddFinalizerStep ==
  ASSUME IInv, AddFinalizer
  PROVE  UNCHANGED cr \/ Guarded
<1> DEFINE obj == [worker.obj EXCEPT !.finalizer = TRUE]
<1>1. SUFFICES ASSUME Current(worker.obj), Put(obj), ~UNCHANGED cr
               PROVE  Guarded
  BY DEF AddFinalizer, apiVars
<1>2. worker.obj = cr /\ cr.present /\ ~cr.finalizer
  BY <1>1, UpToDate DEF AddFinalizer, IInv, WorkerInv
<1>3. ~cr.deleting
  BY <1>2, ObjectFacts DEF WellFormed
<1>4. obj.finalizer = TRUE
  BY <1>2, ObjectFacts DEF Object
<1>5. cr' = [obj EXCEPT !.rv = cr.rv + 1]
  BY <1>1, <1>4 DEF Put, Store, apiVars
<1>6. /\ cr'.present = cr.present /\ cr'.uid = cr.uid /\ cr'.deleting = cr.deleting
      /\ cr'.spec = cr.spec /\ cr'.commit = cr.commit
  BY <1>2, <1>5, ObjectFacts DEF Object
<1>7. cr'.finalizer
  BY <1>2, <1>5, ObjectFacts DEF Object
<1>8. cr'.present /\ ~cr'.deleting
  BY <1>2, <1>3, <1>6
<1>9. QED
  BY <1>2, <1>6, <1>7, <1>8, ObjectFacts DEF Guarded, Changed

LEMMA RemoveFinalizerStep ==
  ASSUME IInv, RemoveFinalizer
  PROVE  UNCHANGED cr \/ Removed
<1>1. SUFFICES ASSUME Current(worker.obj), Put([worker.obj EXCEPT !.finalizer = FALSE]),
                      ~UNCHANGED cr
               PROVE  Removed
  BY DEF RemoveFinalizer, apiVars
<1>2. /\ cr.finalizer /\ cr.deleting /\ ~watcher /\ ~collector
      /\ cr' = [Gone EXCEPT !.rv = cr.rv + 1]
  BY <1>1, RemovedObject DEF RemoveFinalizer, apiVars
<1>3. ~cr'.present
  BY <1>2 DEF Gone, NoObject
<1>4. QED
  BY <1>2, <1>3 DEF Removed

LEMMA PutManifestStep ==
  ASSUME IInv, PutManifest
  PROVE  UNCHANGED cr \/ Edited
<1>1. SUFFICES ASSUME Current(poll.obj), Put(poll.obj), ~UNCHANGED cr
               PROVE  Edited
  BY DEF PutManifest, apiVars
<1>2. /\ cr'.present /\ cr'.uid = cr.uid /\ cr'.spec = cr.spec
      /\ cr'.finalizer = cr.finalizer /\ cr'.deleting = cr.deleting
      /\ cr'.commit = clone /\ cr.commit <= clone
  BY <1>1, StoredManifest DEF PutManifest, apiVars
<1>3. cr.present
  BY <1>1 DEF Current
<1>4. QED
  BY <1>2, <1>3, ObjectFacts DEF Edited, Changed

(* The six ways in which the object changes; none changes what is           *)
(* registered for it at the same time.                                      *)
LEMMA ObjectStep ==
  ASSUME IInv, [Next]_vars
  PROVE  \/ UNCHANGED cr
         \/ /\ Created \/ Edited \/ Marked \/ Guarded \/ Discarded \/ Removed
            /\ UNCHANGED memVars
<1>1. ASSUME \/ Push \/ Deliver \/ DeliverChildren \/ Resync \/ \E c \in Child : CollectGarbage(c)
             \/ Reconcile \/ FinalizeGlideinSet \/ Refetch
             \/ \E c \in Secrets : CreateSecret(c)
             \/ ApplyDeployment \/ ReadFiles \/ ApplyData \/ AddWatcher \/ AddCollectorClient
             \/ WorkerError \/ SyncRepo \/ Check \/ ReadManifest
             \/ PollError \/ Crash \/ UNCHANGED vars
      PROVE  UNCHANGED cr
  BY <1>1 DEF Push, Deliver, DeliverChildren, Resync, CollectGarbage, Reconcile,
     FinalizeGlideinSet, Refetch, CreateSecret, ApplyDeployment, ReadFiles, ApplyData,
     AddWatcher, AddCollectorClient, WorkerError, SyncRepo, Check, ReadManifest, PollError,
     Crash, apiVars, vars
<1>2. ASSUME Create \/ EditSpec \/ Delete \/ AddFinalizer \/ RemoveFinalizer \/ PutManifest
      PROVE  UNCHANGED memVars
  BY <1>2 DEF Create, EditSpec, Delete, AddFinalizer, RemoveFinalizer, PutManifest,
     outside, polling
<1>3. QED
  BY <1>1, <1>2, CreateStep, EditSpecStep, DeleteStep, AddFinalizerStep, RemoveFinalizerStep,
     PutManifestStep
  DEF Next, Environment, Worker, DataLoop

(* The two writers of the object, the reconcile and the data loop, and the  *)
(* user never undo each other's changes: its spec and commit, and those of  *)
(* its Deployment, only go forward.                                         *)
THEOREM ForwardOnly == Spec => NeverGoesBack
<1> DEFINE old == children["deployment"]
           new == children'["deployment"]
           Forward == /\ cr'.present /\ cr'.uid = cr.uid
                            => cr'.spec >= cr.spec /\ cr'.commit >= cr.commit
                      /\ old # None /\ new # None /\ new.uid = cr.uid
                            => new.spec >= old.spec /\ new.commit >= old.commit
<1>1. ASSUME IInv, [Next]_vars, cr'.present, cr'.uid = cr.uid
      PROVE  cr'.spec >= cr.spec /\ cr'.commit >= cr.commit
  <2>1. cr' = cr \/ Changed
    BY <1>1, ObjectStep DEF Created, Edited, Marked, Guarded, Discarded, Removed
  <2>2. cr'.spec \in Nat /\ cr'.commit \in Nat
    <3>1. cr' \in Object
      BY <1>1, NextInv DEF IInv, TypeOK
    <3>2. QED
      BY <3>1, BoundsAssumption DEF Object, Commit
  <2>3. QED
    BY <1>1, <2>1, <2>2, ObjectFacts DEF Changed
<1>2. ASSUME IInv, [Next]_vars, old # None, new # None, new.uid = cr.uid
      PROVE  new.spec >= old.spec /\ new.commit >= old.commit
  <2>1. /\ TypeOK /\ "deployment" \in Child
        /\ children \in [Child -> ChildObject \cup {None}]
    BY <1>2 DEF IInv, TypeOK, Child
  <2>2. old.spec \in Nat /\ old.commit \in Nat
    BY <1>2, <2>1, BoundsAssumption DEF ChildObject, Commit
  <2>3. CASE new = old
    BY <2>2, <2>3
  <2>4. CASE new # old
    <3>1. PICK value \in ChildObject :
             /\ worker.pc = "deployment" /\ value.uid = worker.obj.uid
             /\ value.spec = worker.obj.spec /\ value.commit = worker.obj.commit
             /\ new = KeepOwner("deployment", value)
      BY <1>2, <2>1, <2>4, ChildStep
    <3>2. /\ new.uid = old.uid
          /\ new.spec = worker.obj.spec /\ new.commit = worker.obj.commit
      BY <1>2, <2>1, <3>1, ChildTypes
    <3>3. worker.obj.uid = cr.uid
      BY <1>2, <3>1, CreatingCopy, Names
    <3>4. old.spec <= worker.obj.spec /\ old.commit <= worker.obj.commit
      BY <1>2, <3>1, <3>2, <3>3 DEF IInv, DeploymentInv
    <3>5. worker.obj.spec \in Nat /\ worker.obj.commit \in Nat
      BY <2>1, CopyTypes
    <3>6. QED
      BY <2>2, <3>2, <3>4, <3>5
  <2>5. QED
    BY <2>3, <2>4
<1>3. IInv /\ [Next]_vars => Forward
  BY <1>1, <1>2
<1>4. QED
  BY <1>3, Invariance, PTL DEF Spec, NeverGoesBack

-----------------------------------------------------------------------------
(* The controller implements the finalizer protocol. *)

LEMMA LifeInit ==
  ASSUME Init
  PROVE  Life!Init
<1>1. ~cr.present /\ watcher = FALSE /\ collector = FALSE /\ process = 0
  BY DEF Init, NoObject
<1>2. QED
  BY <1>1 DEF Life!Init, lifeState

(* The steps that change the object. *)
LEMMA LifeObject ==
  ASSUME IInv, [Next]_vars, ~UNCHANGED cr
  PROVE  [Life!Next]_(Life!life)
<1>1. /\ Created \/ Edited \/ Marked \/ Guarded \/ Discarded \/ Removed
      /\ UNCHANGED memVars
  BY ObjectStep
<1>2. UNCHANGED <<watcher \/ collector, process>>
  BY <1>1 DEF memVars
<1>3. WellFormed(cr)
  BY ObjectFacts
<1>4. CASE Created
  BY <1>2, <1>4 DEF Created, lifeState, Life!Next, Life!Create
<1>5. CASE Edited
  <2>1. lifeState' = lifeState
    BY <1>5 DEF Edited, Changed, lifeState
  <2>2. QED
    BY <1>2, <2>1 DEF Life!life
<1>6. CASE Marked
  BY <1>2, <1>6 DEF Marked, Changed, lifeState, Life!Next, Life!Delete
<1>7. CASE Guarded
  BY <1>2, <1>7 DEF Guarded, Changed, lifeState, Life!Next, Life!Protect
<1>8. CASE Discarded
  BY <1>2, <1>8 DEF Discarded, lifeState, Life!Next, Life!Discard
<1>9. CASE Removed
  BY <1>2, <1>3, <1>9 DEF Removed, WellFormed, lifeState, Life!Next, Life!Remove
<1>10. QED
  BY <1>1, <1>4, <1>5, <1>6, <1>7, <1>8, <1>9

(* The steps that register or unregister. *)
LEMMA LifeRegistered ==
  ASSUME IInv, [Next]_vars, UNCHANGED cr
  PROVE  [Life!Next]_(Life!life)
<1>1. lifeState' = lifeState
  BY DEF lifeState
<1>2. {watcher, collector} \subseteq BOOLEAN /\ WellFormed(cr)
  BY ObjectFacts DEF IInv, TypeOK
<1>3. CASE UNCHANGED memVars
  <2>1. UNCHANGED <<watcher \/ collector, process>>
    BY <1>3 DEF memVars
  <2>2. QED
    BY <1>1, <2>1 DEF Life!life
<1>4. CASE AddWatcher \/ AddCollectorClient
  <2>1. worker.pc \in Creating
    BY <1>4, Names DEF AddWatcher, AddCollectorClient
  <2>2. lifeState \in {"protected", "deleting"}
    BY <2>1, CreatingCopy DEF lifeState
  <2>3. (watcher \/ collector)' = TRUE /\ process' = process
    BY <1>4 DEF AddWatcher, AddCollectorClient
  <2>4. QED
    BY <1>1, <2>2, <2>3 DEF Life!Next, Life!Register
<1>5. CASE FinalizeGlideinSet
  <2>1. (watcher \/ collector)' = FALSE /\ process' = process
    BY <1>5 DEF FinalizeGlideinSet
  <2>2. CASE cr.finalizer
    <3>1. lifeState = "deleting"
      BY <1>2, <1>5, <2>2 DEF IInv, WorkerInv, Finalizing, FinalizeGlideinSet, WellFormed, lifeState
    <3>2. QED
      BY <1>1, <2>1, <3>1 DEF Life!Next, Life!Unregister
  <2>3. CASE ~cr.finalizer
    <3>1. (watcher \/ collector) = FALSE
      BY <1>2, <2>3 DEF IInv, FinalizerProtects
    <3>2. QED
      BY <1>1, <2>1, <3>1 DEF Life!life
  <2>4. QED
    BY <2>2, <2>3
<1>6. CASE Crash
  <2>1. (watcher \/ collector)' = FALSE /\ process' # process
    BY <1>6 DEF Crash, IInv, TypeOK
  <2>2. QED
    BY <1>1, <2>1 DEF Life!Next, Life!Restart
<1>7. ASSUME ~AddWatcher, ~AddCollectorClient, ~FinalizeGlideinSet, ~Crash
      PROVE  UNCHANGED memVars
  BY <1>7 DEF Next, Environment, Worker, DataLoop, Create, EditSpec, Delete, Push, Deliver,
     DeliverChildren, Resync, CollectGarbage, Reconcile, AddFinalizer, Refetch, RemoveFinalizer,
     CreateSecret, ApplyDeployment, ReadFiles, ApplyData, WorkerError, SyncRepo, Check,
     ReadManifest, PutManifest, PollError, outside, polling, vars
<1>8. QED
  BY <1>3, <1>4, <1>5, <1>6, <1>7

(* Seen from outside, Reconcile with its caches, conflicts, retries and     *)
(* restarts is the finalizer protocol of GlideinSetLife.                    *)
THEOREM Refinement == Spec => ImplementsLife
<1>1. Init => Life!Init
  BY LifeInit
<1>2. IInv /\ [Next]_vars => [Life!Next]_(Life!life)
  BY LifeObject, LifeRegistered
<1>3. QED
  BY <1>1, <1>2, Invariance, PTL DEF Spec, ImplementsLife, Life!Spec

=============================================================================
