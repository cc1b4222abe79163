---------------------- MODULE GlideinSetCollectionProofs ----------------------
(***************************************************************************)
(* Proofs about GlideinSetCollection, for any collections, GlideinSets,    *)
(* parts, keys, lives, edits and faults.  IInv says what the stored        *)
(* collection, the cached one and the copy of the worker have to do with   *)
(* each other; KeptInv, for a collection that is alone in its namespace,   *)
(* what has been removed from the spec between them.                       *)
(***************************************************************************)
EXTENDS GlideinSetCollection, TLAPS

WellFormed(o) ==
    /\ o.present => o.uid > 0
    /\ ~o.present => ~o.finalizer /\ o.sets = {}
    /\ o.deleting => o.finalizer

(* n is o or a later version of the collection of this name. *)
Older(o, n) ==
    /\ o.uid <= n.uid /\ o.url <= n.url
    /\ o.uid = n.uid /\ n.present =>
          /\ o.present
          /\ o.finalizer => n.finalizer
          /\ o.deleting => n.deleting
          /\ o.url = n.url => o.sets = n.sets

(* A version with the finalizer is not followed by one without it unless   *)
(* it is being deleted, nor by one of another life.                        *)
Kept(o, n) ==
    /\ o.finalizer /\ ~o.deleting => n.finalizer
    /\ o.finalizer /\ n.finalizer => o.uid = n.uid

CacheInv ==
    \A c \in Collections :
        /\ WellFormed(coll[c]) /\ WellFormed(cache[c])
        /\ Older(cache[c], coll[c]) /\ Kept(cache[c], coll[c])

Creating   == {"parts", "sets", "delete"}
Finalizing == {"refetch", "removeFinalizer"}

(* A reconcile that makes children works for the collection as it lives    *)
(* now; one that removes the finalizer removes it from none that is to     *)
(* live; and the worker writes from a version that the cache has or had.   *)
WorkerInv ==
    LET c == worker.coll
    IN  worker.pc # "idle" =>
          /\ WellFormed(worker.obj)
          /\ worker.pc = "addFinalizer" => ~worker.obj.finalizer
          /\ worker.pc \in {"addFinalizer", "removeFinalizer"} => Older(worker.obj, cache[c])
          /\ worker.pc \in Finalizing /\ coll[c].finalizer => coll[c].deleting
          /\ worker.pc \in Creating => coll[c].finalizer /\ coll[c].uid = worker.obj.uid

(* No GlideinSet is of a later life than its collection. *)
SetInv == \A n \in Names : sets[n] # None => sets[n].uid <= coll[sets[n].owner].uid

IInv == TypeOK /\ CacheInv /\ WorkerInv /\ SetInv

-----------------------------------------------------------------------------
(* Versions *)

LEMMA Numbers ==
  ASSUME NEW o \in Object
  PROVE  o.uid \in Nat /\ o.url \in Nat
  BY BoundsAssumption DEF Object

LEMMA OlderReflexive ==
  ASSUME NEW o \in Object
  PROVE  Older(o, o) /\ Kept(o, o)
  BY Numbers DEF Older, Kept

LEMMA OlderTransitive ==
  ASSUME NEW o \in Object, NEW m \in Object, NEW n \in Object, Older(o, m), Older(m, n)
  PROVE  Older(o, n)
<1>1. {o.uid, m.uid, n.uid} \subseteq Nat /\ {o.url, m.url, n.url} \subseteq Nat
  BY Numbers
<1>2. QED
  BY <1>1 DEF Older

(* Two versions, each not older than the other, are the same. *)
LEMMA OlderAntisymmetric ==
  ASSUME NEW o \in Object, NEW n \in Object, WellFormed(o), WellFormed(n),
         Older(o, n), Older(n, o)
  PROVE  o = n
<1>1. o.uid = n.uid /\ o.url = n.url
  BY Numbers DEF Older
<1>2. o.present <=> n.present
  BY <1>1 DEF Older
<1>3. (o.finalizer <=> n.finalizer) /\ (o.deleting <=> n.deleting) /\ o.sets = n.sets
  BY <1>1, <1>2 DEF Older, WellFormed
<1>4. o.present = n.present
  BY <1>2 DEF Object
<1>5. o.finalizer = n.finalizer
  BY <1>3 DEF Object
<1>6. o.deleting = n.deleting
  BY <1>3 DEF Object
<1>7. QED
  BY <1>1, <1>3, <1>4, <1>5, <1>6 DEF Object

LEMMA CollTypes ==
  ASSUME TypeOK
  PROVE  /\ coll \in [Collections -> Object] /\ cache \in [Collections -> Object]
         /\ \A c \in Collections : coll[c] \in Object /\ cache[c] \in Object
  BY DEF TypeOK

Reconciling == [pc : WorkerState, coll : Collections, obj : Object,
                todo : SUBSET (Names \cup Part)]

LEMMA WorkerTypes ==
  ASSUME TypeOK
  PROVE  /\ worker = Idle <=> worker.pc = "idle"
         /\ worker.pc # "idle" =>
               /\ worker \in Reconciling
               /\ worker.coll \in Collections /\ worker.obj \in Object /\ worker.obj.present
               /\ worker.todo \subseteq Names \cup Part /\ worker.pc \in WorkerState
<1>1. Idle.pc = "idle"
  BY DEF Idle
<1>2. worker = Idle \/ (worker \in Reconciling /\ worker.obj.present)
  BY DEF TypeOK, Reconciling
<1>3. CASE worker = Idle
  BY <1>1, <1>3
<1>4. CASE worker \in Reconciling /\ worker.obj.present /\ worker # Idle
  BY <1>4 DEF Reconciling, WorkerState
<1>5. QED
  BY <1>2, <1>3, <1>4

LEMMA StoreResult ==
  ASSUME TypeOK, NEW c \in Collections, NEW obj \in Object, Store(c, obj)
  PROVE  /\ coll' \in [Collections -> Object] /\ coll'[c] = obj
         /\ \A d \in Collections : d # c => coll'[d] = coll[d]
         /\ cache' = cache
  BY CollTypes DEF Store

LEMMA NoObjectType ==
  /\ NoObject \in Object
  /\ NoObject.present = FALSE /\ NoObject.finalizer = FALSE /\ NoObject.deleting = FALSE
  /\ NoObject.sets = {}
  BY BoundsAssumption DEF NoObject, Object

LEMMA GoneType ==
  ASSUME TypeOK, NEW c \in Collections
  PROVE  /\ Gone(c) \in Object /\ Gone(c).uid = coll[c].uid /\ Gone(c).url = coll[c].url
         /\ Gone(c).present = FALSE /\ Gone(c).finalizer = FALSE /\ Gone(c).deleting = FALSE
         /\ Gone(c).sets = {}
<1>1. coll[c].uid \in 0 .. MaxLives /\ coll[c].url \in 0 .. MaxChanges
  BY CollTypes DEF Object
<1>2. QED
  BY <1>1, NoObjectType DEF Gone, Object, NoObject

(* The worker's write only goes through when the cache has the stored      *)
(* version.                                                                *)
LEMMA UpToDate ==
  ASSUME IInv, worker.pc \in {"addFinalizer", "removeFinalizer"},
         coll[worker.coll] = worker.obj
  PROVE  cache[worker.coll] = coll[worker.coll]
<1>1. worker.coll \in Collections /\ worker.pc # "idle"
  BY WorkerTypes DEF IInv
<1>2. Older(coll[worker.coll], cache[worker.coll]) /\ Older(cache[worker.coll], coll[worker.coll])
  BY <1>1 DEF IInv, WorkerInv, CacheInv
<1>3. QED
  BY <1>1, <1>2, OlderAntisymmetric, CollTypes DEF IInv, CacheInv

-----------------------------------------------------------------------------
(* What keeps the parts of the invariant *)

LEMMA Frame ==
  ASSUME IInv
  PROVE  /\ UNCHANGED collVars => CacheInv'
         /\ UNCHANGED <<collVars, worker>> => WorkerInv'
         /\ UNCHANGED collVars /\ worker' = Idle => WorkerInv'
         /\ UNCHANGED <<coll, sets>> => SetInv'
<1>1. Idle.pc = "idle"
  BY DEF Idle
<1>2. QED
  BY <1>1 DEF IInv, CacheInv, WorkerInv, SetInv, collVars

(* A write that neither adds nor removes the finalizer. *)
Continues(o, n) ==
    /\ WellFormed(n) /\ Older(o, n)
    /\ n.finalizer = o.finalizer
    /\ o.finalizer => n.uid = o.uid

LEMMA ContinuesKeeps ==
  ASSUME IInv, NEW c \in Collections, NEW obj \in Object, Store(c, obj),
         Continues(coll[c], obj), UNCHANGED <<setVars, partVars, queued, worker, faults>>,
         dropped' \subseteq Names
  PROVE  IInv'
<1>1. /\ TypeOK /\ coll' \in [Collections -> Object] /\ coll'[c] = obj /\ cache' = cache
      /\ \A d \in Collections : d # c => coll'[d] = coll[d]
      /\ \A d \in Collections : coll[d] \in Object /\ cache[d] \in Object
  BY StoreResult, CollTypes DEF IInv
<1>2. TypeOK'
  BY <1>1 DEF TypeOK, setVars, partVars
<1>3. /\ CacheInv /\ coll[c].uid \in Nat /\ obj.uid \in Nat
      /\ obj.finalizer = coll[c].finalizer /\ (coll[c].finalizer => obj.uid = coll[c].uid)
  BY <1>1, Numbers DEF IInv, Continues
<1>4. CacheInv'
  <2>1. SUFFICES ASSUME NEW d \in Collections
                 PROVE  /\ WellFormed(coll'[d]) /\ WellFormed(cache[d])
                        /\ Older(cache[d], coll'[d]) /\ Kept(cache[d], coll'[d])
    BY <1>1 DEF CacheInv
  <2>2. CASE d # c
    BY <1>1, <1>3, <2>2 DEF CacheInv
  <2>3. CASE d = c
    <3>1. WellFormed(cache[c]) /\ Older(cache[c], coll[c]) /\ Kept(cache[c], coll[c])
      BY <1>3 DEF CacheInv
    <3>2. Older(cache[c], obj)
      BY <1>1, <3>1, OlderTransitive DEF Continues
    <3>3. Kept(cache[c], obj)
      BY <1>3, <3>1 DEF Kept
    <3>4. QED
      BY <1>1, <2>3, <3>1, <3>2, <3>3 DEF Continues
  <2>4. QED
    BY <2>2, <2>3
<1>5. WorkerInv'
  <2>1. WorkerInv /\ (worker.pc # "idle" => worker.coll \in Collections)
    BY WorkerTypes DEF IInv
  <2>2. coll[c].finalizer /\ coll[c].deleting /\ obj.finalizer => obj.deleting
    BY <1>3 DEF Continues, Older, WellFormed
  <2>3. ASSUME worker.pc # "idle"
        PROVE  LET w == worker.coll
               IN  /\ worker.pc \in Finalizing /\ coll'[w].finalizer => coll'[w].deleting
                   /\ worker.pc \in Creating => coll'[w].finalizer /\ coll'[w].uid = worker.obj.uid
    <3>1. CASE worker.coll = c
      BY <1>1, <1>3, <2>1, <2>2, <2>3, <3>1 DEF WorkerInv
    <3>2. CASE worker.coll # c
      BY <1>1, <2>1, <2>3, <3>2 DEF WorkerInv
    <3>3. QED
      BY <3>1, <3>2
  <2>4. QED
    BY <1>1, <2>1, <2>3 DEF WorkerInv
<1>6. SetInv'
  <2>1. SUFFICES ASSUME NEW n \in Names, sets[n] # None
                 PROVE  sets[n].uid <= coll'[sets[n].owner].uid
    BY DEF SetInv, setVars
  <2>2. sets[n] \in GlideinSet
    BY <1>1, <2>1 DEF TypeOK
  <2>3. /\ sets[n].owner \in Collections /\ sets[n].uid \in Nat
        /\ sets[n].uid <= coll[sets[n].owner].uid
    BY <2>1, <2>2, BoundsAssumption DEF GlideinSet, IInv, SetInv
  <2>4. coll[c].uid <= obj.uid
    BY DEF Continues, Older
  <2>5. QED
    BY <1>1, <1>3, <2>3, <2>4
<1>7. QED
  BY <1>2, <1>4, <1>5, <1>6 DEF IInv

-----------------------------------------------------------------------------
(* The steps around the operator *)

LEMMA CreateKeeps ==
  ASSUME IInv, NEW c \in Collections, Create(c)
  PROVE  IInv'
<1>1. PICK S \in SUBSET SetNames :
         Store(c, [NoObject EXCEPT !.present = TRUE, !.uid = coll[c].uid + 1,
                                   !.url = coll[c].url, !.sets = S])
  BY DEF Create
<1> DEFINE obj == [NoObject EXCEPT !.present = TRUE, !.uid = coll[c].uid + 1,
                                   !.url = coll[c].url, !.sets = S]
<1>2. /\ TypeOK /\ ~coll[c].present /\ coll[c].uid < MaxLives
      /\ dropped' \subseteq dropped
      /\ UNCHANGED <<setVars, partVars, queued, worker, faults>>
  BY DEF IInv, Create, outside
<1>3. /\ coll[c] \in Object /\ coll[c].uid \in Nat /\ coll[c].url \in 0 .. MaxChanges
      /\ WellFormed(coll[c]) /\ coll[c].url \in Nat
  BY <1>2, CollTypes, Numbers DEF Object, IInv, CacheInv
<1>4. coll[c].finalizer = FALSE
  BY <1>2, <1>3 DEF WellFormed, Object
<1>5. /\ obj.present = TRUE /\ obj.uid = coll[c].uid + 1 /\ obj.url = coll[c].url
      /\ obj.sets = S
  BY DEF NoObject
<1>6. obj.finalizer = FALSE /\ obj.deleting = FALSE
  BY DEF NoObject
<1>7. obj \in Object
  <2>1. coll[c].uid + 1 \in 0 .. MaxLives
    BY <1>2, <1>3, BoundsAssumption
  <2>2. QED
    BY <1>3, <2>1, NoObjectType DEF Object
<1>8. WellFormed(obj)
  BY <1>3, <1>5, <1>6 DEF WellFormed
<1>9. Older(coll[c], obj)
  BY <1>3, <1>5 DEF Older
<1>10. Continues(coll[c], obj)
  BY <1>4, <1>6, <1>8, <1>9 DEF Continues
<1>11. dropped' \subseteq Names
  BY <1>2 DEF TypeOK
<1>12. QED
  BY <1>1, <1>2, <1>7, <1>10, <1>11, ContinuesKeeps

LEMMA EditKeeps ==
  ASSUME IInv, NEW c \in Collections, Edit(c)
  PROVE  IInv'
<1>1. PICK S \in SUBSET SetNames :
         /\ Store(c, [coll[c] EXCEPT !.url = coll[c].url + 1, !.sets = S])
         /\ dropped' = dropped \cup {nameFor(c, s) : s \in coll[c].sets \ S}
  BY DEF Edit
<1> DEFINE obj == [coll[c] EXCEPT !.url = coll[c].url + 1, !.sets = S]
<1>2. /\ TypeOK /\ coll[c].present /\ coll[c].uid + coll[c].url < MaxChanges
      /\ UNCHANGED <<setVars, partVars, queued, worker, faults>>
  BY DEF IInv, Edit, MayChange, Live, outside
<1>3. /\ coll[c] \in Object /\ coll[c].uid \in Nat /\ coll[c].url \in Nat
      /\ WellFormed(coll[c]) /\ coll[c].sets \subseteq SetNames
  BY <1>2, CollTypes, Numbers DEF Object, IInv, CacheInv
<1>4. /\ obj.uid = coll[c].uid /\ obj.url = coll[c].url + 1
  BY <1>3 DEF Object
<1>5. /\ obj.present = coll[c].present /\ obj.finalizer = coll[c].finalizer
      /\ obj.deleting = coll[c].deleting
  BY <1>3 DEF Object
<1>6. obj \in Object
  <2>1. coll[c].url + 1 \in 0 .. MaxChanges
    BY <1>2, <1>3, BoundsAssumption
  <2>2. QED
    BY <1>3, <2>1 DEF Object
<1>7. obj.present
  BY <1>2, <1>5
<1>8. WellFormed(obj)
  BY <1>2, <1>3, <1>4, <1>5, <1>7 DEF WellFormed
<1>9. Older(coll[c], obj)
  BY <1>2, <1>3, <1>4, <1>5 DEF Older
<1>10. Continues(coll[c], obj)
  BY <1>4, <1>5, <1>8, <1>9 DEF Continues
<1>11. dropped' \subseteq Names
  BY <1>1, <1>2, <1>3 DEF TypeOK, Names
<1>12. QED
  BY <1>1, <1>2, <1>6, <1>10, <1>11, ContinuesKeeps

LEMMA DeleteKeeps ==
  ASSUME IInv, NEW c \in Collections, Delete(c)
  PROVE  IInv'
<1>1. /\ TypeOK /\ coll[c].present /\ dropped' \subseteq Names
      /\ UNCHANGED <<setVars, partVars, queued, worker, faults>>
  BY DEF IInv, TypeOK, Delete, Live, outside
<1>2. /\ coll[c] \in Object /\ coll[c].uid \in Nat /\ coll[c].url \in Nat
      /\ WellFormed(coll[c])
  BY <1>1, CollTypes, Numbers DEF IInv, CacheInv
<1>3. CASE coll[c].finalizer
  <2> DEFINE obj == [coll[c] EXCEPT !.deleting = TRUE]
  <2>1. Store(c, obj)
    BY <1>3 DEF Delete
  <2>2. /\ obj \in Object /\ obj.uid = coll[c].uid /\ obj.url = coll[c].url
        /\ obj.sets = coll[c].sets
    BY <1>2 DEF Object
  <2>3. obj.present = coll[c].present /\ obj.finalizer = coll[c].finalizer
    BY <1>2 DEF Object
  <2>4. obj.deleting = TRUE
    BY <1>2 DEF Object
  <2>5. obj.present /\ obj.finalizer
    BY <1>1, <1>3, <2>3
  <2>6. WellFormed(obj)
    BY <1>1, <1>2, <2>2, <2>5 DEF WellFormed
  <2>7. Older(coll[c], obj)
    BY <1>1, <1>2, <2>2, <2>4, <2>5 DEF Older
  <2>8. Continues(coll[c], obj)
    BY <2>2, <2>3, <2>6, <2>7 DEF Continues
  <2>9. QED
    BY <1>1, <2>1, <2>2, <2>8, ContinuesKeeps
<1>4. CASE ~coll[c].finalizer
  <2>1. Store(c, Gone(c))
    BY <1>4 DEF Delete
  <2>2. /\ Gone(c) \in Object /\ Gone(c).uid = coll[c].uid /\ Gone(c).url = coll[c].url
        /\ Gone(c).present = FALSE /\ Gone(c).finalizer = FALSE /\ Gone(c).deleting = FALSE
        /\ Gone(c).sets = {}
    BY <1>1, GoneType
  <2>3. coll[c].finalizer = FALSE
    BY <1>2, <1>4 DEF Object
  <2>4. WellFormed(Gone(c)) /\ Older(coll[c], Gone(c))
    BY <1>2, <2>2 DEF WellFormed, Older
  <2>5. Continues(coll[c], Gone(c))
    BY <2>2, <2>3, <2>4 DEF Continues
  <2>6. QED
    BY <1>1, <2>1, <2>2, <2>5, ContinuesKeeps
<1>5. QED
  BY <1>3, <1>4

LEMMA DeliverKeeps ==
  ASSUME IInv, NEW c \in Collections, Deliver(c)
  PROVE  IInv'
<1>1. /\ TypeOK /\ cache' = [cache EXCEPT ![c] = coll[c]] /\ queued' = queued \cup {c}
      /\ UNCHANGED <<coll, setVars, partVars, dropped, worker, faults>>
  BY DEF IInv, Deliver, outside
<1>2. /\ \A d \in Collections : coll[d] \in Object /\ cache[d] \in Object
      /\ \A d \in Collections : cache'[d] = IF d = c THEN coll[c] ELSE cache[d]
      /\ cache' \in [Collections -> Object]
  BY <1>1, CollTypes
<1>3. TypeOK'
  BY <1>1, <1>2 DEF TypeOK, setVars, partVars
<1>4. CacheInv'
  BY <1>1, <1>2, OlderReflexive DEF IInv, CacheInv
<1>5. WorkerInv'
  <2>1. worker.pc # "idle" => worker.coll \in Collections /\ worker.obj \in Object
    BY <1>1, WorkerTypes
  <2>2. ASSUME worker.pc # "idle", Older(worker.obj, cache[worker.coll])
        PROVE  Older(worker.obj, cache'[worker.coll])
    <3>1. CASE worker.coll = c
      BY <1>2, <2>1, <2>2, <3>1, OlderTransitive DEF IInv, CacheInv
    <3>2. CASE worker.coll # c
      BY <1>2, <2>1, <2>2, <3>2
    <3>3. QED
      BY <3>1, <3>2
  <2>3. QED
    BY <1>1, <2>1, <2>2 DEF IInv, WorkerInv
<1>6. SetInv'
  BY <1>1, Frame DEF setVars
<1>7. QED
  BY <1>3, <1>4, <1>5, <1>6 DEF IInv

LEMMA ResyncKeeps ==
  ASSUME IInv, NEW c \in Collections, Resync(c)
  PROVE  IInv'
<1>1. /\ TypeOK /\ queued' = queued \cup {c}
      /\ UNCHANGED <<collVars, setVars, partVars, dropped, worker, faults>>
  BY DEF IInv, Resync, outside
<1>2. TypeOK'
  BY <1>1 DEF TypeOK, collVars, setVars, partVars
<1>3. UNCHANGED <<coll, sets>>
  BY <1>1 DEF collVars, setVars
<1>4. QED
  BY <1>1, <1>2, <1>3, Frame DEF IInv

LEMMA DeliverChildrenKeeps ==
  ASSUME IInv, DeliverChildren
  PROVE  IInv'
<1>1. /\ TypeOK /\ known' = sets /\ fresh' = Names /\ seen' = Existing
      /\ UNCHANGED <<collVars, sets, parts, queued, dropped, worker, faults>>
  BY DEF IInv, DeliverChildren, outside
<1>2. TypeOK'
  BY <1>1 DEF TypeOK, collVars, Existing
<1>3. UNCHANGED coll
  BY <1>1 DEF collVars
<1>4. QED
  BY <1>1, <1>2, <1>3, Frame DEF IInv

(* A write to one GlideinSet. *)
LEMMA StoreSetResult ==
  ASSUME TypeOK, NEW n \in Names, NEW set \in GlideinSet \cup {None}, StoreSet(n, set)
  PROVE  /\ sets' \in [Names -> GlideinSet \cup {None}] /\ known' = known
         /\ fresh' \subseteq Names /\ \A m \in fresh' : known'[m] = sets'[m]
         /\ sets'[n] = set /\ \A m \in Names : m # n => sets'[m] = sets[m]
<1>1. /\ sets \in [Names -> GlideinSet \cup {None}] /\ fresh \subseteq Names
      /\ \A m \in fresh : known[m] = sets[m]
  BY DEF TypeOK
<1>2. /\ sets' = [sets EXCEPT ![n] = set] /\ known' = known
      /\ fresh' = IF set = known[n] /\ set = None THEN fresh \cup {n} ELSE fresh \ {n}
  BY DEF StoreSet
<1>3. /\ sets' \in [Names -> GlideinSet \cup {None}]
      /\ sets'[n] = set /\ \A m \in Names : m # n => sets'[m] = sets[m]
  BY <1>1, <1>2
<1>4. ASSUME NEW m \in fresh'
      PROVE  known'[m] = sets'[m]
  BY <1>1, <1>2, <1>3
<1>5. QED
  BY <1>1, <1>2, <1>3, <1>4

LEMMA StoreSetInv ==
  ASSUME IInv, NEW n \in Names, NEW set \in GlideinSet \cup {None}, StoreSet(n, set),
         set # None => set.uid <= coll[set.owner].uid, UNCHANGED coll
  PROVE  SetInv'
  BY StoreSetResult DEF IInv, SetInv

(* Its owner never changes. *)
SameOwner(set, old) == set # None => /\ old # None /\ set.owner = old.owner
                                     /\ set.uid = old.uid

LEMMA RemoveResult ==
  ASSUME TypeOK, NEW n \in Names, sets[n] # None, Remove(n)
  PROVE  \/ UNCHANGED setVars
         \/ \E set \in GlideinSet \cup {None} : StoreSet(n, set) /\ SameOwner(set, sets[n])
<1>1. sets[n] \in GlideinSet
  BY DEF TypeOK
<1> DEFINE set == [sets[n] EXCEPT !.deleting = TRUE]
<1>2. set \in GlideinSet /\ set.owner = sets[n].owner /\ set.uid = sets[n].uid
  BY <1>1 DEF GlideinSet
<1>3. SameOwner(set, sets[n]) /\ SameOwner(None, sets[n])
  BY <1>2 DEF SameOwner
<1>4. UNCHANGED setVars \/ StoreSet(n, set) \/ StoreSet(n, None)
  BY DEF Remove
<1>5. QED
  BY <1>2, <1>3, <1>4

(* A GlideinSet changes or goes, and nothing else happens. *)
LEMMA SetKeeps ==
  ASSUME IInv, NEW n \in Names, NEW set \in GlideinSet \cup {None},
         StoreSet(n, set), SameOwner(set, sets[n]),
         UNCHANGED <<collVars, partVars, queued, dropped, worker, faults>>
  PROVE  IInv'
<1>1. TypeOK /\ UNCHANGED coll
  BY DEF IInv, collVars
<1>2. set # None => set.uid <= coll[set.owner].uid
  BY DEF IInv, SetInv, SameOwner
<1>3. SetInv'
  BY <1>1, <1>2, StoreSetInv
<1>4. TypeOK'
  <2>1. /\ sets' \in [Names -> GlideinSet \cup {None}] /\ known' = known
        /\ fresh' \subseteq Names /\ \A m \in fresh' : known'[m] = sets'[m]
    BY <1>1, StoreSetResult
  <2>2. QED
    BY <1>1, <2>1 DEF TypeOK, collVars, partVars
<1>5. QED
  BY <1>3, <1>4, Frame DEF IInv

LEMMA CollectSetKeeps ==
  ASSUME IInv, NEW n \in Names, CollectSet(n)
  PROVE  IInv'
<1>1. /\ TypeOK /\ sets[n] # None /\ Remove(n)
      /\ UNCHANGED <<collVars, partVars, queued, dropped, worker, faults>>
  BY DEF IInv, CollectSet, outside
<1>2. CASE UNCHANGED setVars
  <2>1. TypeOK' /\ UNCHANGED <<coll, sets>>
    BY <1>1, <1>2 DEF TypeOK, collVars, setVars, partVars
  <2>2. QED
    BY <1>1, <2>1, Frame DEF IInv
<1>3. QED
  BY <1>1, <1>2, RemoveResult, SetKeeps

LEMMA ProtectSetKeeps ==
  ASSUME IInv, NEW n \in Names, ProtectSet(n)
  PROVE  IInv'
<1> DEFINE set == [sets[n] EXCEPT !.finalizer = TRUE]
<1>1. /\ TypeOK /\ sets[n] # None /\ StoreSet(n, set)
      /\ UNCHANGED <<collVars, partVars, queued, dropped, worker, faults>>
  BY DEF IInv, ProtectSet, outside
<1>2. sets[n] \in GlideinSet
  BY <1>1 DEF TypeOK
<1>3. set \in GlideinSet /\ set.owner = sets[n].owner /\ set.uid = sets[n].uid
  BY <1>2 DEF GlideinSet
<1>4. SameOwner(set, sets[n])
  BY <1>1, <1>3 DEF SameOwner
<1>5. QED
  BY <1>1, <1>3, <1>4, SetKeeps

LEMMA FinalizeSetKeeps ==
  ASSUME IInv, NEW n \in Names, FinalizeSet(n)
  PROVE  IInv'
<1>1. /\ StoreSet(n, None)
      /\ UNCHANGED <<collVars, partVars, queued, dropped, worker, faults>>
  BY DEF FinalizeSet, outside
<1>2. SameOwner(None, sets[n])
  BY DEF SameOwner
<1>3. QED
  BY <1>1, <1>2, SetKeeps

LEMMA PartTypes ==
  ASSUME TypeOK, NEW c \in Collections, NEW p \in Part, NEW v \in PartObject \cup {None},
         parts' = [parts EXCEPT ![c][p] = v]
  PROVE  /\ parts' \in [Collections -> [Part -> PartObject \cup {None}]]
         /\ parts'[c][p] = v
         /\ \A d \in Collections, q \in Part :
               d # c \/ q # p => parts'[d][q] = parts[d][q]
  BY DEF TypeOK

LEMMA CollectPartKeeps ==
  ASSUME IInv, NEW c \in Collections, NEW p \in Part, CollectPart(c, p)
  PROVE  IInv'
<1>1. /\ TypeOK /\ parts' = [parts EXCEPT ![c][p] = None]
      /\ UNCHANGED <<collVars, setVars, seen, queued, dropped, worker, faults>>
  BY DEF IInv, CollectPart, outside
<1>2. parts' \in [Collections -> [Part -> PartObject \cup {None}]]
  BY <1>1, PartTypes
<1>3. TypeOK' /\ UNCHANGED <<coll, sets>>
  BY <1>1, <1>2 DEF TypeOK, collVars, setVars
<1>4. QED
  BY <1>1, <1>3, Frame DEF IInv

-----------------------------------------------------------------------------
(* The reconcile worker *)

LEMMA WorkerStates ==
  /\ Creating \subseteq WorkerState /\ Finalizing \subseteq WorkerState
  /\ Creating \cap Finalizing = {} /\ "idle" \notin Creating \cup Finalizing
  /\ "addFinalizer" \notin Creating \cup Finalizing
  /\ {"parts", "sets", "delete"} \subseteq Creating
  /\ {"addFinalizer", "refetch", "removeFinalizer"} \subseteq WorkerState
  BY DEF Creating, Finalizing, WorkerState

(* The worker ends its reconcile without a write. *)
LEMMA IdleKeeps ==
  ASSUME IInv, worker' = Idle, queued' \subseteq Collections, faults' \in 0 .. MaxFaults,
         UNCHANGED <<collVars, children, dropped>>
  PROVE  IInv'
<1>1. TypeOK /\ UNCHANGED <<coll, sets>> /\ UNCHANGED <<setVars, partVars>>
  BY DEF IInv, collVars, children, setVars
<1>2. TypeOK'
  BY <1>1 DEF TypeOK, collVars, setVars, partVars
<1>3. QED
  BY <1>1, <1>2, Frame DEF IInv

LEMMA FailKeeps ==
  ASSUME IInv, worker.pc # "idle", Fail, faults' \in 0 .. MaxFaults,
         UNCHANGED <<collVars, children, dropped>>
  PROVE  IInv'
<1>1. worker.coll \in Collections /\ queued \subseteq Collections
  BY WorkerTypes DEF IInv, TypeOK
<1>2. QED
  BY <1>1, IdleKeeps DEF Fail

LEMMA WorkerErrorKeeps ==
  ASSUME IInv, WorkerError
  PROVE  IInv'
<1>1. faults' \in 0 .. MaxFaults /\ worker.pc # "idle"
  BY WorkerTypes, BoundsAssumption DEF WorkerError, IInv, TypeOK
<1>2. QED
  BY <1>1, FailKeeps DEF WorkerError

LEMMA ListErrorKeeps ==
  ASSUME IInv, ListError
  PROVE  IInv'
<1>1. faults' \in 0 .. MaxFaults /\ queued' \subseteq Collections /\ worker' = Idle
  BY BoundsAssumption DEF ListError, Done, IInv, TypeOK
<1>2. QED
  BY <1>1, IdleKeeps DEF ListError

(* What the worker becomes when it goes on. *)
LEMMA GoOnResult ==
  ASSUME TypeOK, worker.pc # "idle", NEW pc \in WorkerState, NEW obj \in Object, obj.present,
         NEW todo \in SUBSET (Names \cup Part), GoOn(pc, obj, todo)
  PROVE  /\ worker' \in Reconciling /\ worker'.pc = pc /\ worker'.obj = obj
         /\ worker'.coll = worker.coll /\ worker'.todo = todo
         /\ queued' = queued /\ worker'.pc # "idle"
<1>1. worker \in Reconciling
  BY WorkerTypes
<1>2. worker' = [worker EXCEPT !.pc = pc, !.obj = obj, !.todo = todo] /\ queued' = queued
  BY DEF GoOn
<1>3. QED
  BY <1>1, <1>2 DEF Reconciling, WorkerState

LEMMA ReconcileKeeps ==
  ASSUME IInv, NEW c \in Collections, Reconcile(c)
  PROVE  IInv'
<1> DEFINE o  == cache[c]
           pc == IF ~o.finalizer THEN "addFinalizer"
                 ELSE IF o.deleting THEN "refetch"
                 ELSE "parts"
           todo == IF o.finalizer /\ ~o.deleting THEN Part ELSE {}
<1>1. /\ TypeOK /\ queued' \subseteq Collections
      /\ worker' = IF o.present THEN [pc |-> pc, coll |-> c, obj |-> o, todo |-> todo] ELSE Idle
      /\ UNCHANGED <<collVars, children, dropped, faults>>
  BY DEF IInv, TypeOK, Reconcile
<1>2. CASE ~o.present
  BY <1>1, <1>2, IdleKeeps DEF IInv, TypeOK
<1>3. CASE o.present
  <2>1. /\ o \in Object /\ coll[c] \in Object /\ WellFormed(o) /\ WellFormed(coll[c])
        /\ Older(o, coll[c]) /\ Kept(o, coll[c])
    BY <1>1, CollTypes DEF IInv, CacheInv
  <2>2. /\ worker'.pc = pc /\ worker'.coll = c /\ worker'.obj = o
        /\ worker' = [pc |-> pc, coll |-> c, obj |-> o, todo |-> todo]
    BY <1>1, <1>3
  <2>3. \/ pc = "addFinalizer" /\ ~o.finalizer
        \/ pc = "refetch" /\ o.finalizer /\ o.deleting
        \/ pc = "parts" /\ o.finalizer /\ ~o.deleting
    OBVIOUS
  <2>4. UNCHANGED <<setVars, partVars, coll, cache, sets>>
    BY <1>1 DEF children, collVars, setVars
  <2>5. TypeOK'
    <3>1. pc \in WorkerState /\ todo \in SUBSET (Names \cup Part)
      BY DEF WorkerState
    <3>2. worker' \in Reconciling
      BY <2>1, <2>2, <3>1 DEF Reconciling
    <3>3. QED
      BY <1>1, <1>3, <2>2, <2>4, <3>2 DEF TypeOK, Reconciling, setVars, partVars
  <2>6. WorkerInv'
    <3>1. pc = "addFinalizer" => ~o.finalizer /\ Older(o, o)
      BY <2>1, <2>3, OlderReflexive
    <3>2. pc # "removeFinalizer"
      BY <2>3
    <3>3. pc \in Finalizing /\ coll[c].finalizer => coll[c].deleting
      BY <2>1, <2>3 DEF Finalizing, Kept, Older, WellFormed
    <3>4. pc \in Creating => coll[c].finalizer /\ coll[c].uid = o.uid
      BY <2>1, <2>3 DEF Creating, Kept
    <3>5. QED
      BY <2>1, <2>2, <2>4, <3>1, <3>2, <3>3, <3>4 DEF WorkerInv
  <2>7. QED
    BY <1>1, <2>4, <2>5, <2>6, Frame DEF IInv
<1>4. QED
  BY <1>2, <1>3

(* A write of the worker to the collection: the cache had the stored       *)
(* version, which the worker read.                                         *)
LEMMA WorkerStores ==
  ASSUME IInv, worker.pc \in {"addFinalizer", "removeFinalizer"},
         coll[worker.coll] = worker.obj, NEW obj \in Object, Store(worker.coll, obj),
         WellFormed(obj), Older(worker.obj, obj), Kept(worker.obj, obj)
  PROVE  /\ CacheInv' /\ coll'[worker.coll] = obj /\ cache'[worker.coll] = worker.obj
         /\ coll' \in [Collections -> Object] /\ cache' = cache
<1> DEFINE c == worker.coll
<1>1. c \in Collections /\ TypeOK
  BY WorkerTypes DEF IInv
<1>2. cache[c] = worker.obj
  BY UpToDate
<1>3. /\ coll' \in [Collections -> Object] /\ coll'[c] = obj
      /\ \A d \in Collections : d # c => coll'[d] = coll[d]
      /\ cache' = cache
  BY <1>1, StoreResult
<1>4. CacheInv'
  BY <1>1, <1>2, <1>3 DEF IInv, CacheInv
<1>5. QED
  BY <1>2, <1>3, <1>4

(* The GlideinSets are those of no later life, whatever is written. *)
LEMMA WorkerStoresSets ==
  ASSUME IInv, NEW c \in Collections, NEW obj \in Object, Store(c, obj), UNCHANGED sets,
         obj.uid = coll[c].uid
  PROVE  SetInv'
<1>1. /\ TypeOK /\ coll'[c] = obj
      /\ \A d \in Collections : d # c => coll'[d] = coll[d]
  BY StoreResult DEF IInv
<1>2. SUFFICES ASSUME NEW n \in Names, sets[n] # None
               PROVE  sets[n].uid <= coll'[sets[n].owner].uid
  BY DEF SetInv
<1>3. sets[n] \in GlideinSet /\ sets[n].uid <= coll[sets[n].owner].uid
  BY <1>1, <1>2 DEF TypeOK, IInv, SetInv
<1>4. QED
  BY <1>1, <1>3 DEF GlideinSet

LEMMA AddFinalizerKeeps ==
  ASSUME IInv, AddFinalizer
  PROVE  IInv'
<1> DEFINE c   == worker.coll
           obj == [worker.obj EXCEPT !.finalizer = TRUE]
<1>1. /\ TypeOK /\ worker.pc = "addFinalizer" /\ worker.pc # "idle"
      /\ UNCHANGED <<children, dropped, faults>>
      /\ UNCHANGED <<setVars, partVars, sets>>
  BY DEF IInv, AddFinalizer, children, setVars
<1>2. CASE Fail /\ UNCHANGED collVars
  BY <1>1, <1>2, FailKeeps DEF TypeOK
<1>3. CASE coll[c] = worker.obj /\ Store(c, obj) /\ GoOn("parts", obj, Part)
  <2>1. /\ c \in Collections /\ worker.obj \in Object /\ worker.obj.present
        /\ WellFormed(worker.obj) /\ ~worker.obj.finalizer
    BY <1>1, WorkerTypes DEF IInv, WorkerInv
  <2>2. /\ obj \in Object /\ obj.uid = worker.obj.uid /\ obj.url = worker.obj.url
        /\ obj.sets = worker.obj.sets
    BY <2>1 DEF Object
  <2>3. obj.present = worker.obj.present /\ obj.deleting = worker.obj.deleting
    BY <2>1 DEF Object
  <2>4. obj.finalizer = TRUE
    BY <2>1 DEF Object
  <2>5. obj.present
    BY <2>1, <2>3
  <2>6. worker.obj.uid \in Nat /\ worker.obj.url \in Nat
    BY <2>1, Numbers
  <2>7. WellFormed(obj)
    BY <2>1, <2>2, <2>4, <2>5 DEF WellFormed
  <2>8. Older(worker.obj, obj)
    BY <2>1, <2>2, <2>3, <2>6 DEF Older
  <2>9. Kept(worker.obj, obj)
    BY <2>1 DEF Kept
  <2>10. /\ CacheInv' /\ coll'[c] = obj /\ coll' \in [Collections -> Object] /\ cache' = cache
    BY <1>1, <1>3, <2>2, <2>7, <2>8, <2>9, WorkerStores
  <2>11. /\ worker' \in Reconciling /\ worker'.pc = "parts" /\ worker'.obj = obj
         /\ worker'.coll = c /\ queued' = queued
    <3>1. "parts" \in WorkerState /\ Part \in SUBSET (Names \cup Part)
      BY DEF WorkerState
    <3>2. QED
      BY <1>1, <1>3, <2>2, <2>5, <3>1, GoOnResult
  <2>12. TypeOK'
    BY <1>1, <2>5, <2>10, <2>11 DEF TypeOK, Reconciling, setVars, partVars
  <2>13. WorkerInv'
    BY <2>4, <2>7, <2>10, <2>11 DEF WorkerInv, Finalizing
  <2>14. SetInv'
    BY <1>1, <1>3, <2>1, <2>2, WorkerStoresSets
  <2>15. QED
    BY <2>10, <2>12, <2>13, <2>14 DEF IInv
<1>4. QED
  BY <1>2, <1>3 DEF AddFinalizer

LEMMA RefetchKeeps ==
  ASSUME IInv, Refetch
  PROVE  IInv'
<1> DEFINE c == worker.coll
<1>1. /\ TypeOK /\ worker.pc = "refetch" /\ worker.pc # "idle"
      /\ UNCHANGED <<collVars, children, dropped, faults>>
      /\ UNCHANGED <<setVars, partVars, coll, cache, sets>>
  BY DEF IInv, Refetch, children, collVars, setVars
<1>2. CASE Fail
  BY <1>1, <1>2, FailKeeps DEF TypeOK
<1>3. CASE cache[c].present /\ GoOn("removeFinalizer", cache[c], {})
  <2>1. /\ c \in Collections /\ cache[c] \in Object /\ WellFormed(cache[c])
        /\ Older(cache[c], cache[c])
    BY <1>1, WorkerTypes, CollTypes, OlderReflexive DEF IInv, CacheInv
  <2>2. /\ worker' \in Reconciling /\ worker'.pc = "removeFinalizer" /\ worker'.obj = cache[c]
        /\ worker'.coll = c /\ queued' = queued
    <3>1. "removeFinalizer" \in WorkerState /\ {} \in SUBSET (Names \cup Part)
      BY DEF WorkerState
    <3>2. QED
      BY <1>1, <1>3, <2>1, <3>1, GoOnResult
  <2>3. TypeOK'
    BY <1>1, <1>3, <2>2 DEF TypeOK, Reconciling, setVars, partVars
  <2>4. coll[c].finalizer => coll[c].deleting
    BY <1>1 DEF IInv, WorkerInv, Finalizing
  <2>5. WorkerInv'
    BY <1>1, <2>1, <2>2, <2>4 DEF WorkerInv, Creating
  <2>6. QED
    BY <1>1, <2>3, <2>5, Frame DEF IInv
<1>4. QED
  BY <1>2, <1>3 DEF Refetch

LEMMA RemoveFinalizerKeeps ==
  ASSUME IInv, RemoveFinalizer
  PROVE  IInv'
<1> DEFINE c   == worker.coll
           new == [worker.obj EXCEPT !.finalizer = FALSE]
           obj == IF new.deleting THEN Gone(c) ELSE new
<1>1. /\ TypeOK /\ worker.pc = "removeFinalizer" /\ worker.pc # "idle"
      /\ UNCHANGED <<children, dropped, faults>>
      /\ UNCHANGED <<setVars, partVars, sets>>
  BY DEF IInv, RemoveFinalizer, children, setVars
<1>2. CASE Fail /\ UNCHANGED collVars
  BY <1>1, <1>2, FailKeeps DEF TypeOK
<1>3. CASE coll[c] = worker.obj /\ Store(c, obj) /\ Done
  <2>1. /\ c \in Collections /\ worker.obj \in Object /\ worker.obj.present
        /\ WellFormed(worker.obj) /\ (worker.obj.finalizer => worker.obj.deleting)
    BY <1>1, <1>3, WorkerTypes DEF IInv, WorkerInv, Finalizing
  <2>2. worker.obj.uid \in Nat /\ worker.obj.url \in Nat
    BY <2>1, Numbers
  <2>3. new.deleting = worker.obj.deleting
    BY <2>1 DEF Object
  <2>4. /\ obj \in Object /\ WellFormed(obj) /\ obj.uid = worker.obj.uid
        /\ Older(worker.obj, obj) /\ Kept(worker.obj, obj)
    <3>1. CASE worker.obj.deleting
      <4>1. obj = Gone(c)
        BY <2>3, <3>1
      <4>2. /\ obj \in Object /\ obj.uid = worker.obj.uid /\ obj.url = worker.obj.url
            /\ obj.present = FALSE /\ obj.finalizer = FALSE /\ obj.deleting = FALSE
            /\ obj.sets = {}
        BY <1>1, <1>3, <2>1, <4>1, GoneType
      <4>3. QED
        BY <2>2, <3>1, <4>2 DEF WellFormed, Older, Kept
    <3>2. CASE ~worker.obj.deleting
      <4>1. obj = new /\ worker.obj.finalizer = FALSE
        BY <2>1, <2>3, <3>2 DEF Object
      <4>2. new = worker.obj
        BY <2>1, <4>1 DEF Object
      <4>3. QED
        BY <2>1, <4>1, <4>2, OlderReflexive
    <3>3. QED
      BY <3>1, <3>2
  <2> HIDE DEF obj
  <2>5. CacheInv' /\ coll' \in [Collections -> Object] /\ cache' = cache
    BY <1>1, <1>3, <2>4, WorkerStores
  <2>6. worker' = Idle /\ worker'.pc = "idle" /\ queued' = queued
    BY <1>3 DEF Done, Idle
  <2>7. TypeOK'
    BY <1>1, <2>5, <2>6 DEF TypeOK, setVars, partVars
  <2>8. WorkerInv'
    BY <2>6 DEF WorkerInv
  <2>9. SetInv'
    BY <1>1, <1>3, <2>1, <2>4, WorkerStoresSets
  <2>10. QED
    BY <2>5, <2>7, <2>8, <2>9 DEF IInv
<1>4. QED
  BY <1>2, <1>3 DEF RemoveFinalizer

-----------------------------------------------------------------------------
(* The worker makes and removes children *)

(* It acts for the collection as it lives. *)
LEMMA Acting ==
  ASSUME IInv, worker.pc \in Creating
  PROVE  /\ worker.pc # "idle" /\ worker.coll \in Collections
         /\ worker \in Reconciling /\ worker.todo \in SUBSET (Names \cup Part)
         /\ worker.obj \in Object /\ worker.obj.present
         /\ OwnerExists(worker.coll, worker.obj.uid)
         /\ worker.obj.uid = coll[worker.coll].uid
         /\ worker.obj.uid \in 1 .. MaxLives /\ worker.obj.url \in 0 .. MaxChanges
<1>1. TypeOK /\ worker.pc # "idle"
  BY WorkerStates DEF IInv
<1>2. /\ worker.coll \in Collections /\ worker \in Reconciling
      /\ worker.obj \in Object /\ worker.obj.present
      /\ worker.todo \in SUBSET (Names \cup Part)
  BY <1>1, WorkerTypes
<1>3. /\ WellFormed(worker.obj) /\ WellFormed(coll[worker.coll])
      /\ coll[worker.coll].finalizer /\ coll[worker.coll].uid = worker.obj.uid
  BY <1>1, <1>2 DEF IInv, WorkerInv, CacheInv
<1>4. worker.obj.uid \in 0 .. MaxLives /\ worker.obj.url \in 0 .. MaxChanges
      /\ worker.obj.uid > 0
  BY <1>2, <1>3 DEF WellFormed, Object
<1>5. worker.obj.uid \in 1 .. MaxLives
  BY <1>4, BoundsAssumption
<1>6. coll[worker.coll].present
  BY <1>3 DEF WellFormed
<1>7. QED
  BY <1>1, <1>2, <1>3, <1>4, <1>5, <1>6 DEF OwnerExists

(* It goes on, or ends, whatever it does to the children. *)
LEMMA ActingKeeps ==
  ASSUME IInv, worker.pc \in Creating, UNCHANGED collVars, dropped' \subseteq Names,
         faults' \in 0 .. MaxFaults,
         \/ Done
         \/ Fail
         \/ \E pc \in Creating, todo \in SUBSET (Names \cup Part) : GoOn(pc, worker.obj, todo)
  PROVE  /\ WorkerInv' /\ CacheInv' /\ UNCHANGED coll
         /\ worker' = Idle \/ (worker' \in Reconciling /\ worker'.obj.present)
         /\ queued' \subseteq Collections
<1>1. /\ TypeOK /\ worker.pc # "idle" /\ worker.coll \in Collections
      /\ worker.obj \in Object /\ worker.obj.present /\ queued \subseteq Collections
  BY Acting DEF IInv, TypeOK
<1>2. CacheInv' /\ UNCHANGED coll
  BY Frame DEF collVars
<1>3. CASE Done \/ Fail
  BY <1>1, <1>2, <1>3, Frame DEF Done, Fail
<1>4. ASSUME NEW pc \in Creating, NEW todo \in SUBSET (Names \cup Part),
             GoOn(pc, worker.obj, todo)
      PROVE  /\ WorkerInv' /\ worker' \in Reconciling /\ worker'.obj.present
             /\ queued' = queued
  <2>1. pc \in WorkerState
    BY WorkerStates
  <2>2. /\ worker' \in Reconciling /\ worker'.pc = pc /\ worker'.obj = worker.obj
        /\ worker'.coll = worker.coll /\ queued' = queued
    BY <1>1, <1>4, <2>1, GoOnResult
  <2>3. /\ WellFormed(worker.obj) /\ coll[worker.coll].finalizer
        /\ coll[worker.coll].uid = worker.obj.uid
    BY <1>1 DEF IInv, WorkerInv
  <2>4. pc \notin Finalizing \cup {"addFinalizer", "removeFinalizer"}
    BY DEF Creating, Finalizing
  <2>5. WorkerInv'
    BY <1>2, <2>2, <2>3, <2>4 DEF WorkerInv, collVars
  <2>6. QED
    BY <1>1, <2>2, <2>5
<1>5. QED
  BY <1>1, <1>2, <1>3, <1>4

LEMMA PartDoneResult ==
  ASSUME IInv, worker.pc = "parts", NEW p \in Part, PartDone(p)
  PROVE  \E pc \in Creating, todo \in SUBSET (Names \cup Part) : GoOn(pc, worker.obj, todo)
<1>1. /\ worker.coll \in Collections /\ worker.obj \in Object
      /\ worker.todo \subseteq Names \cup Part
  BY Acting DEF Creating
<1>2. worker.obj.sets \subseteq SetNames
  BY <1>1 DEF Object
<1>3. Wanted(worker.coll, worker.obj) \subseteq Names
  BY <1>1, <1>2 DEF Wanted, Names
<1>4. CASE worker.todo = {p}
  BY <1>3, <1>4 DEF PartDone, Creating
<1>5. CASE worker.todo # {p}
  BY <1>1, <1>5 DEF PartDone, Creating
<1>6. QED
  BY <1>4, <1>5

(* What the worker writes into a part. *)
LEMMA PartValues ==
  ASSUME IInv, worker.pc = "parts", NEW p \in Part, NEW value \in Keys \cup (0 .. MaxChanges)
  PROVE  LET c == worker.coll
         IN  /\ setResourceValue(worker.obj, value) \in PartObject
             /\ setResourceValue(worker.obj, value).uid = worker.obj.uid
             /\ parts[c][p] # None => updateResourceValue(parts[c][p], value) \in PartObject
<1>1. worker.obj.uid \in 1 .. MaxLives /\ worker.coll \in Collections
  BY Acting DEF Creating
<1>2. parts[worker.coll][p] \in PartObject \cup {None}
  BY <1>1 DEF IInv, TypeOK
<1>3. QED
  BY <1>1, <1>2 DEF setResourceValue, updateResourceValue, PartObject

(* One part is written, or none. *)
PartStep(p) ==
    \/ UNCHANGED parts
    \/ \E v \in PartObject : parts' = [parts EXCEPT ![worker.coll][p] = v]

LEMMA PartStepKeeps ==
  ASSUME IInv, worker.pc = "parts", NEW p \in Part, PartStep(p), PartDone(p) \/ Fail,
         UNCHANGED <<collVars, setVars, seen, dropped, faults>>
  PROVE  IInv'
<1>1. TypeOK /\ worker.pc \in Creating /\ worker.coll \in Collections
  BY Acting DEF IInv, Creating
<1>2. parts' \in [Collections -> [Part -> PartObject \cup {None}]]
  <2>1. CASE UNCHANGED parts
    BY <1>1, <2>1 DEF TypeOK
  <2>2. ASSUME NEW v \in PartObject, parts' = [parts EXCEPT ![worker.coll][p] = v]
        PROVE  parts' \in [Collections -> [Part -> PartObject \cup {None}]]
    BY <1>1, <2>2, PartTypes
  <2>3. QED
    BY <2>1, <2>2 DEF PartStep
<1>3. /\ WorkerInv' /\ CacheInv' /\ UNCHANGED <<coll, sets>>
      /\ worker' = Idle \/ (worker' \in Reconciling /\ worker'.obj.present)
      /\ queued' \subseteq Collections
  <2>1. dropped' \subseteq Names /\ faults' \in 0 .. MaxFaults /\ UNCHANGED <<collVars, sets>>
    BY <1>1 DEF TypeOK, setVars
  <2>2. QED
    BY <1>1, <2>1, PartDoneResult, ActingKeeps
<1>4. TypeOK'
  BY <1>1, <1>2, <1>3 DEF TypeOK, Reconciling, collVars, setVars
<1>5. QED
  BY <1>3, <1>4, Frame DEF IInv

LEMMA CreateIfNotExistsResult ==
  ASSUME IInv, worker.pc = "parts", NEW p \in Part, NEW value \in Keys \cup (0 .. MaxChanges),
         CreateIfNotExists(worker.coll, p, value)
  PROVE  PartStep(p) /\ (PartDone(p) \/ Fail)
BY PartValues DEF CreateIfNotExists, PartStep

LEMMA ApplyResult ==
  ASSUME IInv, worker.pc = "parts", NEW p \in Part, NEW value \in Keys \cup (0 .. MaxChanges),
         Apply(worker.coll, p, value)
  PROVE  PartStep(p) /\ (PartDone(p) \/ Fail)
<1>1. CASE CreateIfNotExists(worker.coll, p, value)
  BY <1>1, CreateIfNotExistsResult
<1>2. CASE /\ parts[worker.coll][p] # None /\ PartDone(p)
           /\ parts' = [parts EXCEPT ![worker.coll][p] = updateResourceValue(@, value)]
  <2>1. worker.coll \in Collections
    BY Acting DEF Creating
  <2>2. parts' = [parts EXCEPT ![worker.coll][p] =
                            updateResourceValue(parts[worker.coll][p], value)]
    BY <1>2, <2>1 DEF IInv, TypeOK
  <2>3. QED
    BY <1>2, <2>2, PartValues DEF PartStep
<1>3. QED
  BY <1>1, <1>2 DEF Apply

(* There is always another key. *)
LEMMA NamespaceTokenType ==
  ASSUME NEW c, NEW p
  PROVE  NamespaceToken(c, p) \in Keys
<1>1. \E key \in Keys : parts[c][p] = None \/ key # parts[c][p].value
  BY KeysAssumption
<1>2. QED
  BY <1>1 DEF NamespaceToken

LEMMA CreateCollectorPartKeeps ==
  ASSUME IInv, NEW p \in Part, CreateCollectorPart(p)
  PROVE  IInv'
<1>1. /\ worker.pc = "parts" /\ UNCHANGED <<collVars, setVars, seen, dropped, faults>>
      /\ CreateIfNotExists(worker.coll, p, NamespaceToken(worker.coll, p))
  BY DEF CreateCollectorPart
<1>2. NamespaceToken(worker.coll, p) \in Keys \cup (0 .. MaxChanges)
  BY NamespaceTokenType
<1>3. PartStep(p) /\ (PartDone(p) \/ Fail)
  BY <1>1, <1>2, CreateIfNotExistsResult
<1>4. QED
  BY <1>1, <1>3, PartStepKeeps

LEMMA ApplyMonitoringPartKeeps ==
  ASSUME IInv, NEW p \in Part, ApplyMonitoringPart(p)
  PROVE  IInv'
<1>1. /\ worker.pc = "parts" /\ UNCHANGED <<collVars, setVars, seen, dropped, faults>>
      /\ Apply(worker.coll, p, getTemplatedYaml(worker.obj))
  BY DEF ApplyMonitoringPart
<1>2. getTemplatedYaml(worker.obj) \in Keys \cup (0 .. MaxChanges)
  BY <1>1, Acting DEF Creating, getTemplatedYaml
<1>3. PartStep(p) /\ (PartDone(p) \/ Fail)
  BY <1>1, <1>2, ApplyResult
<1>4. QED
  BY <1>1, <1>3, PartStepKeeps

(* One GlideinSet is written, or none; what is written is of no later life *)
(* than its collection.                                                    *)
SetStep(n) ==
    \/ UNCHANGED setVars
    \/ \E set \in GlideinSet \cup {None} :
          StoreSet(n, set) /\ (set # None => set.uid <= coll[set.owner].uid)

LEMMA SetStepKeeps ==
  ASSUME IInv, worker.pc \in Creating, NEW n \in Names, SetStep(n),
         \/ Done
         \/ Fail
         \/ \E pc \in Creating, todo \in SUBSET (Names \cup Part) : GoOn(pc, worker.obj, todo),
         UNCHANGED <<collVars, partVars, dropped, faults>>
  PROVE  IInv'
<1>1. TypeOK
  BY DEF IInv
<1>2. /\ WorkerInv' /\ CacheInv' /\ UNCHANGED coll
      /\ worker' = Idle \/ (worker' \in Reconciling /\ worker'.obj.present)
      /\ queued' \subseteq Collections
  <2>1. dropped' \subseteq Names /\ faults' \in 0 .. MaxFaults /\ UNCHANGED collVars
    BY <1>1 DEF TypeOK
  <2>2. QED
    BY <2>1, ActingKeeps
<1>3. /\ SetInv'
      /\ sets' \in [Names -> GlideinSet \cup {None}] /\ known' = known
      /\ fresh' \subseteq Names /\ \A m \in fresh' : known'[m] = sets'[m]
  <2>1. CASE UNCHANGED setVars
    <3>1. UNCHANGED <<coll, sets, known, fresh>>
      BY <1>2, <2>1 DEF setVars
    <3>2. QED
      BY <1>1, <3>1, Frame DEF TypeOK
  <2>2. ASSUME NEW set \in GlideinSet \cup {None}, StoreSet(n, set),
               set # None => set.uid <= coll[set.owner].uid
        PROVE  /\ SetInv'
               /\ sets' \in [Names -> GlideinSet \cup {None}] /\ known' = known
               /\ fresh' \subseteq Names /\ \A m \in fresh' : known'[m] = sets'[m]
    <3>1. SetInv'
      BY <1>2, <2>2, StoreSetInv
    <3>2. QED
      BY <1>1, <2>2, <3>1, StoreSetResult
  <2>3. QED
    BY <2>1, <2>2 DEF SetStep
<1>4. TypeOK'
  BY <1>1, <1>2, <1>3 DEF TypeOK, Reconciling, collVars, partVars
<1>5. QED
  BY <1>2, <1>3, <1>4 DEF IInv

LEMMA RemoveStep ==
  ASSUME IInv, NEW n \in Names, sets[n] # None, Remove(n)
  PROVE  SetStep(n)
<1>1. sets[n].uid <= coll[sets[n].owner].uid /\ TypeOK
  BY DEF IInv, SetInv
<1>2. QED
  BY <1>1, RemoveResult DEF SetStep, SameOwner

(* The record that CreateSet stores. *)
NewSet == [owner |-> worker.coll, uid |-> worker.obj.uid, url |-> worker.obj.url,
           finalizer |-> FALSE, deleting |-> FALSE]

LEMMA NewSetType ==
  ASSUME IInv, worker.pc \in Creating
  PROVE  /\ NewSet \in GlideinSet
         /\ NewSet.owner = worker.coll /\ NewSet.uid = coll[worker.coll].uid
         /\ NewSet.uid <= coll[NewSet.owner].uid
<1>1. /\ worker.coll \in Collections /\ worker.obj.uid = coll[worker.coll].uid
      /\ worker.obj.uid \in 1 .. MaxLives /\ worker.obj.url \in 0 .. MaxChanges
  BY Acting
<1>2. NewSet \in GlideinSet
  BY <1>1 DEF NewSet, GlideinSet
<1>3. NewSet.owner = worker.coll /\ NewSet.uid = coll[worker.coll].uid
  BY <1>1 DEF NewSet
<1>4. coll[worker.coll].uid \in Nat
  BY <1>1, BoundsAssumption
<1>5. QED
  BY <1>2, <1>3, <1>4

LEMMA SetDoneResult ==
  ASSUME IInv, worker.pc = "sets", NEW n \in Names, SetDone(n)
  PROVE  \E pc \in Creating, todo \in SUBSET (Names \cup Part) : GoOn(pc, worker.obj, todo)
BY Acting DEF SetDone, Creating

LEMMA SyncSetKeeps ==
  ASSUME IInv, NEW n \in Names, SyncSet(n)
  PROVE  IInv'
<1>1. /\ TypeOK /\ worker.pc = "sets" /\ worker.pc \in Creating
      /\ UNCHANGED <<collVars, partVars, dropped, faults>>
  BY DEF IInv, SyncSet, Creating
<1>2. SetStep(n) /\ (SetDone(n) \/ Fail)
  <2>1. CASE UpdateSet(n)
    <3> DEFINE set == [sets[n] EXCEPT !.url = worker.obj.url]
    <3>1. sets[n] \in GlideinSet /\ worker.obj.url \in 0 .. MaxChanges /\ sets[n] # None
      BY <1>1, <2>1, Acting DEF TypeOK, UpdateSet
    <3>2. set \in GlideinSet /\ set.owner = sets[n].owner /\ set.uid = sets[n].uid
      BY <3>1 DEF GlideinSet
    <3>3. UNCHANGED setVars \/ StoreSet(n, set)
      BY <2>1 DEF UpdateSet
    <3>4. set.uid <= coll[set.owner].uid
      BY <3>1, <3>2 DEF IInv, SetInv
    <3>5. SetStep(n)
      BY <3>2, <3>3, <3>4 DEF SetStep
    <3>6. QED
      BY <2>1, <3>5 DEF UpdateSet
  <2>2. CASE CreateSet(n)
    <3>1. StoreSet(n, NewSet) /\ SetDone(n)
      BY <2>2 DEF CreateSet, NewSet
    <3>2. QED
      BY <1>1, <3>1, NewSetType DEF SetStep
  <2>3. QED
    BY <2>1, <2>2 DEF SyncSet, SetStep
<1>3. QED
  BY <1>1, <1>2, SetDoneResult, SetStepKeeps

LEMMA ListSetsKeeps ==
  ASSUME IInv, ListSets
  PROVE  IInv'
<1>1. /\ TypeOK /\ worker.pc \in Creating
      /\ UNCHANGED <<collVars, setVars, partVars, dropped, faults>>
  BY DEF IInv, ListSets, Creating, children
<1>2. Done \/ GoOn("delete", worker.obj, Outdated)
  BY DEF ListSets
<1>3. "delete" \in Creating /\ Outdated \in SUBSET (Names \cup Part)
  BY DEF Creating, Outdated
<1>4. /\ WorkerInv' /\ CacheInv' /\ UNCHANGED <<coll, sets>>
      /\ worker' = Idle \/ (worker' \in Reconciling /\ worker'.obj.present)
      /\ queued' \subseteq Collections
  <2>1. /\ dropped' \subseteq Names /\ faults' \in 0 .. MaxFaults
        /\ UNCHANGED <<collVars, sets>>
    BY <1>1 DEF TypeOK, setVars
  <2>2. QED
    BY <1>1, <1>2, <1>3, <2>1, ActingKeeps
<1>5. TypeOK'
  BY <1>1, <1>4 DEF TypeOK, Reconciling, collVars, setVars, partVars
<1>6. QED
  BY <1>4, <1>5, Frame DEF IInv

LEMMA DeleteSetKeeps ==
  ASSUME IInv, NEW n \in Names, DeleteSet(n)
  PROVE  IInv'
<1>1. /\ worker.pc = "delete" /\ worker.pc \in Creating
      /\ UNCHANGED <<collVars, partVars, dropped, faults>>
  BY DEF DeleteSet, Creating
<1>2. SetStep(n)
  BY RemoveStep DEF DeleteSet, SetStep
<1>3. Done \/ Fail \/ GoOn("delete", worker.obj, worker.todo \ {n})
  BY DEF DeleteSet
<1>4. "delete" \in Creating /\ worker.todo \ {n} \in SUBSET (Names \cup Part)
  BY <1>1, Acting DEF Creating
<1>5. QED
  BY <1>1, <1>2, <1>3, <1>4, SetStepKeeps

LEMMA CrashKeeps ==
  ASSUME IInv, Crash
  PROVE  IInv'
<1>1. /\ TypeOK /\ cache' = coll /\ known' = sets /\ fresh' = Names /\ seen' = Existing
      /\ queued' \subseteq Collections /\ worker' = Idle
      /\ UNCHANGED <<coll, sets, parts, dropped>>
  BY DEF IInv, Crash
<1>2. faults' \in 0 .. MaxFaults
  BY <1>1, BoundsAssumption DEF Crash, TypeOK
<1>3. TypeOK'
  BY <1>1, <1>2 DEF TypeOK, Existing
<1>4. CacheInv'
  BY <1>1, CollTypes, OlderReflexive DEF IInv, CacheInv
<1>5. WorkerInv'
  BY <1>1 DEF WorkerInv, Idle
<1>6. SetInv'
  BY <1>1, Frame
<1>7. QED
  BY <1>3, <1>4, <1>5, <1>6 DEF IInv

-----------------------------------------------------------------------------
(* The invariant *)

LEMMA InitInv ==
  ASSUME Init
  PROVE  IInv
<1>1. /\ coll = [c \in Collections |-> NoObject] /\ cache = coll
      /\ sets = [n \in Names |-> None] /\ known = sets /\ fresh = Names
      /\ parts = [c \in Collections |-> [p \in Part |-> None]] /\ seen = {}
      /\ queued = {} /\ worker = Idle /\ dropped = {} /\ faults = 0
  BY DEF Init
<1>2. NoObject \in Object /\ WellFormed(NoObject) /\ 0 \in 0 .. MaxFaults
  BY NoObjectType, BoundsAssumption DEF WellFormed
<1>3. TypeOK
  BY <1>1, <1>2 DEF TypeOK
<1>4. CacheInv
  BY <1>1, <1>2, OlderReflexive DEF CacheInv
<1>5. WorkerInv
  BY <1>1 DEF WorkerInv, Idle
<1>6. SetInv
  BY <1>1 DEF SetInv
<1>7. QED
  BY <1>3, <1>4, <1>5, <1>6 DEF IInv

LEMMA NextInv ==
  ASSUME IInv, [Next]_vars
  PROVE  IInv'
<1>1. ASSUME NEW c \in Collections, Create(c) \/ Edit(c) \/ Delete(c)
      PROVE  IInv'
  BY <1>1, CreateKeeps, EditKeeps, DeleteKeeps
<1>2. ASSUME Watches
      PROVE  IInv'
  BY <1>2, DeliverKeeps, DeliverChildrenKeeps DEF Watches
<1>3. ASSUME Cleanup
      PROVE  IInv'
  BY <1>3, CollectSetKeeps, FinalizeSetKeeps, CollectPartKeeps DEF Cleanup
<1>4. ASSUME Resyncs
      PROVE  IInv'
  BY <1>4, ResyncKeeps DEF Resyncs
<1>5. ASSUME Worker
      PROVE  IInv'
  BY <1>5, ReconcileKeeps, AddFinalizerKeeps, RefetchKeeps, RemoveFinalizerKeeps,
     CreateCollectorPartKeeps, ApplyMonitoringPartKeeps, SyncSetKeeps, DeleteSetKeeps,
     ListSetsKeeps DEF Worker
<1>6. CASE UNCHANGED vars
  <2>1. UNCHANGED <<coll, cache, sets, known, fresh, parts, seen, queued, worker, dropped, faults>>
    BY <1>6 DEF vars, collVars, setVars, partVars
  <2>2. TypeOK' /\ UNCHANGED collVars
    BY <2>1 DEF IInv, TypeOK, collVars
  <2>3. QED
    BY <2>1, <2>2, Frame DEF IInv
<1>7. QED
  BY <1>1, <1>2, <1>3, <1>4, <1>5, <1>6, ProtectSetKeeps, ListErrorKeeps,
     WorkerErrorKeeps, CrashKeeps DEF Next, Users

(* The collections, the cache, the worker and the GlideinSets fit together *)
(* in every reachable state (GlideinSetCollectionReconciler.Reconcile).    *)
THEOREM Invariance == Spec => []IInv
<1>1. Init => IInv
  BY InitInv
<1>2. IInv /\ [Next]_vars => IInv'
  BY NextInv
<1>3. QED
  BY <1>1, <1>2, PTL DEF Spec

(* Every variable has its type, and a reconcile has an object to work on. *)
THEOREM TypeCorrect == Spec => []TypeOK
<1>1. IInv => TypeOK
  BY DEF IInv
<1>2. QED
  BY <1>1, Invariance, PTL

-----------------------------------------------------------------------------
(* What a step does to the children of a collection *)

(* The parts change one at a time: the garbage collector takes one, or the *)
(* worker makes one, or it updates one of the monitoring.                  *)
LEMMA PartsStep ==
  ASSUME IInv, [Next]_vars
  PROVE  \/ UNCHANGED parts
         \/ \E c \in Collections, p \in Part :
               /\ parts[c][p] # None /\ ~OwnerExists(c, parts[c][p].uid)
               /\ parts' = [parts EXCEPT ![c][p] = None]
         \/ \E p \in Part, v \in PartObject :
               /\ worker.pc = "parts" /\ parts' = [parts EXCEPT ![worker.coll][p] = v]
               /\ \/ parts[worker.coll][p] = None /\ v.uid = worker.obj.uid
                  \/ parts[worker.coll][p] # None /\ p \in MonitoringParts
<1> DEFINE Made(p, v) ==
             /\ worker.pc = "parts" /\ parts' = [parts EXCEPT ![worker.coll][p] = v]
             /\ \/ parts[worker.coll][p] = None /\ v.uid = worker.obj.uid
                \/ parts[worker.coll][p] # None /\ p \in MonitoringParts
<1>1. ASSUME NEW p \in Part, NEW value \in Keys \cup (0 .. MaxChanges), worker.pc = "parts",
             CreateIfNotExists(worker.coll, p, value)
      PROVE  UNCHANGED parts \/ \E v \in PartObject : Made(p, v)
  BY <1>1, PartValues DEF CreateIfNotExists
<1>2. ASSUME NEW p \in Part, CreateCollectorPart(p)
      PROVE  UNCHANGED parts \/ \E v \in PartObject : Made(p, v)
  <2>1. NamespaceToken(worker.coll, p) \in Keys \cup (0 .. MaxChanges)
    BY NamespaceTokenType
  <2>2. QED
    BY <1>1, <1>2, <2>1 DEF CreateCollectorPart
<1>3. ASSUME NEW p \in Part, ApplyMonitoringPart(p)
      PROVE  UNCHANGED parts \/ \E v \in PartObject : Made(p, v)
  <2> DEFINE value == getTemplatedYaml(worker.obj)
             old   == parts[worker.coll][p]
  <2>1. worker.pc = "parts" /\ p \in MonitoringParts /\ Apply(worker.coll, p, value)
    BY <1>3 DEF ApplyMonitoringPart
  <2>2. value \in Keys \cup (0 .. MaxChanges) /\ worker.coll \in Collections
    BY <2>1, Acting DEF Creating, getTemplatedYaml
  <2>3. CASE CreateIfNotExists(worker.coll, p, value)
    BY <1>1, <2>1, <2>2, <2>3
  <2>4. CASE /\ old # None
             /\ parts' = [parts EXCEPT ![worker.coll][p] = updateResourceValue(@, value)]
    <3>1. parts' = [parts EXCEPT ![worker.coll][p] = updateResourceValue(old, value)]
      BY <2>2, <2>4 DEF IInv, TypeOK
    <3>2. updateResourceValue(old, value) \in PartObject
      BY <2>1, <2>2, <2>4, PartValues
    <3>3. QED
      BY <2>1, <2>4, <3>1, <3>2
  <2>5. QED
    BY <2>1, <2>3, <2>4 DEF Apply
<1>4. ASSUME NEW c \in Collections, Create(c) \/ Edit(c) \/ Delete(c) \/ Deliver(c)
                                    \/ Resync(c) \/ Reconcile(c)
      PROVE  UNCHANGED parts
  BY <1>4 DEF Create, Edit, Delete, Deliver, Resync, Reconcile, partVars, children
<1>5. ASSUME NEW n \in Names, CollectSet(n) \/ FinalizeSet(n) \/ ProtectSet(n) \/ SyncSet(n)
                              \/ DeleteSet(n)
      PROVE  UNCHANGED parts
  BY <1>5 DEF CollectSet, FinalizeSet, ProtectSet, SyncSet, DeleteSet, partVars
<1>6. ASSUME DeliverChildren \/ AddFinalizer \/ Refetch \/ RemoveFinalizer \/ ListSets
             \/ ListError \/ WorkerError \/ Crash \/ UNCHANGED vars
      PROVE  UNCHANGED parts
  BY <1>6 DEF DeliverChildren, AddFinalizer, Refetch, RemoveFinalizer, ListSets, ListError,
     WorkerError, Crash, vars, partVars, children
<1>7. QED
  BY <1>2, <1>3, <1>4, <1>5, <1>6
     DEF Next, Users, Watches, Cleanup, Resyncs, Worker, CollectPart

(* The GlideinSets change one at a time: the worker makes one of those it  *)
(* has to do, or one that exists changes, and none is deleted but by the   *)
(* garbage collector, as outdated by the worker, or in the end.            *)
Written(n, set) == sets' = [sets EXCEPT ![n] = set]

Made(n) == /\ worker.pc = "sets" /\ n \in worker.todo
           /\ sets[n] = None /\ Written(n, NewSet)

Changed(n, set) ==
    /\ sets[n] # None /\ Written(n, set) /\ SameOwner(set, sets[n])
    /\ \/ set # None /\ set.deleting = sets[n].deleting
       \/ sets[n].deleting
       \/ ~OwnerExists(sets[n].owner, sets[n].uid)
       \/ worker.pc = "delete" /\ n \in worker.todo

LEMMA SetIsThere ==
  ASSUME NEW set \in GlideinSet
  PROVE  set # None
<1>1. 1 .. MaxLives \subseteq Nat /\ 0 .. MaxChanges \subseteq Nat
  BY BoundsAssumption
<1>2. set \in [owner : Collections, uid : Nat, url : Nat,
               finalizer : BOOLEAN, deleting : BOOLEAN]
  BY <1>1 DEF GlideinSet
<1>3. QED
  BY <1>2, NoneIsNoSet

LEMMA SetsStep ==
  ASSUME IInv, [Next]_vars
  PROVE  \/ UNCHANGED sets
         \/ \E n \in Names : Made(n) \/ \E set \in GlideinSet \cup {None} : Changed(n, set)
<1>1. \A n \in Names : sets[n] \in GlideinSet \cup {None}
  BY DEF IInv, TypeOK
<1>2. ASSUME NEW n \in Names, sets[n] # None, Remove(n)
      PROVE  \/ UNCHANGED sets
             \/ \E set \in GlideinSet \cup {None} : Written(n, set) /\ SameOwner(set, sets[n])
  BY <1>2, RemoveResult DEF IInv, StoreSet, Written, setVars
<1>3. ASSUME NEW n \in Names, CollectSet(n) \/ DeleteSet(n)
      PROVE  UNCHANGED sets \/ \E set \in GlideinSet \cup {None} : Changed(n, set)
  BY <1>2, <1>3 DEF CollectSet, DeleteSet, Changed, setVars
<1>4. ASSUME NEW n \in Names, FinalizeSet(n)
      PROVE  Changed(n, None)
  BY <1>4 DEF FinalizeSet, StoreSet, Changed, Written, SameOwner
<1>5. ASSUME NEW n \in Names, ProtectSet(n)
      PROVE  \E set \in GlideinSet : Changed(n, set)
  <2> DEFINE set == [sets[n] EXCEPT !.finalizer = TRUE]
  <2>1. sets[n] \in GlideinSet /\ sets[n] # None /\ Written(n, set)
    BY <1>1, <1>5 DEF ProtectSet, StoreSet, Written
  <2>2. /\ set \in GlideinSet /\ set.owner = sets[n].owner /\ set.uid = sets[n].uid
        /\ set.deleting = sets[n].deleting
    BY <2>1 DEF GlideinSet
  <2>3. set # None
    BY <2>2, SetIsThere
  <2>4. QED
    BY <2>1, <2>2, <2>3 DEF Changed, SameOwner
<1>6. ASSUME NEW n \in Names, SyncSet(n)
      PROVE  UNCHANGED sets \/ Made(n) \/ \E set \in GlideinSet : Changed(n, set)
  <2>1. worker.pc = "sets" /\ n \in worker.todo
    BY <1>6 DEF SyncSet
  <2>2. CASE UpdateSet(n)
    <3> DEFINE set == [sets[n] EXCEPT !.url = worker.obj.url]
    <3>1. /\ sets[n] \in GlideinSet /\ sets[n] # None /\ worker.obj.url \in 0 .. MaxChanges
          /\ UNCHANGED sets \/ Written(n, set)
      BY <1>1, <2>1, <2>2, Acting DEF UpdateSet, StoreSet, Written, Creating, setVars
    <3>2. /\ set \in GlideinSet /\ set.owner = sets[n].owner /\ set.uid = sets[n].uid
          /\ set.deleting = sets[n].deleting
      BY <3>1 DEF GlideinSet
    <3>3. set # None
      BY <3>2, SetIsThere
    <3>4. QED
      BY <3>1, <3>2, <3>3 DEF Changed, SameOwner
  <2>3. CASE CreateSet(n)
    BY <2>1, <2>3 DEF CreateSet, StoreSet, Made, Written, NewSet
  <2>4. QED
    BY <1>6, <2>2, <2>3 DEF SyncSet, setVars
<1>7. ASSUME NEW c \in Collections, Create(c) \/ Edit(c) \/ Delete(c) \/ Deliver(c)
                                    \/ Resync(c) \/ Reconcile(c)
      PROVE  UNCHANGED sets
  BY <1>7 DEF Create, Edit, Delete, Deliver, Resync, Reconcile, setVars, children
<1>8. ASSUME NEW p \in Part, \/ CreateCollectorPart(p) \/ ApplyMonitoringPart(p)
                             \/ \E c \in Collections : CollectPart(c, p)
      PROVE  UNCHANGED sets
  BY <1>8 DEF CreateCollectorPart, ApplyMonitoringPart, CollectPart, setVars
<1>9. ASSUME DeliverChildren \/ AddFinalizer \/ Refetch \/ RemoveFinalizer \/ ListSets
             \/ ListError \/ WorkerError \/ Crash \/ UNCHANGED vars
      PROVE  UNCHANGED sets
  BY <1>9 DEF DeliverChildren, AddFinalizer, Refetch, RemoveFinalizer, ListSets, ListError,
     WorkerError, Crash, vars, setVars, children
<1>10. QED
  BY <1>3, <1>4, <1>5, <1>6, <1>7, <1>8, <1>9
     DEF Next, Users, Watches, Cleanup, Resyncs, Worker

(* What the worker creates has the owner reference of the collection that  *)
(* lives at that moment (createResourceIfNotExists, recoincileGlideinSets),*)
(* although it copies it from an object of the cache.                      *)
THEOREM OrphansAreNotMade == Spec => NoOrphans
<1> DEFINE ForTheLiving ==
             /\ \A n \in Names : sets[n] = None /\ sets'[n] # None
                   => OwnerExists(sets'[n].owner, sets'[n].uid)
             /\ \A c \in Collections, p \in Part : parts[c][p] = None /\ parts'[c][p] # None
                   => OwnerExists(c, parts'[c][p].uid)
<1>1. ASSUME IInv, [Next]_vars, NEW n \in Names, sets[n] = None, sets'[n] # None
      PROVE  OwnerExists(sets'[n].owner, sets'[n].uid)
  <2>1. sets \in [Names -> GlideinSet \cup {None}]
    BY <1>1 DEF IInv, TypeOK
  <2>2. Made(n)
    BY <1>1, <2>1, SetsStep DEF Made, Changed, Written
  <2>3. sets'[n] = NewSet /\ worker.pc \in Creating
    BY <2>1, <2>2 DEF Made, Written, Creating
  <2>4. QED
    BY <1>1, <2>3, Acting, NewSetType
<1>2. ASSUME IInv, [Next]_vars, NEW c \in Collections, NEW p \in Part,
             parts[c][p] = None, parts'[c][p] # None
      PROVE  OwnerExists(c, parts'[c][p].uid)
  <2>1. parts \in [Collections -> [Part -> PartObject \cup {None}]]
    BY <1>2 DEF IInv, TypeOK
  <2>2. PICK q \in Part, v \in PartObject :
          /\ worker.pc = "parts" /\ parts' = [parts EXCEPT ![worker.coll][q] = v]
          /\ parts[worker.coll][q] = None => v.uid = worker.obj.uid
    <3>1. ASSUME NEW d \in Collections, NEW q \in Part, parts' = [parts EXCEPT ![d][q] = None]
          PROVE  FALSE
      BY <1>2, <2>1, <3>1
    <3>2. parts' # parts
      BY <1>2
    <3>3. QED
      BY <1>2, <3>1, <3>2, PartsStep
  <2>3. worker.coll \in Collections /\ OwnerExists(worker.coll, worker.obj.uid)
    BY <1>2, <2>2, Acting DEF Creating
  <2>4. c = worker.coll /\ p = q /\ parts'[c][p] = v
    BY <1>2, <2>1, <2>2, <2>3
  <2>5. QED
    BY <1>2, <2>2, <2>3, <2>4
<1>3. IInv /\ [Next]_vars => ForTheLiving
  BY <1>1, <1>2
<1>4. QED
  BY <1>3, Invariance, PTL DEF Spec, NoOrphans

(* The key that the collector's Secret got first is its key as long as the *)
(* collection lives: createCollectorForPilotSet only creates it, and       *)
(* createMonitoringForPilotSet updates other resources.                    *)
THEOREM KeyStays == Spec => KeyIsKept
<1> DEFINE Stays ==
             \A c \in Collections, p \in CollectorParts :
                parts[c][p] # None /\ OwnerExists(c, parts[c][p].uid)
                   /\ OwnerExists(c, parts[c][p].uid)'
                => parts'[c][p] = parts[c][p]
<1>1. ASSUME IInv, [Next]_vars, NEW c \in Collections, NEW p \in CollectorParts,
             parts[c][p] # None, OwnerExists(c, parts[c][p].uid)
      PROVE  parts'[c][p] = parts[c][p]
  <2>1. /\ parts \in [Collections -> [Part -> PartObject \cup {None}]]
        /\ p \in Part /\ p \notin MonitoringParts
        /\ worker.pc = "parts" => worker.coll \in Collections
    BY <1>1, PartsAssumption, Acting DEF IInv, TypeOK, Part, Creating
  <2>2. ASSUME NEW d \in Collections, NEW q \in Part, ~OwnerExists(d, parts[d][q].uid),
               parts' = [parts EXCEPT ![d][q] = None]
        PROVE  parts'[c][p] = parts[c][p]
    BY <1>1, <2>1, <2>2
  <2>3. ASSUME NEW q \in Part, NEW v \in PartObject, worker.pc = "parts",
               parts' = [parts EXCEPT ![worker.coll][q] = v],
               parts[worker.coll][q] = None \/ q \in MonitoringParts
        PROVE  parts'[c][p] = parts[c][p]
    BY <1>1, <2>1, <2>3
  <2>4. QED
    BY <1>1, <2>2, <2>3, PartsStep
<1>2. IInv /\ [Next]_vars => Stays
  BY <1>1
<1>3. QED
  BY <1>2, Invariance, PTL DEF Spec, KeyIsKept

-----------------------------------------------------------------------------
(* A collection alone in its namespace *)

(* Nothing of what o wants is missing in n but what an edit has removed.   *)
StillWanted(c, o, n) == Wanted(c, o) \subseteq Wanted(c, n) \cup dropped

(* The cache shows the life of the collection that is or was the last.     *)
Cached(c) == cache[c].present /\ cache[c].uid = coll[c].uid

VersionsInv ==
    \A c \in Collections :
        coll[c].present /\ Cached(c) => StillWanted(c, cache[c], coll[c])

CopyInv ==
    LET c == worker.coll
    IN  worker.pc \in Creating =>
          /\ StillWanted(c, worker.obj, coll[c])
          /\ Cached(c) => StillWanted(c, worker.obj, cache[c])

(* A GlideinSet that no edit has removed is in the spec of its collection, *)
(* in all the versions of it that somebody may act on.                     *)
OwnedInv ==
    \A c \in Collections, n \in Names \ dropped :
        sets[n] # None /\ sets[n].owner = c /\ sets[n].uid = coll[c].uid =>
          /\ coll[c].present => n \in Wanted(c, coll[c])
          /\ Cached(c) => n \in Wanted(c, cache[c])
          /\ worker.pc \in Creating /\ worker.coll = c => n \in Wanted(c, worker.obj)

TodoInv ==
    LET wanted == Wanted(worker.coll, worker.obj)
    IN  /\ worker.pc = "sets" => worker.todo \subseteq wanted
        /\ worker.pc = "delete" => worker.todo \cap wanted = {}

KeptInv == VersionsInv /\ CopyInv /\ OwnedInv /\ TodoInv


(* A reconcile goes on with the copy it has, or ends, or has not come to   *)
(* the children.                                                           *)
Carries == worker'.pc \in Creating => /\ worker.pc \in Creating
                                      /\ worker'.coll = worker.coll
                                      /\ worker'.obj = worker.obj

LEMMA OwnedBefore ==
  ASSUME IInv, [Next]_vars, NEW n \in Names, sets'[n] # None
  PROVE  \/ /\ sets[n] # None /\ sets'[n].owner = sets[n].owner
            /\ sets'[n].uid = sets[n].uid
         \/ Made(n) /\ sets'[n] = NewSet
<1>1. sets \in [Names -> GlideinSet \cup {None}]
  BY DEF IInv, TypeOK
<1>2. ASSUME NEW m \in Names, Made(m)
      PROVE  sets'[n] = sets[n] \/ (Made(n) /\ sets'[n] = NewSet)
  BY <1>1, <1>2 DEF Made, Written
<1>3. ASSUME NEW m \in Names, NEW set \in GlideinSet \cup {None}, Changed(m, set)
      PROVE  sets'[n] = sets[n] \/ SameOwner(sets'[n], sets[n])
  BY <1>1, <1>3 DEF Changed, Written
<1>4. QED
  BY <1>2, <1>3, SetsStep DEF SameOwner

(* Steps that leave the collections and the cache alone. *)
LEMMA CarriesKeeps ==
  ASSUME IInv, KeptInv, [Next]_vars, UNCHANGED <<coll, cache, dropped>>, Carries
  PROVE  VersionsInv' /\ CopyInv' /\ OwnedInv'
<1>1. VersionsInv'
  BY DEF KeptInv, VersionsInv, StillWanted, Wanted, Cached
<1>2. CopyInv'
  BY DEF KeptInv, CopyInv, StillWanted, Wanted, Cached, Carries
<1>3. ASSUME NEW c \in Collections, NEW n \in Names \ dropped,
             sets'[n] # None, sets'[n].owner = c, sets'[n].uid = coll[c].uid
      PROVE  /\ coll[c].present => n \in Wanted(c, coll[c])
             /\ Cached(c) => n \in Wanted(c, cache[c])
             /\ worker'.pc \in Creating /\ worker'.coll = c => n \in Wanted(c, worker'.obj)
  <2>1. CASE sets[n] # None /\ sets[n].owner = c /\ sets[n].uid = coll[c].uid
    <3>1. /\ coll[c].present => n \in Wanted(c, coll[c])
          /\ Cached(c) => n \in Wanted(c, cache[c])
          /\ worker.pc \in Creating /\ worker.coll = c => n \in Wanted(c, worker.obj)
      BY <1>3, <2>1 DEF KeptInv, OwnedInv
    <3>2. QED
      BY <3>1 DEF Carries
  <2>2. CASE Made(n) /\ sets'[n] = NewSet
    <3>1. worker.pc \in Creating /\ worker.coll = c /\ n \in Wanted(c, worker.obj)
      BY <1>3, <2>2, NewSetType DEF Made, Creating, KeptInv, TodoInv
    <3>2. /\ StillWanted(c, worker.obj, coll[c])
          /\ Cached(c) => StillWanted(c, worker.obj, cache[c])
      BY <3>1 DEF KeptInv, CopyInv
    <3>3. QED
      BY <1>3, <3>1, <3>2 DEF StillWanted, Carries
  <2>3. QED
    BY <1>3, <2>1, <2>2, OwnedBefore
<1>4. OwnedInv'
  <2>1. \A c \in Collections : Cached(c)' = Cached(c)
    BY DEF Cached
  <2>2. QED
    BY <1>3, <2>1 DEF OwnedInv
<1>5. QED
  BY <1>1, <1>2, <1>4

Alone == \A c, d \in Collections : c = d

(* A write to the collection that removes nothing from its spec but what   *)
(* it also records.                                                        *)
LEMMA WriteKeeps ==
  ASSUME IInv, KeptInv, Alone, NEW c \in Collections, NEW obj \in Object, Store(c, obj),
         obj.uid = coll[c].uid, obj.present => coll[c].present,
         obj.present => Wanted(c, coll[c]) \subseteq Wanted(c, obj) \cup dropped',
         worker.pc \in Creating /\ worker'.pc \in Creating => obj.present,
         dropped \subseteq dropped', UNCHANGED sets, Carries
  PROVE  VersionsInv' /\ CopyInv' /\ OwnedInv'
<1>1. /\ TypeOK /\ coll'[c] = obj /\ cache' = cache
  BY StoreResult DEF IInv
<1>2. Cached(c)' = Cached(c)
  BY <1>1 DEF Cached
<1>3. VersionsInv'
  <2>1. ASSUME obj.present, Cached(c)
        PROVE  StillWanted(c, cache[c], obj)'
    <3>1. Wanted(c, cache[c]) \subseteq Wanted(c, coll[c]) \cup dropped
      BY <2>1 DEF KeptInv, VersionsInv, StillWanted
    <3>2. Wanted(c, cache[c]) \subseteq Wanted(c, obj) \cup dropped'
      BY <2>1, <3>1
    <3>3. QED
      BY <1>1, <3>2 DEF StillWanted, Wanted
  <2>2. QED
    BY <1>1, <1>2, <2>1 DEF VersionsInv, Alone, StillWanted
<1>4. CopyInv'
  <2>1. SUFFICES ASSUME worker'.pc \in Creating
                 PROVE  LET d == worker'.coll
                        IN  /\ Wanted(d, worker'.obj) \subseteq Wanted(d, coll'[d]) \cup dropped'
                            /\ cache'[d].present /\ cache'[d].uid = coll'[d].uid =>
                                 Wanted(d, worker'.obj) \subseteq Wanted(d, cache'[d]) \cup dropped'
    BY DEF CopyInv, StillWanted, Cached, Wanted
  <2>2. /\ worker.pc \in Creating /\ worker'.obj = worker.obj /\ worker'.coll = c
        /\ worker.coll = c /\ obj.present
    BY <2>1, Acting DEF Carries, Alone
  <2>3. /\ Wanted(c, worker.obj) \subseteq Wanted(c, coll[c]) \cup dropped
        /\ Cached(c) => Wanted(c, worker.obj) \subseteq Wanted(c, cache[c]) \cup dropped
    BY <2>2 DEF KeptInv, CopyInv, StillWanted
  <2>4. /\ Wanted(c, worker.obj) \subseteq Wanted(c, obj) \cup dropped'
        /\ Cached(c) => Wanted(c, worker.obj) \subseteq Wanted(c, cache[c]) \cup dropped'
    BY <2>2, <2>3
  <2>5. QED
    BY <1>1, <2>2, <2>4 DEF Cached
<1>5. OwnedInv'
  <2>1. ASSUME NEW n \in Names \ dropped', sets[n] # None, sets[n].owner = c,
               sets[n].uid = obj.uid
        PROVE  /\ obj.present => n \in Wanted(c, obj)
               /\ Cached(c) => n \in Wanted(c, cache[c])
               /\ worker'.pc \in Creating => n \in Wanted(c, worker'.obj)
    <3>1. /\ coll[c].present => n \in Wanted(c, coll[c])
          /\ Cached(c) => n \in Wanted(c, cache[c])
          /\ worker.pc \in Creating /\ worker.coll = c => n \in Wanted(c, worker.obj)
      BY <2>1 DEF KeptInv, OwnedInv
    <3>2. worker.pc \in Creating => worker.coll = c
      BY Acting DEF Alone
    <3>3. QED
      BY <2>1, <3>1, <3>2 DEF Carries
  <2>2. QED
    BY <1>1, <1>2, <2>1 DEF OwnedInv, Alone, Wanted
<1>6. QED
  BY <1>3, <1>4, <1>5

(* The cache catches up. *)
LEMMA CatchUpKeeps ==
  ASSUME IInv, KeptInv, \A c \in Collections : cache'[c] = coll[c],
         UNCHANGED <<coll, sets, dropped>>, Carries
  PROVE  VersionsInv' /\ CopyInv' /\ OwnedInv'
<1>1. \A c \in Collections : Cached(c)' <=> coll[c].present
  BY DEF Cached
<1>2. VersionsInv'
  BY DEF VersionsInv, StillWanted, Wanted
<1>3. CopyInv'
  <2>1. ASSUME worker'.pc \in Creating
        PROVE  /\ worker'.coll \in Collections
               /\ Wanted(worker'.coll, worker'.obj)
                     \subseteq Wanted(worker'.coll, coll[worker'.coll]) \cup dropped
    BY <2>1, Acting DEF KeptInv, CopyInv, StillWanted, Carries
  <2>2. QED
    BY <2>1 DEF CopyInv, StillWanted, Wanted
<1>4. OwnedInv'
  <2>1. SUFFICES ASSUME NEW c \in Collections, NEW n \in Names \ dropped, sets[n] # None,
                        sets[n].owner = c, sets[n].uid = coll[c].uid
                 PROVE  /\ coll[c].present => n \in Wanted(c, coll[c])
                        /\ Cached(c)' => n \in Wanted(c, cache'[c])
                        /\ worker'.pc \in Creating /\ worker'.coll = c
                              => n \in Wanted(c, worker'.obj)
    BY DEF OwnedInv, Wanted
  <2>2. /\ coll[c].present => n \in Wanted(c, coll[c])
        /\ worker.pc \in Creating /\ worker.coll = c => n \in Wanted(c, worker.obj)
    BY <2>1 DEF KeptInv, OwnedInv
  <2>3. QED
    BY <1>1, <2>1, <2>2 DEF Carries
<1>5. QED
  BY <1>2, <1>3, <1>4

LEMMA CreateKeepsKept ==
  ASSUME IInv, KeptInv, Alone, NEW c \in Collections, Create(c)
  PROVE  VersionsInv' /\ CopyInv' /\ OwnedInv'
<1>1. /\ ~coll[c].present /\ cache' = cache /\ sets' = sets /\ worker' = worker
      /\ coll'[c].uid = coll[c].uid + 1 /\ coll[c].uid \in Nat /\ cache[c].uid \in Nat
  <2>1. PICK S \in SUBSET SetNames :
           Store(c, [NoObject EXCEPT !.present = TRUE, !.uid = coll[c].uid + 1,
                                     !.url = coll[c].url, !.sets = S])
    BY DEF Create
  <2>2. coll'[c].uid = coll[c].uid + 1 /\ cache' = cache
    BY <2>1, CollTypes DEF IInv, Store, NoObject
  <2>3. QED
    BY <2>2, CollTypes, Numbers DEF IInv, Create, outside, setVars
<1>2. ~(cache'[c].present /\ cache'[c].uid = coll'[c].uid)
  BY <1>1 DEF IInv, CacheInv, Older
<1>3. worker'.pc \notin Creating
  BY <1>1, Acting DEF Alone, OwnerExists
<1>4. \A n \in Names : ~(sets'[n] # None /\ sets'[n].owner = c /\ sets'[n].uid = coll'[c].uid)
  BY <1>1 DEF IInv, SetInv
<1>5. VersionsInv'
  BY <1>2 DEF VersionsInv, Cached, Alone
<1>6. CopyInv'
  BY <1>3 DEF CopyInv
<1>7. OwnedInv'
  BY <1>4 DEF OwnedInv, Alone
<1>8. QED
  BY <1>5, <1>6, <1>7

LEMMA EditKeepsKept ==
  ASSUME IInv, KeptInv, Alone, NEW c \in Collections, Edit(c)
  PROVE  VersionsInv' /\ CopyInv' /\ OwnedInv'
<1>1. PICK S \in SUBSET SetNames :
         /\ Store(c, [coll[c] EXCEPT !.url = coll[c].url + 1, !.sets = S])
         /\ dropped' = dropped \cup {nameFor(c, s) : s \in coll[c].sets \ S}
  BY DEF Edit
<1> DEFINE obj == [coll[c] EXCEPT !.url = coll[c].url + 1, !.sets = S]
<1>2. /\ TypeOK /\ coll[c].present /\ coll[c].uid + coll[c].url < MaxChanges
      /\ UNCHANGED <<sets, worker>>
  BY DEF IInv, Edit, MayChange, Live, outside, setVars
<1>3. coll[c] \in Object /\ coll[c].uid \in Nat /\ coll[c].url \in Nat
  BY <1>2, CollTypes, Numbers
<1>4. coll[c].url + 1 \in 0 .. MaxChanges
  BY <1>2, <1>3, BoundsAssumption
<1>5. obj \in Object /\ obj.uid = coll[c].uid /\ obj.sets = S
  BY <1>3, <1>4 DEF Object
<1>6. obj.present
  BY <1>2, <1>3 DEF Object
<1>7. Wanted(c, coll[c]) \subseteq Wanted(c, obj) \cup dropped'
  BY <1>1, <1>5 DEF Wanted
<1>8. dropped \subseteq dropped' /\ Carries
  BY <1>1, <1>2 DEF Carries
<1> HIDE DEF obj
<1>9. Store(c, obj)
  BY <1>1 DEF obj
<1>10. QED
  BY <1>2, <1>5, <1>6, <1>7, <1>8, <1>9, WriteKeeps

LEMMA DeleteKeepsKept ==
  ASSUME IInv, KeptInv, Alone, NEW c \in Collections, Delete(c)
  PROVE  VersionsInv' /\ CopyInv' /\ OwnedInv'
<1> DEFINE marked == [coll[c] EXCEPT !.deleting = TRUE]
<1>1. /\ TypeOK /\ coll[c].present /\ UNCHANGED <<sets, worker, dropped>>
  BY DEF IInv, Delete, Live, outside, setVars
<1>2. coll[c] \in Object
  BY <1>1, CollTypes
<1>3. Carries /\ dropped \subseteq dropped'
  BY <1>1 DEF Carries
<1>4. CASE coll[c].finalizer
  <2>1. Store(c, marked)
    BY <1>4 DEF Delete
  <2>2. marked \in Object /\ marked.uid = coll[c].uid /\ marked.sets = coll[c].sets
    BY <1>2 DEF Object
  <2>3. marked.present
    BY <1>1, <1>2 DEF Object
  <2>4. Wanted(c, coll[c]) \subseteq Wanted(c, marked) \cup dropped'
    BY <2>2 DEF Wanted
  <2> HIDE DEF marked
  <2>5. QED
    BY <1>1, <1>3, <2>1, <2>2, <2>3, <2>4, WriteKeeps
<1>5. CASE ~coll[c].finalizer
  <2>1. Store(c, Gone(c))
    BY <1>5 DEF Delete
  <2>2. Gone(c) \in Object /\ Gone(c).uid = coll[c].uid /\ Gone(c).present = FALSE
    BY <1>1, GoneType
  <2>3. worker.pc \notin Creating
    <3>1. worker.pc \in Creating => worker.pc # "idle" /\ coll[c].finalizer
      BY Acting DEF IInv, WorkerInv, Alone
    <3>2. QED
      BY <1>5, <3>1
  <2>4. QED
    BY <1>1, <1>3, <2>1, <2>2, <2>3, WriteKeeps
<1>6. QED
  BY <1>4, <1>5

LEMMA CatchUp ==
  ASSUME IInv, KeptInv, Alone, Crash \/ \E c \in Collections : Deliver(c)
  PROVE  VersionsInv' /\ CopyInv' /\ OwnedInv'
<1>1. /\ UNCHANGED <<coll, sets, dropped>> /\ (worker' = worker \/ worker' = Idle)
      /\ \A c \in Collections : cache'[c] = coll[c]
  BY CollTypes DEF IInv, Crash, Deliver, outside, setVars, Alone
<1>2. Carries
  BY <1>1 DEF Carries, Idle, Creating
<1>3. QED
  BY <1>1, <1>2, CatchUpKeeps

(* The worker's writes: it keeps the spec as it is, and the cache has that *)
(* version.                                                                *)
LEMMA AddFinalizerKeepsKept ==
  ASSUME IInv, KeptInv, Alone, AddFinalizer
  PROVE  VersionsInv' /\ CopyInv' /\ OwnedInv'
<1> DEFINE c   == worker.coll
           obj == [worker.obj EXCEPT !.finalizer = TRUE]
<1>1. /\ TypeOK /\ worker.pc = "addFinalizer" /\ UNCHANGED <<sets, dropped>>
  BY DEF IInv, AddFinalizer, children, setVars
<1>2. CASE Fail /\ UNCHANGED collVars
  <2>1. UNCHANGED <<coll, sets, cache, dropped>> /\ worker'.pc = "idle"
    BY <1>1, <1>2 DEF Fail, Idle, collVars
  <2>2. Carries
    BY <2>1 DEF Carries, Creating
  <2>3. QED
    BY <1>1, <1>2, <2>1, <2>2 DEF KeptInv, VersionsInv, CopyInv, OwnedInv, StillWanted,
       Wanted, Cached, Creating
<1>3. CASE coll[c] = worker.obj /\ Store(c, obj) /\ GoOn("parts", obj, Part)
  <2>1. c \in Collections /\ worker.obj \in Object /\ worker.obj.present
    BY <1>1, WorkerTypes
  <2>2. obj \in Object /\ obj.uid = coll[c].uid /\ obj.sets = coll[c].sets
    BY <1>3, <2>1 DEF Object
  <2>3. obj.present = worker.obj.present
    BY <2>1 DEF Object
  <2>4. /\ coll'[c] = obj /\ cache'[c] = coll[c]
    BY <1>1, <1>3, <2>1, <2>2, StoreResult, UpToDate
  <2>5. worker'.coll = c /\ worker'.obj = obj
    <3>1. "parts" \in WorkerState /\ Part \in SUBSET (Names \cup Part)
      BY DEF WorkerState
    <3>2. QED
      BY <1>1, <1>3, <2>1, <2>2, <2>3, <3>1, GoOnResult
  <2>6. /\ \A o : o.sets = coll[c].sets => Wanted(c, o) = Wanted(c, coll[c])
        /\ \A d \in Collections : d = c
    BY <2>1 DEF Wanted, Alone
  <2>7. /\ Wanted(c, coll'[c]) = Wanted(c, coll[c]) /\ Wanted(c, cache'[c]) = Wanted(c, coll[c])
        /\ Wanted(c, worker'.obj) = Wanted(c, coll[c])
    BY <2>2, <2>4, <2>5, <2>6
  <2>8. VersionsInv' /\ CopyInv'
    BY <2>5, <2>6, <2>7 DEF VersionsInv, CopyInv, StillWanted, Wanted
  <2>9. ASSUME NEW n \in Names \ dropped, sets[n] # None, sets[n].owner = c,
               sets[n].uid = coll'[c].uid
        PROVE  n \in Wanted(c, coll[c])
    BY <1>3, <2>1, <2>2, <2>4, <2>9 DEF KeptInv, OwnedInv
  <2>10. OwnedInv'
    BY <1>1, <2>5, <2>6, <2>7, <2>9 DEF OwnedInv, Wanted
  <2>11. QED
    BY <2>8, <2>10
<1>4. QED
  BY <1>2, <1>3 DEF AddFinalizer

LEMMA RemoveFinalizerKeepsKept ==
  ASSUME IInv, KeptInv, Alone, RemoveFinalizer
  PROVE  VersionsInv' /\ CopyInv' /\ OwnedInv'
<1> DEFINE c   == worker.coll
           new == [worker.obj EXCEPT !.finalizer = FALSE]
<1>1. /\ TypeOK /\ worker.pc = "removeFinalizer" /\ UNCHANGED <<sets, dropped>>
      /\ worker' = Idle /\ worker.pc \notin Creating /\ Carries
  BY DEF IInv, RemoveFinalizer, children, setVars, Creating, Done, Fail, Carries, Idle
<1>2. CASE UNCHANGED collVars
  BY <1>1, <1>2 DEF KeptInv, VersionsInv, CopyInv, OwnedInv, StillWanted,
     Wanted, Cached, Creating, collVars, Carries
<1>3. ASSUME coll[c] = worker.obj, NEW obj \in {Gone(c), new}, Store(c, obj)
      PROVE  VersionsInv' /\ CopyInv' /\ OwnedInv'
  <2>1. c \in Collections /\ worker.obj \in Object /\ worker.obj.present
    BY <1>1, WorkerTypes
  <2>2. new \in Object /\ new.uid = coll[c].uid /\ new.sets = coll[c].sets
    BY <1>3, <2>1 DEF Object
  <2>3. Gone(c) \in Object /\ Gone(c).uid = coll[c].uid /\ Gone(c).present = FALSE
    BY <1>1, <2>1, GoneType
  <2>4. Wanted(c, coll[c]) \subseteq Wanted(c, new) \cup dropped'
    BY <2>2 DEF Wanted
  <2> HIDE DEF new
  <2>5. obj \in Object /\ obj.uid = coll[c].uid
    BY <1>3, <2>2, <2>3
  <2>6. obj.present => Wanted(c, coll[c]) \subseteq Wanted(c, obj) \cup dropped'
    BY <1>3, <2>3, <2>4
  <2>7. QED
    BY <1>1, <1>3, <2>1, <2>5, <2>6, WriteKeeps
<1>4. QED
  BY <1>2, <1>3 DEF RemoveFinalizer

(* Every other step leaves the collections alone, and a reconcile that     *)
(* comes to the children has just read its copy from the cache.            *)
LEMMA ReconcileKeepsKept ==
  ASSUME IInv, KeptInv, [Next]_vars, NEW c \in Collections, Reconcile(c)
  PROVE  VersionsInv' /\ CopyInv' /\ OwnedInv' /\ TodoInv'
<1>1. /\ UNCHANGED <<coll, cache, dropped, sets>> /\ worker.pc = "idle"
      /\ worker'.pc \in {"idle", "addFinalizer", "refetch", "parts"}
  BY DEF Reconcile, collVars, children, setVars, Idle
<1>2. TodoInv'
  BY <1>1 DEF TodoInv
<1>3. CASE worker'.pc # "parts"
  <2>1. Carries
    BY <1>1, <1>3 DEF Carries, Creating
  <2>2. QED
    BY <1>1, <1>2, <2>1, CarriesKeeps
<1>4. CASE worker'.pc = "parts"
  <2>1. /\ cache[c].present /\ cache[c].finalizer /\ ~cache[c].deleting
        /\ worker'.coll = c /\ worker'.obj = cache[c]
    BY <1>4 DEF Reconcile, Idle
  <2>2. coll[c].present /\ cache[c].uid = coll[c].uid
    BY <2>1 DEF IInv, CacheInv, Kept, WellFormed
  <2>3. VersionsInv'
    BY <1>1 DEF KeptInv, VersionsInv, StillWanted, Wanted, Cached
  <2>4. CopyInv'
    BY <1>1, <2>1, <2>2 DEF KeptInv, VersionsInv, CopyInv, StillWanted, Wanted, Cached
  <2>5. OwnedInv'
    BY <1>1, <2>1, <2>2 DEF KeptInv, OwnedInv, Wanted, Cached
  <2>6. QED
    BY <1>2, <2>3, <2>4, <2>5
<1>5. QED
  BY <1>3, <1>4

(* What is left to do in a reconcile of the children. *)
LEMMA GoOnKeepsKept ==
  ASSUME IInv, KeptInv, worker.pc \in Creating, NEW pc \in Creating,
         NEW todo \in SUBSET (Names \cup Part), GoOn(pc, worker.obj, todo),
         LET wanted == Wanted(worker.coll, worker.obj)
         IN  /\ pc = "sets" => todo \subseteq wanted
             /\ pc = "delete" => todo \cap wanted = {}
  PROVE  Carries /\ TodoInv'
<1>1. /\ TypeOK /\ worker.pc # "idle" /\ worker.obj \in Object /\ worker.obj.present
      /\ pc \in WorkerState
  BY Acting, WorkerStates DEF IInv
<1>2. /\ worker'.pc = pc /\ worker'.obj = worker.obj /\ worker'.coll = worker.coll
      /\ worker'.todo = todo
  BY <1>1, GoOnResult
<1>3. QED
  BY <1>2 DEF Carries, TodoInv, Wanted

LEMMA WorkerSteps ==
  ASSUME IInv
  PROVE  /\ AddFinalizer \/ RemoveFinalizer => worker'.pc \in {"idle", "parts"}
         /\ Refetch \/ ListError \/ WorkerError => worker'.pc \in {"idle", "removeFinalizer"}
<1>1. worker.pc # "idle" => worker \in Reconciling
  BY WorkerTypes DEF IInv
<1>2. ASSUME NEW pc, NEW obj, NEW todo, worker.pc # "idle", GoOn(pc, obj, todo)
      PROVE  worker'.pc = pc
  BY <1>1, <1>2 DEF GoOn, Reconciling
<1>3. Done \/ Fail => worker'.pc = "idle"
  BY DEF Done, Fail, Idle
<1>4. AddFinalizer => worker'.pc \in {"idle", "parts"}
  BY <1>2, <1>3 DEF AddFinalizer
<1>5. RemoveFinalizer \/ ListError \/ WorkerError => worker'.pc = "idle"
  BY <1>3 DEF RemoveFinalizer, ListError, WorkerError
<1>6. Refetch => worker'.pc \in {"idle", "removeFinalizer"}
  BY <1>2, <1>3 DEF Refetch
<1>7. QED
  BY <1>4, <1>5, <1>6

LEMMA EndKeepsKept ==
  ASSUME worker'.pc \notin Creating
  PROVE  Carries /\ TodoInv'
  BY DEF Carries, TodoInv, Creating

LEMMA ChildrenKeepKept ==
  ASSUME IInv, KeptInv,
         \/ \E p \in Part : CreateCollectorPart(p) \/ ApplyMonitoringPart(p)
         \/ \E n \in Names : SyncSet(n) \/ DeleteSet(n)
         \/ ListSets
  PROVE  Carries /\ TodoInv' /\ UNCHANGED <<coll, cache, dropped>>
<1> DEFINE wanted == Wanted(worker.coll, worker.obj)
<1>1. ASSUME Done \/ Fail
      PROVE  Carries /\ TodoInv'
  BY <1>1, EndKeepsKept DEF Done, Fail, Idle, Creating
<1>2. ASSUME NEW p \in Part, CreateCollectorPart(p) \/ ApplyMonitoringPart(p)
      PROVE  Carries /\ TodoInv'
  <2>1. worker.pc = "parts" /\ (PartDone(p) \/ Fail)
    BY <1>2, CreateIfNotExistsResult, ApplyResult
       DEF CreateCollectorPart, ApplyMonitoringPart, Apply, CreateIfNotExists
  <2>2. /\ worker.coll \in Collections /\ worker.obj \in Object
        /\ worker.todo \subseteq Names \cup Part /\ worker.pc \in Creating
    BY <2>1, Acting DEF Creating
  <2>3. wanted \subseteq Names
    BY <2>2 DEF Wanted, Names, Object
  <2>4. CASE GoOn("sets", worker.obj, wanted)
    BY <2>2, <2>3, <2>4, GoOnKeepsKept DEF Creating
  <2>5. CASE GoOn("parts", worker.obj, worker.todo \ {p})
    BY <2>2, <2>5, GoOnKeepsKept DEF Creating
  <2>6. QED
    BY <1>1, <2>1, <2>4, <2>5 DEF PartDone
<1>3. ASSUME NEW n \in Names, SyncSet(n)
      PROVE  Carries /\ TodoInv'
  <2>1. worker.pc = "sets" /\ (SetDone(n) \/ Fail)
    BY <1>3 DEF SyncSet, UpdateSet, CreateSet
  <2>2. /\ worker.todo \ {n} \in SUBSET (Names \cup Part) /\ worker.pc \in Creating
        /\ worker.todo \ {n} \subseteq wanted
    BY <2>1, Acting DEF Creating, KeptInv, TodoInv
  <2>3. CASE SetDone(n)
    BY <2>2, <2>3, GoOnKeepsKept DEF SetDone, Creating
  <2>4. QED
    BY <1>1, <2>1, <2>3
<1>4. ASSUME NEW n \in Names, DeleteSet(n)
      PROVE  Carries /\ TodoInv'
  <2>1. /\ worker.pc = "delete"
        /\ Done \/ Fail \/ GoOn("delete", worker.obj, worker.todo \ {n})
    BY <1>4 DEF DeleteSet
  <2>2. /\ worker.todo \ {n} \in SUBSET (Names \cup Part) /\ worker.pc \in Creating
        /\ (worker.todo \ {n}) \cap wanted = {}
    BY <2>1, Acting DEF Creating, KeptInv, TodoInv
  <2>3. CASE GoOn("delete", worker.obj, worker.todo \ {n})
    BY <2>2, <2>3, GoOnKeepsKept DEF Creating
  <2>4. QED
    BY <1>1, <2>1, <2>3
<1>5. ASSUME ListSets
      PROVE  Carries /\ TodoInv'
  <2>1. /\ worker.pc \in Creating /\ Outdated \in SUBSET (Names \cup Part)
        /\ Outdated \cap wanted = {} /\ (Done \/ GoOn("delete", worker.obj, Outdated))
    BY <1>5 DEF ListSets, Creating, Outdated
  <2>2. CASE GoOn("delete", worker.obj, Outdated)
    BY <2>1, <2>2, GoOnKeepsKept DEF Creating
  <2>3. QED
    BY <1>1, <2>1, <2>2
<1>6. UNCHANGED <<coll, cache, dropped>>
  BY DEF CreateCollectorPart, ApplyMonitoringPart, SyncSet, DeleteSet, ListSets, collVars
<1>7. QED
  BY <1>2, <1>3, <1>4, <1>5, <1>6

LEMMA KeptInit ==
  ASSUME Init
  PROVE  KeptInv
  BY DEF Init, KeptInv, VersionsInv, CopyInv, OwnedInv, TodoInv, Idle, Creating,
     Cached, NoObject

LEMMA KeptNext ==
  ASSUME IInv, KeptInv, Alone, [Next]_vars
  PROVE  KeptInv'
<1>1. ASSUME NEW c \in Collections, Create(c) \/ Edit(c) \/ Delete(c)
      PROVE  KeptInv'
  <2>1. worker' = worker
    BY <1>1 DEF Create, Edit, Delete, outside
  <2>2. TodoInv'
    BY <2>1 DEF KeptInv, TodoInv, Wanted
  <2>3. QED
    BY <1>1, <2>2, CreateKeepsKept, EditKeepsKept, DeleteKeepsKept DEF KeptInv
<1>2. CASE Crash \/ \E c \in Collections : Deliver(c)
  <2>1. worker' = worker \/ worker' = Idle
    BY <1>2 DEF Crash, Deliver, outside
  <2>2. TodoInv'
    BY <2>1 DEF KeptInv, TodoInv, Wanted, Idle
  <2>3. QED
    BY <1>2, <2>2, CatchUp DEF KeptInv
<1>3. ASSUME NEW c \in Collections, Reconcile(c)
      PROVE  KeptInv'
  BY <1>3, ReconcileKeepsKept DEF KeptInv
<1>4. CASE AddFinalizer \/ RemoveFinalizer
  <2>1. worker'.pc \notin {"sets", "delete"}
    BY <1>4, WorkerSteps
  <2>2. TodoInv'
    BY <2>1 DEF TodoInv
  <2>3. QED
    BY <1>4, <2>2, AddFinalizerKeepsKept, RemoveFinalizerKeepsKept DEF KeptInv
<1>5. CASE Carries /\ TodoInv' /\ UNCHANGED <<coll, cache, dropped>>
  BY <1>5, CarriesKeeps DEF KeptInv
<1>6. CASE \/ \E p \in Part : CreateCollectorPart(p) \/ ApplyMonitoringPart(p)
           \/ \E n \in Names : SyncSet(n) \/ DeleteSet(n)
           \/ ListSets
  BY <1>5, <1>6, ChildrenKeepKept
<1>7. CASE Refetch \/ ListError \/ WorkerError
  <2>1. worker'.pc \notin Creating /\ UNCHANGED <<coll, cache, dropped>>
    BY <1>7, WorkerSteps DEF Refetch, ListError, WorkerError, Creating, collVars
  <2>2. QED
    BY <1>5, <2>1, EndKeepsKept
<1>8. CASE \/ \E c \in Collections : Resync(c) \/ \E p \in Part : CollectPart(c, p)
           \/ \E n \in Names : CollectSet(n) \/ FinalizeSet(n) \/ ProtectSet(n)
           \/ DeliverChildren \/ UNCHANGED vars
  <2>1. UNCHANGED <<worker, coll, cache, dropped>>
    BY <1>8 DEF Resync, CollectPart, CollectSet, FinalizeSet, ProtectSet, DeliverChildren,
       outside, vars, collVars
  <2>2. Carries /\ TodoInv'
    BY <2>1 DEF Carries, KeptInv, TodoInv, Wanted
  <2>3. QED
    BY <1>5, <2>1, <2>2
<1>9. QED
  BY <1>1, <1>2, <1>3, <1>4, <1>6, <1>7, <1>8
     DEF Next, Users, Watches, Cleanup, Resyncs, Worker

(* In a namespace with one collection, a GlideinSet that its collection    *)
(* has always had in its spec is not deleted while the collection lives,   *)
(* however old the copy is that a reconcile works on and the list that it  *)
(* compares with (recoincileGlideinSets).  With a second collection this   *)
(* is false: the list of outdated GlideinSets then has those of the other. *)
THEOREM WantedSetsStay ==
  ASSUME \A c, d \in Collections : c = d
  PROVE  Spec => KeptSetsSurvive
<1> DEFINE Stay ==
             \A c \in Collections, n \in Names \ dropped :
                (/\ Live(c) /\ Live(c)'
                 /\ sets[n] # None /\ ~sets[n].deleting
                 /\ sets[n].owner = c /\ sets[n].uid = coll[c].uid)
                    => sets'[n] # None /\ ~sets'[n].deleting
<1>1. Alone
  BY DEF Alone
<1>2. IInv /\ KeptInv /\ [Next]_vars => Stay
  <2>1. SUFFICES ASSUME IInv, KeptInv, [Next]_vars,
                        NEW c \in Collections, NEW n \in Names \ dropped, Live(c),
                        sets[n] # None, ~sets[n].deleting,
                        sets[n].owner = c, sets[n].uid = coll[c].uid
                 PROVE  sets'[n] # None /\ ~sets'[n].deleting
    OBVIOUS
  <2>2. sets \in [Names -> GlideinSet \cup {None}] /\ OwnerExists(c, sets[n].uid)
    BY <2>1 DEF IInv, TypeOK, Live, OwnerExists
  <2>3. ~(worker.pc = "delete" /\ n \in worker.todo)
    BY <1>1, <2>1, Acting DEF KeptInv, OwnedInv, TodoInv, Creating, Alone
  <2>4. ASSUME NEW m \in Names, NEW set \in GlideinSet \cup {None}, Changed(m, set)
        PROVE  sets'[n] # None /\ ~sets'[n].deleting
    BY <2>1, <2>2, <2>3, <2>4 DEF Changed, Written
  <2>5. ASSUME NEW m \in Names, Made(m)
        PROVE  sets'[n] = sets[n]
    BY <2>1, <2>2, <2>5 DEF Made, Written
  <2>6. QED
    BY <2>1, <2>4, <2>5, SetsStep
<1>3. Init => IInv /\ KeptInv
  BY InitInv, KeptInit
<1>4. IInv /\ KeptInv /\ [Next]_vars => (IInv /\ KeptInv)'
  BY <1>1, NextInv, KeptNext
<1>5. QED
  BY <1>2, <1>3, <1>4, PTL DEF Spec, KeptSetsSurvive

=============================================================================
