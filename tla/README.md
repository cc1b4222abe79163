# TLA+ models of the GMOS Kubernetes operator

These modules describe the control logic of the operator in
`internal/controller`: two controllers, two kinds of polling goroutine, and
what they do to the objects of the cluster. TLC checks them on small instances,
and TLAPS proves for instances of every size all the safety properties that the runs
check (two of them under a hypothesis without which a run shows that the code violates them), and that the pollers and the GlideinSet controller implement simpler specifications.
What must happen in the end is checked by TLC alone. Paths below are relative to `src/`; `GC:94` means
line 94 of `internal/controller/glideinmanager_client.go`.

## 1. The system

| Component | State it keeps | Operations | Interacts with |
|---|---|---|---|
| Glidein Manager pollers (`glideinmanager_client.go`) | static map URL -> poller; per poller: update handlers by name, two tickers, `doneChan` | add and remove a watcher, handshake with retry, start and stop polling, poll Git, poll secrets | the GlideinSet worker (calls, shared maps without a lock, `doneChan`), the Glidein Manager (HTTP), `/tmp` (working copy), the API |
| GlideinSet controller (`glideinset_controller.go`, `api_util.go`, `pilotset_schemas.go`) | nothing of its own between reconciles | reconcile: finalizer, token Secrets, Deployment, data Secret, registration of watcher and collector client; update handlers for commits, secrets and tokens | API server and informer cache, both pollers, `/tmp` |
| Collector client (`collector_client.go`, `collector_schemas.go`) | static map name -> client; per client a ticker and `doneChan` | add and remove a client, token loop, exec in the collector pod | the worker, the collector pod, two Secrets |
| GlideinSetCollection controller (`glideinsetcollection_controller.go`) | nothing of its own | reconcile: collector, monitoring, create/update/delete GlideinSets | API server; through GlideinSets the other controller |
| Templated resources (`templated_resources_editor.go`, `manifests/`) | rendered YAML | render, decode, merge into an object | called by both controllers |
| Resource names (`pilotset_resourcenames.go`) | - | prefixing | every API call |
| API types, `cmd/main.go`, kustomize and CRD manifests | - | data and wiring | - |

What the code does not lock or sequence itself comes from controller-runtime:
one worker per controller, a work queue that holds a key once and retries on
error, reads from an informer cache that lags, and optimistic concurrency on
`resourceVersion`.

### What is hard

* **Shared memory without locks.** The worker, and per poller a starter
  goroutine, a data loop and a refresh loop, share the poller struct. They only
  meet at an unbuffered channel on which one value is sent and two loops listen.
* **Stale reads.** Every read is from a cache. The worker and the data loop hold
  a copy of a GlideinSet across several calls; three writers hold copies of the
  same Secret.
* **Failure.** Any API call may fail, or succeed and lose its answer; the process
  may die between any two calls; the Git working copy is not on a volume.
* **Retries and time.** 15 handshakes, then silence; a token loop each minute.
* **Missing events.** The controllers watch only their own kind, not children.

### What makes each component correct

* Pollers: the map holds exactly the pollers with a handler; a GlideinSet keeps
  its handler until its own removal; a removed one has none; stopping returns; a
  live poller keeps polling, a stopped one does not.
* GlideinSet controller: nothing stays in memory for an object that is gone; no
  write undoes another; no children for dead objects; files never older than the
  Deployment; convergence; deletion completes.
* Collector client: one loop per GlideinSet, none after removal; no lost update;
  no empty Secret; tokens arrive.
* Collection controller: its GlideinSets are those of its spec, and it touches no
  other collection's.
* Resource names: two different objects never share a child.

## 2. Modules

| Module | Models | Lines |
|---|---|---|
| `GlideinManagerPollers` | pollers, their goroutines, registration by the worker | GC, finalizer part of the GlideinSet reconcile |
| `WatchList` | abstract: who watches which URL; implemented by `GlideinManagerPollers` | add and remove of a watcher |
| `GlideinManagerPollersProofs`, `WatchListProofs`, `RemovalProofs` | proofs about the pollers, of that refinement, and of the removal of a GlideinSet | |
| `CollectorTokensProofs`, `GlideinSetControllerProofs`, `GlideinSetCollectionProofs` | proofs about the token Secrets, about one GlideinSet with the refinement of `GlideinSetLife`, and about the collections | |
| `GlideinSetLife` | abstract: the finalizer protocol of one GlideinSet; implemented by `GlideinSetController` | GlideinSet reconcile |
| `GlideinSetController` | one GlideinSet, its children, caches, API server, Git half of the poll | GlideinSet controller, `api_util.go`, `pilotset_schemas.go`, GC:117-148 |
| `CollectorTokens` | the two token Secrets and their three writers | collector client, token updaters, `shouldUpdateTokens`, GC:153-202 |
| `GlideinSetCollection` | all collections of a namespace, their GlideinSets and other children, caches, API server | GlideinSetCollection controller, `api_util.go`, `templated_resources_editor.go`, `makeCollectorTemplate`, `nameFor` |
| `MCGlideinManagerPollers`, `MCCollectorTokens`, `MCGlideinSetCollection` | symmetry sets and names for TLC | |

The modules meet at the GlideinSet. `GlideinSetCollection` creates, edits and deletes
GlideinSets, and has of the GlideinSet controller what matters to them (`ProtectSet`,
`FinalizeSet`); `GlideinSetController` has the rest of that controller for one GlideinSet,
with the collection as environment (`Create`, `EditSpec`, `Delete`). It has of the pollers
that a registered watcher may poll, and `GlideinManagerPollers` has when a poller polls.
`CollectorTokens` has the contents of the token Secrets, which the others know only as objects.

Each operator `FaultX` stands before the action it is a mistaken version of; it
is used nowhere in a specification and serves to see that a property would
notice the mistake.

### GlideinManagerPollers

| Code | Model |
|---|---|
| `activeGlideinManagerPollers` | `registry` |
| `updateHandlers` of a struct | `handlers[p]` (keys; the value is not used for anything else) |
| `dataUpdateTicker`, `refreshTicker` | `dataTicker`, `refreshTicker`: nil, running, stopped |
| goroutine of GC:244 | `starter[p]`: `StarterAttempt`, `StartData`, `StartRefresh` |
| goroutines of GC:66 and GC:79 | `dataLoop[p]`, `refreshLoop[p]` |
| `addGlideinManagerWatcher` | `AddToNewPoller`, `AddIsNoop`, `AddToExistingPoller` then `FinishAdd` |
| `removeGlideinManagerWatcher` | `RemoveHandler` (any holder may come first in the map range) |
| `stopPolling` | `StopDataTicker`, `StopRefreshTicker`, `DecideToSend`, then `DataLoopReceives` or `RefreshLoopReceives` |
| reconcile with and without deletion timestamp | `Reconcile`, `RemoveWatcher`, `FinishRemove` |

`stopPolling` is one action per statement because the starter sets the fields it
reads. The rest of add and remove is one action up to a blocking point: only the
one worker changes these maps. A data loop that ranges over a map while the
worker writes it may end the process with a fatal error; `Restart` stands for
that and any other restart. `synced` is a history variable: the URL that the last
complete reconcile of a GlideinSet saw.

`watched` is the refinement mapping to `WatchList`: for each GlideinSet the URLs under which
the map has a poller with a handler of it. There are no pollers in `WatchList`, and
entries are made and removed one at a time. That is what shared pollers have to hide:
the poller that leaves the map with its last handler held no other, and the one that
is made, or gets another handler, changes nothing for those that it already had. Only a
new process may empty the whole list: `process`, which tells the process that runs from the one
before it, is a variable of both modules, and only `Restart` changes it.

### GlideinSetController

One object, in several lives of the same name. `cr` is stored at the API server,
`watch` are the events under way, `cache` is what a `Get` returns. `Put` refuses a copy
with an old resource version, stores nothing for an equal object, and removes
an object whose last finalizer goes. `children` are the token Secrets,
the Deployment and the data Secret, each with the `uid` in its owner reference and
the spec and commit it was made from; `seen` says which of them the cache has. An
action of the worker is one API call (with the cached `Get` before it), so that an
event, a poll, an error or a crash may come between any two. `WorkerError` is an
error or a lost answer at any of them. `clone` is the commit of the working
copy on disk, which `makeDataSecretTemplate` reads, independent of the commit the object
names. It reads file after file while the data loop may pull: `ReadFiles` notes the commit
at the first file, and the Secret that `ApplyData` writes has files of that commit and maybe of the one
that is there at the last (`commit` and `newest` of the child). `createResourceIfNotExists` returns an error when the cache lacks an object that
exists; `applyUpdateToResource` of an object that the cache has and the server
has not returns NotFound, and the caller then creates; the creation trusts the cache
again. The children's own resource versions are left out: for one GlideinSet
only the worker writes its Deployment and data Secret, and an update that is refused because
the cache has not caught up ends the reconcile as `WorkerError` does.

The mapping to `GlideinSetLife` (`Life`) takes the object at the API server for absent, fresh,
protected or deleting (`lifeState`), the two registrations for one, and `process`, which counts crashes,
for itself. So a registration ends in one of two ways: with the process (`Restart`, a `Crash`), or in the
finalizer of an object that is being deleted (`Unregister`); a reconcile that finalized a live
object (`FaultFinalizeAlways`) would be neither. What it leaves out is all that makes the
protocol hard: copies, caches, retries, refused updates, a crash in the middle of a
finalizer. That every step is one of the protocol or a stutter is `ImplementsLife`. What the protocol
promises to reach is stated as two conditions on `object` and `registered`, and
the fairness of the controller has to imply them (`ProgressesLikeLife`).

An update sets the value of the resource that exists and not its owner reference, so the child
keeps the `uid` that it was created with (`KeepOwner`).

### CollectorTokens

The Secrets `-collector-tokens` and `-tokens` of one GlideinSet, with the keys of
their `Data` and the version label. Worker (placeholder), token loop (both) and
poller (one) write through the cache. As every stored write makes all other
copies old, `upToDate[h]` replaces version numbers: the Secrets of which holder `h` has
the stored version. This keeps the state finite without a bound on the number of writes.
`ShouldUpdateTokens` looks for `cluster.tkn`, as the code does. The removal of the
finalizer is one step with the end of `removeCollectorClient`; that it may fail is
in `GlideinSetController`. `Restart` may happen at any time; it loses the memory
and leaves the Secrets.

An object that goes leaves its Secrets `orphaned` (`Leave`): the garbage collector may take
them at once or when a new GlideinSet of the name is there, which has found them and made
none of its own. Until its next reconcile the new one is then without them.

`DstName` is the key of the upstream secret, the base name of its `Dst`. A manifest
with an empty `Dst` is skipped (GC:175). The name may be that of the collector's token,
and the proofs cover this case; that it is not the placeholder's, `sample.cfg`, is an assumption
(`DstAssumption`): `TokenSecretValueUpdater` deletes that key after it has set its own.

### GlideinSetCollection

| Code | Model |
|---|---|
| a GlideinSetCollection; what `Get` returns of it | `coll[c]`; `cache[c]` |
| its spec: the names of its GlideinSets; the URL, and what else the children copy | `sets`; `url`, a counter of edits |
| GlideinSets; what `Get` and `List` return of them | `sets[n]`; `known[n]`, and `n \in fresh` if that is the stored version |
| resources of `manifests/collector` and `manifests/prometheus` | `parts[c][p]`, and `<<c, p>> \in seen` if the cache has it |
| the random `NamespaceToken` of a collector Secret | `value` of a collector part, in `Keys` |
| `Reconcile`, finalizer | `Reconcile`, `AddFinalizer`, `Refetch`, `RemoveFinalizer` |
| `createCollectorForPilotSet`, `createMonitoringForPilotSet` | `CreateCollectorPart(p)`, then `ApplyMonitoringPart(p)`, one action per resource |
| `recoincileGlideinSets` | `SyncSet(n)` for each name of the spec, `ListSets` or `ListError`, `DeleteSet(n)` for each outdated one |

One worker serves all collections, so `worker` is one record with the copy of the
collection it has read and what is `todo` in the current loop. The order within a loop
is left open (the files of a directory, the items of a list): it does not matter to any other step. A name is a
sequence of parts that `nameFor` joins, so names may collide in the model as they may in
the code. `Outdated` has no condition on the collection, because the list has none: the
requirement that `HasLabels` gets is not a label key and is dropped. The keys
that `NamespaceToken` draws only have to differ from the one that is stored. Of the
cluster there are the garbage collector, the finalizer of the GlideinSet controller, and
caches that catch up: that of a collection one collection at a time, those of the children together.
`dropped` is a history variable: GlideinSets that an edit took out of the spec of the
living collection, after which the code owes them nothing.

## 3. Runs

| Run | Configuration | Shows |
|---|---|---|
| `pollers_safety` | `PollersSafety.cfg` | `TypeOK`, `RegisteredIffWatched`, `WatchedWhereLastReconciled`, `StopHasReceiver` with URL edits and restarts, and that it implements `WatchList` (`ImplementsWatchList`) |
| `pollers_liveness` | `PollersLiveness.cfg` | `RemovedIsUnwatched`, `StopReturns`, `PollsWhileRegistered` while URLs are not edited |
| `pollers_url_change` | `PollersUrlChange.cfg` | `RemovedIsUnwatched` fails when URLs are edited |
| `pollers_stop_race` | `PollersStopRace.cfg` | `RemovedPollerStops` fails |
| `pollers_handshake` | `PollersHandshake.cfg` | `HandshakeUntilItWorks` fails |
| `set_life` | `SetLife.cfg` | `DataNotOlder`, `NeverGoesBack`, `Converges` without any resync, `DeletionCompletes`, with torn reads |
| `set_recreate` | `SetRecreate.cfg` | `TypeOK`, `FinalizerProtects`, `NoOrphans`, `Converges` over two lives, and that it implements `GlideinSetLife`, in its steps (`ImplementsLife`) and in its progress (`ProgressesLikeLife`) |
| `set_restart` | `SetRestart.cfg` | `WatchedAfterRestart` fails |
| `tokens` | `Tokens.cfg` | `TypeOK`, `DataNeverEmpty`, `LoopOnlyWhileRegistered`, `NoLostUpdate`, `StopReturns`, `CollectorTokensArrive` with restarts |
| `tokens_populated` | `TokensPopulated.cfg` | `PopulatedIsEnough` fails |
| `collection` | `Collection.cfg` | `TypeOK`, `KeptSetsSurvive`, `NoOrphans`, `KeyIsKept`, `Converges` for one collection in two lives |
| `collection_foreign` | `CollectionForeign.cfg` | `KeptSetsSurvive` fails with two collections in a namespace |

### Bounds

* Pollers: two GlideinSets and two URLs give sharing, a move between two pollers,
  and a handler in two pollers at once. Two structs at a time suffice for one
  poller being stopped while another is made (a restart frees both). Two
  attempts tell the last one from the others; the code has 15. Liveness uses one
  URL, no restarts and one attempt: two GlideinSets that share one poller, and a
  second poller for the same URL after the first was stopped.
* GlideinSet: `set_life` has one life, one of the two token Secrets, one spec edit, three
  commits of which the second has no entry for the namespace, and one fault. Two writers with one change each are
  enough for a lost update, three commits for a working copy that is two ahead of the object, and for a
  pull between two files. `set_recreate` has two lives and both token Secrets: what is left of a predecessor is all that
  another life would add.
* Tokens: one GlideinSet with one client struct (a restart frees it) and one rotation of the upstream
  secret, so that an old copy of either Secret is old by a write of each of the three writers. Lives of the
  GlideinSet and restarts are not bounded.
* Collection: one collection, one set name, two lives, one fault or crash, one collector
  resource (the Secret with the key) and one of Prometheus; two keys. With an
  edit the set is taken out or put in; the stale list, the ignored error and a set that is
  wanted again while it terminates all happen. `MaxChanges` bounds creations and edits
  together: three are two lives and an edit, or one life in which a set is taken out and is put back, which may happen before the
  worker deletes what its old list has. The run for the selector has two collections and no faults.
* Deadlock is checked, except where edits, commits and faults are bounded and users owe
  nothing (`GlideinSetController`, `GlideinSetCollection`): with the object gone and
  everything idle nothing is left to do.

### Fairness

* Goroutines that can run do run (weak fairness for each of them and for
  the worker), API calls return, tickers fire, caches catch up, garbage is collected.
* A sender that is blocked on `doneChan` meets its receiver in the end (strong
  fairness): the loop's `select` may find its ticker ready as well, and Go
  chooses among ready cases at random. A stopped ticker leaves at most one
  tick, so this is weaker than what really happens.
* Users, pods and Glidein Managers owe nothing; properties that need them say
  so (`<>[](phase = "live" /\ podRunning)`), as does the one that needs the operator to
  stay at some time (`<>[][~Restart]_vars`).
* `Resync` is fair where it is enabled: the informers of controller-runtime
  resync about every ten hours.
* In `GlideinSetCollection`: the worker, the caches, the garbage collector with the GlideinSet
  controller's finalizer, and the resync, each weakly. That controller's `ProtectSet` owes nothing.

## 4. Findings

1. **Handlers left behind by an edit of the URL** (`pollers_url_change`, GC:268-276). If
   no poller exists for the new URL, the handler also stays in the old poller
   (only the other branch, GC:252-256, removes it); removal breaks after the first
   poller. The handler that is left keeps a poller alive for an object that is gone.
2. **A poller that starts after it was stopped** (`pollers_stop_race`, GC:94-103 and
   244-249). During the first handshake there is nothing to stop, and nothing
   tells the goroutine not to start.
3. **A handshake that fails for good** (`pollers_handshake`, GC:245-248) leaves a
   registered poller without goroutines, which no reconcile starts again.
4. **No working copy, no watcher** (`set_restart`, `pilotset_schemas.go:72-75`). The
   bare `return` returns the `ErrNotExist` that the comment calls nothing to do. The
   watcher that would clone the repository is registered after this step, and the
   manager's `/tmp` is no volume.
5. **`cluster.tkn` and `collector.tkn`** (`tokens_populated`). The populated check
   looks for a key nobody writes; tokens are generated every minute.

6. **One collection deletes the GlideinSets of another** (`collection_foreign`,
   `glideinsetcollection_controller.go:313-318`). `HasLabels` gets `key=value` where
   it takes keys; the client drops the requirement, and the list has all GlideinSets of the namespace.

A remark on (5): because of it the token loop writes the `-tokens` Secret every minute, and
if it runs in step with the poller, each may refuse the other's write again and again
(the TODO at `glideinset_controller.go:183`). Weak or strong fairness does not
exclude that, so only the arrival of the collector's tokens is a property, not that
of the upstream secret.

A remark on resync: without it `Converges` fails over two lives. The worker sees in
its cache a token Secret of the predecessor, takes it for its own, and the garbage
collector removes it afterwards; no event brings the worker back. `set_recreate`
therefore has `ResyncOn = TRUE`, and the gap can last as long as the resync period.
The same goes for `collection`: an ignored error of `List`, a list that does not have the
latest GlideinSet yet, and a GlideinSet that is wanted again while it terminates are mended by
the next reconcile, and no event of theirs brings it about.

## 5. Proofs

`GlideinManagerPollersProofs` proves for all sets of GlideinSets, URLs and
pollers and any `Retries > 0`, from `RetriesAssumption`, `NoneAssumption`,
`DeletingAssumption` and `SwitchAssumption`:

* `TypeCorrect`: `Spec => []TypeOK`;
* `Inductive`: `Spec => []IInv`;
* `MapHoldsWatched`, `WatchIsKept`, `StopIsHeard`: the safety invariants of
  `pollers_safety`;
* `WatchListImplemented` (in `WatchListProofs`): `Spec => ImplementsWatchList`, the refinement;
* `RemovedLeavesNoHandler` (in `RemovalProofs`): `Spec => []RemovedIsUnwatched`, from the assumption
  `~UrlMayChange`, without which the run `pollers_url_change` refutes it.

`IInv` strengthens the invariants in two groups. `MapInv` says how the map and the
handlers agree: a poller is registered only under its own URL, it is registered
exactly while it has handlers, and an add that first removes the old handler still has its target
in the map when it comes to set the new one. (The target differs from the poller that loses the
handler, since it has none for this GlideinSet.) `PollingInv` says what `stopPolling`
relies on: the ticker and its loop come into being together; a loop that has
received belongs to a poller that left the map and is not being stopped again;
the poller being stopped is retired, and the worker sends only after the polling had
started. `StopHasReceiver` follows: a retired poller is stopped once, so its data loop
has not received before. It is not inductive alone, since the decision to send and the
start of the loop lie several steps apart, in two goroutines.

The proofs take type correctness first (one lemma per group of actions), then the
two groups, one lemma per group of actions again.

The refinement works with `Entry(h, v)`, that the poller of URL `v` has a handler of `h`. Two
lemmas turn "exactly this entry is new" and "exactly this entry is gone" into steps of
`WatchList`, and each action that writes the map or the handlers is shown to be one of the two. This
rests on `IInv`: pollers of different URLs are different (`MapConsistent`), and the target of
an add is still in the map under the URL of the reconcile (`TargetRegistered`).

The third proof goes on from there and argues about the list alone (`RemovalInv`). A removal takes
only the first handler that it finds, so there must not be a second one: a GlideinSet has one entry
at most, the entry of its own URL (`OneEntry`, `EntriesAreCurrent`). An add in flight read that
URL, and the object does not go while the worker has it (`AddsCurrentUrl`, `WorkerHasObject`), so
the handler which the add sets in the end is the only one again.

`CollectorTokensProofs` proves for any number of client structs and versions, from
`BoundsAssumption`, `ClientAssumption` and `DstAssumption`:

* `NoUpdateIsLost`: `Spec => NoLostUpdate`, the promise of the three writers;
* `LoopsEnd`, `DataIsNeverEmpty`, `TokensTypeCorrect`: the safety invariants of the run `tokens`.

Its `IInv` adds three parts. `CopyInv`: a holder whose copy counts as up to date really has the
stored object, so an `Update` that is accepted computes its value from what it overwrites; that
is why the writers lose nothing without a lock. `VersionInv`: the version that the poller is
about to write was fetched no earlier than the stored one, since the poller alone writes versions
and fetches anew for every write; that is why the label never goes back. `WorkerInv`: the worker
is busy only while the object is there, and takes the client out of the map only when its loop has
returned, which carries `LoopOnlyWhileRegistered` through the several steps of the finalizer.
Two lemmas, for a step that writes a Secret (`ChangeIInv`) and for one that does not
(`SameApiInv`), do the common part; `NoUpdateIsLost` then looks at the few steps that write.

`GlideinSetControllerProofs` proves for any number of lives, edits, commits and faults, from
`BoundsAssumption`, `SecretsAssumption` and `NoneIsNoChild`:

* `TypeCorrect`, `Protected`, `DataFollows`: the invariants `TypeOK`, `FinalizerProtects`, `DataNotOlder`;
* `OrphansAreNotMade`, `ForwardOnly`: the action properties `NoOrphans`, `NeverGoesBack`;
* `Refinement`: `Spec => ImplementsLife`.

The object exists in many versions at once: stored, on its way in `watch`, cached, and in the
copies of worker and data loop. `Precedes(o, n)` says that `n` is `o` or a later version, and what
cannot have happened in between: within one life nothing goes back, and a version with the
finalizer is not followed by one with the finalizer of another life, since the finalizer of the next life
is added by a reconcile that has seen the end of the first. `VersionInv` orders all versions by it.
The rest of `IInv` follows the copies. While the worker makes children, the stored object has its finalizer and
is the one in its copy (`CreatingInv`), because only the same worker could take the finalizer away;
so an old copy does no harm, and `NoOrphans` holds. The commit of every version came
out of the working copy (`PollInv`), so the files that a reconcile reads are not older than
the object. The Deployment is not ahead of any version that a later reconcile may still see (`DeploymentInv`),
which is why it never goes back although each reconcile works from the cache.

`GlideinSetCollectionProofs` proves for any collections, names, parts, keys, lives, edits and
faults, from `BoundsAssumption`, `PartsAssumption`, `KeysAssumption` and `NoneIsNoSet`:

* `TypeCorrect`, `OrphansAreNotMade`, `KeyStays`: `TypeOK`, `NoOrphans`, `KeyIsKept`;
* `WantedSetsStay`: `KeptSetsSurvive` in a namespace with one collection. That hypothesis cannot be
  dropped: the run `collection_foreign` refutes the property with two.

`IInv` is smaller here, since the cached version is the only one under way, and the worker the only holder of a copy:
`Older` and `Kept` relate the cached collection to the stored one, and `WorkerInv` says that a
reconcile that makes children holds the finalizer of the collection that lives now, so that it cannot be
replaced under the worker. `SetInv` (no GlideinSet is of a later life than its collection) makes
the record of a new life owe nothing to GlideinSets of an old one. Two lemmas say what a step
can do to the children (`PartsStep`, `SetsStep`); the action properties follow from them. For
`WantedSetsStay` a second invariant, `KeptInv`, follows the spec through its versions: what an old one wants and a
later one does not is in `dropped`, and a GlideinSet that no edit has removed is in the spec of
every version that somebody may act on. So it is not in the list of outdated ones, even
when the copy of the spec is older than the list, or the list older than the copy. TLC checked both invariants on
the instance of `collection` before they were proved.

Liveness is checked by TLC only, since fairness and ENABLED are beyond the prover: `RemovedIsUnwatched` has its
proof, but `StopReturns`, `PollsWhileRegistered`, `Converges`, `DeletionCompletes`, `CollectorTokensArrive` and
`ProgressesLikeLife` have none.

## 6. Not modelled, and why

* The data race on the Go maps beyond its fatal error; a string shorter than 63 characters
  as a version; two operator processes at once; other numbers of collector pods than one or none, and a call
  to the pod that never returns; the arrival of the upstream secret (section 4). They are in the
  hazards of `PROJECT.json` with a note.
* A `Dst` that ends in `/` or names `sample.cfg` (the models compare keys, not paths).
* Contents of Deployment, ConfigMap and data files; YAML decoding. A resource has in the models
  the newest value that a template put into it. That decoding merges, so that fields of older
  templates and files deleted from Git stay, is left out.
* Collisions of names of different kinds of children (the models have one kind at a time).
* Authentication and transport of gmos-client, git itself.
* The API types and their generated copies, flags and wiring in `cmd/main.go`, manifests:
  no behaviour.

## 7. Plan

Done, in this order: pollers and their proofs, GlideinSet controller, token Secrets, collection
controller, the two abstract specifications, the proof of the first refinement, the proofs about
the token Secrets, about the GlideinSet controller with the second refinement, and about the
collections. Left:

1. Proofs: what `Converges` needs of safety, for every size (for example that a reconcile that ends without an
   error leaves the children of the copy it had); for several collections, that
   a GlideinSet which its spec keeps is only ever deleted by the reconcile of another collection.
2. The merge of a template into an existing object, element by element: what a new template omits stays.
3. Names as sequences of parts: which parents and parts collide (a GlideinSet "collector", for
   example, gives its Deployment the name of the collector's).
