------------------------ MODULE CollectorTokensProofs ------------------------
(***************************************************************************)
(* Proofs about CollectorTokens, for any number of client structs and of   *)
(* versions of the upstream secret.  The inductive invariant is IInv:      *)
(* it says which copies of a Secret are the stored version, who may still  *)
(* run while the worker is in its finalizer, and that the version which    *)
(* the poller is about to write is not older than the stored one.          *)
(***************************************************************************)
EXTENDS CollectorTokens, TLAPS

(* The worker is busy only for a GlideinSet that is there, and removes the *)
(* client only when its loop has returned.                                 *)
WorkerInv ==
    /\ worker # "idle" => phase # "gone"
    /\ worker = "unregister" => loop[client].pc = "none"

(* Who has a Secret up to date has a copy that equals the stored object.   *)
CopyInv ==
    /\ \A s \in Secrets : s \in upToDate["cache"] => cached[s] = secret[s]
    /\ \A c \in Clients :
          loop[c].pc = "put" /\ loop[c].sec \in upToDate[c]
              => loop[c].copy = secret[loop[c].sec]
    /\ poll.pc = "put" /\ "tokens" \in upToDate["poller"] => poll.copy = secret["tokens"]

(* The stored version of the upstream secret is not newer than the one     *)
(* that the poller has fetched, and that one not newer than upstream.      *)
VersionInv ==
    /\ poll.version <= upstream
    /\ secret["tokens"] # None =>
          /\ secret["tokens"].version <= upstream
          /\ poll.pc # "idle" => secret["tokens"].version <= poll.version

IInv ==
    /\ TypeOK
    /\ LoopOnlyWhileRegistered /\ WorkerInv
    /\ DataNeverEmpty
    /\ CopyInv
    /\ VersionInv

-----------------------------------------------------------------------------
(* Writes to a Secret *)

ApiTypeOK ==
    /\ secret \in [Secrets -> SecretObject \cup {None}]
    /\ cached \in [Secrets -> SecretObject \cup {None}]
    /\ upToDate \in [Holders -> SUBSET Secrets]

LEMMA HolderFacts ==
  /\ "cache" \in Holders /\ "poller" \in Holders /\ Clients \subseteq Holders
  /\ "cache" \notin Clients /\ "poller" \notin Clients
  BY ClientAssumption DEF Holders

(* A stored write makes all copies of the Secret old.  What has to be said *)
(* of it is that there is data in it, and that it is no older than what    *)
(* the poller is about to write.                                           *)
LEMMA ChangeIInv ==
  ASSUME IInv, NEW s \in Secrets, NEW value \in SecretObject \cup {None},
         Change(s, value),
         value # None => value.keys # {},
         s = "tokens" /\ value # None =>
            /\ value.version <= upstream
            /\ poll'.pc # "idle" => value.version <= poll.version,
         \A c \in Clients : loop'[c] = loop[c] \/ loop'[c].pc # "put",
         poll' = poll \/ poll' = IdlePoll,
         upstream' = upstream
  PROVE  ApiTypeOK' /\ DataNeverEmpty' /\ CopyInv' /\ VersionInv'
<1> USE HolderFacts DEF IInv
<1>1. /\ secret' = [secret EXCEPT ![s] = value] /\ cached' = cached
      /\ upToDate' = [h \in Holders |-> upToDate[h] \ {s}]
  BY DEF Change
<1>2. ApiTypeOK'
  BY <1>1 DEF ApiTypeOK, TypeOK
<1>3. \A t \in Secrets : secret'[t] = IF t = s THEN value ELSE secret[t]
  BY <1>1 DEF TypeOK
<1>4. \A h \in Holders, t \in Secrets : t \in upToDate'[h] <=> t \in upToDate[h] /\ t # s
  BY <1>1
<1>5. DataNeverEmpty'
  BY <1>1, <1>3 DEF DataNeverEmpty
<1>6. CopyInv'
  <2>1. \A t \in Secrets : t \in upToDate'["cache"] => cached'[t] = secret'[t]
    BY <1>1, <1>3, <1>4 DEF CopyInv
  <2>2. ASSUME NEW c \in Clients, loop'[c].pc = "put", loop'[c].sec \in upToDate'[c]
        PROVE  loop'[c].copy = secret'[loop'[c].sec]
    <3>1. loop'[c] = loop[c] /\ loop[c].sec \in Secrets
      BY <2>2 DEF TypeOK
    <3>2. loop[c].sec \in upToDate[c] /\ loop[c].sec # s
      BY <1>4, <2>2, <3>1
    <3>3. QED
      BY <1>3, <2>2, <3>1, <3>2 DEF CopyInv
  <2>3. poll'.pc = "put" /\ "tokens" \in upToDate'["poller"] => poll'.copy = secret'["tokens"]
    BY <1>3, <1>4 DEF CopyInv, IdlePoll, Secrets
  <2>4. QED
    BY <2>1, <2>2, <2>3 DEF CopyInv
<1>7. VersionInv'
  <2>1. poll'.version <= upstream'
    BY DEF VersionInv, IdlePoll, TypeOK, Version
  <2>2. "tokens" \in Secrets
    BY DEF Secrets
  <2>3. QED
    BY <1>3, <2>1, <2>2 DEF VersionInv, IdlePoll
<1>8. QED
  BY <1>2, <1>5, <1>6, <1>7

(* A step without a write that leaves the copies in use alone. *)
LEMMA SameApiInv ==
  ASSUME IInv, UNCHANGED apiVars,
         \A c \in Clients : loop'[c] = loop[c] \/ loop'[c].pc # "put",
         poll' = poll, upstream' \in {upstream, upstream + 1}
  PROVE  ApiTypeOK' /\ DataNeverEmpty' /\ CopyInv' /\ VersionInv'
<1> USE DEF IInv, apiVars
<1>1. ApiTypeOK' /\ DataNeverEmpty'
  BY DEF ApiTypeOK, TypeOK, DataNeverEmpty
<1>2. CopyInv'
  BY DEF CopyInv
<1>3. VersionInv'
  <2>1. upstream \in Nat /\ poll.version \in Nat
    BY BoundsAssumption DEF TypeOK, Version
  <2>2. secret["tokens"] # None => secret["tokens"].version \in Nat
    BY DEF TypeOK, SecretObject, Version, Secrets
  <2>3. QED
    BY <2>1, <2>2 DEF VersionInv
<1>4. QED
  BY <1>1, <1>2, <1>3

-----------------------------------------------------------------------------
(* The inductive invariant *)

LEMMA InitIInv == Init => IInv
<1> SUFFICES ASSUME Init PROVE IInv
  OBVIOUS
<1> USE HolderFacts, BoundsAssumption DEF Init
<1>1. TypeOK
  <2>1. ApiTypeOK
    BY DEF ApiTypeOK
  <2>2. upstream \in Version
    BY DEF Version
  <2>3. loop \in [Clients -> [pc : LoopState, sec : Secrets, copy : SecretObject \cup {None}]]
    BY DEF NoLoop, LoopState, Secrets
  <2>4. poll \in [pc : {"idle", "get", "put"}, copy : SecretObject \cup {None},
                  version : Version]
    BY DEF IdlePoll, Version
  <2>5. QED
    BY <2>1, <2>2, <2>3, <2>4 DEF TypeOK, ApiTypeOK
<1>2. LoopOnlyWhileRegistered /\ WorkerInv /\ DataNeverEmpty
  BY DEF LoopOnlyWhileRegistered, WorkerInv, DataNeverEmpty, NoLoop
<1>3. CopyInv /\ VersionInv
  BY DEF CopyInv, VersionInv, NoLoop, IdlePoll, Secrets
<1>4. QED
  BY <1>1, <1>2, <1>3 DEF IInv

LEMMA EnvironmentIInv ==
  ASSUME IInv, Environment
  PROVE  IInv'
<1> USE HolderFacts, BoundsAssumption DEF IInv
<1>1. CASE CreateGlideinSet \/ DeleteGlideinSet \/ PodStartsOrStops \/ RotateSecret
  <2>1. MaxVersion \in Nat /\ upstream \in Version
    BY DEF TypeOK
  <2>2. UNCHANGED <<apiVars, orphaned, clientVars, watched, poll, worker>>
    BY <1>1 DEF CreateGlideinSet, DeleteGlideinSet, PodStartsOrStops, RotateSecret
  <2>3. upstream' = upstream \/ (upstream < MaxVersion /\ upstream' = upstream + 1)
    BY <1>1 DEF CreateGlideinSet, DeleteGlideinSet, PodStartsOrStops, RotateSecret
  <2>4. podRunning' = podRunning \/ podRunning' = ~podRunning
    BY <1>1 DEF CreateGlideinSet, DeleteGlideinSet, PodStartsOrStops, RotateSecret
  <2>5. phase' = phase \/ phase' \in {"live", "deleting"}
    BY <1>1 DEF CreateGlideinSet, DeleteGlideinSet, PodStartsOrStops, RotateSecret
  <2>6. /\ UNCHANGED <<apiVars, orphaned, clientVars, watched, poll, worker>>
        /\ upstream' \in {upstream, upstream + 1} /\ upstream' \in Version
        /\ podRunning' \in BOOLEAN
        /\ phase' \in {"live", "deleting", "gone"}
        /\ phase' = phase \/ phase' # "gone"
    <3>1. upstream' \in Version
      BY <2>1, <2>3 DEF Version
    <3>2. podRunning' \in BOOLEAN
      BY <2>4 DEF TypeOK
    <3>3. QED
      BY <2>2, <2>3, <2>5, <3>1, <3>2 DEF TypeOK
  <2>7. TypeOK'
    BY <2>6 DEF TypeOK, apiVars, clientVars
  <2>8. LoopOnlyWhileRegistered' /\ WorkerInv'
    BY <2>6 DEF LoopOnlyWhileRegistered, WorkerInv, clientVars
  <2>9. QED
    BY <2>6, <2>7, <2>8, SameApiInv DEF clientVars
<1>2. ASSUME NEW s \in Secrets, CollectGarbage(s)
      PROVE  IInv'
  <2>1. /\ Change(s, None) /\ orphaned' = orphaned \ {s}
        /\ UNCHANGED <<phase, podRunning, upstream, clientVars, watched, poll, worker>>
    BY <1>2 DEF CollectGarbage
  <2>2. ApiTypeOK' /\ DataNeverEmpty' /\ CopyInv' /\ VersionInv'
    BY <2>1, ChangeIInv DEF clientVars
  <2>3. TypeOK'
    BY <2>1, <2>2 DEF TypeOK, ApiTypeOK, clientVars
  <2>4. LoopOnlyWhileRegistered' /\ WorkerInv'
    BY <2>1 DEF LoopOnlyWhileRegistered, WorkerInv, clientVars
  <2>5. QED
    BY <2>2, <2>3, <2>4
<1>3. CASE Restart
  <2>1. TypeOK'
    <3>1. ApiTypeOK'
      BY <1>3 DEF Restart, ApiTypeOK, TypeOK
    <3>2. loop' \in [Clients -> [pc : LoopState, sec : Secrets,
                                copy : SecretObject \cup {None}]]
      BY <1>3 DEF Restart, NoLoop, LoopState, Secrets
    <3>3. poll' \in [pc : {"idle", "get", "put"}, copy : SecretObject \cup {None},
                     version : Version]
      BY <1>3 DEF Restart, IdlePoll, Version
    <3>4. QED
      BY <1>3, <3>1, <3>2, <3>3 DEF Restart, TypeOK, ApiTypeOK
  <2>2. LoopOnlyWhileRegistered' /\ WorkerInv' /\ DataNeverEmpty'
    BY <1>3 DEF Restart, LoopOnlyWhileRegistered, WorkerInv, DataNeverEmpty, NoLoop
  <2>3. CopyInv'
    BY <1>3 DEF Restart, CopyInv, NoLoop, IdlePoll
  <2>4. VersionInv'
    BY <1>3 DEF Restart, VersionInv, IdlePoll, TypeOK, Version
  <2>5. QED
    BY <2>1, <2>2, <2>3, <2>4
<1>4. QED
  BY <1>1, <1>2, <1>3 DEF Environment

(* An event brings the cached copy up to date. *)
LEMMA DeliverIInv ==
  ASSUME IInv, NEW s \in Secrets, Deliver(s)
  PROVE  IInv'
<1> USE HolderFacts DEF IInv, Deliver, outVars, clientVars
<1>1. TypeOK'
  BY DEF TypeOK
<1>2. LoopOnlyWhileRegistered' /\ WorkerInv' /\ VersionInv'
  BY DEF LoopOnlyWhileRegistered, WorkerInv, VersionInv
<1>3. DataNeverEmpty'
  BY DEF DataNeverEmpty, TypeOK
<1>4. CopyInv'
  BY DEF CopyInv, TypeOK
<1>5. QED
  BY <1>1, <1>2, <1>3, <1>4

LEMMA WorkerIInv ==
  ASSUME IInv, Reconcile \/ Busy \/ LoopReceives
  PROVE  IInv'
<1> USE HolderFacts, ClientAssumption DEF IInv
<1>1. ASSUME NEW s \in Secrets, CreateSecret(s)
      PROVE  IInv'
  <2>1. /\ UNCHANGED <<outVars, clientVars, watched, poll>>
        /\ worker = s /\ worker' \in {"idle", "tokens", "add"}
        /\ Change(s, EmptySecretCreator) \/ UNCHANGED apiVars
    BY <1>1 DEF CreateSecret
  <2>2. ApiTypeOK' /\ DataNeverEmpty' /\ CopyInv' /\ VersionInv'
    <3>1. CASE Change(s, EmptySecretCreator)
      <4>1. /\ EmptySecretCreator \in SecretObject
            /\ EmptySecretCreator.keys # {} /\ EmptySecretCreator.version = 0
        BY BoundsAssumption DEF EmptySecretCreator, SecretObject, Keys, Version
      <4>2. 0 <= upstream /\ 0 <= poll.version
        BY BoundsAssumption DEF TypeOK, Version
      <4>3. QED
        BY <2>1, <3>1, <4>1, <4>2, ChangeIInv DEF outVars, clientVars
    <3>2. CASE UNCHANGED apiVars
      BY <2>1, <3>2, SameApiInv DEF outVars, clientVars
    <3>3. QED
      BY <2>1, <3>1, <3>2
  <2>3. TypeOK'
    BY <2>1, <2>2 DEF TypeOK, ApiTypeOK, outVars, clientVars
  <2>4. LoopOnlyWhileRegistered' /\ WorkerInv'
    BY <2>1 DEF LoopOnlyWhileRegistered, WorkerInv, outVars, clientVars, Secrets
  <2>5. QED
    BY <2>2, <2>3, <2>4
<1>2. ASSUME UNCHANGED <<apiVars, podRunning, upstream, poll>>,
             TypeOK', LoopOnlyWhileRegistered', WorkerInv',
             \A c \in Clients : loop'[c] = loop[c] \/ loop'[c].pc # "put"
      PROVE  IInv'
  BY <1>2, SameApiInv
<1>3. CASE Reconcile
  <2>1. TypeOK' /\ LoopOnlyWhileRegistered' /\ WorkerInv'
    BY <1>3 DEF Reconcile, TypeOK, LoopOnlyWhileRegistered, WorkerInv, apiVars, outVars,
                clientVars
  <2>2. QED
    BY <1>2, <1>3, <2>1 DEF Reconcile, outVars, clientVars
<1>4. CASE AddCollectorClient
  <2>1. CASE UNCHANGED clientVars
    <3>1. TypeOK' /\ LoopOnlyWhileRegistered' /\ WorkerInv'
      BY <1>4, <2>1 DEF AddCollectorClient, TypeOK, LoopOnlyWhileRegistered, WorkerInv,
                        apiVars, outVars, clientVars
    <3>2. QED
      BY <1>2, <1>4, <2>1, <3>1 DEF AddCollectorClient, outVars, clientVars
  <2>2. ASSUME NEW c \in Clients, client = None, client' = c,
               loop' = [loop EXCEPT ![c] = Waiting], ticking' = ticking \cup {c}
        PROVE  IInv'
    <3>1. Waiting = [pc |-> "waiting", sec |-> "collectorTokens", copy |-> None]
      BY DEF Waiting, NoLoop
    <3>2. \A d \in Clients : loop'[d] = IF d = c THEN Waiting ELSE loop[d]
      BY <2>2 DEF TypeOK
    <3>3. TypeOK'
      BY <1>4, <2>2, <3>1 DEF AddCollectorClient, TypeOK, apiVars, outVars, LoopState, Secrets
    <3>4. LoopOnlyWhileRegistered' /\ WorkerInv'
      BY <1>4, <2>2, <3>2 DEF AddCollectorClient, LoopOnlyWhileRegistered, WorkerInv, outVars
    <3>5. QED
      BY <1>2, <1>4, <3>1, <3>2, <3>3, <3>4 DEF AddCollectorClient, outVars
  <2>3. QED
    BY <1>4, <2>1, <2>2 DEF AddCollectorClient
<1>5. CASE RemoveCollectorClient
  <2>1. TypeOK'
    BY <1>5 DEF RemoveCollectorClient, Leave, TypeOK, apiVars
  <2>2. LoopOnlyWhileRegistered' /\ WorkerInv'
    BY <1>5 DEF RemoveCollectorClient, Leave, LoopOnlyWhileRegistered, WorkerInv
  <2>3. QED
    BY <1>2, <1>5, <2>1, <2>2 DEF RemoveCollectorClient
<1>6. CASE LoopReceives
  <2>1. client \in Clients /\ worker # "idle"
    BY <1>6 DEF LoopReceives, TypeOK
  <2>2. \A d \in Clients : loop'[d] = IF d = client THEN NoLoop ELSE loop[d]
    BY <1>6, <2>1 DEF LoopReceives, TypeOK
  <2>3. TypeOK'
    BY <1>6, <2>1 DEF LoopReceives, TypeOK, apiVars, outVars, NoLoop, LoopState, Secrets
  <2>4. LoopOnlyWhileRegistered' /\ WorkerInv'
    BY <1>6, <2>1, <2>2 DEF LoopReceives, LoopOnlyWhileRegistered, WorkerInv, outVars, NoLoop
  <2>5. QED
    BY <1>2, <1>6, <2>2, <2>3, <2>4 DEF LoopReceives, outVars, NoLoop
<1>7. CASE Unregister
  <2>1. TypeOK'
    BY <1>7 DEF Unregister, Leave, TypeOK, apiVars
  <2>2. LoopOnlyWhileRegistered' /\ WorkerInv'
    BY <1>7 DEF Unregister, Leave, LoopOnlyWhileRegistered, WorkerInv
  <2>3. QED
    BY <1>2, <1>7, <2>1, <2>2 DEF Unregister
<1>8. QED
  BY <1>1, <1>3, <1>4, <1>5, <1>6, <1>7 DEF Busy

(* The copy that a loop takes is as up to date as the cache; what it       *)
(* writes keeps the version of its copy.                                   *)
LEMMA LoopIInv ==
  ASSUME IInv, NEW c \in Clients, LoopStep(c)
  PROVE  IInv'
<1> USE HolderFacts DEF IInv
<1>1. loop[c].sec \in Secrets /\ loop[c].copy \in SecretObject \cup {None}
  BY DEF TypeOK
<1>2. /\ Waiting = [pc |-> "waiting", sec |-> "collectorTokens", copy |-> None]
      /\ Attempted(c) \in [pc : {"get", "waiting"}, sec : Secrets, copy : {None}]
  BY DEF Waiting, NoLoop, Attempted, Secrets
<1>3. loop[c].pc # "none" /\ UNCHANGED looping
  BY DEF LoopStep, Tick, CheckTokens, CreateTokens, GetSecret, PutTokens
<1>4. ASSUME NEW v \in [pc : LoopState, sec : Secrets, copy : SecretObject \cup {None}],
             loop' = [loop EXCEPT ![c] = v], ApiTypeOK'
      PROVE  TypeOK' /\ LoopOnlyWhileRegistered' /\ WorkerInv'
  <2>1. TypeOK'
    BY <1>3, <1>4 DEF TypeOK, ApiTypeOK, looping, outVars
  <2>2. \A d \in Clients : d # c => loop'[d] = loop[d]
    BY <1>4 DEF TypeOK
  <2>3. LoopOnlyWhileRegistered'
    BY <1>3, <2>2 DEF LoopOnlyWhileRegistered, looping, outVars
  <2>4. WorkerInv'
    BY <1>3, <2>2 DEF LoopOnlyWhileRegistered, WorkerInv, TypeOK, looping, outVars
  <2>5. QED
    BY <2>1, <2>3, <2>4
<1>5. CASE Tick(c) \/ CheckTokens(c) \/ CreateTokens(c)
  <2>1. PICK v \in [pc : LoopState \ {"put"}, sec : Secrets, copy : SecretObject \cup {None}] :
           loop' = [loop EXCEPT ![c] = v]
    <3>1. CASE Tick(c)
      BY <1>1, <3>1 DEF Tick, TypeOK, LoopState
    <3>2. CASE CheckTokens(c)
      <4>1. loop' = [loop EXCEPT ![c] = [@ EXCEPT !.pc = "exec"]]
            \/ loop' = [loop EXCEPT ![c] = Waiting]
        BY <3>2 DEF CheckTokens
      <4>2. QED
        BY <1>1, <1>2, <4>1 DEF TypeOK, LoopState, Secrets
    <3>3. CASE CreateTokens(c)
      BY <1>1, <1>2, <3>3 DEF CreateTokens, TypeOK, LoopState, Secrets
    <3>4. QED
      BY <1>5, <3>1, <3>2, <3>3
  <2>2. UNCHANGED apiVars
    BY <1>5 DEF Tick, CheckTokens, CreateTokens
  <2>3. \A d \in Clients : loop'[d] = loop[d] \/ loop'[d].pc # "put"
    BY <2>1 DEF TypeOK
  <2>4. ApiTypeOK' /\ DataNeverEmpty' /\ CopyInv' /\ VersionInv'
    BY <1>3, <2>2, <2>3, SameApiInv DEF looping, outVars
  <2>5. QED
    BY <1>4, <2>1, <2>4
<1>6. CASE GetSecret(c)
  <2> DEFINE s == loop[c].sec
             v == IF cached[s] = None THEN Attempted(c)
                  ELSE [loop[c] EXCEPT !.pc = "put", !.copy = cached[s]]
  <2>1. /\ loop' = [loop EXCEPT ![c] = v]
        /\ UNCHANGED <<secret, cached>>
        /\ upToDate' = [upToDate EXCEPT ![c] = (@ \ {s}) \cup (upToDate["cache"] \cap {s})]
    BY <1>6 DEF GetSecret, Copied
  <2>2. cached[s] \in SecretObject \cup {None}
    BY <1>1 DEF TypeOK
  <2>3. v \in [pc : LoopState, sec : Secrets, copy : SecretObject \cup {None}]
    BY <1>1, <1>2, <2>2 DEF LoopState, TypeOK
  <2>4. ApiTypeOK' /\ DataNeverEmpty'
    BY <2>1, <1>1 DEF ApiTypeOK, TypeOK, DataNeverEmpty
  <2>5. VersionInv'
    BY <1>3, <2>1 DEF VersionInv, looping, outVars
  <2>6. CopyInv'
    <3>1. \A h \in Holders : h # c => upToDate'[h] = upToDate[h]
      BY <2>1 DEF TypeOK
    <3>2. \A d \in Clients : d # c => loop'[d] = loop[d]
      BY <2>1 DEF TypeOK
    <3>3. loop'[c] = v /\ (s \in upToDate'[c] => s \in upToDate["cache"])
      BY <2>1 DEF TypeOK
    <3>4. v.pc = "put" => v.sec = s /\ v.copy = cached[s]
      BY <1>1, <1>2 DEF TypeOK
    <3>5. ASSUME NEW d \in Clients, loop'[d].pc = "put", loop'[d].sec \in upToDate'[d]
          PROVE  loop'[d].copy = secret'[loop'[d].sec]
      <4>1. CASE d = c
        <5>1. v.pc = "put" /\ v.sec \in upToDate'[c]
          BY <3>3, <3>5, <4>1
        <5>2. v.sec = s /\ v.copy = cached[s] /\ s \in upToDate["cache"]
          BY <3>3, <3>4, <5>1
        <5>3. cached[s] = secret[s]
          BY <1>1, <5>2 DEF CopyInv
        <5>4. QED
          BY <2>1, <3>3, <4>1, <5>2, <5>3
      <4>2. CASE d # c
        BY <2>1, <3>1, <3>2, <3>5, <4>2 DEF CopyInv
      <4>3. QED
        BY <4>1, <4>2
    <3>6. QED
      BY <1>3, <2>1, <3>1, <3>5 DEF CopyInv, looping
  <2>7. QED
    BY <1>4, <2>1, <2>3, <2>4, <2>5, <2>6
<1>7. CASE PutTokens(c)
  <2> DEFINE s == loop[c].sec
             value == CollectorTokenSecretUpdater(loop[c].copy)
  <2>1. loop' = [loop EXCEPT ![c] = Attempted(c)] /\ loop[c].pc = "put"
    BY <1>7 DEF PutTokens
  <2>2. \A d \in Clients : loop'[d] = loop[d] \/ loop'[d].pc # "put"
    BY <1>2, <2>1 DEF TypeOK
  <2>3. ApiTypeOK' /\ DataNeverEmpty' /\ CopyInv' /\ VersionInv'
    <3>1. CASE secret[s] # None /\ s \in upToDate[c]
      <4>1. Change(s, value)
        BY <1>7, <3>1 DEF PutTokens, Update
      <4>2. loop[c].copy = secret[s] /\ loop[c].copy \in SecretObject
        BY <1>1, <2>1, <3>1 DEF CopyInv
      <4>3. /\ value \in SecretObject /\ value.keys # {}
            /\ value.version = secret[s].version
        BY <4>2 DEF CollectorTokenSecretUpdater, SecretObject, Keys
      <4>4. s = "tokens" => /\ value.version <= upstream
                            /\ poll'.pc # "idle" => value.version <= poll.version
        BY <1>3, <3>1, <4>3 DEF VersionInv, looping
      <4>5. QED
        BY <1>1, <1>3, <2>2, <4>1, <4>3, <4>4, ChangeIInv DEF looping, outVars
    <3>2. CASE ~(secret[s] # None /\ s \in upToDate[c])
      <4>1. UNCHANGED apiVars
        BY <1>7, <3>2 DEF PutTokens, Update
      <4>2. QED
        BY <1>3, <2>2, <4>1, SameApiInv DEF looping, outVars
    <3>3. QED
      BY <3>1, <3>2
  <2>4. Attempted(c) \in [pc : LoopState, sec : Secrets, copy : SecretObject \cup {None}]
    BY <1>2 DEF LoopState
  <2>5. QED
    BY <1>4, <2>1, <2>3, <2>4
<1>8. QED
  BY <1>5, <1>6, <1>7 DEF LoopStep

(* The poller fetches the newest version before it reads the Secret. *)
LEMMA PollIInv ==
  ASSUME IInv, Poll
  PROVE  IInv'
<1> USE HolderFacts DEF IInv
<1>1. /\ UNCHANGED <<outVars, clientVars, watched, worker>>
      /\ "tokens" \in Secrets
  BY DEF Poll, CheckSecret, GetForUpdate, PutUpstream, Secrets
<1>2. LoopOnlyWhileRegistered' /\ WorkerInv'
  BY <1>1 DEF LoopOnlyWhileRegistered, WorkerInv, outVars, clientVars
<1>3. ASSUME poll' \in [pc : {"idle", "get", "put"}, copy : SecretObject \cup {None},
                        version : Version], ApiTypeOK'
      PROVE  TypeOK'
  BY <1>1, <1>3 DEF TypeOK, ApiTypeOK, outVars, clientVars
<1>4. CASE CheckSecret
  <2>1. /\ poll' = [poll EXCEPT !.pc = "get", !.version = upstream]
        /\ UNCHANGED apiVars /\ upstream \in Version
    BY <1>4 DEF CheckSecret, TypeOK
  <2>2. /\ poll' \in [pc : {"get"}, copy : SecretObject \cup {None}, version : Version]
        /\ poll'.version = upstream
    BY <2>1 DEF TypeOK
  <2>3. ApiTypeOK' /\ DataNeverEmpty'
    BY <2>1 DEF ApiTypeOK, TypeOK, DataNeverEmpty, apiVars
  <2>4. CopyInv'
    BY <1>1, <2>1, <2>2 DEF CopyInv, apiVars, clientVars
  <2>5. VersionInv'
    <3>1. upstream' = upstream /\ secret' = secret
      BY <1>1, <2>1 DEF outVars, apiVars
    <3>2. upstream <= upstream
      BY BoundsAssumption, <2>1 DEF Version
    <3>3. QED
      BY <2>2, <3>1, <3>2 DEF VersionInv
  <2>6. QED
    BY <1>2, <1>3, <2>2, <2>3, <2>4, <2>5
<1>5. CASE GetForUpdate
  <2>1. /\ poll' = IF cached["tokens"] = None THEN IdlePoll
                   ELSE [poll EXCEPT !.pc = "put", !.copy = cached["tokens"]]
        /\ UNCHANGED <<secret, cached>> /\ poll.pc = "get"
        /\ upToDate' = [upToDate EXCEPT !["poller"] =
              (@ \ {"tokens"}) \cup (upToDate["cache"] \cap {"tokens"})]
    BY <1>5 DEF GetForUpdate, Copied
  <2>2. cached["tokens"] \in SecretObject \cup {None} /\ 0 \in Version
    BY <1>1, BoundsAssumption DEF TypeOK, Version
  <2>3. /\ poll' \in [pc : {"idle", "put"}, copy : SecretObject \cup {None}, version : Version]
        /\ poll' = IdlePoll \/ (poll'.version = poll.version /\ poll'.copy = cached["tokens"])
    BY <2>1, <2>2 DEF TypeOK, IdlePoll
  <2>4. ApiTypeOK' /\ DataNeverEmpty'
    BY <1>1, <2>1 DEF ApiTypeOK, TypeOK, DataNeverEmpty
  <2>5. CopyInv'
    <3>1. \A h \in Holders : h # "poller" => upToDate'[h] = upToDate[h]
      BY <2>1 DEF TypeOK
    <3>2. "tokens" \in upToDate'["poller"] => "tokens" \in upToDate["cache"]
      BY <2>1 DEF TypeOK
    <3>3. poll'.pc = "put" => poll'.copy = cached["tokens"]
      BY <2>3 DEF IdlePoll
    <3>4. QED
      BY <1>1, <2>1, <3>1, <3>2, <3>3 DEF CopyInv, clientVars
  <2>6. VersionInv'
    <3>1. upstream' = upstream /\ 0 <= upstream
      BY <1>1, BoundsAssumption DEF outVars, TypeOK, Version
    <3>2. QED
      BY <2>1, <2>3, <3>1 DEF VersionInv, IdlePoll
  <2>7. QED
    BY <1>2, <1>3, <2>3, <2>4, <2>5, <2>6
<1>6. CASE PutUpstream
  <2> DEFINE value == TokenSecretValueUpdater(poll.copy, poll.version)
  <2>1. poll' = IdlePoll /\ poll.pc = "put"
    BY <1>6 DEF PutUpstream
  <2>2. ApiTypeOK' /\ DataNeverEmpty' /\ CopyInv' /\ VersionInv'
    <3>1. CASE secret["tokens"] # None /\ "tokens" \in upToDate["poller"]
      <4>1. Change("tokens", value)
        BY <1>6, <3>1 DEF PutUpstream, Update
      <4>2. poll.copy = secret["tokens"] /\ poll.copy \in SecretObject
        BY <1>1, <2>1, <3>1 DEF CopyInv, TypeOK
      <4>3. /\ value \in SecretObject /\ value.keys # {}
            /\ value.version = poll.version
        <5>1. DstName \in value.keys
          BY DstAssumption DEF TokenSecretValueUpdater
        <5>2. poll.version \in Version
          BY DEF TypeOK
        <5>3. QED
          BY <4>2, <5>1, <5>2 DEF TokenSecretValueUpdater, SecretObject, Keys
      <4>4. /\ value.version <= upstream
            /\ poll'.pc # "idle" => value.version <= poll.version
        BY <2>1, <4>3 DEF VersionInv, IdlePoll
      <4>5. QED
        BY <1>1, <2>1, <4>1, <4>3, <4>4, ChangeIInv DEF outVars, clientVars
    <3>2. CASE ~(secret["tokens"] # None /\ "tokens" \in upToDate["poller"])
      <4>1. UNCHANGED apiVars
        BY <1>6, <3>2 DEF PutUpstream, Update
      <4>2. ApiTypeOK' /\ DataNeverEmpty'
        BY <4>1 DEF ApiTypeOK, TypeOK, DataNeverEmpty, apiVars
      <4>3. CopyInv'
        BY <1>1, <2>1, <4>1 DEF CopyInv, IdlePoll, apiVars, clientVars
      <4>4. VersionInv'
        <5>1. upstream' = upstream /\ secret' = secret /\ 0 <= upstream
          BY <1>1, <4>1, BoundsAssumption DEF outVars, apiVars, TypeOK, Version
        <5>2. QED
          BY <2>1, <5>1 DEF VersionInv, IdlePoll
      <4>5. QED
        BY <4>2, <4>3, <4>4
    <3>3. QED
      BY <3>1, <3>2
  <2>3. poll' \in [pc : {"idle", "get", "put"}, copy : SecretObject \cup {None},
                   version : Version]
    BY <2>1, BoundsAssumption DEF IdlePoll, Version
  <2>4. QED
    BY <1>2, <1>3, <2>2, <2>3
<1>7. QED
  BY <1>4, <1>5, <1>6 DEF Poll

LEMMA StutterIInv ==
  ASSUME IInv, UNCHANGED vars
  PROVE  IInv'
BY DEF IInv, vars, apiVars, outVars, clientVars, TypeOK, LoopOnlyWhileRegistered, WorkerInv,
       DataNeverEmpty, CopyInv, VersionInv

(* IInv holds in every state that the three writers and the world reach. *)
THEOREM Inductive == Spec => []IInv
<1>1. IInv /\ [Next]_vars => IInv'
  <2> SUFFICES ASSUME IInv, [Next]_vars PROVE IInv'
    OBVIOUS
  <2>1. CASE Environment
    BY <2>1, EnvironmentIInv
  <2>2. CASE \E s \in Secrets : Deliver(s)
    BY <2>2, DeliverIInv
  <2>3. CASE Reconcile \/ Busy \/ LoopReceives
    BY <2>3, WorkerIInv
  <2>4. CASE \E c \in Clients : LoopStep(c)
    BY <2>4, LoopIInv
  <2>5. CASE Poll
    BY <2>5, PollIInv
  <2>6. CASE UNCHANGED vars
    BY <2>6, StutterIInv
  <2>7. QED
    BY <2>1, <2>2, <2>3, <2>4, <2>5, <2>6 DEF Next
<1>2. QED
  BY <1>1, InitIInv, PTL DEF Spec

-----------------------------------------------------------------------------
(* The theorems *)

(* The Secrets, the clients' loops and the poller are always of their type. *)
THEOREM TokensTypeCorrect == Spec => []TypeOK
BY Inductive, PTL DEF IInv

(* No updater ever meets a Secret whose Data map is nil. *)
THEOREM DataIsNeverEmpty == Spec => []DataNeverEmpty
BY Inductive, PTL DEF IInv

(* A GlideinSet has one loop at most, and none once it is gone. *)
THEOREM LoopsEnd == Spec => []LoopOnlyWhileRegistered
BY Inductive, PTL DEF IInv

-----------------------------------------------------------------------------
(* No lost update *)

LEMMA UnchangedKeeps ==
  ASSUME IInv, secret' = secret, NEW s \in Secrets
  PROVE  KeepsCredentials(s)
<1>1. secret[s] # None => secret[s].version \in Nat
  BY BoundsAssumption DEF IInv, TypeOK, SecretObject, Version
<1>2. QED
  BY <1>1 DEF KeepsCredentials

(* A write keeps the credentials if its value does, and it changes no      *)
(* other Secret.                                                           *)
LEMMA ChangeKeeps ==
  ASSUME IInv, NEW s \in Secrets, NEW value, Change(s, value),
         secret[s] # None /\ value # None =>
            /\ secret[s].keys \ {"placeholder"} \subseteq value.keys
            /\ "placeholder" \in value.keys => "placeholder" \in secret[s].keys
            /\ value.version >= secret[s].version,
         NEW t \in Secrets
  PROVE  KeepsCredentials(t)
<1>1. secret' = [secret EXCEPT ![s] = value]
  BY DEF Change
<1>2. CASE t = s
  BY <1>1, <1>2 DEF KeepsCredentials, IInv, TypeOK
<1>3. CASE t # s
  <2>1. secret'[t] = secret[t] /\ (secret[t] # None => secret[t].version \in Nat)
    BY <1>1, <1>3, BoundsAssumption DEF IInv, TypeOK, SecretObject, Version
  <2>2. QED
    BY <2>1 DEF KeepsCredentials
<1>4. QED
  BY <1>2, <1>3

(* Two goroutines and the worker write into the Secrets of a GlideinSet    *)
(* without a lock among them, and no write of theirs undoes another's: a   *)
(* stored write of a goroutine is computed from the stored version, and    *)
(* the version that the poller writes has been fetched before its copy.    *)
THEOREM NoUpdateIsLost == Spec => NoLostUpdate
<1>1. ASSUME IInv, [Next]_vars, NEW t \in Secrets
      PROVE  KeepsCredentials(t)
  <2>1. CASE secret' = secret
    BY <1>1, <2>1, UnchangedKeeps
  <2>2. ASSUME NEW s \in Secrets, CollectGarbage(s) \/ CreateSecret(s), secret' # secret
        PROVE  KeepsCredentials(t)
    <3>1. PICK value : Change(s, value) /\ (secret[s] = None \/ value = None)
      BY <2>2 DEF CollectGarbage, CreateSecret, apiVars
    <3>2. QED
      BY <1>1, <3>1, ChangeKeeps
  <2>3. ASSUME NEW c \in Clients, PutTokens(c), secret' # secret
        PROVE  KeepsCredentials(t)
    <3> DEFINE s == loop[c].sec
               value == CollectorTokenSecretUpdater(loop[c].copy)
    <3>1. s \in Secrets /\ loop[c].copy \in SecretObject \cup {None}
      BY <1>1 DEF IInv, TypeOK
    <3>2. /\ loop[c].pc = "put" /\ secret[s] # None /\ s \in upToDate[c]
          /\ Change(s, value)
      BY <2>3 DEF PutTokens, Update, apiVars
    <3>3. loop[c].copy = secret[s] /\ secret[s] \in SecretObject
      BY <1>1, <3>1, <3>2 DEF IInv, CopyInv
    <3>4. secret[s].version \in Nat
      BY <3>3, BoundsAssumption DEF SecretObject, Version
    <3>5. /\ secret[s].keys \ {"placeholder"} \subseteq value.keys
          /\ "placeholder" \in value.keys => "placeholder" \in secret[s].keys
          /\ value.version >= secret[s].version
      BY <3>3, <3>4 DEF CollectorTokenSecretUpdater, SecretObject
    <3>6. QED
      BY <1>1, <3>1, <3>2, <3>5, ChangeKeeps
  <2>4. ASSUME PutUpstream, secret' # secret
        PROVE  KeepsCredentials(t)
    <3> DEFINE value == TokenSecretValueUpdater(poll.copy, poll.version)
    <3>1. /\ poll.pc = "put" /\ secret["tokens"] # None /\ "tokens" \in upToDate["poller"]
          /\ Change("tokens", value) /\ "tokens" \in Secrets
      BY <2>4 DEF PutUpstream, Update, apiVars, Secrets
    <3>2. poll.copy = secret["tokens"] /\ secret["tokens"] \in SecretObject
      BY <1>1, <3>1 DEF IInv, CopyInv, TypeOK
    <3>3. /\ secret["tokens"].version \in Nat /\ poll.version \in Nat
          /\ secret["tokens"].version <= poll.version
      BY <1>1, <3>1, <3>2, BoundsAssumption DEF IInv, VersionInv, TypeOK, SecretObject, Version
    <3>4. /\ secret["tokens"].keys \ {"placeholder"} \subseteq value.keys
          /\ "placeholder" \in value.keys => "placeholder" \in secret["tokens"].keys
          /\ value.version >= secret["tokens"].version
      BY <3>2, <3>3 DEF TokenSecretValueUpdater, SecretObject
    <3>5. QED
      BY <1>1, <3>1, <3>4, ChangeKeeps
  <2>5. CASE Environment
    BY <2>1, <2>2, <2>5 DEF Environment, CreateGlideinSet, DeleteGlideinSet, PodStartsOrStops,
                            RotateSecret, Restart, apiVars
  <2>6. CASE Reconcile \/ Busy \/ LoopReceives \/ \E s \in Secrets : Deliver(s)
    BY <2>1, <2>2, <2>6 DEF Reconcile, Busy, AddCollectorClient, RemoveCollectorClient,
                            Unregister, LoopReceives, Deliver, apiVars
  <2>7. CASE \E c \in Clients : LoopStep(c)
    BY <2>1, <2>3, <2>7 DEF LoopStep, Tick, CheckTokens, CreateTokens, GetSecret, apiVars
  <2>8. CASE Poll
    BY <2>1, <2>4, <2>8 DEF Poll, CheckSecret, GetForUpdate, apiVars
  <2>9. CASE UNCHANGED vars
    BY <2>1, <2>9 DEF vars, apiVars
  <2>10. QED
    BY <1>1, <2>5, <2>6, <2>7, <2>8, <2>9 DEF Next
<1>2. IInv /\ [Next]_vars => [\A s \in Secrets : KeepsCredentials(s)]_vars
  BY <1>1
<1>3. QED
  BY <1>2, Inductive, PTL DEF Spec, NoLostUpdate

=============================================================================
