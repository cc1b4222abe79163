--------------------------- MODULE GlideinSetLife ---------------------------
(***************************************************************************)
(* What the GlideinSet controller promises for one GlideinSet, without     *)
(* caches, resource versions, retries and working copies: the finalizer    *)
(* protocol of Reconcile (internal/controller/glideinset_controller.go).   *)
(* The object is protected before anything is registered for it in the     *)
(* operator's memory, nothing is unregistered but for a deletion or with   *)
(* the process, and the object outlives what is registered for it.         *)
(***************************************************************************)

VARIABLES
    object,     \* "absent", "fresh" (no finalizer yet), "protected" or "deleting"
    registered, \* is an update handler or a collector client registered for it?
    process     \* which operator process runs

life == <<object, registered, process>>

Init == object = "absent" /\ registered = FALSE /\ process = 0

(* The owner of the object creates and deletes it. *)
Create  == object = "absent" /\ object' = "fresh" /\ UNCHANGED <<registered, process>>
Delete  == object = "protected" /\ object' = "deleting" /\ UNCHANGED <<registered, process>>
Discard == object = "fresh" /\ object' = "absent" /\ UNCHANGED <<registered, process>>

(* A reconcile. *)
Protect    == object = "fresh" /\ object' = "protected" /\ UNCHANGED <<registered, process>>
Register   == object \in {"protected", "deleting"} /\ registered' = TRUE
              /\ UNCHANGED <<object, process>>
Unregister == object = "deleting" /\ registered' = FALSE /\ UNCHANGED <<object, process>>
Remove     == object = "deleting" /\ ~registered /\ object' = "absent"
              /\ UNCHANGED <<registered, process>>

(* The process that holds the registrations ends, and another one starts.  *)
(* No other step takes them away from an object that is not being deleted. *)
Restart == process' # process /\ registered' = FALSE /\ UNCHANGED object

Next == \/ Create \/ Delete \/ Discard
        \/ Protect \/ Register \/ Unregister \/ Remove
        \/ Restart

Spec == Init /\ [][Next]_life

(* An object that stays is registered in the end and for good; a deleted one goes. *)
Progress == /\ <>[](object \in {"fresh", "protected"}) => <>[]registered
            /\ object = "deleting" ~> object # "deleting"

=============================================================================
