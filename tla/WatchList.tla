------------------------------ MODULE WatchList ------------------------------
(***************************************************************************)
(* What addGlideinManagerWatcher and removeGlideinManagerWatcher           *)
(* (internal/controller/glideinmanager_client.go) promise to a GlideinSet: *)
(* the static map and the handlers of its pollers are a list of who        *)
(* watches which URL, and an entry is made or taken out by itself, without *)
(* an effect on another GlideinSet or another URL.                         *)
(***************************************************************************)

CONSTANTS GlideinSets, Urls

VARIABLES
    watched,  \* the URLs at which each GlideinSet has an update handler
    process   \* which operator process runs, and holds the list

list == <<watched, process>>

Init == watched = [g \in GlideinSets |-> {}] /\ process = 0

Watch(g, u)   == watched' = [watched EXCEPT ![g] = @ \cup {u}] /\ UNCHANGED process

Unwatch(g, u) == watched' = [watched EXCEPT ![g] = @ \ {u}] /\ UNCHANGED process

(* Another process starts, with an empty list; no process empties its own. *)
Restart == process' # process /\ watched' = [g \in GlideinSets |-> {}]

Next == Restart \/ \E g \in GlideinSets, u \in Urls : Watch(g, u) \/ Unwatch(g, u)

Spec == Init /\ [][Next]_list

=============================================================================
