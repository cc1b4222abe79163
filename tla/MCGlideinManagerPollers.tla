---------------------- MODULE MCGlideinManagerPollers ----------------------
(* Instances of GlideinManagerPollers for TLC. *)
EXTENDS GlideinManagerPollers, TLC

(* Names, URLs and poller addresses are only compared for equality. *)
Symmetry == Permutations(GlideinSets) \cup Permutations(Urls) \cup Permutations(Pollers)
=============================================================================
