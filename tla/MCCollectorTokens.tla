------------------------- MODULE MCCollectorTokens -------------------------
(* Instances of CollectorTokens for TLC. *)
EXTENDS CollectorTokens, TLC

(* CollectorClient structs are only compared for equality. *)
Symmetry == Permutations(Clients)
=============================================================================
