------------------------- MODULE MCDurableRequests -------------------------
(* Small instances of DurableRequests for TLC. *)
EXTENDS DurableRequests, TLC

Symmetry == Permutations(Devices)

=============================================================================
