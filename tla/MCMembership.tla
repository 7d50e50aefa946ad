---------------------------- MODULE MCMembership ----------------------------
(* Membership for TLC: what may be exchanged for what.                     *)
EXTENDS Membership, TLC

Symmetry == Permutations(Ids) \cup Permutations(Serials)
=============================================================================
