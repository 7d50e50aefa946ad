---------------------------- MODULE MCInstances ----------------------------
(* Instances for TLC: what may be exchanged for what.                      *)
EXTENDS Instances, TLC

Symmetry == Permutations(InstanceIds) \cup Permutations(Names)

\* For runs in which every handler may do everything.
SymmetryOfHandlers == Symmetry \cup Permutations(Handlers)
=============================================================================
