------------------------------ MODULE MCCalls -------------------------------
(***************************************************************************)
(* The hub's owners for TLC: the requests they sign, in any order and more *)
(* than once, or the decisions they take by short references.  The two     *)
(* share no state, so one moves and the other stays as it starts.          *)
(***************************************************************************)
EXTENDS Requests, Decisions, TLC

CONSTANTS k0, k1, k2, i1, i2

VARIABLE part   \* "requests" or "decisions"

MCFingerprint == (k0 :> <<3, 3>>) @@ (k1 :> <<1, 1>>) @@ (k2 :> <<2, 2>>)
MCKindOf == (k0 :> "owner") @@ (k1 :> "connector") @@ (k2 :> "tenant")
MCOwnerName == <<7>>
MCIds == {<<2, 1>>, <<2, 2>>}
MCAsks == {[name |-> <<1>>, hint |-> <<>>, routes |-> {4, 6}, domain |-> "d"],
           [name |-> <<>>, hint |-> <<7>>, routes |-> {}, domain |-> None]}
MCMayAsk == {<<i1, k1>>, <<i1, k2>>, <<i2, k2>>}
MCApprovals == {[name |-> <<>>, routes |-> None, noDomain |-> FALSE],
                [name |-> <<2>>, routes |-> {6}, noDomain |-> TRUE]}
MCRefs == {<<2>>, <<2, 2>>}
MCFamiliesOf == (i1 :> {4, 6}) @@ (i2 :> {4})
\* The first instance's IPv4 pool is full.
MCHasRoom == (i1 :> {{6}}) @@ (i2 :> {{4}})

Init ==
  /\ part \in {"requests", "decisions"}
  /\ ReqInit /\ DecInit
  /\ part = "decisions" => known = Machines /\ \A m \in Machines : behind[m] = 0

vars == <<part, reqVars, decVars>>

\* A bound: the last of as many requests as there may be is signed at the start.
SignedEarly == Len(sent) < Len(sent') /\ Len(sent') = MaxRequests => now = 0

Next ==
  \/ part = "requests" /\ ReqNext /\ SignedEarly /\ UNCHANGED <<part, decVars>>
  \/ part = "decisions" /\ DecNext /\ UNCHANGED <<part, reqVars>>

Spec == Init /\ [][Next]_vars

Interchangeable == Permutations(Machines)
=============================================================================
