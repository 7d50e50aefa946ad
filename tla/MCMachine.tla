----------------------------- MODULE MCMachine ------------------------------
(***************************************************************************)
(* What a tenant's machine does at its two ends, for TLC: it registers     *)
(* with a hub, or its resolver is told which names go to which device.     *)
(* The two share no state, so one moves and the other stays as it starts.  *)
(***************************************************************************)
EXTENDS Registration, Resolver, TLC

CONSTANTS m1, m2, k1, k2, t1, t2

\* Two machines with a key in common.  A hub with a binder for each key and
\* another token, with one key under two binders, and with the first or the second key only.
MCKeysOf == (m1 :> <<k1, k2>>) @@ (m2 :> <<k2>>)
Binder(n, ks) == [name |-> n, keys |-> ks]
File(t, bs) == [token |-> t, binders |-> bs]
MCFragments ==
  {<<File(t1, <<Binder("a", <<k1>>)>>)>>,
   <<File(t2, <<Binder("a", <<k1>>), Binder("b", <<k2>>)>>)>>,
   <<File(t2, <<Binder("a", <<k2>>)>>), File(t1, <<Binder("b", <<k2>>)>>)>>,
   <<File(t1, <<>>), File(None, <<Binder("a", <<k2>>)>>)>>}

VARIABLE part   \* "registration" or "resolver"

Init ==
  /\ part \in {"registration", "resolver"}
  /\ RegInit /\ ResInit
  /\ part = "registration" => networkd

Next ==
  \/ part = "registration" /\ RegNext /\ UNCHANGED <<part, resVars>>
  \/ part = "resolver" /\ ResNext /\ UNCHANGED <<part, regVars>>

Spec == Init /\ [][Next]_<<part, regVars, resVars>>
=============================================================================
