---------------------------- MODULE MCAlgorithms ----------------------------
(***************************************************************************)
(* The walks over address pools and the rewriting of names for TLC.  The   *)
(* three parts share no state, so one moves and the others stay at one     *)
(* initial state.  The names: a connector inside the name space of         *)
(* another, a network with a suffix and one without, an alias that stands  *)
(* apart and one that is a connector's name already.                       *)
(***************************************************************************)
EXTENDS Overlays, HostPool, NameRouting

MCConnectors == {<<"prod">>, <<"web", "prod">>}
MCCarrying ==
  {[domain |-> <<"railway", "internal">>, families |-> {"A", "AAAA"}],
   [domain |-> << >>, families |-> {"A"}]}
MCHosts == {<< >>, <<"web">>}
MCAliasNames == {<<"p">>, NameSpace(<<"prod">>)}
MCForeign == <<"cdn", "net">>

VARIABLE part   \* "overlays", "hosts" or "names"

Init ==
  /\ part \in {"overlays", "hosts", "names"}
  /\ IF part = "overlays" THEN OverlaysInit ELSE pools = <<>> /\ taken = {}
  /\ IF part = "hosts" THEN HostPoolInit ELSE overlay = Prefix(Addr(TRUE, 0), V4Bits) /\ held = {}
  /\ NamesInit

Next ==
  \/ part = "overlays" /\ OverlaysNext /\ UNCHANGED <<part, hostVars, nameVars>>
  \/ part = "hosts" /\ HostPoolNext /\ UNCHANGED <<part, overlayVars, nameVars>>
  \/ part = "names" /\ NamesNext /\ UNCHANGED <<part, overlayVars, hostVars>>

\* What follows a question's answer does not concern it.
UntilAnswered == query.pc # "answered"

Spec == Init /\ [][Next]_<<part, overlayVars, hostVars, nameVars>>
=============================================================================
