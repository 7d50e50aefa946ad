----------------------------- MODULE MCGateway -----------------------------
(***************************************************************************)
(* The connector's network stack for TLC: the service with its listeners   *)
(* and flows, one TCP flow in full, or one UDP flow in full.  The three    *)
(* share no state, so one moves and the other two stay as they start.      *)
(***************************************************************************)
EXTENDS Netstack, TcpSplice, UdpSplice

VARIABLE part   \* "service", "tcp" or "udp"

AnOption == [gateway |-> TRUE, dns |-> FALSE, upstreams |-> <<>>, resolv |-> Absent]

Init ==
  /\ part \in {"service", "tcp", "udp"}
  /\ NetInit /\ TcpInit /\ UdpInit
  /\ part # "service" => opts = AnOption

vars == <<part, netVars, tcpVars, udpVars>>

Service(A) == part = "service" /\ A /\ UNCHANGED <<part, tcpVars, udpVars>>
Tcp(A) == part = "tcp" /\ A /\ UNCHANGED <<part, netVars, udpVars>>
Udp(A) == part = "udp" /\ A /\ UNCHANGED <<part, netVars, tcpVars>>

Next == Service(NetNext) \/ Tcp(TcpNext) \/ Udp(UdpNext)

Spec ==
  /\ Init /\ [][Next]_vars
  /\ WF_vars(Service(NetProgress) \/ Tcp(TcpProgress) \/ Udp(UdpProgress))
=============================================================================
