----------------------------- MODULE UdpSplice -----------------------------
(***************************************************************************)
(* One UDP flow through the connector: forwardUDP dials its destination,   *)
(* spliceUDP carries datagrams both ways, each way with a read deadline of *)
(* its own, and the first way that ends closes both connections.  The      *)
(* network drops what finds no room (external).                            *)
(***************************************************************************)
EXTENDS Naturals, FiniteSets

CONSTANTS
  Timeout,     \* GatewayUDPTimeout or DNSIdleTimeout, in ticks
  MaxPackets,  \* bound on the datagrams a peer sends
  Queue        \* datagrams a socket holds

ASSUME UdpAssumption == {Timeout, Queue, MaxPackets} \subseteq Nat \ {0}

UdpEnds == {"inbound", "outbound"}

VARIABLES
  flow,      \* "dialing", "splicing", and then "closed", or "refused"
  packets,   \* for each end, how many datagrams its peer has sent
  queued,    \* for each end, how many wait to be read
  pipe,      \* for each end, the pipe that reads from it: "read", "write", "done"
  due,       \* for each end, ticks left until its read deadline
  silent,    \* for each end, ticks since a datagram was read from it, to Timeout
  broken     \* whether a read or a write failed for another reason

udpVars == <<flow, packets, queued, pipe, due, silent, broken>>

\* CreateEndpoint puts the datagram the flow began with into the queue.
UdpInit ==
  /\ flow = "dialing" /\ broken = FALSE
  /\ packets = [e \in UdpEnds |-> IF e = "inbound" THEN 1 ELSE 0]
  /\ queued = packets
  /\ pipe = [e \in UdpEnds |-> "read"]
  /\ due = [e \in UdpEnds |-> Timeout]
  /\ silent = [e \in UdpEnds |-> 0]
-----------------------------------------------------------------------------
\* A peer sends a datagram; the one that opened the flow is the inbound one,
\* and may send more while the dial is under way.
Datagram(e) ==
  /\ flow = "splicing" \/ (flow = "dialing" /\ e = "inbound")
  /\ packets[e] < MaxPackets
  /\ packets' = [packets EXCEPT ![e] = @ + 1]
  /\ queued' = [queued EXCEPT ![e] = IF @ < Queue THEN @ + 1 ELSE @]
  /\ UNCHANGED <<flow, pipe, due, silent, broken>>

\* Time passes; a deadline is a point in time, wherever its pipe is.
Tick ==
  /\ flow = "splicing"
  /\ due' = [e \in UdpEnds |-> IF due[e] = 0 THEN 0 ELSE due[e] - 1]
  /\ silent' = [e \in UdpEnds |-> IF silent[e] = Timeout THEN Timeout ELSE silent[e] + 1]
  /\ UNCHANGED <<flow, packets, queued, pipe, broken>>

UdpDial ==
  /\ flow = "dialing"
  /\ flow' \in {"splicing", "refused"}
  /\ UNCHANGED <<packets, queued, pipe, due, silent, broken>>

ReadDatagram(e) ==
  /\ flow = "splicing" /\ pipe[e] = "read" /\ queued[e] > 0
  /\ queued' = [queued EXCEPT ![e] = @ - 1]
  /\ pipe' = [pipe EXCEPT ![e] = "write"]
  /\ silent' = [silent EXCEPT ![e] = 0]
  /\ UNCHANGED <<flow, packets, due, broken>>

\* The datagram is written to the other end, and the loop sets the deadline of
\* the next read.
WriteDatagram(e) ==
  /\ flow = "splicing" /\ pipe[e] = "write"
  /\ pipe' = [pipe EXCEPT ![e] = "read"]
  /\ due' = [due EXCEPT ![e] = Timeout]
  /\ UNCHANGED <<flow, packets, queued, silent, broken>>

\* Wrong on purpose: a read that timed out is tried again.
ReadTimesOutAgain(e) ==
  /\ flow = "splicing" /\ pipe[e] = "read" /\ due[e] = 0
  /\ due' = [due EXCEPT ![e] = Timeout]
  /\ UNCHANGED <<flow, packets, queued, pipe, silent, broken>>

ReadTimesOut(e) ==
  /\ flow = "splicing" /\ pipe[e] = "read" /\ due[e] = 0
  /\ pipe' = [pipe EXCEPT ![e] = "done"]
  /\ UNCHANGED <<flow, packets, queued, due, silent, broken>>

\* The host refuses, or the other way has closed the connections.
PipeFails(e) ==
  /\ flow \in {"splicing", "closed"} /\ pipe[e] # "done"
  /\ pipe' = [pipe EXCEPT ![e] = "done"]
  /\ broken' = (broken \/ flow = "splicing")
  /\ UNCHANGED <<flow, packets, queued, due, silent>>

\* One signal is enough: both connections are closed.
UdpTeardown ==
  /\ flow = "splicing" /\ \E e \in UdpEnds : pipe[e] = "done"
  /\ flow' = "closed"
  /\ UNCHANGED <<packets, queued, pipe, due, silent, broken>>

Piping(e) == ReadDatagram(e) \/ WriteDatagram(e) \/ ReadTimesOut(e)

UdpNext ==
  \/ Tick \/ UdpDial \/ UdpTeardown
  \/ \E e \in UdpEnds : Datagram(e) \/ Piping(e) \/ PipeFails(e)

\* What is bound to happen: time passes, goroutines run, a dial has a timeout,
\* and a read from a closed connection fails.  Nothing makes a peer send or an
\* open connection fail.
UdpProgress ==
  \/ Tick \/ UdpDial \/ UdpTeardown
  \/ \E e \in UdpEnds : Piping(e) \/ (flow = "closed" /\ PipeFails(e))

UdpSpec == UdpInit /\ [][UdpNext]_udpVars /\ WF_udpVars(UdpProgress)
-----------------------------------------------------------------------------
\* "GatewayUDPTimeout is how long a forwarded UDP flow may idle": a flow whose
\* peers have nothing more to say is closed and both its pipes end, so nothing
\* is held for it any longer; and one that nothing broke is closed only when one
\* of its ways, at least, has been silent for that long.
IdlesOut ==
  /\ (flow = "splicing") ~> (flow = "closed" /\ \A e \in UdpEnds : pipe[e] = "done")
  /\ [](flow = "closed" /\ ~broken => \E e \in UdpEnds : silent[e] = Timeout)
=============================================================================
