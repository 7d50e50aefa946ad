------------------------------ MODULE Netstack ------------------------------
(***************************************************************************)
(* The user space network stack of a connector: starting it on a nebula,   *)
(* the goroutines that move packets between the two, what is done with a   *)
(* flow that arrives, listeners, and stopping.  A forwarded flow is an     *)
(* abstraction of modules TcpSplice and UdpSplice: dialed, carried, closed.*)
(* Nebula, its two packet threads and its device are external.             *)
(***************************************************************************)
EXTENDS Naturals, Sequences

CONSTANTS
  Flows,       \* flows that may arrive
  Listeners,   \* listener objects that may be made
  Ports,       \* ports, 0 and the largest included
  DNSPort,
  MaxPort,     \* math.MaxUint16
  Absent

ASSUME NetstackAssumption ==
  Ports \subseteq 0 .. MaxPort /\ DNSPort \in Ports /\ Absent \notin Listeners \cup Ports

VARIABLES
  opts,      \* Options: gateway, dns, upstreams, and what resolv.conf holds
  svc,       \* New: "new", "started", "running" or "failed"
  nebula,    \* "built", "running", "stopping" or "stopped"
  ctxDone,   \* whether the context of the errgroup is cancelled
  open,      \* the pipes that are open: "in" from nebula, "out" to it
  loop,      \* the goroutines of the service and nebula's own two threads
  bound,     \* s.mu.listeners: port -> listener
  port,      \* for each listener object its port, or Absent before Listen
  closed,    \* the listeners whose closed channel is closed
  again,     \* ports of listeners that were closed more than once
  flows      \* for each flow what became of it, and at which listener

netVars == <<opts, svc, nebula, ctxDone, open, loop, bound, port, closed, again, flows>>

Loops == {"reader", "writer", "drops", "wait", "closer"}
Threads == {"toDevice", "fromDevice"}
-----------------------------------------------------------------------------
(***************************************************************************)
(* dns.go: an address is good or it is not.                                *)
(***************************************************************************)
Good(u) == u # "bad"

\* What was given has to be usable to the last entry; of the host's own
\* configuration, Absent when it cannot be read, the unusable is skipped.
resolveDNSUpstreams(o) ==
  IF o.upstreams # <<>>
  THEN IF \A i \in DOMAIN o.upstreams : Good(o.upstreams[i]) THEN o.upstreams ELSE Absent
  ELSE IF o.resolv = Absent \/ SelectSeq(o.resolv, Good) = <<>> THEN Absent
       ELSE SelectSeq(o.resolv, Good)

dnsUpstream == IF opts.upstreams = <<>> THEN Absent ELSE opts.upstreams[1]

Options ==
  [gateway : BOOLEAN, dns : BOOLEAN,
   upstreams : {<<>>, <<"good">>, <<"good", "bad">>},
   resolv : {Absent, <<"bad">>, <<"bad", "good">>}]

NetInit ==
  /\ opts \in Options
  /\ svc = "new" /\ nebula = "built" /\ ctxDone = FALSE
  /\ open = {"in", "out"}
  /\ loop = [x \in Loops \cup Threads |-> "none"]
  /\ bound = [p \in Ports |-> Absent]
  /\ port = [l \in Listeners |-> Absent]
  /\ closed = {} /\ again = {}
  /\ flows = [f \in Flows |-> [at |-> "none", on |-> Absent]]
-----------------------------------------------------------------------------
(***************************************************************************)
(* New.                                                                    *)
(***************************************************************************)
\* The upstreams are settled before nebula is started, which may fail.  What
\* nothing looks at again is dropped.
NewStart ==
  /\ svc = "new"
  /\ IF opts.dns /\ resolveDNSUpstreams(opts) = Absent
     THEN svc' = "failed" /\ UNCHANGED <<opts, nebula, loop>>
     ELSE /\ opts' = [opts EXCEPT !.upstreams = IF opts.dns THEN resolveDNSUpstreams(opts) ELSE <<>>,
                                  !.resolv = Absent]
          /\ \/ svc' = "failed" /\ UNCHANGED <<nebula, loop>>
             \/ /\ svc' = "started" /\ nebula' = "running"
                /\ loop' = [x \in DOMAIN loop |-> IF x \in Threads THEN "ready" ELSE loop[x]]
  /\ UNCHANGED <<ctxDone, open, bound, port, closed, again, flows>>

\* A step of the set up fails, and what was started is stopped.
NewFails ==
  /\ svc = "started"
  /\ svc' = "failed" /\ nebula' = "stopping" /\ ctxDone' = TRUE
  /\ UNCHANGED <<opts, open, loop, bound, port, closed, again, flows>>

NewSucceeds ==
  /\ svc = "started"
  /\ svc' = "running"
  /\ loop' = [x \in DOMAIN loop |-> IF x \in Loops THEN "ready" ELSE loop[x]]
  /\ UNCHANGED <<opts, nebula, ctxDone, open, bound, port, closed, again, flows>>
-----------------------------------------------------------------------------
(***************************************************************************)
(* Packets.  A pipe hands over one packet at a time, and a write waits for *)
(* its reader.  What the stack sends goes through a queue that drops, so   *)
(* the reader never waits for the writer.                                  *)
(***************************************************************************)
End(x) == loop' = [loop EXCEPT ![x] = "ended"]

\* Nebula has a packet for the stack, and waits until it is read.
ToDevice ==
  /\ nebula = "running" /\ loop["toDevice"] = "ready" /\ "in" \in open
  /\ loop' = [loop EXCEPT !["toDevice"] = "writing"]
  /\ UNCHANGED <<opts, svc, nebula, ctxDone, open, bound, port, closed, again, flows>>

\* The reader takes it: it is of a flow there is already, or is no flow.
ReaderTakes ==
  /\ loop["reader"] = "ready" /\ loop["toDevice"] = "writing" /\ "in" \in open
  /\ loop' = [loop EXCEPT !["toDevice"] = "ready", !["reader"] = IF ctxDone THEN "ended" ELSE @]
  /\ ctxDone' = (ctxDone \/ loop'["reader"] = "ended")
  /\ UNCHANGED <<opts, svc, nebula, open, bound, port, closed, again, flows>>

\* Endpoints exist for a flow from here on; making one may fail.
Forward(dst) == IF dst = Absent THEN {"reset"} ELSE {"reset", "dialing"}

\* Where a flow goes: onto the host network when it is not for us, to the
\* listener of its port, to the resolver, or nowhere.
tcpHandler(local, p) ==
  IF ~local THEN (IF opts.gateway THEN Forward("host") ELSE {"reset"})
  ELSE IF bound[p] # Absent THEN {"reset", "handing"}
  ELSE IF opts.dns /\ p = DNSPort THEN Forward(dnsUpstream) ELSE {"reset"}

udpHandler(local, p) ==
  IF local THEN (IF opts.dns /\ p = DNSPort THEN Forward(dnsUpstream) ELSE {"reset"})
  ELSE IF opts.gateway THEN Forward("host") ELSE {"reset"}

\* The reader takes the first packet of a flow.
Arrive(f) ==
  /\ loop["reader"] = "ready" /\ loop["toDevice"] = "writing" /\ "in" \in open
  /\ flows[f].at = "none"
  /\ \E local \in BOOLEAN, p \in Ports :
       \/ \E at \in tcpHandler(local, p) :
            flows' = [flows EXCEPT ![f] = [at |-> at, on |-> IF at = "handing" THEN bound[p] ELSE Absent]]
       \/ \E at \in udpHandler(local, p) :
            flows' = [flows EXCEPT ![f].at = at]
  /\ loop' = [loop EXCEPT !["toDevice"] = "ready", !["reader"] = IF ctxDone THEN "ended" ELSE @]
  /\ UNCHANGED <<opts, svc, nebula, ctxDone, open, bound, port, closed, again>>

\* The writer has a packet for nebula, and waits until it is read.
WriterTakes ==
  /\ loop["writer"] = "ready" /\ ~ctxDone
  /\ loop' = [loop EXCEPT !["writer"] = "writing"]
  /\ UNCHANGED <<opts, svc, nebula, ctxDone, open, bound, port, closed, again, flows>>

FromDevice ==
  /\ loop["fromDevice"] = "ready" /\ loop["writer"] = "writing" /\ "out" \in open
  /\ loop' = [loop EXCEPT !["writer"] = "ready"]
  /\ UNCHANGED <<opts, svc, nebula, ctxDone, open, bound, port, closed, again, flows>>

\* Wrong on purpose: watchDrops waits for its ticker and for nothing else.
LoopEndsButDrops(x) ==
  /\ loop[x] \in {"ready", "writing"}
  /\ CASE x = "reader" -> "in" \notin open
       [] x = "writer" -> "out" \notin open \/ (ctxDone /\ loop[x] = "ready")
       [] x = "wait" -> nebula = "stopped"
       [] OTHER -> FALSE
  /\ End(x)
  /\ ctxDone' = TRUE
  /\ UNCHANGED <<opts, svc, nebula, open, bound, port, closed, again, flows>>

\* A loop ends with an error, which cancels the context of the others.
LoopEnds(x) ==
  /\ loop[x] \in {"ready", "writing"}
  /\ CASE x = "reader" -> "in" \notin open
       [] x = "writer" -> "out" \notin open \/ (ctxDone /\ loop[x] = "ready")
       [] x = "drops" -> ctxDone
       [] x = "wait" -> nebula = "stopped"
       [] OTHER -> FALSE
  /\ End(x)
  /\ ctxDone' = (ctxDone \/ x # "drops")
  /\ UNCHANGED <<opts, svc, nebula, open, bound, port, closed, again, flows>>

\* <-ctx.Done(): both pipes are closed.
Closer ==
  /\ loop["closer"] = "ready" /\ ctxDone
  /\ open' = {}
  /\ End("closer")
  /\ UNCHANGED <<opts, svc, nebula, ctxDone, bound, port, closed, again, flows>>

\* Service.Close, and nebula stopping of itself, cancel the context that the
\* service's is derived from.
ServiceClose ==
  /\ nebula = "running" /\ svc = "running"
  /\ nebula' = "stopping" /\ ctxDone' = TRUE
  /\ UNCHANGED <<opts, svc, open, loop, bound, port, closed, again, flows>>

\* A thread of nebula's ends when its pipe does.
ThreadEnds(x) ==
  /\ loop[x] \in {"ready", "writing"}
  /\ IF x = "toDevice" THEN "in" \notin open \/ (nebula = "stopping" /\ loop[x] = "ready")
     ELSE "out" \notin open
  /\ End(x)
  /\ UNCHANGED <<opts, svc, nebula, ctxDone, open, bound, port, closed, again, flows>>

\* Nebula's own stop closes the device, which is both pipes, and is over when
\* its threads are.
DeviceClose ==
  /\ nebula = "stopping" /\ open # {}
  /\ open' = {}
  /\ UNCHANGED <<opts, svc, nebula, ctxDone, loop, bound, port, closed, again, flows>>

NebulaStopped ==
  /\ nebula = "stopping" /\ \A x \in Threads : loop[x] = "ended"
  /\ nebula' = "stopped"
  /\ UNCHANGED <<opts, svc, ctxDone, open, loop, bound, port, closed, again, flows>>
-----------------------------------------------------------------------------
(***************************************************************************)
(* Listeners and flows.                                                    *)
(***************************************************************************)
Listen(l, p) ==
  /\ svc = "running" /\ port[l] = Absent
  /\ 0 < p /\ p < MaxPort /\ bound[p] = Absent
  /\ port' = [port EXCEPT ![l] = p]
  /\ bound' = [bound EXCEPT ![p] = l]
  /\ UNCHANGED <<opts, svc, nebula, ctxDone, open, loop, closed, again, flows>>

\* Wrong on purpose: the port is not given back.
ListenerCloseKeepsPort(l) ==
  /\ port[l] # Absent
  /\ again' = IF l \in closed THEN again \cup {port[l]} ELSE again
  /\ closed' = closed \cup {l}
  /\ UNCHANGED <<opts, svc, nebula, ctxDone, open, loop, bound, port, flows>>

\* The port is freed whoever holds it by now, the channel closed once.
ListenerClose(l) ==
  /\ port[l] # Absent
  /\ bound' = [bound EXCEPT ![port[l]] = Absent]
  /\ again' = IF l \in closed THEN again \cup {port[l]} ELSE again
  /\ closed' = closed \cup {l}
  /\ UNCHANGED <<opts, svc, nebula, ctxDone, open, loop, port, flows>>

\* Somebody is in Accept; with the listener closed as well, select may choose
\* either.
Accept(f) ==
  /\ flows[f].at = "handing"
  /\ flows' = [flows EXCEPT ![f] = [at |-> "accepted", on |-> Absent]]
  /\ UNCHANGED <<opts, svc, nebula, ctxDone, open, loop, bound, port, closed, again>>

\* Wrong on purpose: only the end of the service releases a connection that
\* nobody accepts.
HandOverEndsLate(f) ==
  /\ flows[f].at = "handing" /\ ctxDone
  /\ flows' = [flows EXCEPT ![f] = [at |-> "closed", on |-> Absent]]
  /\ UNCHANGED <<opts, svc, nebula, ctxDone, open, loop, bound, port, closed, again>>

HandOverEnds(f) ==
  /\ flows[f].at = "handing" /\ (flows[f].on \in closed \/ ctxDone)
  /\ flows' = [flows EXCEPT ![f] = [at |-> "closed", on |-> Absent]]
  /\ UNCHANGED <<opts, svc, nebula, ctxDone, open, loop, bound, port, closed, again>>

\* The goroutine of forwardTCP and forwardUDP: a dial under the service's
\* context, and the flow it leads to, which the context does not reach.
Dial(f) ==
  /\ flows[f].at = "dialing"
  /\ \E at \in {"closed"} \cup (IF ctxDone THEN {} ELSE {"spliced"}) :
       flows' = [flows EXCEPT ![f].at = at]
  /\ UNCHANGED <<opts, svc, nebula, ctxDone, open, loop, bound, port, closed, again>>

SpliceEnds(f) ==
  /\ flows[f].at = "spliced"
  /\ flows' = [flows EXCEPT ![f].at = "closed"]
  /\ UNCHANGED <<opts, svc, nebula, ctxDone, open, loop, bound, port, closed, again>>
-----------------------------------------------------------------------------
NetNext ==
  \/ NewStart \/ NewFails \/ NewSucceeds
  \/ ToDevice \/ ReaderTakes \/ WriterTakes \/ FromDevice \/ Closer
  \/ ServiceClose \/ DeviceClose \/ NebulaStopped
  \/ \E x \in Loops : LoopEnds(x)
  \/ \E x \in Threads : ThreadEnds(x)
  \/ \E l \in Listeners : ListenerClose(l) \/ \E p \in Ports : Listen(l, p)
  \/ \E f \in Flows : Arrive(f) \/ Accept(f) \/ HandOverEnds(f) \/ Dial(f) \/ SpliceEnds(f)

\* What is bound to happen: goroutines run, a dial has a timeout, and nebula
\* stops when it is told to.  Each of these happens once at most to what it
\* happens to, so none can keep another waiting for ever.
NetProgress ==
  \/ Closer \/ DeviceClose \/ NebulaStopped
  \/ \E x \in Loops : LoopEnds(x)
  \/ \E x \in Threads : ThreadEnds(x)
  \/ \E f \in Flows : HandOverEnds(f) \/ Dial(f)

NetSpec == NetInit /\ [][NetNext]_netVars /\ WF_netVars(NetProgress)
-----------------------------------------------------------------------------
\* A listener that is open is the one its port leads to, and one that is closed
\* leads nowhere; except where a listener was closed again after its port had
\* gone to another, which takes the port from that one.
ListenersReachable ==
  \A l \in Listeners : port[l] # Absent /\ port[l] \notin again =>
    (bound[port[l]] = l <=> l \notin closed)

\* A connection on its way to a listener is accepted or closed once the
\* listener or the service is, and is not left open with nobody to read it.
NoneStranded ==
  \A f \in Flows :
    (flows[f].at = "handing" /\ (flows[f].on \in closed \/ ctxDone)) ~> (flows[f].at \in {"accepted", "closed"})

\* "Close stops nebula, which stops the stack": Service.Wait returns, whichever
\* packet was on its way in either direction when it was closed.
CloseEndsWait ==
  (svc = "running" /\ nebula = "stopping") ~> (nebula = "stopped" /\ \A x \in Loops : loop[x] = "ended")
=============================================================================
