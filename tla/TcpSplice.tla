----------------------------- MODULE TcpSplice -----------------------------
(***************************************************************************)
(* One TCP flow through the connector: forwardTCP accepts it in the user   *)
(* space stack and dials its destination on the host network, spliceTCP    *)
(* copies both ways until both ways are done.  The peer on the mesh and    *)
(* the peer on the host network write, finish writing, or reset, whenever  *)
(* they like.  TCP itself is external: it delivers in order, holds back    *)
(* what does not fit, and takes a close with unread data for a reset.      *)
(***************************************************************************)
EXTENDS Naturals, Sequences

CONSTANTS
  MaxSent,   \* bound on what each peer writes
  Room       \* how much a connection holds that its peer has not read

ASSUME TcpAssumption == MaxSent \in Nat /\ Room \in Nat \ {0}

Ends == {"mesh", "host"}
Other(e) == IF e = "mesh" THEN "host" ELSE "mesh"

VARIABLES
  stage,     \* the goroutine of forwardTCP: "dialing", "splicing", and then
             \* "closed", or "refused" when there was nothing to splice
  peer,      \* for each end, "open", "finished" or "reset": the peer's writing side
  sent,      \* for each end, how much its peer has written
  arrived,   \* for each end, what it wrote that nobody has read yet
  copier,    \* for each end, the io.Copy that reads from it
  leaving,   \* for each end, what was written to it that its peer has not read
  shut,      \* for each end, "no", "fin" or "rst": how our side of it was closed
  got,       \* for each end, what its peer has read
  eof        \* for each end, whether its peer has read the end of the stream

tcpVars == <<stage, peer, sent, arrived, copier, leaving, shut, got, eof>>

Reading == [at |-> "read", buf |-> <<>>]
Done == [at |-> "done", buf |-> <<>>]

TcpInit ==
  /\ stage = "dialing"
  /\ peer = [e \in Ends |-> "open"]
  /\ sent = [e \in Ends |-> 0]
  /\ arrived = [e \in Ends |-> <<>>]
  /\ copier = [e \in Ends |-> Reading]
  /\ leaving = [e \in Ends |-> <<>>]
  /\ shut = [e \in Ends |-> "no"]
  /\ got = [e \in Ends |-> <<>>]
  /\ eof = [e \in Ends |-> FALSE]
-----------------------------------------------------------------------------
(***************************************************************************)
(* The peers, and TCP between them and us.                                 *)
(***************************************************************************)
\* The host's peer is there once the dial has succeeded.
Connected(e) == stage = "splicing" \/ (stage = "dialing" /\ e = "mesh")

Send(e) ==
  /\ Connected(e) /\ peer[e] = "open"
  /\ sent[e] < MaxSent /\ Len(arrived[e]) < Room
  /\ sent' = [sent EXCEPT ![e] = @ + 1]
  /\ arrived' = [arrived EXCEPT ![e] = Append(@, sent[e] + 1)]
  /\ UNCHANGED <<stage, peer, copier, leaving, shut, got, eof>>

Finish(e) ==
  /\ Connected(e) /\ peer[e] = "open"
  /\ peer' = [peer EXCEPT ![e] = "finished"]
  /\ UNCHANGED <<stage, sent, arrived, copier, leaving, shut, got, eof>>

ResetByPeer(e) ==
  /\ Connected(e) /\ peer[e] # "reset"
  /\ peer' = [peer EXCEPT ![e] = "reset"]
  /\ leaving' = [leaving EXCEPT ![e] = <<>>]
  /\ UNCHANGED <<stage, sent, arrived, copier, shut, got, eof>>

Receive(e) ==
  /\ leaving[e] # <<>> /\ peer[e] # "reset"
  /\ got' = [got EXCEPT ![e] = Append(@, Head(leaving[e]))]
  /\ leaving' = [leaving EXCEPT ![e] = Tail(@)]
  /\ UNCHANGED <<stage, peer, sent, arrived, copier, shut, eof>>

ReceiveEof(e) ==
  /\ leaving[e] = <<>> /\ shut[e] = "fin" /\ peer[e] # "reset" /\ ~eof[e]
  /\ eof' = [eof EXCEPT ![e] = TRUE]
  /\ UNCHANGED <<stage, peer, sent, arrived, copier, leaving, shut, got>>

\* net.Conn.Close: with something unread it is a reset, and what was on its
\* way is lost with it.
Close(e, s) == [s EXCEPT ![e] = IF arrived[e] # <<>> THEN "rst" ELSE IF @ = "no" THEN "fin" ELSE @]
Lost(e, l) == [l EXCEPT ![e] = IF arrived[e] # <<>> THEN <<>> ELSE @]
-----------------------------------------------------------------------------
(***************************************************************************)
(* forwardTCP and spliceTCP.                                               *)
(***************************************************************************)
DialSucceeds ==
  /\ stage = "dialing"
  /\ stage' = "splicing"
  /\ UNCHANGED <<peer, sent, arrived, copier, leaving, shut, got, eof>>

\* Refused, timed out, or the service is stopping.
DialFails ==
  /\ stage = "dialing"
  /\ stage' = "refused"
  /\ shut' = Close("mesh", shut)
  /\ UNCHANGED <<peer, sent, arrived, copier, leaving, got, eof>>

\* io.Copy reads what there is, up to its buffer.
CopyRead(e) ==
  /\ stage = "splicing" /\ copier[e].at = "read" /\ arrived[e] # <<>>
  /\ \E n \in 1 .. Len(arrived[e]) :
       /\ copier' = [copier EXCEPT ![e] = [at |-> "write", buf |-> SubSeq(arrived[e], 1, n)]]
       /\ arrived' = [arrived EXCEPT ![e] = SubSeq(@, n + 1, Len(@))]
  /\ UNCHANGED <<stage, peer, sent, leaving, shut, got, eof>>

\* A write goes on, as there is room, until the buffer is empty.
CopyWrite(e) ==
  LET c == copier[e]
  IN  /\ stage = "splicing" /\ c.at = "write"
      /\ peer[Other(e)] # "reset" /\ Len(leaving[Other(e)]) < Room
      /\ leaving' = [leaving EXCEPT ![Other(e)] = Append(@, Head(c.buf))]
      /\ copier' = [copier EXCEPT ![e] = IF Len(c.buf) = 1 THEN Reading ELSE [c EXCEPT !.buf = Tail(@)]]
      /\ UNCHANGED <<stage, peer, sent, arrived, shut, got, eof>>

\* Wrong on purpose: the end of one stream is not passed on.
CopyEofKept(e) ==
  /\ stage = "splicing" /\ copier[e].at = "read" /\ arrived[e] = <<>> /\ peer[e] = "finished"
  /\ copier' = [copier EXCEPT ![e] = Done]
  /\ UNCHANGED <<stage, peer, sent, arrived, leaving, shut, got, eof>>

\* The stream ended: its end is passed on, and this way is done.
CopyEof(e) ==
  /\ stage = "splicing" /\ copier[e].at = "read" /\ arrived[e] = <<>> /\ peer[e] = "finished"
  /\ shut' = [shut EXCEPT ![Other(e)] = IF peer[Other(e)] = "reset" THEN @ ELSE "fin"]
  /\ copier' = [copier EXCEPT ![e] = Done]
  /\ UNCHANGED <<stage, peer, sent, arrived, leaving, got, eof>>

\* Reading from a peer that reset, with or without what had arrived before,
\* or writing to one: io.Copy fails, nothing is passed on, this way is done.
CopyFails(e) ==
  /\ stage = "splicing"
  /\ \/ copier[e].at = "read" /\ peer[e] = "reset"
     \/ copier[e].at = "write" /\ peer[Other(e)] = "reset"
  /\ copier' = [copier EXCEPT ![e] = Done]
  /\ UNCHANGED <<stage, peer, sent, arrived, leaving, shut, got, eof>>

\* Wrong on purpose: the first way that is done ends the flow.
TeardownFirst ==
  /\ stage = "splicing"
  /\ \E e \in Ends : copier[e] = Done
  /\ stage' = "closed"
  /\ shut' = Close("mesh", Close("host", shut))
  /\ leaving' = Lost("mesh", Lost("host", leaving))
  /\ UNCHANGED <<peer, sent, arrived, copier, got, eof>>

\* Wrong on purpose: a way that failed does not signal.
TeardownClean ==
  /\ stage = "splicing"
  /\ \A e \in Ends : copier[e] = Done /\ peer[e] = "finished"
  /\ stage' = "closed"
  /\ shut' = Close("mesh", Close("host", shut))
  /\ leaving' = Lost("mesh", Lost("host", leaving))
  /\ UNCHANGED <<peer, sent, arrived, copier, got, eof>>

\* Both ways have signalled: outbound.Close, inbound.Close.
Teardown ==
  /\ stage = "splicing"
  /\ \A e \in Ends : copier[e] = Done
  /\ stage' = "closed"
  /\ shut' = Close("mesh", Close("host", shut))
  /\ leaving' = Lost("mesh", Lost("host", leaving))
  /\ UNCHANGED <<peer, sent, arrived, copier, got, eof>>

Copying(e) == CopyRead(e) \/ CopyWrite(e) \/ CopyEof(e) \/ CopyFails(e)

TcpNext ==
  \/ DialSucceeds \/ DialFails \/ Teardown
  \/ \E e \in Ends : \/ Send(e) \/ Finish(e) \/ ResetByPeer(e) \/ Receive(e) \/ ReceiveEof(e)
                     \/ Copying(e)

\* What is bound to happen: goroutines run, the dial has a timeout, and a peer
\* that is there reads what reaches it.  Nothing makes a peer write, finish or
\* reset; what a peer wrote is finite, so no way can keep the other waiting.
TcpProgress ==
  \/ DialSucceeds \/ DialFails \/ Teardown
  \/ \E e \in Ends : Copying(e) \/ Receive(e) \/ ReceiveEof(e)

TcpSpec == TcpInit /\ [][TcpNext]_tcpVars /\ WF_tcpVars(TcpProgress)
-----------------------------------------------------------------------------
NoReset == \A e \in Ends : peer[e] # "reset"

\* spliceTCP carries a stream: what a peer has read is the beginning of what
\* the other has written, with nothing missing, repeated or out of order,
\* however the reads and writes of the two copiers fell.  "propagating the half
\* close so protocols relying on EOF still work": of a flow nobody reset, a peer
\* reads the end only after everything the other wrote, and only once the other
\* has finished.
StreamsWhole ==
  \A e \in Ends :
    /\ got[e] = [i \in 1 .. Len(got[e]) |-> i] /\ Len(got[e]) <= sent[Other(e)]
    /\ eof[e] /\ stage # "refused" /\ NoReset =>
         peer[Other(e)] = "finished" /\ Len(got[e]) = sent[Other(e)]

\* "A half closed connection may still have data coming back": what one peer
\* writes reaches the other, finished writing or not, and one that finishes is
\* seen to finish, though the other says nothing, unless somebody resets.
StreamsArrive ==
  \A e \in Ends :
    []<>(stage \in {"dialing", "refused"} \/ ~NoReset
         \/ (Len(got[Other(e)]) = sent[e] /\ (peer[e] = "finished" => eof[Other(e)])))

\* A flow whose peers have both ended, either way, gives its connections back.
FlowEnds == (stage = "splicing" /\ \A e \in Ends : peer[e] # "open") ~> (stage = "closed")
=============================================================================
