------------------------------ MODULE Requests ------------------------------
(***************************************************************************)
(* What the hub does with a request a machine has signed: the clock and    *)
(* the nonce it is checked with, the instance it is resolved to, and the   *)
(* operation, which comes after the locks of both are released.  The       *)
(* network loses requests, delays them and delivers them more than once.   *)
(* Signatures are external: a request is from whom it says, unaltered.     *)
(***************************************************************************)
EXTENDS Integers, Sequences

CONSTANTS
  Machines,     \* identities
  Names,        \* names of instances
  MaxIds,       \* bound on the instances ever created
  MaxRequests,  \* bound on the requests ever signed
  Window,       \* how far apart the two clocks may be, and how long a nonce is kept
  MaxTime,      \* bound on the hub's clock
  MaxBehind,    \* how far a machine's clock may be behind the hub's
  Nobody

ASSUME RequestsAssumption ==
  /\ {MaxIds, MaxRequests, MaxTime, MaxBehind} \subseteq Nat /\ Window \in Nat \ {0}

InstanceIds == 1 .. MaxIds
Reqs == 1 .. MaxRequests

VARIABLES
  now,        \* the hub's clock
  behind,     \* for each machine, how far its clock is behind the hub's
  known,      \* registered machines, which module Registration is about
  insts,      \* for each id ever used its instance, or Nobody once deleted
  sent,       \* the requests signed so far
  seen,       \* MemoryNonces.seen: for each request the expiry of its nonce, or -1
  swept,      \* MemoryNonces.swept
  handling,   \* requests past their checks: [req, id] with the instance resolved
  acts        \* for each request, whose instance it was done to, each time since the
              \* hub started

reqVars == <<now, behind, known, insts, sent, seen, swept, handling, acts>>

\* A machine names an instance by its name or by an id it was told.
NewRequest(m) == [who : {m}, op : {"create"}, ref : Names]
                   \cup [who : {m}, op : {"owner"}, ref : Names \cup DOMAIN insts]

ReqInit ==
  /\ now = 0
  /\ behind \in [Machines -> 0 .. MaxBehind]
  /\ known \in SUBSET Machines
  /\ insts \in {<<[name |-> n, owner |-> m]>> : n \in Names, m \in known}
  /\ sent = <<>>
  /\ seen = [r \in Reqs |-> -1]
  /\ swept = -Window - 1
  /\ handling = {} /\ acts = [r \in Reqs |-> <<>>]
-----------------------------------------------------------------------------
\* hubClient.do: the request carries the machine's own time.
do(q) ==
  /\ Len(sent) < MaxRequests
  /\ sent' = Append(sent, [who |-> q.who, op |-> q.op, ref |-> q.ref, ts |-> now - behind[q.who], at |-> now])
  /\ UNCHANGED <<now, behind, known, insts, seen, swept, handling, acts>>

Clock ==
  /\ now < MaxTime
  /\ now' = now + 1
  /\ UNCHANGED <<behind, known, insts, sent, seen, swept, handling, acts>>

\* Nonces that have expired are dropped, when the last time was long ago.
Sweep(s) == IF now - swept > Window THEN [r \in Reqs |-> IF now > s[r] THEN -1 ELSE s[r]] ELSE s

\* Wrong on purpose: a nonce is kept for less than a request is good for.
ExpiryShort == now + Window - 1

Expiry == now + Window

\* MemoryNonces.Use, and whether the nonce was fresh.
Fresh(r) == Sweep(seen)[r] = -1 \/ now >= Sweep(seen)[r]

Use(r) ==
  /\ seen' = IF Fresh(r) THEN [Sweep(seen) EXCEPT ![r] = Expiry] ELSE Sweep(seen)
  /\ swept' = IF now - swept > Window THEN now ELSE swept

\* VerifyRequest, up to the nonce: the time has to be near enough.
Recent(q) == now - q.ts <= Window /\ q.ts - now <= Window

\* Store.Resolve: an id wins, a name has to be the only one.
Resolve(ref) ==
  IF ref \in DOMAIN insts /\ insts[ref] # Nobody THEN {ref}
  ELSE LET named == {i \in DOMAIN insts : insts[i] # Nobody /\ insts[i].name = ref}
       IN  {i \in named : named = {i}}

\* The instances the caller may go on with: one, or none.
ownerOnly(q) == {i \in Resolve(q.ref) : insts[i].owner = q.who}

\* A request, or a copy of one, arrives: later than it was signed, as a network
\* takes some time.  signed lets it through to its handler or answers with an
\* error.
signed(r) ==
  LET q == sent[r]
  IN  /\ now > q.at
      /\ IF ~Recent(q) THEN UNCHANGED <<seen, swept, handling>>
         ELSE /\ Use(r)
              /\ handling' =
                   handling \cup
                     IF ~Fresh(r) \/ q.who \notin known THEN {}
                     ELSE IF q.op = "create" THEN {[req |-> r, id |-> 0]}
                     ELSE {[req |-> r, id |-> i] : i \in ownerOnly(q)}
      /\ UNCHANGED <<now, behind, known, insts, sent, acts>>

\* handleCreateInstance: the name is compared when the instance is added.
handleCreateInstance(h) ==
  LET q == sent[h.req]
      taken == \E i \in DOMAIN insts : insts[i] # Nobody /\ insts[i].name = q.ref
  IN  /\ q.op = "create"
      /\ \/ taken /\ UNCHANGED <<insts, acts>>
         \/ /\ ~taken /\ Len(insts) < MaxIds
            /\ insts' = Append(insts, [name |-> q.ref, owner |-> q.who])
            /\ acts' = [acts EXCEPT ![h.req] = Append(@, q.who)]
      /\ handling' = handling \ {h}
      /\ UNCHANGED <<now, behind, known, sent, seen, swept>>

\* Wrong on purpose: the handler goes by what the request names, again.
handleOwnerByName(h) ==
  LET q == sent[h.req]
      there == Resolve(q.ref)
  IN  /\ q.op = "owner"
      /\ IF there = {} THEN UNCHANGED acts
         ELSE \E i \in there : acts' = [acts EXCEPT ![h.req] = Append(@, insts[i].owner)]
      /\ \/ UNCHANGED insts
         \/ insts' = [i \in DOMAIN insts |-> IF i \in there THEN Nobody ELSE insts[i]]
      /\ handling' = handling \ {h}
      /\ UNCHANGED <<now, behind, known, sent, seen, swept>>

\* The handlers of an owner's requests, of which one deletes the instance: each
\* does what it does to the id it was given, if that is still there, and else
\* answers with an error.
handleOwner(h) ==
  LET q == sent[h.req]
      there == {h.id} \cap {i \in DOMAIN insts : insts[i] # Nobody}
  IN  /\ q.op = "owner"
      /\ IF there = {} THEN UNCHANGED acts
         ELSE \E i \in there : acts' = [acts EXCEPT ![h.req] = Append(@, insts[i].owner)]
      /\ \/ UNCHANGED insts
         \/ insts' = [i \in DOMAIN insts |-> IF i \in there THEN Nobody ELSE insts[i]]
      /\ handling' = handling \ {h}
      /\ UNCHANGED <<now, behind, known, sent, seen, swept>>

\* The hub starts again, with no nonces.
ReqRestart ==
  /\ seen' = [r \in Reqs |-> -1] /\ swept' = -Window - 1
  /\ handling' = {} /\ acts' = [r \in Reqs |-> <<>>]
  /\ UNCHANGED <<now, behind, known, insts, sent>>

ReqNext ==
  \/ Clock \/ ReqRestart
  \/ \E m \in Machines : \E q \in NewRequest(m) : do(q)
  \/ \E r \in DOMAIN sent : signed(r)
  \/ \E h \in handling : handleCreateInstance(h) \/ handleOwner(h)

ReqSpec == ReqInit /\ [][ReqNext]_reqVars
-----------------------------------------------------------------------------
\* VerifyRequest: "the request really came from it, unaltered, recently, and
\* once".  However late and however often it is delivered, a request is done
\* once at most while the hub runs; a clock ahead of the hub's is not covered.
ActedOnce == \A r \in Reqs : Len(acts[r]) <= 1

\* "only the owner of that instance may do that": what a request is done to
\* belongs to whoever signed it, though the instance was resolved under one
\* lock and is changed under another, and its name may have gone to somebody
\* else's in between.
OnlyOwnersAct == \A r \in Reqs : \A k \in DOMAIN acts[r] : acts[r][k] = sent[r].who
=============================================================================
