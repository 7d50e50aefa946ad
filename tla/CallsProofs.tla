---------------------------- MODULE CallsProofs -----------------------------
(* Proofs about the requests the hub's owners sign and the decisions they   *)
(* take, for every value of the constants.                                  *)
EXTENDS Requests, Decisions, TLAPS

(***************************************************************************)
(* Requests.  A request that was let through is not let through again:     *)
(* while its time stamp is good, its nonce is kept.                        *)
(***************************************************************************)
SignedRequest == [who : Machines, op : {"create", "owner"}, ref : Names \cup Nat, ts : Int, at : Nat]
InstanceRecord == [name : Names \cup Nat, owner : Machines]

ReqTypeOK ==
  /\ now \in Nat /\ behind \in [Machines -> Nat]
  /\ insts \in Seq(InstanceRecord \cup {Nobody})
  /\ sent \in Seq(SignedRequest) /\ Len(sent) <= MaxRequests
  /\ seen \in [Reqs -> Int] /\ swept \in Int
  /\ handling \subseteq [req : DOMAIN sent, id : Nat]
  /\ acts \in [Reqs -> Seq(Machines)]

\* A request was signed in the past, by a clock that was not ahead.
Stamped == \A r \in DOMAIN sent : sent[r].ts <= sent[r].at /\ sent[r].at <= now

Outlived(r) == now > sent[r].ts + Window
Kept(r) == seen[r] # -1 /\ seen[r] > sent[r].ts + Window

LetThrough(r) == acts[r] # <<>> \/ \E h \in handling : h.req = r

\* The nonce of a request that was let through outlives its time stamp.
NonceHolds == \A r \in Reqs : LetThrough(r) => r \in DOMAIN sent /\ (Outlived(r) \/ Kept(r))

\* A request that is being handled is handled once and was not done before.
HandledOnce ==
  /\ \A h, g \in handling : h.req = g.req => h = g
  /\ \A h \in handling : acts[h.req] = <<>>

\* The instance a handler was given is the caller's, or gone.
ResolvedToOwn ==
  \A h \in handling : sent[h.req].op = "owner" =>
    /\ h.id \in DOMAIN insts
    /\ insts[h.id] # Nobody => insts[h.id].owner = sent[h.req].who

ReqInv == ReqTypeOK /\ Stamped /\ NonceHolds /\ HandledOnce /\ ActedOnce /\ ResolvedToOwn /\ OnlyOwnersAct

LEMMA ReqInitInv == ReqInit => ReqInv
<1>. SUFFICES ASSUME ReqInit PROVE ReqInv
  OBVIOUS
<1>. USE RequestsAssumption DEF ReqInit
<1>1. ReqTypeOK
  <2>1. PICK n \in Names, m \in known : insts = <<[name |-> n, owner |-> m]>>
    OBVIOUS
  <2>2. [name |-> n, owner |-> m] \in InstanceRecord
    BY DEF InstanceRecord
  <2>3. insts \in Seq(InstanceRecord \cup {Nobody})
    BY <2>1, <2>2
  <2>. QED  BY <2>3 DEF ReqTypeOK, Reqs
<1>2. Stamped /\ NonceHolds /\ HandledOnce /\ ActedOnce /\ ResolvedToOwn /\ OnlyOwnersAct
  BY DEF Stamped, NonceHolds, HandledOnce, ActedOnce, ResolvedToOwn, OnlyOwnersAct, LetThrough
<1>. QED  BY <1>1, <1>2 DEF ReqInv

\* What is known of a request that was signed, and of the values of time.
LEMMA SentTyped ==
  ASSUME ReqTypeOK
  PROVE  /\ DOMAIN sent = 1 .. Len(sent) /\ DOMAIN sent \subseteq Reqs
         /\ \A r \in DOMAIN sent : /\ sent[r].ts \in Int /\ sent[r].at \in Int /\ sent[r].who \in Machines
                                  /\ sent[r].op \in {"create", "owner"}
         /\ now \in Int /\ Window \in Int /\ Window > 0 /\ swept \in Int
         /\ seen \in [Reqs -> Int] /\ \A r \in Reqs : seen[r] \in Int
<1>1. \A r \in DOMAIN sent : sent[r] \in SignedRequest
  BY DEF ReqTypeOK
<1>2. DOMAIN sent = 1 .. Len(sent) /\ DOMAIN sent \subseteq Reqs
  BY RequestsAssumption DEF ReqTypeOK, Reqs
<1>. QED  BY <1>1, <1>2, RequestsAssumption, SMTT(30) DEF ReqTypeOK, SignedRequest

\* Resolve finds one instance at most, and one that is there.
LEMMA ResolvedIsOne ==
  ASSUME ReqTypeOK, NEW ref
  PROVE  /\ \A i \in Resolve(ref) : i \in DOMAIN insts /\ insts[i] # Nobody
         /\ \A i, j \in Resolve(ref) : i = j
<1>1. CASE ref \in DOMAIN insts /\ insts[ref] # Nobody
  BY <1>1 DEF Resolve
<1>2. CASE ~(ref \in DOMAIN insts /\ insts[ref] # Nobody)
  BY <1>2 DEF Resolve
<1>. QED  BY <1>1, <1>2

\* The clock, and requests being signed: nothing that was let through changes.
LEMMA ReqClockStep ==
  ASSUME ReqInv, Clock
  PROVE  ReqInv'
<1>. USE RequestsAssumption DEF Clock, ReqInv
<1>1. ReqTypeOK'
  BY DEF ReqTypeOK
<1>2. Stamped'
  BY SentTyped, SMTT(30) DEF Stamped
<1>3. NonceHolds'
  BY SentTyped, SMTT(30) DEF NonceHolds, LetThrough, Outlived, Kept
<1>4. HandledOnce' /\ ActedOnce' /\ ResolvedToOwn' /\ OnlyOwnersAct'
  BY DEF HandledOnce, ActedOnce, ResolvedToOwn, OnlyOwnersAct
<1>. QED  BY <1>1, <1>2, <1>3, <1>4

LEMMA ReqSignStep ==
  ASSUME ReqInv, NEW m \in Machines, NEW q \in NewRequest(m), do(q)
  PROVE  ReqInv'
<1>. USE RequestsAssumption DEF ReqInv
<1>. DEFINE new == [who |-> q.who, op |-> q.op, ref |-> q.ref, ts |-> now - behind[q.who], at |-> now]
<1>1. q.who \in Machines /\ q.op \in {"create", "owner"} /\ q.ref \in Names \cup Nat
  BY DEF NewRequest, ReqTypeOK
<1>2. new \in SignedRequest /\ new.ts <= new.at /\ new.at <= now
  BY <1>1 DEF ReqTypeOK, SignedRequest
<1>3. /\ sent' = Append(sent, new) /\ sent' \in Seq(SignedRequest)
      /\ Len(sent') = Len(sent) + 1 /\ Len(sent') <= MaxRequests
      /\ DOMAIN sent' = DOMAIN sent \cup {Len(sent) + 1} /\ DOMAIN sent = 1 .. Len(sent)
      /\ \A r \in DOMAIN sent : sent'[r] = sent[r]
      /\ sent'[Len(sent) + 1] = new
  <2>. HIDE DEF new
  <2>1. sent' = Append(sent, new)
    BY DEF do, new
  <2>. QED  BY <1>2, <2>1, SMTT(30) DEF do, ReqTypeOK
<1>4. UNCHANGED <<now, behind, known, insts, seen, swept, handling, acts>>
  BY DEF do
<1>. HIDE DEF new
<1>5. ReqTypeOK'
  BY <1>3, <1>4, Zenon DEF ReqTypeOK
<1>6. Stamped'
  BY <1>2, <1>3, <1>4, Zenon DEF Stamped
<1>7. NonceHolds'
  BY <1>3, <1>4, Zenon DEF NonceHolds, LetThrough, Outlived, Kept
<1>8. HandledOnce' /\ ActedOnce'
  BY <1>4 DEF HandledOnce, ActedOnce
<1>9. ResolvedToOwn'
  BY <1>3, <1>4, Zenon DEF ResolvedToOwn, ReqTypeOK
<1>10. OnlyOwnersAct'
  <2>. SUFFICES ASSUME NEW r \in Reqs, NEW k \in DOMAIN acts[r] PROVE acts[r][k] = sent'[r].who
    BY <1>4, Zenon DEF OnlyOwnersAct
  <2>1. LetThrough(r)
    BY DEF LetThrough, ReqTypeOK
  <2>2. r \in DOMAIN sent
    BY <2>1 DEF NonceHolds
  <2>. QED  BY <1>3, <2>2, Zenon DEF OnlyOwnersAct
<1>. QED  BY <1>5, <1>6, <1>7, <1>8, <1>9, <1>10

\* What sweeping leaves of a nonce that is still needed.
LEMMA SweepKeeps ==
  ASSUME ReqInv, NEW r \in Reqs, LetThrough(r)
  PROVE  /\ Sweep(seen) \in [Reqs -> Int]
         /\ Outlived(r) \/ (Sweep(seen)[r] # -1 /\ Sweep(seen)[r] > sent[r].ts + Window)
<1>1. r \in DOMAIN sent /\ (Outlived(r) \/ Kept(r))
  BY DEF ReqInv, NonceHolds
<1>2. ReqTypeOK
  BY DEF ReqInv
<1>. QED  BY <1>1, <1>2, SentTyped DEF Sweep, Outlived, Kept

\* A request that is recent and whose nonce is fresh was not let through before.
LEMMA FreshIsNew ==
  ASSUME ReqInv, NEW r \in DOMAIN sent, Recent(sent[r]), Fresh(r)
  PROVE  ~LetThrough(r)
<1>1. ReqTypeOK
  BY DEF ReqInv
<1>2. SUFFICES ASSUME LetThrough(r) PROVE FALSE
  OBVIOUS
<1>3. r \in Reqs
  BY <1>1, SentTyped
<1>4. /\ Sweep(seen) \in [Reqs -> Int]
      /\ Outlived(r) \/ (Sweep(seen)[r] # -1 /\ Sweep(seen)[r] > sent[r].ts + Window)
  BY <1>2, <1>3, SweepKeeps
<1>5. Sweep(seen)[r] \in Int
  BY <1>3, <1>4
<1>. QED  BY <1>1, <1>4, <1>5, SentTyped, SMTT(30) DEF Recent, Fresh, Outlived

LEMMA ReqSignedStep ==
  ASSUME ReqInv, NEW r \in DOMAIN sent, signed(r)
  PROVE  ReqInv'
<1>. DEFINE q == sent[r]
            added == IF ~Fresh(r) \/ q.who \notin known THEN {}
                     ELSE IF q.op = "create" THEN {[req |-> r, id |-> 0]}
                     ELSE {[req |-> r, id |-> i] : i \in ownerOnly(q)}
<1>1. ReqTypeOK /\ Stamped /\ NonceHolds /\ HandledOnce /\ ActedOnce /\ ResolvedToOwn /\ OnlyOwnersAct
  BY DEF ReqInv
<1>2. now > q.at /\ UNCHANGED <<now, behind, known, insts, sent, acts>>
  BY DEF signed
<1>3. CASE ~Recent(q)
  <2>1. UNCHANGED reqVars
    BY <1>2, <1>3, Zenon DEF signed, reqVars
  <2>. QED
    BY <1>1, <2>1, Zenon DEF reqVars, ReqInv, ReqTypeOK, Stamped, NonceHolds, HandledOnce, ActedOnce, ResolvedToOwn,
                      OnlyOwnersAct, LetThrough, Outlived, Kept
<1>4. CASE Recent(q)
  <2>1. Use(r) /\ handling' = handling \cup added
    BY <1>4 DEF signed
  <2>2. r \in Reqs /\ q.ts \in Int /\ q.at \in Int /\ q.ts <= q.at /\ now \in Int
        /\ Window \in Int /\ Window > 0 /\ Expiry \in Int /\ Expiry > q.ts + Window /\ Expiry # -1
    BY <1>1, <1>2, SentTyped, SMTT(30) DEF Stamped, Expiry, ReqTypeOK
  <2>3. Sweep(seen) \in [Reqs -> Int]
    BY <1>1, SentTyped DEF Sweep
  <2>4. /\ seen' \in [Reqs -> Int] /\ swept' \in Int
        /\ \A s \in Reqs \ {r} : seen'[s] = Sweep(seen)[s]
        /\ Fresh(r) => seen'[r] = Expiry
        /\ ~Fresh(r) => seen'[r] = Sweep(seen)[r]
    BY <1>1, <2>1, <2>2, <2>3, SentTyped, Zenon DEF Use
  <2>5. \A i \in ownerOnly(q) : i \in DOMAIN insts /\ insts[i] # Nobody /\ insts[i].owner = q.who
    BY <1>1, ResolvedIsOne DEF ownerOnly
  <2>6. \A i, j \in ownerOnly(q) : i = j
    BY <1>1, ResolvedIsOne DEF ownerOnly
  <2>7. \A h \in added : /\ Fresh(r) /\ h.req = r /\ h \in [req : DOMAIN sent, id : Nat]
                         /\ q.op = "owner" => h.id \in ownerOnly(q)
    BY <1>1, <2>5 DEF ReqTypeOK
  <2>8. \A h, g \in added : h = g
    BY <2>6
  <2>9. added # {} => ~LetThrough(r)
    BY <1>4, <2>7, FreshIsNew, Zenon
  <2>. HIDE DEF added
  <2>10. ReqTypeOK'
    BY <1>1, <1>2, <2>1, <2>4, <2>7, Zenon DEF ReqTypeOK
  <2>11. Stamped' /\ ActedOnce' /\ OnlyOwnersAct'
    BY <1>1, <1>2, Zenon DEF Stamped, ActedOnce, OnlyOwnersAct
  <2>12. NonceHolds'
    <3>. SUFFICES ASSUME NEW s \in Reqs, LetThrough(s)'
                  PROVE  (s \in DOMAIN sent /\ (Outlived(s) \/ Kept(s)))'
      BY DEF NonceHolds
    <3>1. CASE s = r /\ Fresh(r)
      BY <1>2, <2>2, <2>4, <3>1, Zenon DEF Kept
    <3>2. CASE ~(s = r /\ Fresh(r))
      <4>1. LetThrough(s)
        BY <1>2, <2>1, <2>7, <3>2 DEF LetThrough
      <4>2. s \in DOMAIN sent
        BY <1>1, <4>1 DEF NonceHolds
      <4>3. Outlived(s) \/ (Sweep(seen)[s] # -1 /\ Sweep(seen)[s] > sent[s].ts + Window)
        BY <4>1, SweepKeeps, Zenon
      <4>4. seen'[s] = Sweep(seen)[s]
        BY <2>4, <3>2, Zenon
      <4>. QED  BY <1>2, <4>2, <4>3, <4>4, Zenon DEF Outlived, Kept
    <3>. QED  BY <3>1, <3>2, Zenon
  <2>13. HandledOnce'
    BY <1>1, <1>2, <2>1, <2>7, <2>8, <2>9, Zenon DEF HandledOnce, LetThrough
  <2>14. ResolvedToOwn'
    BY <1>1, <1>2, <2>1, <2>5, <2>7, Zenon DEF ResolvedToOwn
  <2>. QED  BY <2>10, <2>11, <2>12, <2>13, <2>14 DEF ReqInv
<1>. QED  BY <1>3, <1>4

\* A handler ends: what it did is the first thing done for its request.
LEMMA ReqHandledStep ==
  ASSUME ReqInv, NEW h \in handling, handling' = handling \ {h},
         UNCHANGED <<now, behind, known, sent, seen, swept>>,
         insts' \in Seq(InstanceRecord \cup {Nobody}), Len(insts) <= Len(insts'),
         \A i \in DOMAIN insts : insts'[i] \in {insts[i], Nobody},
         UNCHANGED acts \/ acts' = [acts EXCEPT ![h.req] = Append(@, sent[h.req].who)]
  PROVE  ReqInv'
<1>1. ReqTypeOK /\ Stamped /\ NonceHolds /\ HandledOnce /\ ActedOnce /\ ResolvedToOwn /\ OnlyOwnersAct
  BY DEF ReqInv
<1>2. h.req \in DOMAIN sent /\ h.req \in Reqs /\ sent[h.req].who \in Machines
  BY <1>1, SentTyped, Zenon DEF ReqTypeOK
<1>3. acts[h.req] = <<>>
  BY <1>1 DEF HandledOnce
<1>4. /\ acts' \in [Reqs -> Seq(Machines)]
      /\ \A r \in Reqs \ {h.req} : acts'[r] = acts[r]
      /\ acts'[h.req] = <<>> \/ acts'[h.req] = <<sent[h.req].who>>
  <2>1. CASE UNCHANGED acts
    BY <1>1, <1>3, <2>1, Zenon DEF ReqTypeOK
  <2>2. CASE acts' = [acts EXCEPT ![h.req] = Append(@, sent[h.req].who)]
    BY <1>1, <1>2, <1>3, <2>2 DEF ReqTypeOK
  <2>. QED  BY <2>1, <2>2, Zenon
<1>5. ReqTypeOK'
  BY <1>1, <1>4, Zenon DEF ReqTypeOK
<1>6. \A r \in Reqs : LetThrough(r)' => LetThrough(r)
  BY <1>4, Zenon DEF LetThrough
<1>7. Stamped' /\ NonceHolds'
  BY <1>1, <1>6, Zenon DEF Stamped, NonceHolds, Outlived, Kept
<1>8. HandledOnce'
  <2>1. \A g \in handling' : g.req # h.req /\ g.req \in Reqs
    BY <1>1, SentTyped, Zenon DEF HandledOnce, ReqTypeOK
  <2>. QED  BY <1>1, <1>4, <2>1, Zenon DEF HandledOnce
<1>9. ActedOnce'
  BY <1>1, <1>4 DEF ActedOnce
<1>10. DOMAIN insts \subseteq DOMAIN insts'
  BY <1>1 DEF ReqTypeOK
<1>11. ResolvedToOwn'
  BY <1>1, <1>10, Zenon DEF ResolvedToOwn
<1>12. OnlyOwnersAct'
  BY <1>1, <1>4 DEF OnlyOwnersAct
<1>. QED  BY <1>5, <1>7, <1>8, <1>9, <1>11, <1>12, Zenon DEF ReqInv

LEMMA ReqCreateStep ==
  ASSUME ReqInv, NEW h \in handling, handleCreateInstance(h)
  PROVE  ReqInv'
<1>. DEFINE q == sent[h.req]
            new == [name |-> q.ref, owner |-> q.who]
<1>1. ReqTypeOK
  BY DEF ReqInv
<1>2. new \in InstanceRecord
  <2>1. q \in SignedRequest
    BY <1>1 DEF ReqTypeOK
  <2>2. q.ref \in Names \cup Nat /\ q.who \in Machines
    BY <2>1 DEF SignedRequest
  <2>. QED  BY <2>2, Zenon DEF InstanceRecord
<1>. HIDE DEF new
<1>3. handling' = handling \ {h} /\ UNCHANGED <<now, behind, known, sent, seen, swept>>
  BY DEF handleCreateInstance
<1>4. CASE UNCHANGED <<insts, acts>>
  BY <1>1, <1>3, <1>4, ReqHandledStep DEF ReqTypeOK
<1>5. CASE insts' = Append(insts, new) /\ acts' = [acts EXCEPT ![h.req] = Append(@, q.who)]
  <2>1. /\ insts' \in Seq(InstanceRecord \cup {Nobody}) /\ Len(insts) <= Len(insts')
        /\ \A i \in DOMAIN insts : insts'[i] = insts[i]
    BY <1>1, <1>2, <1>5 DEF ReqTypeOK
  <2>. QED  BY <1>3, <1>5, <2>1, ReqHandledStep, Zenon
<1>. QED  BY <1>4, <1>5, Zenon DEF handleCreateInstance, new

LEMMA ReqOwnerStep ==
  ASSUME ReqInv, NEW h \in handling, handleOwner(h)
  PROVE  ReqInv'
<1>. DEFINE q == sent[h.req]
            there == {h.id} \cap {i \in DOMAIN insts : insts[i] # Nobody}
<1>1. ReqTypeOK /\ ResolvedToOwn
  BY DEF ReqInv
<1>2. /\ handling' = handling \ {h} /\ UNCHANGED <<now, behind, known, sent, seen, swept>>
      /\ q.op = "owner"
      /\ UNCHANGED acts \/ \E i \in there : acts' = [acts EXCEPT ![h.req] = Append(@, insts[i].owner)]
      /\ UNCHANGED insts \/ insts' = [i \in DOMAIN insts |-> IF i \in there THEN Nobody ELSE insts[i]]
  BY DEF handleOwner
<1>3. \A i \in there : insts[i].owner = q.who
  BY <1>1, <1>2, Zenon DEF ResolvedToOwn
<1>4. UNCHANGED acts \/ acts' = [acts EXCEPT ![h.req] = Append(@, q.who)]
  BY <1>2, <1>3, Zenon
<1>. HIDE DEF there
<1>5. /\ insts' \in Seq(InstanceRecord \cup {Nobody}) /\ Len(insts) <= Len(insts')
      /\ \A i \in DOMAIN insts : insts'[i] \in {insts[i], Nobody}
  <2>1. CASE UNCHANGED insts
    BY <1>1, <2>1 DEF ReqTypeOK
  <2>2. CASE insts' = [i \in DOMAIN insts |-> IF i \in there THEN Nobody ELSE insts[i]]
    <3>1. DOMAIN insts = 1 .. Len(insts) /\ Len(insts) \in Nat
          /\ \A i \in DOMAIN insts : insts[i] \in InstanceRecord \cup {Nobody}
      BY <1>1 DEF ReqTypeOK
    <3>2. insts' \in [1 .. Len(insts) -> InstanceRecord \cup {Nobody}]
      BY <2>2, <3>1
    <3>3. insts' \in Seq(InstanceRecord \cup {Nobody}) /\ Len(insts') = Len(insts)
      BY <3>1, <3>2
    <3>. QED  BY <2>2, <3>1, <3>3
  <2>. QED  BY <1>2, <2>1, <2>2, Zenon
<1>. QED  BY <1>2, <1>4, <1>5, ReqHandledStep, Zenon

\* A hub that starts again has let nothing through.
LEMMA ReqRestartStep ==
  ASSUME ReqInv, ReqRestart
  PROVE  ReqInv'
<1>. USE RequestsAssumption DEF ReqInv, ReqRestart
<1>1. ReqTypeOK'
  BY DEF ReqTypeOK
<1>2. Stamped' /\ NonceHolds' /\ HandledOnce' /\ ActedOnce' /\ ResolvedToOwn' /\ OnlyOwnersAct'
  BY DEF Stamped, NonceHolds, HandledOnce, ActedOnce, ResolvedToOwn, OnlyOwnersAct, LetThrough
<1>. QED  BY <1>1, <1>2, Zenon

LEMMA ReqNextInv == ReqInv /\ [ReqNext]_reqVars => ReqInv'
<1>1. ASSUME ReqInv, UNCHANGED reqVars PROVE ReqInv'
  BY <1>1, Zenon DEF reqVars, ReqInv, ReqTypeOK, Stamped, NonceHolds, HandledOnce, ActedOnce, ResolvedToOwn,
              OnlyOwnersAct, LetThrough, Outlived, Kept
<1>2. ASSUME ReqInv, ReqNext PROVE ReqInv'
  BY <1>2, ReqClockStep, ReqRestartStep, ReqSignStep, ReqSignedStep, ReqCreateStep, ReqOwnerStep DEF ReqNext
<1>. QED  BY <1>1, <1>2

LEMMA ReqInvariance == ReqSpec => []ReqInv
  BY ReqInitInv, ReqNextInv, PTL DEF ReqSpec

\* VerifyRequest: for any number of machines, requests and ticks, a request is
\* done once at most while the hub runs, because the nonce of one that was let
\* through is kept for as long as its time stamp is good.
THEOREM RequestsActOnce == ReqSpec => []ActedOnce
<1>1. ReqInv => ActedOnce
  BY DEF ReqInv
<1>. QED  BY <1>1, ReqInvariance, PTL

\* ownerOnly: what a request is done to belongs to whoever signed it, because
\* ids are not used again and an instance does not change hands.
THEOREM OwnersOnlyAct == ReqSpec => []OnlyOwnersAct
<1>1. ReqInv => OnlyOwnersAct
  BY DEF ReqInv
<1>. QED  BY <1>1, ReqInvariance, PTL
-----------------------------------------------------------------------------
(***************************************************************************)
(* Decisions.  An id is never used again, so that a request that was read  *)
(* is the one that is there now, or none; and nobody is named like a       *)
(* fingerprint.                                                            *)
(***************************************************************************)
Families == UNION {FamiliesOf[i] : i \in Instances}
Domains == {None} \cup {a.domain : a \in Asks}
MemberNames ==
  {OwnerName} \cup {a.name : a \in Asks} \cup {a.hint : a \in Asks} \cup {p.name : p \in Approvals}
    \cup {Fingerprint[k] \o <<0>> : k \in Keys}

Cert == [key : Keys, networks : SUBSET Families, routes : SUBSET Families]
Member == [name : MemberNames, networks : SUBSET Families, routes : SUBSET Families,
           domain : Domains, cert : Cert, banned : BOOLEAN]
Record == [key : Applicants, ask : Asks, networks : SUBSET Families,
           status : {"pending", "approved", "rejected"}]

Operations == OnRequests \cup OnMembers

DecTypeOK ==
  /\ requests \in [Instances -> [Ids -> Record \cup {None}]]
  /\ members \in [Instances -> [Keys -> Member \cup {None}]]
  /\ burnt \in [Instances -> SUBSET Keys]
  /\ used \subseteq Ids

\* A request there is has an id that was given.
IdsUsed == \A i \in Instances, x \in Ids : requests[i][x] # None => x \in used

\* A request that was read is there as it was, but for what it asks for and its
\* status, or is gone.
ReadIsTrue(f) ==
  /\ f.what \in used /\ f.was \in Record
  /\ requests[f.inst][f.what] # None =>
       /\ f.was.key = requests[f.inst][f.what].key
       /\ f.was.networks = requests[f.inst][f.what].networks

FoundOK(op, found) ==
  \A f \in found :
    /\ f.inst \in Instances
    /\ op \in OnRequests => f.what \in Ids
    /\ op \in OnMembers => f.what \in Keys
    /\ op = "approve" => ReadIsTrue(f)

\* Whatever a reference has meant all along was found, or is still to be read.
SteadyFound ==
  \A s \in cmd.steady :
    /\ s.inst \in Instances /\ s = [inst |-> s.inst, what |-> s.what]
    /\ s.what \in Named(cmd.op, s.inst, cmd.ref)
    /\ s.inst \in cmd.left \/ \E f \in cmd.found : f.inst = s.inst /\ f.what = s.what

CmdOK ==
  cmd.op # "idle" =>
    /\ cmd.op \in Operations /\ cmd.left \subseteq Instances
    /\ cmd = [op |-> cmd.op, ref |-> cmd.ref, how |-> cmd.how, left |-> cmd.left,
              found |-> cmd.found, steady |-> cmd.steady]
    /\ cmd.op = "approve" => cmd.how \in Approvals
    /\ FoundOK(cmd.op, cmd.found)
    /\ SteadyFound

DecInv == DecTypeOK /\ IdsUsed /\ TableSaysTrue /\ CmdOK /\ ActsAsMeant

LEMMA NamesAreNotFingerprints ==
  ASSUME NEW n \in MemberNames, NEW l \in Keys
  PROVE  n # Fingerprint[l]
<1>1. CASE \E k \in Keys : n = Fingerprint[k] \o <<0>>
  <2>1. PICK k \in Keys : n = Fingerprint[k] \o <<0>>
    BY <1>1, Zenon
  <2>2. Fingerprint[k] \in Seq(Nat) /\ Fingerprint[l] \in Seq(Nat)
    BY DecisionsAssumption, Zenon
  <2>3. SUFFICES ASSUME n = Fingerprint[l] PROVE FALSE
    OBVIOUS
  <2>4. k # l
    BY <2>1, <2>2, <2>3
  <2>5. Len(Fingerprint[k]) <= Len(Fingerprint[l])
    BY <2>1, <2>2, <2>3
  <2>6. Fingerprint[k] = SubSeq(Fingerprint[l], 1, Len(Fingerprint[k])) /\ Len(Fingerprint[k]) \in 0 .. Len(Fingerprint[l])
    BY <2>1, <2>2, <2>3, <2>5
  <2>7. Fingerprint[k] \in Beginnings[Fingerprint[l]]
    BY <2>6, Zenon DEF Beginnings
  <2>. QED  BY <2>4, <2>7, DecisionsAssumption, Zenon
<1>2. CASE ~\E k \in Keys : n = Fingerprint[k] \o <<0>>
  <2>1. n \in {OwnerName} \cup {a.name : a \in Asks} \cup {a.hint : a \in Asks} \cup {p.name : p \in Approvals}
    BY <1>2, Zenon DEF MemberNames
  <2>. QED  BY <2>1, DecisionsAssumption, Zenon
<1>. QED  BY <1>1, <1>2

LEMMA OneFingerprintEach ==
  ASSUME NEW k \in Keys, NEW l \in Keys, Fingerprint[l] \in Beginnings[Fingerprint[k]]
  PROVE  k = l
BY DecisionsAssumption, Zenon

\* A whole fingerprint names the member it is of, if anybody.
LEMMA FingerprintNamesOne ==
  ASSUME DecTypeOK, NEW i \in Instances, NEW l \in Keys, NEW k \in memberIn(i, Fingerprint[l])
  PROVE  k = l
<1>1. k \in Keys /\ members[i][k] # None
  BY DEF memberIn, Present
<1>2. members[i][k].name \in MemberNames
  BY <1>1 DEF DecTypeOK, Member
<1>. QED  BY <1>1, <1>2, NamesAreNotFingerprints, OneFingerprintEach, Zenon DEF memberIn

LEMMA DecInitInv == DecInit => DecInv
<1>. SUFFICES ASSUME DecInit PROVE DecInv
  OBVIOUS
<1>. USE DEF DecInit
<1>. DEFINE own(i) == [name |-> OwnerName, networks |-> FamiliesOf[i], routes |-> {}, domain |-> None,
                       cert |-> OwnCert(i), banned |-> FALSE]
<1>1. \A i \in Instances : own(i) \in Member /\ own(i).cert = [key |-> OwnerKey, networks |-> own(i).networks, routes |-> own(i).routes]
  BY DecisionsAssumption DEF Member, MemberNames, Families, Domains, Cert, OwnCert
<1>2. \A i \in Instances, k \in Keys : members[i][k] = IF k = OwnerKey THEN own(i) ELSE None
  OBVIOUS
<1>3. members \in [Instances -> [Keys -> Member \cup {None}]]
  BY <1>1, Zenon
<1>4. DecTypeOK /\ IdsUsed
  BY <1>3, Zenon DEF DecTypeOK, IdsUsed
<1>5. TableSaysTrue
  BY <1>1, <1>2, Zenon DEF TableSaysTrue
<1>6. CmdOK /\ ActsAsMeant
  BY DEF CmdOK, ActsAsMeant, IdleCmd
<1>. QED  BY <1>4, <1>5, <1>6, Zenon DEF DecInv

\* What any step does to the requests: none is replaced by another.
Ages ==
  /\ used \subseteq used'
  /\ \A i \in Instances, x \in used : requests'[i][x] # None =>
       /\ requests[i][x] # None
       /\ requests'[i][x].key = requests[i][x].key
       /\ requests'[i][x].networks = requests[i][x].networks

StoreOK == DecTypeOK' /\ IdsUsed' /\ TableSaysTrue' /\ Ages

\* A function of two arguments with one value written.
LEMMA Written ==
  ASSUME NEW A, NEW B, NEW C, NEW f \in [A -> [B -> C]], NEW a \in A, NEW b \in B, NEW c \in C
  PROVE  /\ [f EXCEPT ![a][b] = c] \in [A -> [B -> C]]
         /\ \A x \in A, y \in B : [f EXCEPT ![a][b] = c][x][y] = IF x = a /\ y = b THEN c ELSE f[x][y]
  OBVIOUS

LEMMA RequestWritten ==
  ASSUME requests \in [Instances -> [Ids -> Record \cup {None}]],
         NEW i \in Instances, NEW x \in Ids, NEW r \in Record \cup {None},
         requests' = [requests EXCEPT ![i][x] = r]
  PROVE  /\ requests' \in [Instances -> [Ids -> Record \cup {None}]]
         /\ \A j \in Instances, y \in Ids : ~(j = i /\ y = x) => requests'[j][y] = requests[j][y]
BY Written

LEMMA RowsTyped ==
  ASSUME DecTypeOK, NEW i \in Instances
  PROVE  /\ \A x \in Ids : requests[i][x] \in Record \cup {None}
         /\ \A k \in Keys : members[i][k] \in Member \cup {None}
<1>1. /\ requests \in [Instances -> [Ids -> Record \cup {None}]]
      /\ members \in [Instances -> [Keys -> Member \cup {None}]]
  BY Zenon DEF DecTypeOK
<1>. QED  BY <1>1, Zenon

LEMMA FoundStays ==
  ASSUME DecTypeOK, Ages
  PROVE  \A op, found : FoundOK(op, found) => FoundOK(op, found)'
<1>. SUFFICES ASSUME NEW op, NEW found, FoundOK(op, found), NEW f \in found
              PROVE  /\ f.inst \in Instances
                     /\ op \in OnRequests => f.what \in Ids
                     /\ op \in OnMembers => f.what \in Keys
                     /\ op = "approve" => ReadIsTrue(f)'
  BY DEF FoundOK
<1>1. f.inst \in Instances /\ (op \in OnRequests => f.what \in Ids) /\ (op \in OnMembers => f.what \in Keys)
  BY DEF FoundOK
<1>2. ASSUME op = "approve" PROVE ReadIsTrue(f)'
  <2>1. ReadIsTrue(f)
    BY <1>2 DEF FoundOK
  <2>. QED  BY <1>1, <2>1, Zenon DEF ReadIsTrue, Ages
<1>. QED  BY <1>1, <1>2

\* A command that is under way while something else is done.
LEMMA SteadyStep ==
  ASSUME DecInv, Ages, cmd' = Steady
  PROVE  CmdOK' /\ ActsAsMeant'
<1>1. DecTypeOK /\ CmdOK /\ ActsAsMeant
  BY DEF DecInv
<1>2. CASE cmd.op = "idle"
  BY <1>1, <1>2 DEF Steady, CmdOK, ActsAsMeant
<1>3. CASE cmd.op # "idle"
  <2>1. /\ cmd.op \in Operations /\ cmd.left \subseteq Instances
        /\ cmd = [op |-> cmd.op, ref |-> cmd.ref, how |-> cmd.how, left |-> cmd.left,
                  found |-> cmd.found, steady |-> cmd.steady]
        /\ cmd.op = "approve" => cmd.how \in Approvals
        /\ FoundOK(cmd.op, cmd.found)
        /\ SteadyFound
    BY <1>1, <1>3, Zenon DEF CmdOK
  <2>. DEFINE st == {e \in cmd.steady : \A op \in {cmd.op}, ref \in {cmd.ref} : e.what \in Named(op, e.inst, ref)'}
  <2>2. cmd' = [cmd EXCEPT !.steady = st]
    BY <1>3 DEF Steady
  <2>3. \A e \in st : e \in cmd.steady /\ (e.what \in Named(cmd.op, e.inst, cmd.ref))'
    <3>1. cmd'.op = cmd.op /\ cmd'.ref = cmd.ref
      BY <2>1, <2>2
    <3>. QED  BY <3>1
  <2>. HIDE DEF st
  <2>4. /\ cmd'.op = cmd.op /\ cmd'.ref = cmd.ref /\ cmd'.how = cmd.how /\ cmd'.left = cmd.left
        /\ cmd'.found = cmd.found /\ cmd'.steady = st
        /\ cmd' = [op |-> cmd'.op, ref |-> cmd'.ref, how |-> cmd'.how, left |-> cmd'.left,
                   found |-> cmd'.found, steady |-> cmd'.steady]
    BY <2>1, <2>2
  <2>5. FoundOK(cmd.op, cmd.found)'
    <3>1. \A op, found : op = cmd.op /\ found = cmd.found => FoundOK(op, found)'
      BY <1>1, <2>1, FoundStays
    <3>. QED  BY <2>4, <3>1, Zenon
  <2>6. SteadyFound'
    BY <2>1, <2>3, <2>4, Zenon DEF SteadyFound
  <2>7. CmdOK'
    BY <2>1, <2>4, <2>5, <2>6, Zenon DEF CmdOK
  <2>. QED  BY <1>3, <2>4, <2>7, Zenon DEF ActsAsMeant
<1>. QED  BY <1>2, <1>3

\* A request's row is written over: the request is the same, or gone.
LEMMA RequestRowOK ==
  ASSUME DecInv, NEW i \in Instances, NEW x \in Ids, NEW q \in Record \cup {None}, UNCHANGED used,
         requests[i][x] # None,
         q # None => q.key = requests[i][x].key /\ q.networks = requests[i][x].networks,
         requests' = [requests EXCEPT ![i][x] = q]
  PROVE  requests' \in [Instances -> [Ids -> Record \cup {None}]] /\ IdsUsed' /\ Ages
<1>1. DecTypeOK /\ IdsUsed
  BY DEF DecInv
<1>2. /\ requests' \in [Instances -> [Ids -> Record \cup {None}]]
      /\ \A j \in Instances, y \in Ids : requests'[j][y] = IF j = i /\ y = x THEN q ELSE requests[j][y]
  BY <1>1, Written DEF DecTypeOK
<1>3. IdsUsed' /\ Ages
  BY <1>1, <1>2, Zenon DEF IdsUsed, Ages, DecTypeOK
<1>. QED  BY <1>2, <1>3, Zenon

LEMMA AskStep ==
  ASSUME DecInv, NEW p \in MayAsk, NEW ask \in Asks, Ask(p[1], p[2], ask)
  PROVE  StoreOK /\ cmd' = Steady
<1>. DEFINE i == p[1]
            k == p[2]
<1>1. i \in Instances /\ k \in Applicants
  BY DecisionsAssumption, Zenon DEF Applicants
<1>2. DecTypeOK /\ IdsUsed /\ TableSaysTrue
  BY DEF DecInv
<1>3. UNCHANGED <<members, burnt>> /\ cmd' = Steady
  BY DEF Ask
<1>4. TableSaysTrue'
  BY <1>2, <1>3, Zenon DEF TableSaysTrue
<1>5. CASE Again(i, k, ask)
  <2>1. PICK x \in RecordsOf(i, k) :
           /\ requests' = [requests EXCEPT ![i][x].ask = ask,
                                           ![i][x].status = IF @ = "rejected" THEN "pending" ELSE @]
           /\ UNCHANGED used
    BY <1>5, Zenon DEF Again
  <2>2. x \in Ids /\ requests[i][x] \in Record /\ requests[i][x] # None
    <3>1. x \in Ids /\ requests[i][x] # None
      BY Zenon DEF RecordsOf
    <3>2. requests[i][x] \in Record \cup {None}
      BY <1>1, <1>2, <3>1, RowsTyped, Zenon
    <3>. QED  BY <3>1, <3>2, Zenon
  <2>3. PICK st \in {"pending", "approved", "rejected"} :
           requests' = [requests EXCEPT ![i][x] = [requests[i][x] EXCEPT !.ask = ask, !.status = st]]
    BY <1>1, <1>2, <2>1, <2>2, ZenonT(30) DEF DecTypeOK, Record
  <2>. DEFINE new == [requests[i][x] EXCEPT !.ask = ask, !.status = st]
  <2>4. new \in Record /\ new.key = requests[i][x].key /\ new.networks = requests[i][x].networks
    BY <2>2, <2>3, Zenon DEF Record
  <2>. HIDE DEF new
  <2>5. requests' = [requests EXCEPT ![i][x] = new]
    BY <2>3 DEF new
  <2>6. requests' \in [Instances -> [Ids -> Record \cup {None}]] /\ IdsUsed' /\ Ages
    BY <1>1, <2>1, <2>2, <2>4, <2>5, RequestRowOK, Zenon
  <2>7. DecTypeOK'
    BY <1>2, <1>3, <2>1, <2>6, Zenon DEF DecTypeOK
  <2>. QED  BY <1>3, <1>4, <2>6, <2>7 DEF StoreOK
<1>6. CASE Anew(i, k, ask)
  <2>1. PICK x \in {CHOOSE y \in Ids \ used : TRUE}, got \in HasRoom[i] :
           /\ requests' = [requests EXCEPT ![i][x] = [key |-> k, ask |-> ask, networks |-> got, status |-> "pending"]]
           /\ used' = used \cup {x}
    BY <1>6, Zenon DEF Anew
  <2>2. x \in Ids \ used
    BY <1>2, <1>6, <2>1, Zenon DEF Anew, DecTypeOK
  <2>3. got \in SUBSET Families
    BY <1>1, <2>1, DecisionsAssumption DEF Families
  <2>. DEFINE new == [key |-> k, ask |-> ask, networks |-> got, status |-> "pending"]
  <2>4. new \in Record
    BY <1>1, <2>3, Zenon DEF Record
  <2>5. /\ requests' \in [Instances -> [Ids -> Record \cup {None}]]
        /\ \A j \in Instances, y \in Ids : ~(j = i /\ y = x) => requests'[j][y] = requests[j][y]
    <3>1. requests' = [requests EXCEPT ![i][x] = new]
      BY <2>1, Zenon
    <3>2. requests \in [Instances -> [Ids -> Record \cup {None}]] /\ new \in Record \cup {None} /\ x \in Ids
      BY <1>2, <2>2, <2>4, Zenon DEF DecTypeOK
    <3>. HIDE DEF new
    <3>. QED  BY <1>1, <3>1, <3>2, RequestWritten, ZenonT(30)
  <2>6. DecTypeOK'
    BY <1>2, <1>3, <2>1, <2>2, <2>5, Zenon DEF DecTypeOK
  <2>7. IdsUsed' /\ Ages
    BY <1>2, <2>1, <2>2, <2>5, Zenon DEF IdsUsed, Ages, DecTypeOK
  <2>. QED  BY <1>3, <1>4, <2>6, <2>7, Zenon DEF StoreOK
<1>. QED  BY <1>5, <1>6, Zenon DEF Ask

-----------------------------------------------------------------------------
(* What a command does to the store.                                       *)

CommandOK(cm) ==
  /\ cm.op \in Operations
  /\ cm.op = "approve" => cm.how \in Approvals
  /\ FoundOK(cm.op, cm.found)

LEMMA TargetFound == ASSUME NEW cm PROVE Target(cm) \subseteq cm.found
  BY Zenon DEF Target, matchPending, findMember, TheOnly

\* What the name and the certificate of a member are made of.
LEMMA SignedOK ==
  ASSUME NEW was \in Record, NEW how \in Approvals
  PROVE  /\ NameFor(was, how) \in MemberNames
         /\ Domain(was, how) \in Domains
         /\ Signed(was, how) \in Cert
         /\ Signed(was, how).key = was.key
         /\ Signed(was, how).networks = was.networks
         /\ Signed(was, how).routes \subseteq was.networks
         /\ KindOf[was.key] # "connector" => Signed(was, how).routes = {} /\ Domain(was, how) = None
<1>1. was.key \in Applicants /\ was.key \in Keys /\ was.ask \in Asks /\ was.networks \subseteq Families
  BY DEF Record, Applicants
<1>2. KindOf[was.key] \in {"tenant", "connector"}
  BY <1>1, DecisionsAssumption, Zenon DEF Applicants
<1>3. NameFor(was, how) \in MemberNames
  BY <1>1, Zenon DEF NameFor, defaultName, MemberNames
<1>4. Domain(was, how) \in Domains /\ (KindOf[was.key] # "connector" => Domain(was, how) = None)
  BY <1>1, <1>2, Zenon DEF Domain, Domains
<1>5. /\ carriable(Wanted(was, how), was.networks) \subseteq was.networks
      /\ KindOf[was.key] # "connector" => carriable(Wanted(was, how), was.networks) = {}
  BY <1>2, Zenon DEF carriable, Wanted
<1>6. /\ Signed(was, how) \in Cert /\ Signed(was, how).key = was.key /\ Signed(was, how).networks = was.networks
      /\ Signed(was, how).routes = carriable(Wanted(was, how), was.networks)
  BY <1>1, <1>5, Zenon DEF Signed, Cert
<1>. QED  BY <1>3, <1>4, <1>5, <1>6, Zenon

\* What the row n of the key l says is what its certificate carries.
Says(n, l) ==
  /\ n.cert = [key |-> l, networks |-> n.networks, routes |-> n.routes]
  /\ n.routes \subseteq n.networks
  /\ KindOf[l] # "connector" => n.routes = {} /\ n.domain = None

\* A member's row is written: it says what was signed.
LEMMA MemberRowOK ==
  ASSUME DecInv, NEW i \in Instances, NEW k \in Keys, NEW m \in Member \cup {None},
         m # None => /\ m.cert = [key |-> k, networks |-> m.networks, routes |-> m.routes]
                     /\ m.routes \subseteq m.networks
                     /\ KindOf[k] # "connector" => m.routes = {} /\ m.domain = None,
         members' = [members EXCEPT ![i][k] = m]
  PROVE  members' \in [Instances -> [Keys -> Member \cup {None}]] /\ TableSaysTrue'
<1>1. DecTypeOK /\ TableSaysTrue
  BY DEF DecInv
<1>2. /\ members' \in [Instances -> [Keys -> Member \cup {None}]]
      /\ \A j \in Instances, l \in Keys : members'[j][l] = IF j = i /\ l = k THEN m ELSE members[j][l]
  <2>1. members \in [Instances -> [Keys -> Member \cup {None}]]
    BY <1>1, Zenon DEF DecTypeOK
  <2>2. /\ [members EXCEPT ![i][k] = m] \in [Instances -> [Keys -> Member \cup {None}]]
        /\ \A j \in Instances, l \in Keys :
             [members EXCEPT ![i][k] = m][j][l] = IF j = i /\ l = k THEN m ELSE members[j][l]
    BY <2>1, Written
  <2>. QED  BY <2>2, Zenon
<1>3. TableSaysTrue'
  <2>. SUFFICES ASSUME NEW j \in Instances, NEW l \in Keys, members'[j][l] # None
                PROVE  Says(members'[j][l], l)
    BY Zenon DEF TableSaysTrue, Says
  <2>1. CASE j = i /\ l = k
    <3>1. members'[j][l] = m
      BY <1>2, <2>1, Zenon
    <3>2. m # None /\ l = k
      BY <2>1, <3>1, Zenon
    <3>3. Says(m, l)
      BY <3>2, Zenon DEF Says
    <3>. QED  BY <3>1, <3>3, Zenon
  <2>2. CASE ~(j = i /\ l = k)
    <3>1. members'[j][l] = members[j][l]
      BY <1>2, <2>2, Zenon
    <3>2. Says(members[j][l], l)
      BY <1>1, <3>1, Zenon DEF TableSaysTrue, Says
    <3>. QED  BY <3>1, <3>2, Zenon
  <2>. QED  BY <2>1, <2>2
<1>. QED  BY <1>2, <1>3, Zenon

\* A status is a status whoever sets it.
LEMMA StatusSet ==
  ASSUME DecInv, NEW i \in Instances, NEW x \in Ids, requests[i][x] # None,
         NEW st \in {"approved", "rejected"}, UNCHANGED used,
         requests' = [requests EXCEPT ![i][x].status = st]
  PROVE  requests' \in [Instances -> [Ids -> Record \cup {None}]] /\ IdsUsed' /\ Ages
<1>1. requests[i][x] \in Record
  BY DEF DecInv, DecTypeOK
<1>. DEFINE q == [requests[i][x] EXCEPT !.status = st]
<1>2. q \in Record /\ q.key = requests[i][x].key /\ q.networks = requests[i][x].networks
  BY <1>1, Zenon DEF Record
<1>3. requests' = [requests EXCEPT ![i][x] = q]
  OBVIOUS
<1>. HIDE DEF q
<1>. QED  BY <1>2, <1>3, RequestRowOK, Zenon

LEMMA ApprovesStep ==
  ASSUME DecInv, NEW cm, CommandOK(cm), Approves(cm)
  PROVE  StoreOK
<1>1. PICK e \in Target(cm) :
         LET how == cm.how
             rec == requests[e.inst][e.what]
             name == NameFor(e.was, how)
             taken == \E k \in Present(e.inst) : k # rec.key /\ members[e.inst][k].name = name
         IN  /\ ~Refuses(e.was, how) /\ rec # None
             /\ requests' = [requests EXCEPT ![e.inst][e.what].status = "approved"]
             /\ members' = IF taken THEN members
                           ELSE [members EXCEPT ![e.inst][rec.key] =
                                   [name |-> name, networks |-> rec.networks, routes |-> Signed(e.was, how).routes,
                                    domain |-> Domain(e.was, how), cert |-> Signed(e.was, how), banned |-> FALSE]]
  BY Zenon DEF Approves
<1>. DEFINE rec == requests[e.inst][e.what]
            row == [name |-> NameFor(e.was, cm.how), networks |-> rec.networks,
                    routes |-> Signed(e.was, cm.how).routes, domain |-> Domain(e.was, cm.how),
                    cert |-> Signed(e.was, cm.how), banned |-> FALSE]
<1>2. e.inst \in Instances /\ e.what \in Ids /\ ReadIsTrue(e) /\ cm.how \in Approvals
  BY TargetFound, Zenon DEF CommandOK, FoundOK, Approves, OnRequests
<1>3. rec # None /\ rec \in Record /\ e.was \in Record /\ e.was.key = rec.key /\ e.was.networks = rec.networks
      /\ rec.key \in Keys
  <2>1. rec # None
    BY <1>1, Zenon
  <2>2. rec \in Record
    <3>1. DecTypeOK
      BY Zenon DEF DecInv
    <3>2. requests[e.inst][e.what] \in Record \cup {None}
      BY <1>2, <3>1, RowsTyped, Zenon
    <3>. QED  BY <2>1, <3>2, Zenon
  <2>3. rec.key \in Keys
    BY <2>2, Zenon DEF Record, Applicants
  <2>. QED  BY <1>2, <2>1, <2>2, <2>3, Zenon DEF ReadIsTrue
<1>4. UNCHANGED <<burnt, used>> /\ DecTypeOK /\ TableSaysTrue
  BY DEF Approves, DecInv
<1>5. requests' \in [Instances -> [Ids -> Record \cup {None}]] /\ IdsUsed' /\ Ages
  BY <1>1, <1>2, <1>3, <1>4, StatusSet, Zenon
<1>6. /\ row \in Member /\ row.cert = [key |-> rec.key, networks |-> row.networks, routes |-> row.routes]
      /\ row.routes \subseteq row.networks
      /\ KindOf[rec.key] # "connector" => row.routes = {} /\ row.domain = None
  <2>. DEFINE sg == Signed(e.was, cm.how)
              dm == Domain(e.was, cm.how)
              nm == NameFor(e.was, cm.how)
  <2>1. /\ nm \in MemberNames /\ dm \in Domains /\ sg \in Cert /\ sg.key = rec.key
        /\ sg.networks = rec.networks /\ sg.routes \subseteq rec.networks
        /\ KindOf[rec.key] # "connector" => sg.routes = {} /\ dm = None
    BY <1>2, <1>3, SignedOK, ZenonT(30)
  <2>2. sg.routes \in SUBSET Families /\ rec.networks \in SUBSET Families
    BY <1>3, <2>1, Zenon DEF Cert, Record
  <2>3. sg = [key |-> rec.key, networks |-> rec.networks, routes |-> sg.routes]
    BY <2>1, Zenon DEF Cert
  <2>. HIDE DEF sg, dm, nm
  <2>4. row = [name |-> nm, networks |-> rec.networks, routes |-> sg.routes, domain |-> dm, cert |-> sg, banned |-> FALSE]
    BY Zenon DEF sg, dm, nm
  <2>. HIDE DEF row
  <2>. QED  BY <2>1, <2>2, <2>3, <2>4, Zenon DEF Member
<1>7. UNCHANGED members \/ members' = [members EXCEPT ![e.inst][rec.key] = row]
  BY <1>1, Zenon
<1>. HIDE DEF row, rec
<1>8. members' \in [Instances -> [Keys -> Member \cup {None}]] /\ TableSaysTrue'
  <2>1. CASE UNCHANGED members
    BY <1>4, <2>1, ZenonT(30) DEF DecTypeOK, TableSaysTrue
  <2>2. CASE members' = [members EXCEPT ![e.inst][rec.key] = row]
    BY <1>2, <1>3, <1>6, <2>2, MemberRowOK, Zenon
  <2>. QED  BY <1>7, <2>1, <2>2, Zenon
<1>. QED  BY <1>4, <1>5, <1>8, Zenon DEF StoreOK, DecTypeOK

LEMMA RejectsStep ==
  ASSUME DecInv, NEW cm, CommandOK(cm), Rejects(cm) \/ Forgets(cm)
  PROVE  StoreOK
<1>1. UNCHANGED <<members, burnt, used>> /\ DecTypeOK /\ TableSaysTrue
  BY DEF Rejects, Forgets, DecInv
<1>2. PICK e \in Target(cm) :
         /\ requests[e.inst][e.what] # None
         /\ \/ requests' = [requests EXCEPT ![e.inst][e.what].status = "rejected"]
            \/ requests' = [requests EXCEPT ![e.inst][e.what] = None]
  BY Zenon DEF Rejects, Forgets
<1>3. e.inst \in Instances /\ e.what \in Ids
  BY TargetFound, Zenon DEF CommandOK, FoundOK, Rejects, Forgets, OnRequests
<1>4. requests' \in [Instances -> [Ids -> Record \cup {None}]] /\ IdsUsed' /\ Ages
  <2>1. CASE requests' = [requests EXCEPT ![e.inst][e.what].status = "rejected"]
    BY <1>1, <1>2, <1>3, <2>1, StatusSet, Zenon
  <2>2. CASE requests' = [requests EXCEPT ![e.inst][e.what] = None]
    <3>1. None \in Record \cup {None}
      OBVIOUS
    <3>. QED  BY <1>1, <1>2, <1>3, <2>2, <3>1, RequestRowOK, Zenon
  <2>. QED  BY <1>2, <2>1, <2>2
<1>. QED  BY <1>1, <1>4, ZenonT(30) DEF StoreOK, DecTypeOK, TableSaysTrue

LEMMA BansStep ==
  ASSUME DecInv, NEW cm, CommandOK(cm), Bans(cm)
  PROVE  StoreOK
<1>1. UNCHANGED <<requests, burnt, used>> /\ DecTypeOK /\ TableSaysTrue /\ IdsUsed
  BY DEF Bans, DecInv
<1>a. PICK e \in Target(cm) : \E k \in memberIn(e.inst, Sent(cm, e)) :
         members' = [members EXCEPT ![e.inst][k].banned = (cm.op = "ban")]
  BY Zenon DEF Bans
<1>2. PICK k \in memberIn(e.inst, Sent(cm, e)) : members' = [members EXCEPT ![e.inst][k].banned = (cm.op = "ban")]
  BY <1>a, Zenon
<1>3. e.inst \in Instances
  BY TargetFound, Zenon DEF CommandOK, FoundOK
<1>4. k \in Keys /\ members[e.inst][k] # None /\ members[e.inst][k] \in Member
  <2>1. k \in Keys /\ members[e.inst][k] # None
    BY Zenon DEF memberIn, Present
  <2>2. members[e.inst][k] \in Member \cup {None}
    BY <1>1, <1>3, <2>1, Zenon DEF DecTypeOK
  <2>. QED  BY <2>1, <2>2, Zenon
<1>. DEFINE old == members[e.inst][k]
            new == [old EXCEPT !.banned = (cm.op = "ban")]
<1>5. /\ new \in Member /\ new.cert = old.cert /\ new.networks = old.networks
      /\ new.routes = old.routes /\ new.domain = old.domain
  BY <1>4, Zenon DEF Member
<1>6. /\ old.cert = [key |-> k, networks |-> old.networks, routes |-> old.routes]
      /\ old.routes \subseteq old.networks
      /\ KindOf[k] # "connector" => old.routes = {} /\ old.domain = None
  BY <1>1, <1>3, <1>4, Zenon DEF TableSaysTrue
<1>7. members' = [members EXCEPT ![e.inst][k] = new]
  BY <1>2
<1>. HIDE DEF old, new
<1>8. members' \in [Instances -> [Keys -> Member \cup {None}]] /\ TableSaysTrue'
  BY <1>3, <1>4, <1>5, <1>6, <1>7, MemberRowOK, Zenon
<1>. QED  BY <1>1, <1>8, Zenon DEF StoreOK, DecTypeOK, IdsUsed, Ages

LEMMA RemovesStep ==
  ASSUME DecInv, NEW cm, CommandOK(cm), Removes(cm)
  PROVE  StoreOK
<1>1. UNCHANGED used /\ DecTypeOK /\ TableSaysTrue /\ IdsUsed
  BY Zenon DEF Removes, DecInv
<1>a. PICK e \in Target(cm) : \E k \in memberIn(e.inst, Sent(cm, e)) :
         /\ members' = [members EXCEPT ![e.inst][k] = None]
         /\ requests' = [requests EXCEPT ![e.inst] = [x \in Ids |-> IF x \in RecordsOf(e.inst, k) THEN None ELSE @[x]]]
         /\ burnt' = [burnt EXCEPT ![e.inst] = @ \cup {k}]
  BY Zenon DEF Removes
<1>2. PICK k \in memberIn(e.inst, Sent(cm, e)) :
         /\ members' = [members EXCEPT ![e.inst][k] = None]
         /\ requests' = [requests EXCEPT ![e.inst] = [x \in Ids |-> IF x \in RecordsOf(e.inst, k) THEN None ELSE @[x]]]
         /\ burnt' = [burnt EXCEPT ![e.inst] = @ \cup {k}]
  BY <1>a, Zenon
<1>3. e.inst \in Instances
  BY TargetFound, SMTT(30) DEF CommandOK, FoundOK
<1>4. k \in Keys
  BY DEF memberIn, Present
<1>5. members' \in [Instances -> [Keys -> Member \cup {None}]] /\ TableSaysTrue'
  BY <1>2, <1>3, <1>4, MemberRowOK, Zenon
<1>6. /\ requests' \in [Instances -> [Ids -> Record \cup {None}]]
      /\ \A i \in Instances, x \in Ids : requests'[i][x] # None => requests'[i][x] = requests[i][x]
  BY <1>1, <1>2, <1>3, Zenon DEF DecTypeOK
<1>7. burnt' \in [Instances -> SUBSET Keys]
  BY <1>1, <1>2, <1>3, <1>4, Zenon DEF DecTypeOK
<1>8. IdsUsed' /\ Ages
  BY <1>1, <1>6, Zenon DEF IdsUsed, Ages, DecTypeOK
<1>. QED  BY <1>1, <1>5, <1>6, <1>7, <1>8, Zenon DEF StoreOK, DecTypeOK

LEMMA ActStep ==
  ASSUME DecInv, NEW cm, CommandOK(cm), Act(cm)
  PROVE  /\ StoreOK
         /\ \E e \in Target(cm) : Finished(cm, e, e.what)
<1>1. StoreOK
  BY ApprovesStep, RejectsStep, BansStep, RemovesStep DEF Act
<1>2. ASSUME Approves(cm) PROVE \E e \in Target(cm) : Finished(cm, e, e.what)
  BY <1>2, Zenon DEF Approves
<1>4. ASSUME Rejects(cm) \/ Forgets(cm) PROVE \E e \in Target(cm) : Finished(cm, e, e.what)
  BY <1>4, Zenon DEF Rejects, Forgets
<1>3. ASSUME Bans(cm) \/ Removes(cm) PROVE \E e \in Target(cm) : Finished(cm, e, e.what)
  <2>a. PICK e \in Target(cm) : \E k \in memberIn(e.inst, Sent(cm, e)) : Finished(cm, e, k)
    BY <1>3, Zenon DEF Bans, Removes
  <2>1. PICK k \in memberIn(e.inst, Sent(cm, e)) : Finished(cm, e, k)
    BY <2>a
  <2>2. e.inst \in Instances /\ e.what \in Keys
    BY <1>3, TargetFound, Zenon DEF CommandOK, FoundOK, Bans, Removes, OnMembers
  <2>3. k = e.what
    BY <2>2, FingerprintNamesOne, Zenon DEF Sent, DecInv
  <2>. QED  BY <2>1, <2>3
<1>. QED  BY <1>1, <1>2, <1>3, <1>4, Zenon DEF Act

\* The command itself, once every instance was read or passed over.
LEMMA OwnActStep ==
  ASSUME DecInv, cmd.op # "idle", cmd.left = {}, Act(cmd)
  PROVE  DecInv'
<1>1. CmdOK
  BY DEF DecInv
<1>2. CommandOK(cmd) /\ SteadyFound
  BY <1>1, Zenon DEF CmdOK, CommandOK
<1>3. \A cm : cm = cmd => StoreOK /\ \E e \in Target(cm) : Finished(cm, e, e.what)
  BY <1>2, ActStep, Zenon
<1>4. StoreOK
  BY <1>3, Zenon
<1>5. PICK e \in Target(cmd) : Finished(cmd, e, e.what)
  BY <1>3, Zenon
<1>. DEFINE hit == [inst |-> e.inst, what |-> e.what]
<1>6. cmd' = [op |-> "idle",
              rivals |-> IF cmd.op \in OnRequests /\ e.what = cmd.ref THEN {} ELSE cmd.steady \ {hit},
              astray |-> {hit} \ {[inst |-> f.inst, what |-> f.what] : f \in cmd.found}]
  BY <1>5, Zenon DEF Finished
<1>7. e \in cmd.found /\ ((cmd.op \in OnRequests /\ e.what = cmd.ref) \/ cmd.found = {e})
  BY DEF Target, matchPending, findMember, TheOnly
<1>8. cmd.found = {e} => cmd.steady \subseteq {hit}
  BY <1>2, Zenon DEF SteadyFound
<1>9. cmd'.op = "idle" /\ cmd'.rivals = {} /\ cmd'.astray = {}
  BY <1>6, <1>7, <1>8, Zenon
<1>. QED  BY <1>4, <1>9, Zenon DEF StoreOK, DecInv, CmdOK, ActsAsMeant

\* Another command between two calls of this one.
LEMMA OthersStep ==
  ASSUME DecInv, cmd.op # "idle", NEW cm \in Others, Act(cm)
  PROVE  DecInv'
<1>1. DecTypeOK /\ CmdOK /\ IdsUsed
  BY DEF DecInv
<1>2. PICK op \in Operations, how \in Approvals \cup {None}, i \in Instances, w \in Ids \cup Keys :
         /\ cm = [op |-> op, ref |-> cm.ref, how |-> how,
                  found |-> {[inst |-> i, what |-> w, was |-> IF op = "approve" THEN requests[i][w] ELSE None]}]
         /\ op = "approve" => how \in Approvals
         /\ op \in OnRequests => w \in Waiting(i)
         /\ op \in OnMembers => w \in Keys
  <2>. DEFINE Given(o, h, r, j, x) ==
                [op |-> o, ref |-> r, how |-> h,
                 found |-> {[inst |-> j, what |-> x, was |-> IF o = "approve" THEN requests[j][x] ELSE None]}]
  <2>1. PICK i \in Instances :
          \/ \E how \in Approvals, x \in Waiting(i) : cm = Given("approve", how, x, i, x)
          \/ \E o \in {"reject", "forget"}, x \in Waiting(i) : cm = Given(o, None, x, i, x)
          \/ \E o \in OnMembers, k \in Present(i) \ {OwnerKey} : cm = Given(o, None, Fingerprint[k], i, k)
    <3>. DEFINE Of(i) == {Given("approve", how, x, i, x) : how \in Approvals, x \in Waiting(i)}
                         \cup {Given(o, None, x, i, x) : o \in {"reject", "forget"}, x \in Waiting(i)}
                         \cup {Given(o, None, Fingerprint[k], i, k) : o \in OnMembers, k \in Present(i) \ {OwnerKey}}
    <3>1. cm \in UNION {Of(i) : i \in Instances}
      BY DEF Others
    <3>. HIDE DEF Given
    <3>2. PICK i \in Instances : cm \in Of(i)
      <4>. HIDE DEF Of
      <4>. QED  BY <3>1, Zenon
    <3>. QED  BY <3>2, SMTT(30)
  <2>2. PICK o \in Operations, h \in Approvals \cup {None}, x \in Ids \cup Keys :
          /\ cm = Given(o, h, cm.ref, i, x)
          /\ o = "approve" => h \in Approvals
          /\ o \in OnRequests => x \in Waiting(i)
          /\ o \in OnMembers => x \in Keys
    <3>0. \A o, h, r, j, x : Given(o, h, r, j, x).ref = r
      OBVIOUS
    <3>. HIDE DEF Given
    <3>1. Waiting(i) \subseteq Ids /\ Present(i) \subseteq Keys
      BY DEF Waiting, Present
    <3>2. CASE \E how \in Approvals, x \in Waiting(i) : cm = Given("approve", how, x, i, x)
      BY <3>0, <3>1, <3>2 DEF Operations, OnRequests, OnMembers
    <3>3. CASE \E o \in {"reject", "forget"}, x \in Waiting(i) : cm = Given(o, None, x, i, x)
      BY <3>0, <3>1, <3>3 DEF Operations, OnRequests, OnMembers
    <3>4. CASE \E o \in OnMembers, k \in Present(i) \ {OwnerKey} : cm = Given(o, None, Fingerprint[k], i, k)
      BY <3>0, <3>1, <3>4 DEF Operations, OnRequests, OnMembers
    <3>. QED  BY <2>1, <3>2, <3>3, <3>4, Zenon
  <2>. QED  BY <2>2, Zenon
<1>3. FoundOK(cm.op, cm.found)
  <2>1. op \in OnRequests => w \in Ids /\ w \in used /\ requests[i][w] \in Record
    BY <1>1, <1>2 DEF Waiting, IdsUsed, DecTypeOK
  <2>2. cm.op = op /\ cm.found = {[inst |-> i, what |-> w, was |-> IF op = "approve" THEN requests[i][w] ELSE None]}
    BY <1>2
  <2>. QED  BY <1>2, <2>1, <2>2 DEF FoundOK, ReadIsTrue, OnRequests
<1>4. CommandOK(cm)
  BY <1>2, <1>3 DEF CommandOK
<1>5. PICK e \in Target(cm) : Finished(cm, e, e.what)
  BY <1>4, ActStep, Zenon
<1>6. cm # cmd
  <2>1. DOMAIN cm = {"op", "ref", "how", "found"}
    BY <1>2, Zenon
  <2>2. DOMAIN cmd = {"op", "ref", "how", "left", "found", "steady"}
    BY <1>1, Zenon DEF CmdOK
  <2>. QED  BY <2>1, <2>2
<1>7. StoreOK /\ cmd' = Steady
  BY <1>4, <1>5, <1>6, ActStep, Zenon DEF Finished
<1>. QED  BY <1>7, SteadyStep, Zenon DEF StoreOK, DecInv

\* A command that begins, and goes from instance to instance: nothing is
\* changed, and what its reference meant all along is read.
LEMMA ReadingStep ==
  ASSUME DecInv, Begin \/ (\E i \in Instances : Read(i) \/ CannotRead(i)) \/ GivesUp
  PROVE  DecInv'
<1>1. UNCHANGED <<requests, members, burnt, used>>
  BY Zenon DEF Begin, Read, CannotRead, GivesUp
<1>2. DecTypeOK /\ IdsUsed /\ TableSaysTrue /\ CmdOK /\ ActsAsMeant
  BY DEF DecInv
<1>3. DecTypeOK' /\ IdsUsed' /\ TableSaysTrue'
  BY <1>1, <1>2, ZenonT(30) DEF DecTypeOK, IdsUsed, TableSaysTrue
<1>4. \A op, i, ref : Named(op, i, ref)' = Named(op, i, ref)
  BY <1>1, ZenonT(30) DEF Named, RequestsNamed, memberIn, Waiting, Present
<1>5. \A op, found : FoundOK(op, found)' <=> FoundOK(op, found)
  BY <1>1, ZenonT(30) DEF FoundOK, ReadIsTrue
<1>6. ASSUME Begin PROVE CmdOK' /\ ActsAsMeant'
  <2>1. PICK op \in Operations, how \in Approvals \cup {None}, within \in SUBSET Instances :
          /\ cmd' = [op |-> op, ref |-> cmd'.ref, how |-> how, left |-> within, found |-> {},
                     steady |-> Pairs(op, cmd'.ref, within)]
          /\ op = "approve" => how \in Approvals
    BY <1>6, DecisionsAssumption, SMTT(30)
    DEF Begin, TypedOfRequests, TypedOfMembers, Command, Operations, OnRequests, OnMembers
  <2>2. /\ cmd'.op = op /\ cmd'.how = how /\ cmd'.left = within /\ cmd'.found = {}
        /\ cmd'.steady = Pairs(op, cmd'.ref, within) /\ op # "idle"
    BY <2>1 DEF Operations, OnRequests, OnMembers
  <2>3. \A s \in cmd'.steady :
          /\ s.inst \in within /\ s = [inst |-> s.inst, what |-> s.what]
          /\ s.what \in Named(op, s.inst, cmd'.ref)
    BY <2>2 DEF Pairs
  <2>4. SteadyFound'
    <3>1. \A s \in cmd'.steady : (s.what \in Named(cmd.op, s.inst, cmd.ref))'
      BY <1>4, <2>2, <2>3, Zenon
    <3>. QED  BY <2>2, <2>3, <3>1, Zenon DEF SteadyFound
  <2>5. FoundOK(cmd.op, cmd.found)'
    BY <2>2, Zenon DEF FoundOK
  <2>. QED  BY <2>1, <2>2, <2>4, <2>5, Zenon DEF CmdOK, ActsAsMeant
<1>7. ASSUME cmd.op # "idle", NEW i \in cmd.left,
             cmd' = [op |-> cmd.op, ref |-> cmd.ref, how |-> cmd.how, left |-> cmd.left \ {i},
                     found |-> cmd'.found, steady |-> cmd'.steady],
             FoundOK(cmd.op, cmd'.found), cmd.found \subseteq cmd'.found, cmd'.steady \subseteq cmd.steady,
             \A s \in cmd'.steady : s.inst = i => \E f \in cmd'.found : f.inst = s.inst /\ f.what = s.what
      PROVE  CmdOK' /\ ActsAsMeant'
  <2>1. /\ cmd.op \in Operations /\ cmd.left \subseteq Instances
        /\ cmd.op = "approve" => cmd.how \in Approvals
        /\ SteadyFound
    BY <1>2, <1>7, Zenon DEF CmdOK
  <2>2. /\ cmd'.op = cmd.op /\ cmd'.ref = cmd.ref /\ cmd'.how = cmd.how /\ cmd'.left = cmd.left \ {i}
        /\ cmd' = [op |-> cmd'.op, ref |-> cmd'.ref, how |-> cmd'.how, left |-> cmd'.left,
                   found |-> cmd'.found, steady |-> cmd'.steady]
    BY <1>7
  <2>3. FoundOK(cmd.op, cmd.found)'
    BY <1>5, <1>7, <2>2, Zenon
  <2>4. SteadyFound'
    <3>1. \A s \in cmd'.steady : (s.what \in Named(cmd.op, s.inst, cmd.ref))'
      BY <1>4, <1>7, <2>1, <2>2, Zenon DEF SteadyFound
    <3>. QED  BY <1>7, <2>1, <2>2, <3>1, Zenon DEF SteadyFound
  <2>. QED  BY <1>7, <2>1, <2>2, <2>3, <2>4, Zenon DEF CmdOK, ActsAsMeant
<1>8. ASSUME NEW i \in Instances, Read(i) PROVE CmdOK' /\ ActsAsMeant'
  <2>. DEFINE more == Listed(cmd, i)
  <2>1. cmd.op # "idle" /\ i \in cmd.left /\ cmd' = [cmd EXCEPT !.left = @ \ {i}, !.found = @ \cup more]
    BY <1>8, Zenon DEF Read
  <2>2. /\ cmd.op \in Operations /\ SteadyFound /\ FoundOK(cmd.op, cmd.found)
        /\ cmd = [op |-> cmd.op, ref |-> cmd.ref, how |-> cmd.how, left |-> cmd.left,
                  found |-> cmd.found, steady |-> cmd.steady]
    BY <1>2, <2>1 DEF CmdOK
  <2>3. FoundOK(cmd.op, more)
    <3>1. cmd.op \in OnRequests => \A w \in Named(cmd.op, i, cmd.ref) : w \in Ids /\ w \in used /\ requests[i][w] \in Record
      BY <1>2, Zenon DEF Named, RequestsNamed, Waiting, IdsUsed, DecTypeOK
    <3>2. cmd.op \in OnMembers => cmd.op \notin OnRequests /\ \A w \in Named(cmd.op, i, cmd.ref) : w \in Keys
      BY Zenon DEF Named, memberIn, Present, OnRequests, OnMembers
    <3>3. cmd.op = "approve" => cmd.op \in OnRequests
      BY DEF OnRequests
    <3>. SUFFICES ASSUME NEW f \in more
                  PROVE  /\ f.inst \in Instances
                         /\ cmd.op \in OnRequests => f.what \in Ids
                         /\ cmd.op \in OnMembers => f.what \in Keys
                         /\ cmd.op = "approve" => ReadIsTrue(f)
      BY Zenon DEF FoundOK
    <3>4. PICK w \in Named(cmd.op, i, cmd.ref) :
            f = [inst |-> i, what |-> w, was |-> IF cmd.op = "approve" THEN requests[i][w] ELSE None]
      BY Zenon DEF Listed
    <3>5. f.inst = i /\ f.what = w /\ (cmd.op = "approve" => f.was = requests[i][w])
      BY <3>4, Zenon
    <3>. QED  BY <3>1, <3>2, <3>3, <3>5, Zenon DEF ReadIsTrue
  <2>4. \A s \in cmd.steady : s.inst = i => \E f \in more : f.inst = s.inst /\ f.what = s.what
    <3>. SUFFICES ASSUME NEW s \in cmd.steady, s.inst = i
                  PROVE  \E f \in more : f.inst = s.inst /\ f.what = s.what
      BY Zenon
    <3>. DEFINE f == [inst |-> i, what |-> s.what, was |-> IF cmd.op = "approve" THEN requests[i][s.what] ELSE None]
    <3>1. s.what \in Named(cmd.op, i, cmd.ref)
      BY <2>2, Zenon DEF SteadyFound
    <3>2. f \in more /\ f.inst = i /\ f.what = s.what
      BY <3>1, Zenon DEF Listed
    <3>. HIDE DEF f, more
    <3>. QED  BY <3>2, Zenon
  <2>. HIDE DEF more
  <2>5. /\ cmd' = [op |-> cmd.op, ref |-> cmd.ref, how |-> cmd.how, left |-> cmd.left \ {i},
                   found |-> cmd'.found, steady |-> cmd'.steady]
        /\ cmd'.found = cmd.found \cup more /\ cmd'.steady = cmd.steady
    BY <2>1, <2>2, Zenon
  <2>6. FoundOK(cmd.op, cmd'.found)
    BY <2>2, <2>3, <2>5, Zenon DEF FoundOK
  <2>7. cmd.found \subseteq cmd'.found /\ cmd'.steady \subseteq cmd.steady
    BY <2>5, Zenon
  <2>8. \A s \in cmd'.steady : s.inst = i => \E f \in cmd'.found : f.inst = s.inst /\ f.what = s.what
    BY <2>4, <2>5, Zenon
  <2>. QED  BY <1>7, <2>1, <2>5, <2>6, <2>7, <2>8
<1>9. ASSUME NEW i \in Instances, CannotRead(i) PROVE CmdOK' /\ ActsAsMeant'
  <2>1. /\ cmd.op # "idle" /\ i \in cmd.left
        /\ cmd' = [cmd EXCEPT !.left = @ \ {i}, !.steady = {e \in @ : e.inst # i}]
    BY <1>9, Zenon DEF CannotRead
  <2>2. /\ FoundOK(cmd.op, cmd.found)
        /\ cmd = [op |-> cmd.op, ref |-> cmd.ref, how |-> cmd.how, left |-> cmd.left,
                  found |-> cmd.found, steady |-> cmd.steady]
    BY <1>2, <2>1 DEF CmdOK
  <2>3. /\ cmd' = [op |-> cmd.op, ref |-> cmd.ref, how |-> cmd.how, left |-> cmd.left \ {i},
                   found |-> cmd'.found, steady |-> cmd'.steady]
        /\ cmd'.found = cmd.found /\ cmd'.steady = {e \in cmd.steady : e.inst # i}
    BY <2>1, <2>2, Zenon
  <2>4. cmd.found \subseteq cmd'.found /\ cmd'.steady \subseteq cmd.steady
    BY <2>3, Zenon
  <2>5. \A s \in cmd'.steady : s.inst = i => \E f \in cmd'.found : f.inst = s.inst /\ f.what = s.what
    BY <2>3, Zenon
  <2>. QED  BY <1>7, <2>1, <2>2, <2>3, <2>4, <2>5, Zenon
<1>10. ASSUME GivesUp PROVE CmdOK' /\ ActsAsMeant'
  BY <1>10, Zenon DEF GivesUp, IdleCmd, CmdOK, ActsAsMeant
<1>. QED  BY <1>3, <1>6, <1>8, <1>9, <1>10 DEF DecInv

LEMMA DecNextInv == DecInv /\ [DecNext]_decVars => DecInv'
<1>. SUFFICES ASSUME DecInv, [DecNext]_decVars PROVE DecInv'
  OBVIOUS
<1>1. CASE \E p \in MayAsk, ask \in Asks : Ask(p[1], p[2], ask)
  BY <1>1, AskStep, SteadyStep DEF StoreOK, DecInv
<1>2. CASE Begin \/ (\E i \in Instances : Read(i) \/ CannotRead(i)) \/ GivesUp
  BY <1>2, ReadingStep
<1>3. CASE cmd.op # "idle" /\ cmd.left = {} /\ Act(cmd)
  BY <1>3, OwnActStep, Zenon
<1>4. CASE cmd.op # "idle" /\ \E cm \in Others : Act(cm)
  BY <1>4, OthersStep
<1>5. CASE UNCHANGED decVars
  <2>1. DecTypeOK' /\ IdsUsed' /\ TableSaysTrue' /\ ActsAsMeant'
    BY <1>5, Zenon DEF DecInv, decVars, DecTypeOK, IdsUsed, TableSaysTrue, ActsAsMeant
  <2>2. CmdOK'
    BY <1>5, Zenon DEF DecInv, decVars, CmdOK, FoundOK, ReadIsTrue, SteadyFound, Named, RequestsNamed, memberIn, Waiting, Present
  <2>. QED  BY <2>1, <2>2 DEF DecInv
<1>. QED  BY <1>1, <1>2, <1>3, <1>4, <1>5, Zenon DEF DecNext

LEMMA DecInvariance == DecSpec => []DecInv
  BY DecInitInv, DecNextInv, PTL DEF DecSpec

(***************************************************************************)
(* "so the route table says what is true": a member's row has the          *)
(* addresses and the routes its certificate was signed for, however its    *)
(* request was asked again, forgotten or approved twice between the        *)
(* daemon's reading it and the hub's writing the row.                      *)
(***************************************************************************)
THEOREM TablesSayTrue == DecSpec => []TableSaysTrue
  BY DecInvariance, PTL DEF DecInv

(***************************************************************************)
(* Whatever a short reference is typed for, and whatever the hub serves    *)
(* while the daemon walks the instances: a command acts on something only  *)
(* if it is the one thing that answered to the reference all along, and    *)
(* the hub, which looks up what it is sent again, changes that and nothing *)
(* else.                                                                   *)
(***************************************************************************)
THEOREM CommandsActAsMeant == DecSpec => []ActsAsMeant
  BY DecInvariance, PTL DEF DecInv
=============================================================================
