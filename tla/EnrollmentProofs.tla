-------------------------- MODULE EnrollmentProofs --------------------------
(* Proofs about Enrollment, for every value of its constants: any number   *)
(* of other machines, saves that may fail, a process stopped at any time.  *)
EXTENDS Enrollment, MembershipProofs

-----------------------------------------------------------------------------
(* The hub's half is Membership.                                           *)

LEMMA HubHalf == EnrollmentNext => [Next]_vars
<1>1. EnrollSelf => Next
  BY SelfAssumption DEF EnrollSelf, OnHub, EnrollFresh, Next, Keys
<1>2. Submit \/ SubmitUnheard => Next
  BY <1>1 DEF Submit, SubmitUnheard
<1>3. SubmitRefused \/ Poll \/ Watch \/ Local \/ Stopped => UNCHANGED vars
  BY DEF SubmitRefused, Poll, Watch, Local, Stopped
<1>4. ASSUME HubStep PROVE Next
  <2>1. CASE \E k \in Keys \ {Self}, name \in Names \cup {NoName}, mac \in Tokens \cup {NoToken} :
               EnrollFresh(k, name, mac)
    BY <2>1 DEF EnrollFresh, Next
  <2>2. CASE \E id \in Ids, name \in Names \cup {NoName}, s \in Serials : Approve(id, name, {}, s)
    <3>1. {} \in SUBSET Networks
      OBVIOUS
    <3>. QED  BY <2>2, <3>1, Zenon DEF Next
  <2>3. CASE \E id \in Ids : Reject(id) \/ Forget(id)
    BY <2>3 DEF Next
  <2>4. CASE \E k \in Keys : Ban(k) \/ Unban(k) \/ RemoveMember(k)
    <3>1. Keys \subseteq Refs
      BY DEF Refs, MemberKeys
    <3>. QED  BY <2>4, <3>1, Zenon DEF Next
  <2>5. CASE applyBlocklist \/ Register \/ Restart
    BY <2>5 DEF Next
  <2>. QED  BY <1>4, <2>1, <2>2, <2>3, <2>4, <2>5 DEF HubStep, OnHub
<1>. QED  BY <1>2, <1>3, <1>4 DEF EnrollmentNext

\* A connector that enrolls, polls and is stopped does nothing to an instance
\* that Membership does not know: every behaviour of the composition is one of
\* Membership, so whatever is proved of that holds here.
THEOREM EnrollmentIsMembership == EnrollmentSpec => Spec
<1>1. EnrollmentInit => Init
  BY DEF EnrollmentInit
<1>2. [EnrollmentNext]_allVars => [Next]_vars
  BY HubHalf DEF allVars
<1>. QED  BY <1>1, <1>2, PTL DEF EnrollmentSpec, Spec

-----------------------------------------------------------------------------
(* What a hub step does to the requests.                                   *)

\* A record that hands out a certificate hands out one signed for its key.
Good(r, certs) ==
  /\ r.cert # None => r.cert \in certs /\ r.cert.key = r.key
  /\ r.status = "approved" => r.cert # None

AllGood(inst, certs) ==
  \A id \in Ids : inst.requests[id] # None => Good(inst.requests[id], certs)

\* Every request of `new' is one of `inst', filed by the same key.
Follows(inst, new, certs) ==
  \A id \in Ids : new.requests[id] # None =>
    /\ inst.requests[id] # None
    /\ new.requests[id].key = inst.requests[id].key
    /\ Good(new.requests[id], certs)

LEMMA FollowsItself ==
  ASSUME NEW inst, NEW new, NEW certs, NEW more, AllGood(inst, certs),
         new.requests = inst.requests, certs \subseteq more
  PROVE  Follows(inst, new, more)
BY DEF AllGood, Follows, Good

\* Rewriting a request in place (Resubmitted, Answered, Rejected).
LEMMA RewrittenFollows ==
  ASSUME NEW inst \in Instance, NEW certs, NEW more, AllGood(inst, certs), certs \subseteq more,
         NEW id \in Ids, inst.requests[id] # None,
         NEW r, r.key = inst.requests[id].key, Good(r, more),
         NEW new, new = [inst EXCEPT !.requests[id] = r]
  PROVE  Follows(inst, new, more)
<1>1. \A i \in Ids : new.requests[i] = IF i = id THEN r ELSE inst.requests[i]
  BY DEF Instance
<1>. QED  BY <1>1 DEF AllGood, Follows, Good

LEMMA OperationsFollow ==
  ASSUME NEW inst \in Instance, NEW certs, AllGood(inst, certs), NEW id \in Ids,
         inst.requests[id] # None
  PROVE  /\ \A name : Follows(inst, Resubmitted(inst, id, name), certs)
         /\ Follows(inst, Rejected(inst, id), certs)
         /\ Follows(inst, Forgotten(inst, id), certs)
<1>0. inst.requests[id] \in Record /\ Good(inst.requests[id], certs) /\ certs \subseteq certs
  BY DEF Instance, AllGood
<1>1. ASSUME NEW name PROVE Follows(inst, Resubmitted(inst, id, name), certs)
  <2>. DEFINE r == inst.requests[id]
              s == [r EXCEPT !.name = name,
                             !.status = IF r.status = "rejected" THEN "pending" ELSE r.status]
  <2>1. s.key = r.key /\ s.cert = r.cert
        /\ s.status = IF r.status = "rejected" THEN "pending" ELSE r.status
    BY <1>0 DEF Record
  <2>2. Good(s, certs)
    BY <1>0, <2>1 DEF Good
  <2>3. Resubmitted(inst, id, name) = [inst EXCEPT !.requests[id] = s]
    BY DEF Resubmitted
  <2>. HIDE DEF s
  <2>. QED  BY <1>0, <2>1, <2>2, <2>3, RewrittenFollows
<1>2. Follows(inst, Rejected(inst, id), certs)
  <2>. DEFINE s == [inst.requests[id] EXCEPT !.status = "rejected", !.cert = None]
  <2>1. s.key = inst.requests[id].key /\ s.cert = None /\ s.status = "rejected"
    BY <1>0 DEF Record
  <2>2. Good(s, certs)
    BY <2>1 DEF Good
  <2>3. Rejected(inst, id) = [inst EXCEPT !.requests[id] = s]
    BY DEF Rejected
  <2>. HIDE DEF s
  <2>. QED  BY <1>0, <2>1, <2>2, <2>3, RewrittenFollows
<1>3. Follows(inst, Forgotten(inst, id), certs)
  <2>1. \A i \in Ids : Forgotten(inst, id).requests[i] = IF i = id THEN None ELSE inst.requests[i]
    BY DEF Instance, Forgotten
  <2>. QED  BY <2>1 DEF Follows, AllGood, Good
<1>. QED  BY <1>1, <1>2, <1>3

LEMMA AnswersFollow ==
  ASSUME NEW inst \in Instance, NEW certs, AllGood(inst, certs), NEW id \in Ids,
         inst.requests[id] # None,
         NEW cert, cert # None, cert.key = inst.requests[id].key
  PROVE  /\ Follows(inst, Answered(inst, id, cert), certs \cup {cert})
         /\ \A name, routes : Follows(inst, Admitted(inst, id, name, routes, cert), certs \cup {cert})
<1>. DEFINE s == [inst.requests[id] EXCEPT !.status = "approved", !.cert = cert]
            ans == Answered(inst, id, cert)
<1>0. inst.requests[id] \in Record
  BY DEF Instance
<1>1. s.key = inst.requests[id].key /\ s.cert = cert
  BY <1>0 DEF Record
<1>2. Good(s, certs \cup {cert})
  BY <1>1 DEF Good
<1>3. ans = [inst EXCEPT !.requests[id] = s]
  BY DEF Answered
<1>. HIDE DEF s
<1>4. Follows(inst, ans, certs \cup {cert})
  <2>1. certs \subseteq certs \cup {cert}
    OBVIOUS
  <2>. HIDE DEF ans
  <2>. QED  BY <1>1, <1>2, <1>3, <2>1, RewrittenFollows, Zenon
<1>5. ASSUME NEW name, NEW routes
      PROVE  Admitted(inst, id, name, routes, cert).requests = ans.requests
  <2>. DEFINE r == inst.requests[id]
              m == [name |-> name, addr4 |-> r.addr4, addr6 |-> r.addr6,
                    routes |-> routes, cert |-> cert, banned |-> FALSE]
  <2>1. Admitted(inst, id, name, routes, cert) = [ans EXCEPT !.members[r.key] = m]
    BY DEF Admitted
  <2>2. DOMAIN ans = DOMAIN inst
    BY <1>3
  <2>3. [ans EXCEPT !.members[r.key] = m].requests = ans.requests
    <3>. HIDE DEF m, ans
    <3>. QED  BY <2>2, SMTT(30) DEF Instance
  <2>. HIDE DEF ans, m
  <2>. QED  BY <2>1, <2>3
<1>. HIDE DEF ans
<1>. QED  BY <1>4, <1>5, Zenon DEF Follows, ans

LEMMA OthersFollow ==
  ASSUME NEW inst \in Instance, NEW certs, AllGood(inst, certs), NEW k \in MemberKeys
  PROVE  /\ Follows(inst, Removed(inst, k), certs)
         /\ \A banned : Follows(inst, WithBan(inst, k, banned), certs)
<1>1. Removed(inst, k).requests =
        [id \in Ids |-> IF id \in RequestsOf(inst, k) THEN None ELSE inst.requests[id]]
  <2>. DEFINE b == inst.burned \cup {[key |-> k, cert |-> inst.members[k].cert]}
              m == [inst.members EXCEPT ![k] = None]
              a4 == [inst.alloc4 EXCEPT ![k] = NoAddr]
              a6 == [inst.alloc6 EXCEPT ![k] = NoAddr]
              rs == [id \in Ids |-> IF id \in RequestsOf(inst, k) THEN None ELSE inst.requests[id]]
              new == Removed(inst, k)
  <2>1. new = [inst EXCEPT !.burned = b, !.members = m, !.alloc4 = a4, !.alloc6 = a6, !.requests = rs]
    BY DEF Removed
  <2>. HIDE DEF b, m, a4, a6, rs, new
  <2>2. new.requests = rs
    BY <2>1 DEF Instance
  <2>. QED  BY <2>2 DEF rs, new
<1>2. ASSUME NEW banned PROVE WithBan(inst, k, banned).requests = inst.requests
  <2>. DEFINE m == [inst.members[k] EXCEPT !.banned = banned]
  <2>1. WithBan(inst, k, banned) = [inst EXCEPT !.members[k] = m]
    BY DEF WithBan
  <2>. HIDE DEF m
  <2>. QED  BY <2>1 DEF Instance
<1>3. Follows(inst, Removed(inst, k), certs)
  BY <1>1 DEF Follows, AllGood, Good
<1>. QED  BY <1>2, <1>3, Zenon DEF Follows, AllGood, Good

-----------------------------------------------------------------------------
(* The invariant.  A connector's id means its own request and no other,    *)
(* in memory and in the file, because an id is never used for a second     *)
(* request and only a connector without one submits.                       *)

Held == {files.request, proc.request} \ {None}

HeldIsOwn(inst) ==
  \A held \in Held : \A id \in Ids : inst.requests[id] # None =>
    (id = held <=> inst.requests[id].key = Self)

IssuedAll(inst) == \A id \in Ids : inst.requests[id] # None => id \in issued

Control ==
  /\ files.keys # "both" => files.request = None /\ proc.pc \in {"down", "public"}
  /\ proc.pc \in {"public", "submit"} => files.request = None
  /\ proc.pc \in {"down", "public", "submit"} => proc.request = None
  /\ proc.pc \in {"grant", "run"} => proc.bundle # None

EInv ==
  /\ AllGood(mem, signed) /\ AllGood(disk, signed)
  /\ IssuedAll(mem) /\ IssuedAll(disk)
  /\ Held \subseteq issued
  /\ HeldIsOwn(mem) /\ HeldIsOwn(disk)
  /\ files \in Conn!Files /\ proc \in Conn!Process
  /\ Control
  /\ GrantIsOwn

LEMMA InitEInv == EnrollmentInit => EInv
<1>. SUFFICES ASSUME EnrollmentInit PROVE EInv
  OBVIOUS
<1>1. PICK token \in Tokens \cup {NoToken} : mem = Created(token)
  BY DEF EnrollmentInit, Init
<1>2. \A id \in Ids : mem.requests[id] = None /\ disk.requests[id] = None
  BY <1>1 DEF Created, EnrollmentInit, Init
<1>3. /\ files = [keys |-> "none", request |-> None, bundle |-> None]
      /\ proc = [pc |-> "down", request |-> None, bundle |-> None, applied |-> {}]
  BY DEF EnrollmentInit, Conn!ConnInit, Conn!NoFiles, Conn!Down
<1>4. files \in Conn!Files /\ proc \in Conn!Process
  BY <1>3 DEF Conn!Files, Conn!Process
<1>5. AllGood(mem, signed) /\ AllGood(disk, signed) /\ IssuedAll(mem) /\ IssuedAll(disk)
  BY <1>2 DEF AllGood, IssuedAll
<1>6. Held = {} /\ Control /\ GrantIsOwn
  BY <1>3 DEF Held, Control, GrantIsOwn
<1>. QED  BY <1>4, <1>5, <1>6 DEF EInv, HeldIsOwn

\* Every request of `new' was there before, in memory or in the file, or is
\* the first under its id and was filed by `k' just now.
Comes(new, k) ==
  \A id \in Ids : new.requests[id] # None =>
    /\ Good(new.requests[id], signed')
    /\ \/ \E old \in {mem, disk} :
            old.requests[id] # None /\ old.requests[id].key = new.requests[id].key
       \/ id \notin issued /\ id \in issued' /\ new.requests[id].key = k

LEMMA FollowsComes ==
  ASSUME NEW new, NEW k, Follows(mem, new, signed') \/ Follows(disk, new, signed')
  PROVE  Comes(new, k)
BY DEF Follows, Comes

\* An update makes both copies come from what there was.
LEMMA UpdateComes ==
  ASSUME EInv, signed \subseteq signed', NEW new, NEW k, Comes(new, k),
         mem' = new, disk' = new \/ disk' = disk
  PROVE  Comes(mem', k) /\ Comes(disk', k)
<1>1. Follows(disk, disk, signed')
  BY FollowsItself DEF EInv
<1>2. Comes(disk, k)
  BY <1>1, FollowsComes
<1>. QED  BY <1>2 DEF Comes

LEMMA EnrollComes ==
  ASSUME IInv, EInv, NEW k \in Keys, NEW name, NEW mac, EnrollFresh(k, name, mac),
         issued' = issued \cup Present(mem')
  PROVE  Comes(mem', k) /\ Comes(disk', k)
<1>1. mem \in Instance /\ AllGood(mem, signed) /\ signed' = signed
  BY DEF IInv, TypeOK, EInv, EnrollFresh, Enroll
<1>2. CASE \E id \in RequestsOf(mem, k) : Update(Resubmitted(mem, id, name))
  <2>1. PICK id \in RequestsOf(mem, k) : Update(Resubmitted(mem, id, name))
    BY <1>2
  <2>. DEFINE new == Resubmitted(mem, id, name)
  <2>2. Follows(mem, new, signed')
    BY <1>1, OperationsFollow DEF RequestsOf
  <2>3. mem' = new /\ (disk' = new \/ disk' = disk)
    BY <2>1 DEF Update, Saved, SaveFailed
  <2>. HIDE DEF new
  <2>4. Comes(new, k)
    BY <2>2, FollowsComes
  <2>. QED  BY <1>1, <2>3, <2>4, UpdateComes, SMTT(30)
<1>3. CASE \E id \in {i \in Ids : mem.requests[i] = None} : Update(Submitted(mem, id, k, name))
  <2>1. PICK id \in Ids : mem.requests[id] = None /\ Update(Submitted(mem, id, k, name))
    BY <1>3
  <2>. DEFINE new == Submitted(mem, id, k, name)
              a4 == allocate(mem, k)
              a6 == allocate6(mem, k)
              r == [key |-> k, name |-> name, status |-> "pending",
                    addr4 |-> a4, addr6 |-> a6, cert |-> None]
  <2>2. mem' = new /\ (disk' = new \/ disk' = disk)
    BY <2>1 DEF Update, Saved, SaveFailed
  <2>3. new = [mem EXCEPT !.alloc4[k] = a4, !.alloc6[k] = a6, !.requests[id] = r]
    BY DEF Submitted
  <2>4. r.key = k /\ r.cert = None /\ r.status = "pending"
    OBVIOUS
  <2>. HIDE DEF new, r, a4, a6
  <2>5. new.requests = [mem.requests EXCEPT ![id] = r]
    BY <1>1, <2>3, SMTT(30) DEF Instance
  <2>6. \A i \in Ids : new.requests[i] = IF i = id THEN r ELSE mem.requests[i]
    BY <1>1, <2>5, SMTT(30) DEF Instance
  <2>7. new.requests[id] # None => id \notin issued /\ id \in issued'
    BY <2>1, <2>2, SMTT(30) DEF EnrollFresh, Present
  <2>8. Comes(new, k)
    <3>. SUFFICES ASSUME NEW i \in Ids, new.requests[i] # None
                  PROVE  /\ Good(new.requests[i], signed')
                         /\ \/ mem.requests[i] # None /\ mem.requests[i].key = new.requests[i].key
                            \/ i \notin issued /\ i \in issued' /\ new.requests[i].key = k
      BY Zenon DEF Comes
    <3>1. CASE i = id
      <4>1. new.requests[i] = r /\ i \notin issued /\ i \in issued'
        BY <2>6, <2>7, <3>1, Zenon
      <4>2. Good(r, signed')
        BY <2>4 DEF Good
      <4>. QED  BY <2>4, <4>1, <4>2, Zenon
    <3>2. CASE i # id
      <4>1. new.requests[i] = mem.requests[i]
        BY <2>6, <3>2, Zenon
      <4>. QED  BY <1>1, <4>1, Zenon DEF AllGood
    <3>. QED  BY <3>1, <3>2, Zenon
  <2>. QED  BY <1>1, <2>2, <2>8, UpdateComes, SMTT(30)
<1>. QED  BY <1>2, <1>3, SMTT(30) DEF EnrollFresh, Enroll

LEMMA ApproveComes ==
  ASSUME IInv, EInv, NEW id \in Ids, NEW name, NEW s \in Serials, Approve(id, name, {}, s), NEW k
  PROVE  Comes(mem', k) /\ Comes(disk', k)
<1>. DEFINE r == mem.requests[id]
            cert == [key |-> r.key, addr4 |-> r.addr4, addr6 |-> r.addr6, serial |-> s]
            admitted == Admitted(mem, id, NameGiven(mem, id, name), {}, cert)
            answered == Answered(mem, id, cert)
<1>1. /\ mem \in Instance /\ AllGood(mem, signed) /\ r # None /\ r \in Record
      /\ signed' = signed \cup {cert}
  BY Zenon DEF IInv, TypeOK, EInv, Approve, Instance
<1>2. cert \in Cert /\ cert.key = r.key /\ cert # None
  <2>1. cert \in Cert
    BY <1>1, Zenon DEF Record, Cert
  <2>2. cert.key = r.key
    OBVIOUS
  <2>. HIDE DEF cert
  <2>. QED  BY <2>1, <2>2, NoneAssumption, Zenon
<1>3. \E new \in {admitted, answered} : mem' = new /\ (disk' = new \/ disk' = disk)
  BY Zenon DEF Approve, Update, Saved, SaveFailed
<1>. HIDE DEF cert
<1>4. Follows(mem, admitted, signed') /\ Follows(mem, answered, signed')
  BY <1>1, <1>2, AnswersFollow, SMTT(30)
<1>. HIDE DEF admitted, answered
<1>5. Comes(admitted, k) /\ Comes(answered, k) /\ signed \subseteq signed'
  BY <1>1, <1>4, FollowsComes, SMTT(30)
<1>. QED  BY <1>3, <1>5, UpdateComes

\* What another machine, the owner or the hub does.
LEMMA HubComes ==
  ASSUME IInv, EInv, HubStep
  PROVE  \E k : k # Self /\ Comes(mem', k) /\ Comes(disk', k)
<1>0. /\ mem \in Instance /\ disk \in Instance
      /\ AllGood(mem, signed) /\ AllGood(disk, signed)
      /\ Owner # Self
  BY SelfAssumption, KeysAssumption, Zenon DEF IInv, TypeOK, EInv, Keys
<1>1. CASE \E k \in Keys \ {Self}, name \in Names \cup {NoName}, mac \in Tokens \cup {NoToken} :
             EnrollFresh(k, name, mac)
  <2>1. PICK k \in Keys \ {Self}, name \in Names \cup {NoName}, mac \in Tokens \cup {NoToken} :
               EnrollFresh(k, name, mac)
    BY <1>1
  <2>2. issued' = issued \cup Present(mem')
    BY DEF HubStep, OnHub
  <2>3. Comes(mem', k) /\ Comes(disk', k)
    BY <2>1, <2>2, EnrollComes
  <2>. QED  BY <2>3
<1>2. CASE \E id \in Ids, name \in Names \cup {NoName}, s \in Serials : Approve(id, name, {}, s)
  <2>1. Comes(mem', Owner) /\ Comes(disk', Owner)
    BY <1>2, ApproveComes
  <2>. QED  BY <1>0, <2>1
<1>3. ASSUME signed' = signed, NEW new, Follows(mem, new, signed),
             mem' = new, disk' = new \/ disk' = disk
      PROVE  Comes(mem', Owner) /\ Comes(disk', Owner)
  <2>1. Comes(new, Owner)
    BY <1>3, FollowsComes
  <2>. QED  BY <1>3, <2>1, UpdateComes
<1>4. CASE \E id \in Ids : Reject(id) \/ Forget(id)
  <2>1. PICK id \in Ids : Reject(id) \/ Forget(id)
    BY <1>4
  <2>2. mem.requests[id] # None /\ signed' = signed
    BY <2>1 DEF Reject, Forget
  <2>3. \E new \in {Rejected(mem, id), Forgotten(mem, id)} :
          mem' = new /\ (disk' = new \/ disk' = disk)
    BY <2>1 DEF Reject, Forget, Update, Saved, SaveFailed
  <2>4. Follows(mem, Rejected(mem, id), signed) /\ Follows(mem, Forgotten(mem, id), signed)
    BY <1>0, <2>2, OperationsFollow
  <2>5. Comes(mem', Owner) /\ Comes(disk', Owner)
    BY <1>3, <2>2, <2>3, <2>4, SMTT(30)
  <2>. QED  BY <1>0, <2>5
<1>5. CASE \E k \in Keys : Ban(k) \/ Unban(k) \/ RemoveMember(k)
  <2>1. PICK ref \in Keys : Ban(ref) \/ Unban(ref) \/ RemoveMember(ref)
    BY <1>5
  <2>2. signed' = signed
    BY <2>1, Zenon DEF Ban, Unban, SetBan, RemoveMember
  <2>3. PICK k \in memberIn(mem, ref) :
          \E new \in {WithBan(mem, k, TRUE), WithBan(mem, k, FALSE), Removed(mem, k)} :
            mem' = new /\ (disk' = new \/ disk' = disk)
    BY <2>1, Zenon DEF Ban, Unban, SetBan, RemoveMember, Update, Saved, SaveFailed
  <2>4. k \in MemberKeys
    BY DEF memberIn
  <2>5. /\ Follows(mem, Removed(mem, k), signed)
        /\ \A banned : Follows(mem, WithBan(mem, k, banned), signed)
    BY <1>0, <2>4, OthersFollow
  <2>6. Comes(mem', Owner) /\ Comes(disk', Owner)
    BY <1>3, <2>2, <2>3, <2>5, Zenon
  <2>. QED  BY <1>0, <2>6
<1>6. CASE applyBlocklist \/ Register \/ Restart
  <2>1. signed' = signed /\ mem' \in {mem, disk} /\ disk' \in {mem, disk}
    BY <1>6 DEF applyBlocklist, Register, Restart, store
  <2>2. Follows(mem, mem, signed) /\ Follows(disk, disk, signed)
    BY <1>0, FollowsItself
  <2>3. Comes(mem, Owner) /\ Comes(disk, Owner)
    BY <2>1, <2>2, FollowsComes
  <2>4. Comes(mem', Owner) /\ Comes(disk', Owner)
    BY <2>1, <2>3
  <2>. QED  BY <1>0, <2>4
<1>. QED  BY <1>1, <1>2, <1>4, <1>5, <1>6, SMTT(30) DEF HubStep, OnHub

\* What a hub step that files nothing for this connector leaves true.
LEMMA HubPart ==
  ASSUME EInv, NEW k, Comes(mem', k), Comes(disk', k), issued' = issued \cup Present(mem')
  PROVE  /\ AllGood(mem, signed)' /\ AllGood(disk, signed)'
         /\ IssuedAll(mem)' /\ IssuedAll(disk)'
         /\ k # Self /\ UNCHANGED connVars => HeldIsOwn(mem)' /\ HeldIsOwn(disk)'
<1>1. AllGood(mem, signed)' /\ AllGood(disk, signed)'
  BY DEF Comes, AllGood
<1>2. IssuedAll(mem)' /\ IssuedAll(disk)'
  BY SMTT(30) DEF EInv, Comes, IssuedAll
<1>3. ASSUME k # Self, UNCHANGED connVars PROVE HeldIsOwn(mem)' /\ HeldIsOwn(disk)'
  <2>1. Held' = Held /\ Held \subseteq issued
    BY <1>3, Zenon DEF Held, connVars, EInv
  <2>2. HeldIsOwn(mem) /\ HeldIsOwn(disk)
    BY Zenon DEF EInv
  <2>3. ASSUME NEW new, Comes(new, k), NEW held \in Held, NEW id \in Ids, new.requests[id] # None
        PROVE  id = held <=> new.requests[id].key = Self
    <3>1. CASE \E old \in {mem, disk} :
                 old.requests[id] # None /\ old.requests[id].key = new.requests[id].key
      <4>1. PICK old \in {mem, disk} :
                 old.requests[id] # None /\ old.requests[id].key = new.requests[id].key
        BY <3>1, Zenon
      <4>2. HeldIsOwn(old)
        BY <2>2, <4>1, Zenon
      <4>3. id = held <=> old.requests[id].key = Self
        BY <2>3, <4>1, <4>2, Zenon DEF HeldIsOwn
      <4>. QED  BY <4>1, <4>3, Zenon
    <3>2. CASE id \notin issued /\ new.requests[id].key = k
      <4>1. id # held
        BY <2>1, <2>3, <3>2, Zenon
      <4>. QED  BY <1>3, <3>2, <4>1, Zenon
    <3>. QED  BY <2>3, <3>1, <3>2, Zenon DEF Comes
  <2>. QED  BY <2>1, <2>3, Zenon DEF HeldIsOwn
<1>. QED  BY <1>1, <1>2, <1>3, SMTT(30)

LEMMA HubStepKeeps ==
  ASSUME IInv, EInv, HubStep
  PROVE  EInv'
<1>1. PICK k : k # Self /\ Comes(mem', k) /\ Comes(disk', k)
  BY HubComes
<1>2. UNCHANGED connVars /\ issued' = issued \cup Present(mem')
  BY DEF HubStep, OnHub
<1>3. /\ AllGood(mem, signed)' /\ AllGood(disk, signed)'
      /\ IssuedAll(mem)' /\ IssuedAll(disk)'
      /\ HeldIsOwn(mem)' /\ HeldIsOwn(disk)'
  BY <1>1, <1>2, HubPart, SMTT(30)
<1>4. Held' \subseteq issued' /\ Control' /\ files' \in Conn!Files /\ proc' \in Conn!Process
  BY <1>2 DEF EInv, Held, Control, connVars
<1>5. signed \subseteq signed'
  BY Zenon DEF HubStep, OnHub, EnrollFresh, Enroll, Approve, Reject, Forget, Ban, Unban, SetBan,
         RemoveMember, applyBlocklist, Register, Restart
<1>6. GrantIsOwn'
  BY <1>2, <1>5 DEF EInv, GrantIsOwn, connVars
<1>. QED  BY <1>3, <1>4, <1>6 DEF EInv, Conn!Files, Conn!Process, Conn!Bundle

\* The connector's own submission: it has no id when it submits, and takes the
\* id of the only request the hub has of it.
LEMMA SubmitKeeps ==
  ASSUME IInv, EInv, IInv', EnrollSelf, Conn!submitFailed \/
           (disk' = mem' /\ \E id \in RequestsOf(mem', Self) : Conn!submit(id))
  PROVE  EInv'
<1>1. issued' = issued \cup Present(mem') /\ signed' = signed
  BY DEF EnrollSelf, OnHub, EnrollFresh, Enroll
<1>2. Comes(mem', Self) /\ Comes(disk', Self)
  <2>1. PICK mac \in Tokens \cup {NoToken} : EnrollFresh(Self, NoName, mac)
    BY DEF EnrollSelf, OnHub
  <2>2. Self \in Keys
    BY SelfAssumption DEF Keys
  <2>. QED  BY <1>1, <2>1, <2>2, EnrollComes, SMTT(30)
<1>3. /\ AllGood(mem, signed)' /\ AllGood(disk, signed)'
      /\ IssuedAll(mem)' /\ IssuedAll(disk)'
  BY <1>1, <1>2, HubPart
<1>4. proc.pc = "submit" /\ files' = files /\ proc \in Conn!Process /\ files \in Conn!Files
  BY Zenon DEF Conn!submitFailed, Conn!submit, EInv
<1>5. files.request = None /\ proc.request = None
  BY <1>4, Zenon DEF EInv, Control
<1>6. CASE Conn!submitFailed
  <2>1. proc' = [proc EXCEPT !.pc = "refused"]
    BY <1>6 DEF Conn!submitFailed
  <2>2. /\ proc' \in Conn!Process /\ proc'.pc = "refused"
        /\ proc'.request = proc.request /\ proc'.bundle = proc.bundle
    BY <1>4, <2>1 DEF Conn!Process
  <2>3. Held' = {}
    BY <1>4, <1>5, <2>2, Zenon DEF Held
  <2>4. Control' /\ GrantIsOwn'
    BY <1>1, <1>4, <2>2, Zenon DEF EInv, Control, GrantIsOwn
  <2>. QED  BY <1>3, <1>4, <2>2, <2>3, <2>4, Zenon DEF EInv, HeldIsOwn, Conn!Files, Conn!Process, Conn!Bundle
<1>7. CASE disk' = mem' /\ \E id \in RequestsOf(mem', Self) : Conn!submit(id)
  <2>1. PICK id \in RequestsOf(mem', Self) : Conn!submit(id)
    BY <1>7
  <2>2. proc' = [proc EXCEPT !.pc = "save", !.request = id] /\ id \in Ids
    BY <2>1, Zenon DEF Conn!submit, RequestsOf
  <2>3. /\ proc' \in Conn!Process /\ proc'.pc = "save"
        /\ proc'.request = id /\ proc'.bundle = proc.bundle
    BY <1>4, <2>2, Zenon DEF Conn!Process
  <2>4. Held' \subseteq {id} /\ id \in issued'
    BY <1>1, <1>4, <1>5, <2>1, <2>3, SMTT(30) DEF Held, RequestsOf, Present
  <2>5. \A i, j \in Ids :
          /\ mem'.requests[i] # None /\ mem'.requests[j] # None
          /\ mem'.requests[i].key = mem'.requests[j].key
          => i = j
    BY Zenon DEF IInv, InstOK, RequestsOK
  <2>6. HeldIsOwn(mem)' /\ HeldIsOwn(disk)'
    BY <1>7, <2>1, <2>4, <2>5, SMTT(30) DEF HeldIsOwn, RequestsOf
  <2>7. Control' /\ GrantIsOwn'
    BY <1>1, <1>4, <2>3, SMTT(30) DEF EInv, Control, GrantIsOwn
  <2>. QED  BY <1>3, <1>4, <2>3, <2>4, <2>6, <2>7, Zenon DEF EInv, Conn!Files, Conn!Process, Conn!Bundle
<1>. QED  BY <1>6, <1>7, SMTT(30)

\* A step of the connector alone.
LEMMA ConnectorAlone ==
  ASSUME EInv, UNCHANGED <<vars, issued>>, files' \in Conn!Files, proc' \in Conn!Process,
         Held' \subseteq Held, Control', GrantIsOwn'
  PROVE  EInv'
<1>1. UNCHANGED <<mem, disk, signed, issued>>
  BY DEF vars
<1>2. HeldIsOwn(mem)' /\ HeldIsOwn(disk)'
  BY <1>1 DEF EInv, HeldIsOwn
<1>3. AllGood(mem, signed)' /\ AllGood(disk, signed)' /\ IssuedAll(mem)' /\ IssuedAll(disk)'
  BY <1>1, SMTT(30) DEF EInv, AllGood, IssuedAll
<1>. QED  BY <1>1, <1>2, <1>3 DEF EInv, Conn!Files, Conn!Process, Conn!Bundle

\* What is loaded is what the directory holds.
LEMMA LoadedFields ==
  ASSUME NEW f \in Conn!Files
  PROVE  /\ Conn!Loaded(f) \in Conn!Process
         /\ Conn!Loaded(f).request = f.request /\ Conn!Loaded(f).bundle = f.bundle
         /\ Conn!Loaded(f).pc \in {"run", "poll", "submit"}
         /\ Conn!Loaded(f).pc = "run" => f.bundle # None
         /\ Conn!Loaded(f).pc = "submit" => f.request = None
<1>1. f.bundle # None => f.bundle.blocked \in SUBSET Cert
  BY DEF Conn!Files, Conn!Bundle
<1>2. f.request \in Ids \cup {None} /\ f.bundle \in Conn!Bundle \cup {None}
  BY DEF Conn!Files
<1>. DEFINE pc == IF f.bundle # None THEN "run" ELSE IF f.request # None THEN "poll" ELSE "submit"
            applied == IF f.bundle # None THEN f.bundle.blocked ELSE {}
<1>3. Conn!Loaded(f) = [pc |-> pc, request |-> f.request, bundle |-> f.bundle, applied |-> applied]
  BY DEF Conn!Loaded
<1>4. applied \in SUBSET Cert /\ pc \in {"run", "poll", "submit"}
  BY <1>1
<1>5. (pc = "run" => f.bundle # None) /\ (pc = "submit" => f.request = None)
  OBVIOUS
<1>. HIDE DEF pc, applied
<1>. QED  BY <1>2, <1>3, <1>4, <1>5, SMTT(30) DEF Conn!Process

LEMMA LocalKeeps ==
  ASSUME EInv, Local \/ Stopped
  PROVE  EInv'
<1>0. /\ files \in Conn!Files /\ proc \in Conn!Process /\ Control /\ GrantIsOwn
      /\ UNCHANGED <<vars, issued>> /\ signed' = signed
  BY DEF EInv, Local, Stopped, vars
<1>1. CASE Conn!Start /\ files.keys # "both"
  <2>1. files' = [files EXCEPT !.keys = "private"] /\ proc' = [proc EXCEPT !.pc = "public"]
    BY <1>1 DEF Conn!Start
  <2>2. /\ files' \in Conn!Files /\ files'.keys = "private"
        /\ files'.request = files.request /\ files'.bundle = files.bundle
    BY <1>0, <2>1 DEF Conn!Files
  <2>3. /\ proc' \in Conn!Process /\ proc'.pc = "public"
        /\ proc'.request = proc.request /\ proc'.bundle = proc.bundle
    BY <1>0, <2>1 DEF Conn!Process
  <2>4. files.request = None /\ proc.request = None
    BY <1>0, <1>1, SMTT(30) DEF Control, Conn!Start
  <2>5. Held' \subseteq Held /\ Control' /\ GrantIsOwn'
    BY <1>0, <2>2, <2>3, <2>4, SMTT(30) DEF Held, Control, GrantIsOwn
  <2>. QED  BY <1>0, <2>2, <2>3, <2>5, ConnectorAlone, SMTT(30)
<1>2. CASE Conn!Start /\ files.keys = "both"
  <2>1. files' = files /\ proc' = Conn!Loaded(files)
    BY <1>2, SMTT(30) DEF Conn!Start
  <2>2. /\ proc' \in Conn!Process
        /\ proc'.request = files.request /\ proc'.bundle = files.bundle
        /\ proc'.pc \in {"run", "poll", "submit"}
        /\ proc'.pc = "run" => files.bundle # None
        /\ proc'.pc = "submit" => files.request = None
    BY <1>0, <2>1, LoadedFields, SMTT(30)
  <2>3. Held' \subseteq Held /\ Control' /\ GrantIsOwn'
    BY <1>0, <1>2, <2>1, <2>2, SMTT(30) DEF Held, Control, GrantIsOwn
  <2>. QED  BY <1>0, <2>1, <2>2, <2>3, ConnectorAlone, SMTT(30)
<1>3. CASE Conn!WritePublicKey
  <2>1. files' = [files EXCEPT !.keys = "both"] /\ proc' = Conn!Loaded(files') /\ proc.pc = "public"
    BY <1>3 DEF Conn!WritePublicKey
  <2>2. /\ files' \in Conn!Files /\ files'.keys = "both"
        /\ files'.request = files.request /\ files'.bundle = files.bundle
    BY <1>0, <2>1 DEF Conn!Files
  <2>3. /\ proc' \in Conn!Process
        /\ proc'.request = files.request /\ proc'.bundle = files.bundle
        /\ proc'.pc \in {"run", "poll", "submit"}
        /\ proc'.pc = "run" => files.bundle # None
        /\ proc'.pc = "submit" => files.request = None
    BY <2>1, <2>2, LoadedFields, Zenon
  <2>4. Held' \subseteq Held /\ Control' /\ GrantIsOwn'
    BY <1>0, <2>1, <2>2, <2>3, SMTT(30) DEF Held, Control, GrantIsOwn
  <2>. QED  BY <1>0, <2>2, <2>3, <2>4, ConnectorAlone, SMTT(30)
<1>4. CASE Conn!SaveRequestID
  <2>1. /\ files' = [files EXCEPT !.request = proc.request]
        /\ proc' = [proc EXCEPT !.pc = "poll"] /\ proc.pc = "save"
    BY <1>4 DEF Conn!SaveRequestID
  <2>2. proc.request \in Ids \cup {None}
    BY <1>0 DEF Conn!Process
  <2>3. /\ files' \in Conn!Files /\ files'.keys = files.keys
        /\ files'.request = proc.request /\ files'.bundle = files.bundle
    BY <1>0, <2>1, <2>2 DEF Conn!Files
  <2>4. /\ proc' \in Conn!Process /\ proc'.pc = "poll"
        /\ proc'.request = proc.request /\ proc'.bundle = proc.bundle
    BY <1>0, <2>1 DEF Conn!Process
  <2>5. Held' \subseteq Held /\ Control' /\ GrantIsOwn'
    BY <1>0, <2>1, <2>3, <2>4, SMTT(30) DEF Held, Control, GrantIsOwn
  <2>. QED  BY <1>0, <2>3, <2>4, <2>5, ConnectorAlone, SMTT(30)
<1>5. CASE Conn!SaveBundle
  <2>1. /\ files' = [files EXCEPT !.bundle = proc.bundle]
        /\ proc' = [proc EXCEPT !.pc = "run", !.applied = proc.bundle.blocked]
        /\ proc.pc = "grant"
    BY <1>5 DEF Conn!SaveBundle
  <2>2. proc.bundle # None /\ proc.bundle \in Conn!Bundle /\ proc.bundle.blocked \in SUBSET Cert
    BY <1>0, <2>1 DEF Control, Conn!Process, Conn!Bundle
  <2>3. /\ files' \in Conn!Files /\ files'.keys = files.keys
        /\ files'.request = files.request /\ files'.bundle = proc.bundle
    BY <1>0, <2>1, <2>2 DEF Conn!Files
  <2>4. /\ proc' \in Conn!Process /\ proc'.pc = "run"
        /\ proc'.request = proc.request /\ proc'.bundle = proc.bundle
    BY <1>0, <2>1, <2>2, Zenon DEF Conn!Process
  <2>5. Held' \subseteq Held /\ Control' /\ GrantIsOwn'
    BY <1>0, <2>1, <2>2, <2>3, <2>4, SMTT(30) DEF Held, Control, GrantIsOwn
  <2>. QED  BY <1>0, <2>3, <2>4, <2>5, ConnectorAlone, SMTT(30)
<1>6. CASE Conn!refused \/ Conn!Stop
  <2>1. files' = files /\ proc' = [pc |-> "down", request |-> None, bundle |-> None, applied |-> {}]
    BY <1>6 DEF Conn!refused, Conn!Stop, Conn!Down
  <2>2. /\ proc' \in Conn!Process /\ proc'.pc = "down"
        /\ proc'.request = None /\ proc'.bundle = None
    BY <2>1, SMTT(30) DEF Conn!Process
  <2>3. Held' \subseteq Held /\ Control' /\ GrantIsOwn'
    BY <1>0, <2>1, <2>2, SMTT(30) DEF Held, Control, GrantIsOwn
  <2>. QED  BY <1>0, <2>1, <2>2, <2>3, ConnectorAlone, SMTT(30)
<1>. QED  BY <1>1, <1>2, <1>3, <1>4, <1>5, <1>6, SMTT(30) DEF Local, Stopped

\* An answer from the hub: the request it is about is the connector's own.
LEMMA AnswerKeeps ==
  ASSUME IInv, EInv, Poll \/ Watch \/ SubmitRefused
  PROVE  EInv'
<1>0. /\ files \in Conn!Files /\ proc \in Conn!Process /\ Control /\ GrantIsOwn
      /\ UNCHANGED <<vars, issued>> /\ signed' = signed
      /\ mem \in Instance /\ signed \subseteq Cert
  BY Zenon DEF EInv, Poll, Watch, SubmitRefused, vars, IInv, TypeOK
<1>1. blockedIn(mem) \subseteq Cert
  BY <1>0, BlockedAreCerts
<1>2. ASSUME files' = files, proc' \in Conn!Process, proc'.pc = "refused",
             proc'.request = proc.request, proc'.bundle = proc.bundle,
             files.keys = "both"
      PROVE  EInv'
  <2>1. Held' \subseteq Held /\ Control' /\ GrantIsOwn'
    BY <1>0, <1>2 DEF Held, Control, GrantIsOwn
  <2>. QED  BY <1>0, <1>2, <2>1, ConnectorAlone, SMTT(30)
<1>3. CASE Conn!rejected \/ Conn!submitFailed
  <2>1. files' = files /\ proc' = [proc EXCEPT !.pc = "refused"] /\ files.keys = "both"
    BY <1>0, <1>3 DEF Conn!rejected, Conn!submitFailed, Control
  <2>2. /\ proc' \in Conn!Process /\ proc'.pc = "refused"
        /\ proc'.request = proc.request /\ proc'.bundle = proc.bundle
    BY <1>0, <2>1 DEF Conn!Process
  <2>. QED  BY <1>2, <2>1, <2>2
<1>4. ASSUME NEW r \in Result(proc.request), r.status = "approved",
             Conn!approved(r.cert, blockedIn(mem))
      PROVE  EInv'
  <2>. DEFINE b == [cert |-> r.cert, blocked |-> blockedIn(mem)]
  <2>1. proc.request \in Ids /\ r = mem.requests[proc.request] /\ r # None
    BY <1>4 DEF Result
  <2>2. r.cert # None /\ r.cert \in signed /\ r.cert.key = r.key
    BY <1>4, <2>1, ZenonT(30) DEF EInv, AllGood, Good
  <2>3. r.key = Self
    BY <2>1, AbsentAssumption, SMTT(30) DEF EInv, HeldIsOwn, Held
  <2>4. b \in Conn!Bundle /\ b.cert = r.cert
    BY <1>0, <1>1, <2>2, SMTT(30) DEF Conn!Bundle
  <2>5. files' = files /\ proc' = [proc EXCEPT !.pc = "grant", !.bundle = b] /\ proc.pc = "poll"
    BY <1>4, SMTT(30) DEF Conn!approved
  <2>6. b # None
    BY <2>4, AbsentAssumption, SMTT(30)
  <2>. HIDE DEF b
  <2>7. /\ proc' \in Conn!Process /\ proc'.pc = "grant"
        /\ proc'.request = proc.request /\ proc'.bundle = b
    BY <1>0, <2>4, <2>5, Zenon DEF Conn!Process
  <2>8. Held' \subseteq Held /\ Control' /\ GrantIsOwn'
    BY <1>0, <2>2, <2>3, <2>4, <2>5, <2>6, <2>7, SMTT(30) DEF Held, Control, GrantIsOwn
  <2>. QED  BY <1>0, <2>5, <2>7, <2>8, ConnectorAlone, SMTT(30)
<1>5. CASE Conn!watchBlocklist(blockedIn(mem))
  <2>. DEFINE fresh == blockedIn(mem) \ {proc.bundle.cert}
              updated == [proc.bundle EXCEPT !.blocked = fresh]
  <2>1. /\ proc.pc = "run"
        /\ proc' = [proc EXCEPT !.bundle = updated, !.applied = fresh]
        /\ files' \in {files, [files EXCEPT !.bundle = updated]}
    BY <1>5 DEF Conn!watchBlocklist
  <2>2. proc.bundle # None /\ proc.bundle \in Conn!Bundle
    BY <1>0, <2>1 DEF Control, Conn!Process
  <2>3. fresh \in SUBSET Cert
    BY <1>1
  <2>. HIDE DEF fresh
  <2>4. updated \in Conn!Bundle /\ updated.cert = proc.bundle.cert
    BY <2>2, <2>3 DEF Conn!Bundle
  <2>5. updated # None
    BY <2>4, AbsentAssumption
  <2>. HIDE DEF updated
  <2>6. /\ proc' \in Conn!Process /\ proc'.pc = "run"
        /\ proc'.request = proc.request /\ proc'.bundle = updated
    BY <1>0, <2>1, <2>3, <2>4, Zenon DEF Conn!Process
  <2>7. /\ files' \in Conn!Files /\ files'.keys = files.keys
        /\ files'.request = files.request /\ files'.bundle \in {files.bundle, updated}
    BY <1>0, <2>1, <2>4 DEF Conn!Files
  <2>8. Held' \subseteq Held /\ Control'
    BY <1>0, <2>1, <2>5, <2>6, <2>7, SMTT(30) DEF Held, Control
  <2>9. GrantIsOwn'
    BY <1>0, <2>2, <2>4, <2>6, <2>7, SMTT(30) DEF GrantIsOwn
  <2>. QED  BY <1>0, <2>6, <2>7, <2>8, <2>9, ConnectorAlone, SMTT(30)
<1>. QED  BY <1>3, <1>4, <1>5 DEF Poll, Watch, SubmitRefused

-----------------------------------------------------------------------------
LEMMA EnrollmentInvariance == EnrollmentSpec => []EInv
<1>1. EnrollmentInit => EInv
  BY InitEInv
<1>2. IInv /\ IInv' /\ EInv /\ [EnrollmentNext]_allVars => EInv'
  <2>. SUFFICES ASSUME IInv, IInv', EInv, [EnrollmentNext]_allVars PROVE EInv'
    OBVIOUS
  <2>1. CASE Submit \/ SubmitUnheard
    BY <2>1, SubmitKeeps DEF Submit, SubmitUnheard
  <2>2. CASE SubmitRefused \/ Poll \/ Watch
    BY <2>2, AnswerKeeps
  <2>3. CASE Local \/ Stopped
    BY <2>3, LocalKeeps
  <2>4. CASE HubStep
    BY <2>4, HubStepKeeps
  <2>5. CASE UNCHANGED allVars
    <3>1. UNCHANGED <<vars, issued>> /\ files' = files /\ proc' = proc /\ signed' = signed
      BY <2>5, SMTT(30) DEF allVars, connVars, vars
    <3>2. /\ files' \in Conn!Files /\ proc' \in Conn!Process
          /\ Held' \subseteq Held /\ Control' /\ GrantIsOwn'
      BY <3>1 DEF EInv, Held, Control, GrantIsOwn
    <3>. QED  BY <3>1, <3>2, ConnectorAlone, SMTT(30)
  <2>. QED  BY <2>1, <2>2, <2>3, <2>4, <2>5, SMTT(30) DEF EnrollmentNext
<1>. QED  BY <1>1, <1>2, EnrollmentIsMembership, Invariance, PTL DEF EnrollmentSpec

\* A connector never keeps or runs with a grant that is not its own
\* (waitForApproval, SaveBundle, Hub.Result), whatever answers are lost, saves
\* fail, processes stop or requests are forgotten.
THEOREM GrantsStayOwn == EnrollmentSpec => []GrantIsOwn
<1>1. EInv => GrantIsOwn
  BY SMTT(30) DEF EInv
<1>. QED  BY <1>1, EnrollmentInvariance, PTL

\* The request a connector polls is the only one the hub has of it
\* (SaveRequestID, Hub.Enroll).
THEOREM PollsStayOne == EnrollmentSpec => []PollsTheOne
<1>1. EInv => PollsTheOne
  <2>. SUFFICES ASSUME EInv, files.request # None, NEW id \in RequestsOf(mem, Self)
                PROVE  id = files.request
    BY DEF PollsTheOne
  <2>. QED  BY DEF EInv, HeldIsOwn, Held, RequestsOf
<1>. QED  BY <1>1, EnrollmentInvariance, PTL
=============================================================================
