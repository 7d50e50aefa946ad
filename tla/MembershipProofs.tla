-------------------------- MODULE MembershipProofs --------------------------
(* Proofs about Membership, for every value of its constants. *)
EXTENDS Membership, WellFoundedInduction, TLAPS

-----------------------------------------------------------------------------
(* Addresses.                                                              *)

\* A set of natural numbers has a least element.
LEMMA LeastElement ==
  ASSUME NEW S \in SUBSET Nat, S # {}
  PROVE  \E n \in S : \A m \in S : n <= m
<1>. DEFINE less == OpToRel(<, Nat)
<1>1. IsWellFoundedOn(less, Nat)
  BY NatLessThanWellFounded, Zenon
<1>2. PICK n \in S : \A m \in S : ~(<<m, n>> \in less)
  <2>. HIDE DEF less
  <2>. QED  BY <1>1, WFMin, Zenon
<1>3. \A m \in S : ~(m < n)
  BY <1>2, Zenon DEF OpToRel
<1>. QED  BY <1>3

\* lowestFree answers with one of the free addresses.
LEMMA LowestFreeIsFree ==
  ASSUME NEW free \in SUBSET Nat, free # {}
  PROVE  lowestFree(free) \in free
<1>1. PICK n \in free : \A m \in free : n <= m
  BY LeastElement
<1>. QED  BY <1>1, Zenon DEF lowestFree

\* highestFree does too, in a pool that has an end.
LEMMA HighestFreeIsFree ==
  ASSUME NEW hosts \in Nat, NEW free \in SUBSET (0 .. hosts), free # {}
  PROVE  highestFree(free) \in free
<1>. DEFINE left == {hosts - a : a \in free}
<1>0. \A a \in free : a \in Nat /\ hosts - a \in Nat
  OBVIOUS
<1>1. left \in SUBSET Nat /\ left # {}
  BY <1>0, Zenon
<1>2. PICK n \in left : \A m \in left : n <= m
  <2>. HIDE DEF left
  <2>. QED  BY <1>1, LeastElement
<1>3. PICK a \in free : n = hosts - a
  BY <1>2
<1>4. \A b \in free : a >= b
  BY <1>2, <1>3
<1>. QED  BY <1>4, Zenon DEF highestFree

\* fromPool (allocate, allocate6) keeps the address a key already has, and
\* otherwise finds one that nobody has and nothing is reserved for, or none.
LEMMA FromPoolIsFresh ==
  ASSUME NEW hosts \in Nat, NEW alloc \in [Keys -> 0 .. hosts], NEW others, NEW k \in Keys
  PROVE  LET a == fromPool(hosts, alloc, others, k)
         IN  /\ a \in 0 .. hosts
             /\ alloc[k] # NoAddr => a = alloc[k]
             /\ alloc[k] = NoAddr /\ a # NoAddr =>
                  /\ a \notin {LighthouseHost, TenantHost}
                  /\ \A j \in Keys : alloc[j] # a
<1>. DEFINE free == FreeHosts(hosts, alloc, others)
<1>1. free \in SUBSET (0 .. hosts) /\ free \in SUBSET Nat
  BY DEF FreeHosts
<1>2. free # {} => lowestFree(free) \in free /\ highestFree(free) \in free
  BY <1>1, LowestFreeIsFree, HighestFreeIsFree, Zenon
<1>3. \A a \in free : /\ a \notin {LighthouseHost, TenantHost}
                      /\ \A j \in Keys : alloc[j] # a
  BY DEF FreeHosts
<1>. HIDE DEF free
<1>. QED  BY <1>1, <1>2, <1>3 DEF fromPool, free

-----------------------------------------------------------------------------
(* The invariant of one copy of the instance.  AddressesDistinct and the   *)
(* other invariants do not carry themselves: that two members have         *)
(* different addresses rests on each having the one its key was allocated, *)
(* and that rests on a request never being older than the allocation.      *)

AllocOK(inst) ==
  \A j, k \in Keys :
    /\ inst.alloc4[k] \notin {LighthouseHost, TenantHost}
    /\ inst.alloc6[k] \notin {LighthouseHost, TenantHost}
    /\ j # k /\ inst.alloc4[j] = inst.alloc4[k] => inst.alloc4[k] = NoAddr
    /\ j # k /\ inst.alloc6[j] = inst.alloc6[k] => inst.alloc6[k] = NoAddr

RequestsOK(inst) ==
  /\ \A id \in Ids : inst.requests[id] # None =>
       /\ inst.requests[id].addr4 = inst.alloc4[inst.requests[id].key]
       /\ inst.requests[id].addr6 = inst.alloc6[inst.requests[id].key]
  /\ \A i, j \in Ids :
       /\ inst.requests[i] # None /\ inst.requests[j] # None
       /\ inst.requests[i].key = inst.requests[j].key
       => i = j

MembersOK(inst) ==
  /\ IsMember(inst, Owner)
  /\ inst.members[Owner].addr4 = TenantHost
  /\ inst.members[Owner].addr6 \in {NoAddr, TenantHost}
  /\ \A k \in Keys : IsMember(inst, k) =>
       /\ inst.members[k].addr4 \in {NoAddr, inst.alloc4[k]}
       /\ inst.members[k].addr6 \in {NoAddr, inst.alloc6[k]}

InstOK(inst) ==
  /\ inst \in Instance
  /\ AllocOK(inst) /\ RequestsOK(inst) /\ MembersOK(inst)
  /\ KeptOut(inst) /\ OneName(inst)

\* What an operation on the instance keeps: the invariant, the burned list,
\* and everything that is not on the blocklist off it.
Keeps(inst, new) ==
  /\ InstOK(new)
  /\ inst.burned \subseteq new.burned
  /\ blockedIn(new) \subseteq blockedIn(inst)

\* Rewriting a request in place (Resubmitted, Answered, Rejected).
LEMMA RequestRewritten ==
  ASSUME NEW inst, InstOK(inst), NEW id \in Ids, inst.requests[id] # None,
         NEW r \in Record,
         r.key = inst.requests[id].key,
         r.addr4 = inst.requests[id].addr4, r.addr6 = inst.requests[id].addr6
  PROVE  Keeps(inst, [inst EXCEPT !.requests[id] = r])
<1>. DEFINE new == [inst EXCEPT !.requests[id] = r]
<1>1. inst \in Instance
  BY DEF InstOK
<1>2. /\ new.requests = [inst.requests EXCEPT ![id] = r]
      /\ new.members = inst.members
      /\ new.alloc4 = inst.alloc4 /\ new.alloc6 = inst.alloc6
      /\ new.burned = inst.burned
  BY <1>1 DEF Instance
<1>3. new \in Instance
  BY <1>1, Zenon DEF Instance
<1>4. r # None
  BY NoneAssumption
<1>5. \A i \in Ids : new.requests[i] = IF i = id THEN r ELSE inst.requests[i]
  BY <1>1, <1>2 DEF Instance
<1>. HIDE DEF new
<1>6. AllocOK(new) /\ MembersOK(new) /\ OneName(new)
  BY <1>2 DEF InstOK, AllocOK, MembersOK, OneName, IsMember
<1>7. RequestsOK(new)
  BY <1>2, <1>4, <1>5 DEF InstOK, RequestsOK
<1>8. KeptOut(new)
  BY <1>2, <1>4, <1>5 DEF InstOK, KeptOut, IsMember, IsBurned, RequestsOf
<1>9. blockedIn(new) = blockedIn(inst)
  BY <1>2 DEF blockedIn, Banned, IsMember
<1>. QED  BY <1>2, <1>3, <1>6, <1>7, <1>8, <1>9 DEF Keeps, InstOK, new

\* Writing a member (Admitted, WithBan): with the addresses its key was
\* allocated, under a name nobody else has, for a key that is not burned.
LEMMA MemberWritten ==
  ASSUME NEW inst, InstOK(inst), NEW k \in MemberKeys, NEW m \in Member,
         k \in Keys => /\ ~IsBurned(inst, k)
                       /\ m.addr4 \in {NoAddr, inst.alloc4[k]}
                       /\ m.addr6 \in {NoAddr, inst.alloc6[k]},
         k = Owner => m.addr4 = TenantHost /\ m.addr6 \in {NoAddr, TenantHost},
         \A j \in MemberKeys \ {k} :
           IsMember(inst, j) /\ inst.members[j].name = m.name => m.name = NoName
  PROVE  LET new == [inst EXCEPT !.members[k] = m]
         IN  /\ InstOK(new)
             /\ new.burned = inst.burned
             /\ ~m.banned => blockedIn(new) \subseteq blockedIn(inst)
<1>. DEFINE new == [inst EXCEPT !.members[k] = m]
<1>1. inst \in Instance
  BY DEF InstOK
<1>2. /\ new.members = [inst.members EXCEPT ![k] = m]
      /\ new.requests = inst.requests
      /\ new.alloc4 = inst.alloc4 /\ new.alloc6 = inst.alloc6
      /\ new.burned = inst.burned
  BY <1>1 DEF Instance
<1>3. new \in Instance
  BY <1>1, Zenon DEF Instance
<1>4. m # None
  BY NoneAssumption
<1>5. \A j \in MemberKeys : new.members[j] = IF j = k THEN m ELSE inst.members[j]
  BY <1>1, <1>2 DEF Instance
<1>. HIDE DEF new
<1>6. AllocOK(new) /\ RequestsOK(new)
  BY <1>2 DEF InstOK, AllocOK, RequestsOK
<1>7. MembersOK(new)
  BY <1>2, <1>4, <1>5 DEF InstOK, MembersOK, IsMember, MemberKeys
<1>8. KeptOut(new)
  BY <1>2, <1>5 DEF InstOK, KeptOut, IsMember, IsBurned, RequestsOf, MemberKeys
<1>9. OneName(new)
  BY <1>4, <1>5 DEF InstOK, OneName, IsMember
<1>10. ~m.banned => blockedIn(new) \subseteq blockedIn(inst)
  BY <1>2, <1>5, Zenon DEF blockedIn, Banned, IsMember
<1>. QED  BY <1>2, <1>3, <1>6, <1>7, <1>8, <1>9, <1>10 DEF InstOK, new

\* A first request: whatever the pools answer, nobody else has it.
LEMMA SubmittedKeeps ==
  ASSUME NEW inst, InstOK(inst), NEW k \in Keys, NEW name \in Names \cup {NoName},
         NEW id \in Ids, inst.requests[id] = None,
         ~IsBurned(inst, k), RequestsOf(inst, k) = {}
  PROVE  Keeps(inst, Submitted(inst, id, k, name))
<1>. DEFINE new == Submitted(inst, id, k, name)
            a4 == allocate(inst, k)
            a6 == allocate6(inst, k)
            r == [key |-> k, name |-> name, status |-> "pending",
                  addr4 |-> a4, addr6 |-> a6, cert |-> None]
<1>1. inst \in Instance
  BY DEF InstOK
<1>2. /\ a4 \in Addr4
      /\ inst.alloc4[k] # NoAddr => a4 = inst.alloc4[k]
      /\ inst.alloc4[k] = NoAddr /\ a4 # NoAddr =>
           a4 \notin {LighthouseHost, TenantHost} /\ \A j \in Keys : inst.alloc4[j] # a4
  <2>. DEFINE others == memberAddresses(inst, FALSE)
  <2>1. inst.alloc4 \in [Keys -> 0 .. Hosts4] /\ Hosts4 \in Nat
    BY <1>1, HostsAssumption DEF Instance, Addr4
  <2>2. a4 = fromPool(Hosts4, inst.alloc4, others, k)
    BY DEF allocate
  <2>. HIDE DEF others, a4
  <2>. QED  BY <2>1, <2>2, FromPoolIsFresh DEF Addr4
<1>3. /\ a6 \in Addr6
      /\ inst.alloc6[k] # NoAddr => a6 = inst.alloc6[k]
      /\ inst.alloc6[k] = NoAddr /\ a6 # NoAddr =>
           a6 \notin {LighthouseHost, TenantHost} /\ \A j \in Keys : inst.alloc6[j] # a6
  <2>. DEFINE others == memberAddresses(inst, TRUE)
  <2>1. inst.alloc6 \in [Keys -> 0 .. Hosts6] /\ Hosts6 \in Nat
    BY <1>1, HostsAssumption DEF Instance, Addr6
  <2>2. a6 = fromPool(Hosts6, inst.alloc6, others, k)
    BY DEF allocate6
  <2>. HIDE DEF others, a6
  <2>. QED  BY <2>1, <2>2, FromPoolIsFresh DEF Addr6
<1>. HIDE DEF a4, a6
<1>4. r \in Record
  BY <1>2, <1>3 DEF Record, Status
<1>5. r # None /\ r.key = k /\ r.addr4 = a4 /\ r.addr6 = a6
  BY <1>4, NoneAssumption
<1>. HIDE DEF r
<1>6. new = [inst EXCEPT !.alloc4[k] = a4, !.alloc6[k] = a6, !.requests[id] = r]
  BY DEF Submitted, a4, a6, r
<1>. HIDE DEF new
<1>7. /\ new.alloc4 = [inst.alloc4 EXCEPT ![k] = a4]
      /\ new.alloc6 = [inst.alloc6 EXCEPT ![k] = a6]
      /\ new.requests = [inst.requests EXCEPT ![id] = r]
      /\ new.members = inst.members /\ new.burned = inst.burned
  BY <1>1, <1>6 DEF Instance
<1>8. new \in Instance
  BY <1>1, <1>2, <1>3, <1>4, <1>6, Zenon DEF Instance
<1>9. /\ \A j \in Keys : new.alloc4[j] = IF j = k THEN a4 ELSE inst.alloc4[j]
      /\ \A j \in Keys : new.alloc6[j] = IF j = k THEN a6 ELSE inst.alloc6[j]
      /\ \A i \in Ids : new.requests[i] = IF i = id THEN r ELSE inst.requests[i]
  BY <1>1, <1>7 DEF Instance
<1>10. \A i \in Ids : inst.requests[i] # None =>
         inst.requests[i].key \in Keys /\ inst.requests[i].key # k
  BY <1>1 DEF Instance, Record, RequestsOf
<1>11. AllocOK(new)
  BY <1>2, <1>3, <1>9 DEF InstOK, AllocOK, NoAddr, LighthouseHost, TenantHost
<1>12. RequestsOK(new)
  BY <1>5, <1>9, <1>10, SMTT(30) DEF InstOK, RequestsOK
<1>13. MembersOK(new)
  BY <1>2, <1>3, <1>7, <1>9 DEF InstOK, MembersOK, IsMember
<1>14. KeptOut(new)
  BY <1>5, <1>7, <1>9 DEF InstOK, KeptOut, IsMember, IsBurned, RequestsOf
<1>15. OneName(new) /\ blockedIn(new) = blockedIn(inst)
  BY <1>7 DEF InstOK, OneName, blockedIn, Banned, IsMember
<1>. QED  BY <1>7, <1>8, <1>11, <1>12, <1>13, <1>14, <1>15 DEF Keeps, InstOK, new

\* Forget drops the request and nothing else.
LEMMA ForgottenKeeps ==
  ASSUME NEW inst, InstOK(inst), NEW id \in Ids
  PROVE  Keeps(inst, Forgotten(inst, id))
<1>. DEFINE new == Forgotten(inst, id)
<1>1. inst \in Instance
  BY DEF InstOK
<1>2. /\ new.requests = [inst.requests EXCEPT ![id] = None]
      /\ new.members = inst.members
      /\ new.alloc4 = inst.alloc4 /\ new.alloc6 = inst.alloc6
      /\ new.burned = inst.burned
  BY <1>1 DEF Instance, Forgotten
<1>3. new \in Instance
  BY <1>1, Zenon DEF Instance, Forgotten
<1>4. \A i \in Ids : new.requests[i] = IF i = id THEN None ELSE inst.requests[i]
  BY <1>1, <1>2, Zenon DEF Instance
<1>. HIDE DEF new
<1>5. AllocOK(new) /\ MembersOK(new) /\ OneName(new)
  BY <1>2 DEF InstOK, AllocOK, MembersOK, OneName, IsMember
<1>6. RequestsOK(new)
  BY <1>2, <1>4 DEF InstOK, RequestsOK
<1>7. KeptOut(new)
  BY <1>2, <1>4 DEF InstOK, KeptOut, IsMember, IsBurned, RequestsOf
<1>8. blockedIn(new) = blockedIn(inst)
  BY <1>2 DEF blockedIn, Banned, IsMember
<1>. QED  BY <1>2, <1>3, <1>5, <1>6, <1>7, <1>8 DEF Keeps, InstOK, new

\* Removing a banned member moves its certificate from one part of the
\* blocklist to the other, and takes everything else of the key away.
LEMMA RemovedKeeps ==
  ASSUME NEW inst, InstOK(inst), NEW k \in Keys, IsMember(inst, k), inst.members[k].banned
  PROVE  Keeps(inst, Removed(inst, k))
<1>. DEFINE new == Removed(inst, k)
            b == [key |-> k, cert |-> inst.members[k].cert]
<1>1. inst \in Instance /\ inst.members[k] \in Member
  BY DEF InstOK, Instance, IsMember, MemberKeys
<1>2. b \in Burned /\ b.key = k /\ b.cert = inst.members[k].cert
  BY <1>1 DEF Burned, Member
<1>. HIDE DEF b
<1>. DEFINE burned == inst.burned \cup {b}
            members == [inst.members EXCEPT ![k] = None]
            alloc4 == [inst.alloc4 EXCEPT ![k] = NoAddr]
            alloc6 == [inst.alloc6 EXCEPT ![k] = NoAddr]
            requests == [i \in Ids |-> IF i \in RequestsOf(inst, k) THEN None
                                      ELSE inst.requests[i]]
<1>3. /\ NoAddr \in Addr4 /\ NoAddr \in Addr6
      /\ inst.alloc4 \in [Keys -> Addr4] /\ inst.alloc6 \in [Keys -> Addr6]
      /\ inst.members \in [MemberKeys -> Member \cup {None}]
      /\ inst.requests \in [Ids -> Record \cup {None}]
      /\ inst.burned \in SUBSET Burned
  BY <1>1, HostsAssumption DEF Instance, Addr4, Addr6, NoAddr
<1>4. /\ burned \in SUBSET Burned
      /\ members \in [MemberKeys -> Member \cup {None}]
      /\ alloc4 \in [Keys -> Addr4] /\ alloc6 \in [Keys -> Addr6]
      /\ requests \in [Ids -> Record \cup {None}]
  <2>1. burned \in SUBSET Burned /\ members \in [MemberKeys -> Member \cup {None}]
    BY <1>2, <1>3, Zenon
  <2>2. alloc4 \in [Keys -> Addr4] /\ alloc6 \in [Keys -> Addr6]
    BY <1>3
  <2>3. requests \in [Ids -> Record \cup {None}]
    BY <1>3
  <2>. QED  BY <2>1, <2>2, <2>3
<1>5. new = [inst EXCEPT !.burned = burned, !.members = members, !.alloc4 = alloc4,
                         !.alloc6 = alloc6, !.requests = requests]
  BY DEF Removed, b
<1>. HIDE DEF burned, members, alloc4, alloc6, requests, new
<1>6. /\ new \in Instance
      /\ new.burned = burned /\ new.members = members
      /\ new.alloc4 = alloc4 /\ new.alloc6 = alloc6
      /\ new.requests = requests
  BY <1>1, <1>4, <1>5, Zenon DEF Instance
<1>7. /\ \A j \in MemberKeys : new.members[j] = IF j = k THEN None ELSE inst.members[j]
      /\ \A j \in Keys : new.alloc4[j] = IF j = k THEN NoAddr ELSE inst.alloc4[j]
      /\ \A j \in Keys : new.alloc6[j] = IF j = k THEN NoAddr ELSE inst.alloc6[j]
  BY <1>3, <1>6 DEF members, alloc4, alloc6
<1>8. \A i \in Ids : new.requests[i] # None =>
        new.requests[i] = inst.requests[i] /\ inst.requests[i].key \in Keys \ {k}
  BY <1>3, <1>6 DEF requests, RequestsOf, Record
<1>9. Owner # k
  BY KeysAssumption, Zenon
<1>10. AllocOK(new)
  BY <1>7 DEF InstOK, AllocOK, NoAddr, LighthouseHost, TenantHost
<1>11. RequestsOK(new)
  BY <1>7, <1>8, SMTT(30) DEF InstOK, RequestsOK
<1>12. MembersOK(new)
  BY <1>7, <1>9, Zenon DEF InstOK, MembersOK, IsMember, MemberKeys
<1>13. KeptOut(new)
  BY <1>2, <1>6, <1>7, <1>8 DEF burned, InstOK, KeptOut, IsMember, IsBurned, RequestsOf, MemberKeys
<1>14. OneName(new)
  BY <1>7 DEF InstOK, OneName, IsMember
<1>15. blockedIn(new) \subseteq blockedIn(inst)
  BY <1>2, <1>6, <1>7 DEF burned, blockedIn, Banned, IsMember, MemberKeys
<1>. QED  BY <1>6, <1>10, <1>11, <1>12, <1>13, <1>14, <1>15 DEF burned, Keeps, InstOK, new

\* The three ways a request is rewritten.
LEMMA ResubmittedKeeps ==
  ASSUME NEW inst, InstOK(inst), NEW id \in Ids, inst.requests[id] # None,
         NEW name \in Names \cup {NoName}
  PROVE  Keeps(inst, Resubmitted(inst, id, name))
<1>. DEFINE old == inst.requests[id]
            r == [old EXCEPT !.name = name,
                             !.status = IF old.status = "rejected" THEN "pending" ELSE old.status]
<1>1. old \in Record
  BY DEF InstOK, Instance
<1>2. r \in Record /\ r.key = old.key /\ r.addr4 = old.addr4 /\ r.addr6 = old.addr6
  BY <1>1, Zenon DEF Record, Status
<1>3. Resubmitted(inst, id, name) = [inst EXCEPT !.requests[id] = r]
  BY DEF Resubmitted
<1>. HIDE DEF r
<1>. QED  BY <1>2, <1>3, RequestRewritten

LEMMA AnsweredKeeps ==
  ASSUME NEW inst, InstOK(inst), NEW id \in Ids, inst.requests[id] # None,
         NEW cert \in Cert
  PROVE  /\ Keeps(inst, Answered(inst, id, cert))
         /\ LET new == Answered(inst, id, cert)
            IN  /\ new.members = inst.members
                /\ new.alloc4 = inst.alloc4 /\ new.alloc6 = inst.alloc6
                /\ new.burned = inst.burned
<1>. DEFINE old == inst.requests[id]
            r == [old EXCEPT !.status = "approved", !.cert = cert]
<1>1. old \in Record /\ inst \in Instance
  BY DEF InstOK, Instance
<1>2. r \in Record /\ r.key = old.key /\ r.addr4 = old.addr4 /\ r.addr6 = old.addr6
  BY <1>1, Zenon DEF Record, Status
<1>3. Answered(inst, id, cert) = [inst EXCEPT !.requests[id] = r]
  BY DEF Answered
<1>. HIDE DEF r
<1>4. Keeps(inst, Answered(inst, id, cert))
  BY <1>2, <1>3, RequestRewritten
<1>. QED  BY <1>1, <1>3, <1>4 DEF Instance

LEMMA RejectedKeeps ==
  ASSUME NEW inst, InstOK(inst), NEW id \in Ids, inst.requests[id] # None
  PROVE  Keeps(inst, Rejected(inst, id))
<1>. DEFINE old == inst.requests[id]
            r == [old EXCEPT !.status = "rejected", !.cert = None]
<1>1. old \in Record
  BY DEF InstOK, Instance
<1>2. r \in Record /\ r.key = old.key /\ r.addr4 = old.addr4 /\ r.addr6 = old.addr6
  BY <1>1, Zenon DEF Record, Status
<1>3. Rejected(inst, id) = [inst EXCEPT !.requests[id] = r]
  BY DEF Rejected
<1>. HIDE DEF r
<1>. QED  BY <1>2, <1>3, RequestRewritten

\* An approval writes a member with the addresses of the request, which are
\* the key's; a burned key has no request to approve.
LEMMA AdmittedKeeps ==
  ASSUME NEW inst, InstOK(inst), NEW id \in Ids, inst.requests[id] # None,
         NEW name \in Names \cup {NoName}, NEW routes \in SUBSET Networks,
         NEW cert \in Cert, ~NameTaken(inst, id, name)
  PROVE  Keeps(inst, Admitted(inst, id, NameGiven(inst, id, name), routes, cert))
<1>. DEFINE r == inst.requests[id]
            given == NameGiven(inst, id, name)
            ans == Answered(inst, id, cert)
            m == [name |-> given, addr4 |-> r.addr4, addr6 |-> r.addr6,
                  routes |-> routes, cert |-> cert, banned |-> FALSE]
            new == [ans EXCEPT !.members[r.key] = m]
<1>1. r \in Record /\ r.key \in Keys /\ r.key \in MemberKeys
  BY DEF InstOK, Instance, Record, MemberKeys
<1>2. given \in Names \cup {NoName}
  BY <1>1 DEF NameGiven, Record
<1>3. m \in Member
  BY <1>1, <1>2, Zenon DEF Member, Record
<1>4. m.addr4 = r.addr4 /\ m.addr6 = r.addr6 /\ m.name = given /\ ~m.banned
  OBVIOUS
<1>5. /\ Keeps(inst, ans) /\ InstOK(ans)
      /\ ans.members = inst.members
      /\ ans.alloc4 = inst.alloc4 /\ ans.alloc6 = inst.alloc6 /\ ans.burned = inst.burned
  BY AnsweredKeeps, Zenon DEF Keeps
<1>. HIDE DEF ans, m
<1>6. ~IsBurned(ans, r.key)
  BY <1>1, <1>5, Zenon DEF InstOK, KeptOut, RequestsOf, IsBurned
<1>7. m.addr4 \in {NoAddr, ans.alloc4[r.key]} /\ m.addr6 \in {NoAddr, ans.alloc6[r.key]}
  BY <1>4, <1>5, Zenon DEF InstOK, RequestsOK
<1>8. r.key # Owner
  BY <1>1, KeysAssumption, Zenon
<1>9. \A j \in MemberKeys \ {r.key} :
        IsMember(ans, j) /\ ans.members[j].name = m.name => m.name = NoName
  BY <1>4, <1>5, Zenon DEF NameTaken, IsMember
<1>10. /\ InstOK(new) /\ new.burned = ans.burned
       /\ blockedIn(new) \subseteq blockedIn(ans)
  BY <1>1, <1>3, <1>4, <1>5, <1>6, <1>7, <1>8, <1>9, MemberWritten, Zenon
<1>11. new = Admitted(inst, id, given, routes, cert)
  BY DEF Admitted, ans, m
<1>. HIDE DEF new, given
<1>. QED  BY <1>5, <1>10, <1>11, Zenon DEF Keeps, given

\* A ban and its lifting change nothing but the ban.
LEMMA WithBanKeeps ==
  ASSUME NEW inst, InstOK(inst), NEW k \in MemberKeys, IsMember(inst, k),
         NEW banned \in BOOLEAN
  PROVE  LET new == WithBan(inst, k, banned)
         IN  /\ InstOK(new) /\ new.burned = inst.burned
             /\ ~banned => blockedIn(new) \subseteq blockedIn(inst)
<1>. DEFINE old == inst.members[k]
            m == [old EXCEPT !.banned = banned]
<1>1. old \in Member
  BY DEF InstOK, Instance, IsMember
<1>2. /\ m \in Member /\ m.name = old.name /\ m.addr4 = old.addr4 /\ m.addr6 = old.addr6
      /\ m.banned = banned
  BY <1>1 DEF Member
<1>3. WithBan(inst, k, banned) = [inst EXCEPT !.members[k] = m]
  BY DEF WithBan
<1>. HIDE DEF m
<1>4. k \in Keys => /\ ~IsBurned(inst, k)
                    /\ m.addr4 \in {NoAddr, inst.alloc4[k]}
                    /\ m.addr6 \in {NoAddr, inst.alloc6[k]}
  BY <1>2, Zenon DEF InstOK, KeptOut, MembersOK
<1>5. k = Owner => m.addr4 = TenantHost /\ m.addr6 \in {NoAddr, TenantHost}
  BY <1>2, Zenon DEF InstOK, MembersOK
<1>6. \A j \in MemberKeys \ {k} :
        IsMember(inst, j) /\ inst.members[j].name = m.name => m.name = NoName
  BY <1>2, Zenon DEF InstOK, OneName, IsMember
<1>. QED  BY <1>2, <1>3, <1>4, <1>5, <1>6, MemberWritten, SMTT(30)

\* The token and the lighthouse's certificates are nobody else's business.
LEMMA SettingsKeep ==
  ASSUME NEW inst, InstOK(inst), NEW new \in Instance,
         new.requests = inst.requests, new.members = inst.members,
         new.alloc4 = inst.alloc4, new.alloc6 = inst.alloc6, new.burned = inst.burned
  PROVE  Keeps(inst, new)
<1>1. AllocOK(new) /\ RequestsOK(new) /\ MembersOK(new)
  <2>1. AllocOK(inst) /\ RequestsOK(inst) /\ MembersOK(inst)
    BY Zenon DEF InstOK
  <2>2. AllocOK(new)
    BY <2>1 DEF AllocOK
  <2>3. RequestsOK(new)
    BY <2>1 DEF RequestsOK
  <2>4. MembersOK(new)
    BY <2>1, Zenon DEF MembersOK, IsMember
  <2>. QED  BY <2>2, <2>3, <2>4, Zenon
<1>2. KeptOut(new) /\ OneName(new)
  BY DEF InstOK, KeptOut, OneName, IsMember, IsBurned, RequestsOf
<1>3. blockedIn(new) = blockedIn(inst)
  BY DEF blockedIn, Banned, IsMember
<1>. QED  BY <1>1, <1>2, <1>3, Zenon DEF Keeps, InstOK

\* An instance starts with its owner in it and nothing else.
LEMMA CreatedOK ==
  ASSUME NEW token \in Tokens \cup {NoToken}
  PROVE  InstOK(Created(token)) /\ Created(token).burned = {}
<1>. DEFINE inst == Created(token)
<1>1. /\ OwnerMember \in Member /\ OwnerMember # None
      /\ OwnerMember.addr4 = TenantHost /\ OwnerMember.addr6 \in {NoAddr, TenantHost}
  <2>. DEFINE a6 == IF Hosts6 = 0 THEN NoAddr ELSE TenantHost
  <2>1. TenantHost \in Addr4 /\ a6 \in Addr6 /\ a6 \in {NoAddr, TenantHost}
    BY HostsAssumption DEF Addr4, Addr6, TenantHost, NoAddr
  <2>2. OwnerMember = [name |-> InstanceName, addr4 |-> TenantHost, addr6 |-> a6,
                       routes |-> {}, cert |-> None, banned |-> FALSE]
    BY DEF OwnerMember
  <2>. HIDE DEF a6
  <2>3. OwnerMember \in Member
    BY <2>1, <2>2, NamesAssumption DEF Member
  <2>. QED  BY <2>1, <2>2, <2>3, NoneAssumption, Zenon
<1>2. NoAddr \in Addr4 /\ NoAddr \in Addr6
  BY HostsAssumption DEF Addr4, Addr6, NoAddr
<1>3. /\ inst \in Instance
      /\ inst.burned = {}
      /\ \A id \in Ids : inst.requests[id] = None
      /\ \A k \in Keys : inst.alloc4[k] = NoAddr /\ inst.alloc6[k] = NoAddr
      /\ \A k \in MemberKeys : inst.members[k] = IF k = Owner THEN OwnerMember ELSE None
  BY <1>1, <1>2, Zenon DEF Created, Instance
<1>4. Owner \notin Keys /\ Owner \in MemberKeys /\ Keys \subseteq MemberKeys
  BY KeysAssumption, SMTT(30) DEF MemberKeys
<1>. HIDE DEF inst
<1>5. AllocOK(inst) /\ RequestsOK(inst)
  BY <1>3 DEF AllocOK, RequestsOK, NoAddr, LighthouseHost, TenantHost
<1>6. MembersOK(inst) /\ OneName(inst)
  BY <1>1, <1>3, <1>4, Zenon DEF MembersOK, OneName, IsMember
<1>7. KeptOut(inst)
  BY <1>3 DEF KeptOut, IsBurned
<1>. QED  BY <1>3, <1>5, <1>6, <1>7 DEF InstOK, inst

-----------------------------------------------------------------------------
(* The invariant of the hub: both copies are well formed, the file is      *)
(* never ahead of memory in what is burned, and a settled lighthouse       *)
(* refuses what the instance says.                                         *)

IInv ==
  /\ TypeOK
  /\ InstOK(mem) /\ InstOK(disk)
  /\ disk.burned \subseteq mem.burned
  /\ LighthouseRefusesBlocked

LEMMA BlockedAreCerts ==
  ASSUME NEW inst \in Instance
  PROVE  blockedIn(inst) \subseteq Cert
<1>1. \A k \in MemberKeys : Banned(inst, k) => inst.members[k].cert \in Cert \cup {None}
  BY DEF Instance, Member, Banned, IsMember
<1>2. \A b \in inst.burned : b.cert \in Cert \cup {None}
  BY DEF Instance, Burned
<1>. QED  BY <1>1, <1>2, Zenon DEF blockedIn

LEMMA InitIInv == Init => IInv
<1>. SUFFICES ASSUME Init PROVE IInv
  OBVIOUS
<1>1. PICK token \in Tokens \cup {NoToken} : mem = Created(token)
  BY DEF Init
<1>2. InstOK(mem) /\ InstOK(disk) /\ disk.burned = {}
  BY <1>1, CreatedOK DEF Init
<1>3. TypeOK
  <2>1. applying \in 0 .. MaxApplying
    BY BoundAssumption DEF Init
  <2>2. mem \in Instance /\ disk \in Instance
    BY <1>2, Zenon DEF InstOK
  <2>. QED  BY <2>1, <2>2, Zenon DEF Init, TypeOK
<1>. QED  BY <1>2, <1>3 DEF Init, IInv, LighthouseRefusesBlocked

\* What every step is shown to do.
StepOK == IInv' /\ disk.burned \subseteq disk'.burned

\* The store carries whatever an operation keeps into memory and, unless the
\* save fails, into the file.
LEMMA KeptInMemory ==
  ASSUME IInv, NEW new, Keeps(mem, new), mem' = new, disk' = new \/ disk' = disk,
         UNCHANGED <<lhs, applying, unsettled>>, signed' \subseteq Cert
  PROVE  StepOK
<1>1. mem' = new /\ (disk' = new \/ disk' = disk)
  OBVIOUS
<1>2. InstOK(mem)' /\ InstOK(disk)'
  BY <1>1, Zenon DEF IInv, Keeps
<1>3. disk.burned \subseteq disk'.burned /\ disk'.burned \subseteq mem'.burned
  BY <1>1 DEF IInv, Keeps
<1>4. TypeOK'
  BY <1>2, Zenon DEF IInv, TypeOK, InstOK, lhs
<1>5. LighthouseRefusesBlocked'
  BY <1>1 DEF IInv, Keeps, LighthouseRefusesBlocked, lhs
<1>. QED  BY <1>2, <1>3, <1>4, <1>5, Zenon DEF StepOK, IInv

LEMMA UpdateKeeps ==
  ASSUME IInv, NEW new, Keeps(mem, new), Update(new),
         UNCHANGED <<lhs, applying, unsettled>>, signed' \subseteq Cert
  PROVE  StepOK
BY KeptInMemory, Zenon DEF Update, Saved, SaveFailed

LEMMA EnrollStep ==
  ASSUME IInv, NEW k \in Keys, NEW name \in Names \cup {NoName},
         NEW mac \in Tokens \cup {NoToken}, Enroll(k, name, mac)
  PROVE  StepOK
<1>1. InstOK(mem) /\ signed' \subseteq Cert /\ UNCHANGED <<lhs, applying, unsettled>>
  BY DEF IInv, TypeOK, Enroll
<1>2. CASE \E id \in RequestsOf(mem, k) : Update(Resubmitted(mem, id, name))
  <2>1. PICK id \in RequestsOf(mem, k) : Update(Resubmitted(mem, id, name))
    BY <1>2, Zenon
  <2>2. Keeps(mem, Resubmitted(mem, id, name))
    BY <1>1, ResubmittedKeeps, Zenon DEF RequestsOf
  <2>. QED  BY <1>1, <2>1, <2>2, UpdateKeeps
<1>3. CASE /\ RequestsOf(mem, k) = {}
           /\ \E id \in {i \in Ids : mem.requests[i] = None} :
                Update(Submitted(mem, id, k, name))
  <2>1. PICK id \in Ids : mem.requests[id] = None /\ Update(Submitted(mem, id, k, name))
    BY <1>3, Zenon
  <2>2. Keeps(mem, Submitted(mem, id, k, name))
    BY <1>1, <1>3, <2>1, SubmittedKeeps, Zenon DEF Enroll
  <2>. QED  BY <1>1, <2>1, <2>2, UpdateKeeps
<1>. QED  BY <1>2, <1>3, Zenon DEF Enroll

LEMMA ApproveStep ==
  ASSUME IInv, NEW id \in Ids, NEW name \in Names \cup {NoName},
         NEW routes \in SUBSET Networks, NEW serial \in Serials,
         Approve(id, name, routes, serial)
  PROVE  StepOK
<1>. DEFINE r == mem.requests[id]
            cert == [key |-> r.key, addr4 |-> r.addr4, addr6 |-> r.addr6, serial |-> serial]
<1>1. InstOK(mem) /\ r # None /\ r \in Record
  BY Zenon DEF IInv, InstOK, Instance, Approve
<1>2. cert \in Cert
  BY <1>1, Zenon DEF Record, Cert
<1>3. signed' \subseteq Cert /\ UNCHANGED <<lhs, applying, unsettled>>
  BY <1>2, Zenon DEF IInv, TypeOK, Approve
<1>. DEFINE admitted == Admitted(mem, id, NameGiven(mem, id, name), routes, cert)
            answered == Answered(mem, id, cert)
<1>4. \/ ~NameTaken(mem, id, name) /\ Update(admitted)
      \/ mem' = answered /\ disk' = disk
  BY DEF Approve
<1>. HIDE DEF cert
<1>5. CASE ~NameTaken(mem, id, name) /\ Update(admitted)
  <2>1. Keeps(mem, admitted)
    BY <1>1, <1>2, <1>5, AdmittedKeeps
  <2>. QED  BY <1>3, <1>5, <2>1, UpdateKeeps, Zenon
<1>6. CASE mem' = answered /\ disk' = disk
  <2>1. Keeps(mem, answered)
    BY <1>1, <1>2, AnsweredKeeps, Zenon
  <2>. QED  BY <1>3, <1>6, <2>1, KeptInMemory, Zenon
<1>. QED  BY <1>4, <1>5, <1>6, Zenon

LEMMA RejectForgetStep ==
  ASSUME IInv, NEW id \in Ids, Reject(id) \/ Forget(id)
  PROVE  StepOK
<1>1. /\ InstOK(mem) /\ mem.requests[id] # None
      /\ signed' \subseteq Cert /\ UNCHANGED <<lhs, applying, unsettled>>
      /\ Update(Rejected(mem, id)) \/ Update(Forgotten(mem, id))
  BY Zenon DEF IInv, TypeOK, Reject, Forget
<1>2. Keeps(mem, Rejected(mem, id)) /\ Keeps(mem, Forgotten(mem, id))
  BY <1>1, RejectedKeeps, ForgottenKeeps, Zenon
<1>. QED  BY <1>1, <1>2, UpdateKeeps, Zenon

\* A ban may put a certificate on the list that the lighthouse does not have;
\* the handler is then still to reload it, or has failed.
LEMMA SetBanStep ==
  ASSUME IInv, NEW ref \in Refs, NEW banned \in BOOLEAN, SetBan(ref, banned)
  PROVE  StepOK
<1>1. PICK k \in memberIn(mem, ref) :
        \/ Saved(WithBan(mem, k, banned)) /\ applying' = applying + 1 /\ UNCHANGED unsettled
        \/ SaveFailed(WithBan(mem, k, banned)) /\ unsettled' = TRUE /\ UNCHANGED applying
  BY Zenon DEF SetBan
<1>. DEFINE new == WithBan(mem, k, banned)
<1>2. k \in MemberKeys /\ IsMember(mem, k) /\ InstOK(mem)
  BY DEF memberIn, IInv
<1>3. InstOK(new) /\ new.burned = mem.burned
  BY <1>2, WithBanKeeps
<1>. HIDE DEF new
<1>4. mem' = new /\ (disk' = new \/ disk' = disk)
  BY <1>1, Zenon DEF Saved, SaveFailed, new
<1>5. InstOK(mem)' /\ InstOK(disk)'
  BY <1>3, <1>4, Zenon DEF IInv
<1>6. disk.burned \subseteq disk'.burned /\ disk'.burned \subseteq mem'.burned
  BY <1>3, <1>4, Zenon DEF IInv
<1>7. applying' \in 0 .. MaxApplying
  BY <1>1, BoundAssumption DEF SetBan, IInv, TypeOK
<1>8. unsettled' \in BOOLEAN /\ UNCHANGED <<running, refused, activation, signed>>
  BY <1>1, Zenon DEF SetBan, IInv, TypeOK, lhs
<1>9. TypeOK'
  BY <1>5, <1>7, <1>8, Zenon DEF IInv, TypeOK, InstOK
<1>10. applying' # 0 \/ unsettled'
  BY <1>1 DEF IInv, TypeOK
<1>11. LighthouseRefusesBlocked'
  BY <1>10 DEF LighthouseRefusesBlocked
<1>. QED  BY <1>5, <1>6, <1>9, <1>11, Zenon DEF StepOK, IInv

LEMMA RemoveMemberStep ==
  ASSUME IInv, NEW ref \in Refs, RemoveMember(ref)
  PROVE  StepOK
<1>1. PICK k \in memberIn(mem, ref) \ {Owner} :
        mem.members[k].banned /\ Update(Removed(mem, k))
  BY DEF RemoveMember
<1>2. k \in Keys /\ IsMember(mem, k) /\ InstOK(mem)
  BY DEF memberIn, MemberKeys, IInv
<1>3. Keeps(mem, Removed(mem, k))
  BY <1>1, <1>2, RemovedKeeps, Zenon
<1>4. signed' \subseteq Cert /\ UNCHANGED <<lhs, applying, unsettled>>
  BY DEF RemoveMember, IInv, TypeOK
<1>. QED  BY <1>1, <1>3, <1>4, UpdateKeeps

LEMMA SetSharedTokenStep ==
  ASSUME IInv, NEW token \in Tokens, SetSharedToken(token)
  PROVE  StepOK
<1>. DEFINE new == [mem EXCEPT !.token = token]
<1>1. InstOK(mem) /\ mem \in Instance
  BY DEF IInv, InstOK
<1>2. /\ new \in Instance /\ new.requests = mem.requests /\ new.members = mem.members
      /\ new.alloc4 = mem.alloc4 /\ new.alloc6 = mem.alloc6 /\ new.burned = mem.burned
  BY <1>1 DEF Instance
<1>3. /\ Update(new)
      /\ signed' \subseteq Cert /\ UNCHANGED <<lhs, applying, unsettled>>
  BY DEF SetSharedToken, IInv, TypeOK
<1>. HIDE DEF new
<1>4. Keeps(mem, new)
  BY <1>1, <1>2, SettingsKeep, Zenon
<1>. QED  BY <1>3, <1>4, UpdateKeeps, Zenon

LEMMA ActivateInstanceStep ==
  ASSUME IInv, ActivateInstance
  PROVE  StepOK
<1>. DEFINE new == [mem EXCEPT !.activated = TRUE]
<1>1. InstOK(mem) /\ mem \in Instance
  BY DEF IInv, InstOK
<1>2. /\ new \in Instance /\ new.requests = mem.requests /\ new.members = mem.members
      /\ new.alloc4 = mem.alloc4 /\ new.alloc6 = mem.alloc6 /\ new.burned = mem.burned
  BY <1>1, Zenon DEF Instance
<1>3. /\ mem' = new /\ (disk' = new \/ disk' = disk)
      /\ activation' \in {"idle", "stop", "start"}
      /\ UNCHANGED <<running, refused, applying, unsettled, signed>>
  BY DEF ActivateInstance, Saved, SaveFailed, IInv, TypeOK
<1>. HIDE DEF new
<1>4. Keeps(mem, new)
  BY <1>1, <1>2, SettingsKeep, Zenon
<1>5. InstOK(mem)' /\ InstOK(disk)'
  BY <1>3, <1>4, Zenon DEF IInv, Keeps
<1>6. disk.burned \subseteq disk'.burned /\ disk'.burned \subseteq mem'.burned
  BY <1>3, <1>4, Zenon DEF IInv, Keeps
<1>7. TypeOK'
  BY <1>3, <1>5 DEF IInv, TypeOK, InstOK
<1>8. LighthouseRefusesBlocked'
  BY <1>3, <1>4 DEF IInv, Keeps, LighthouseRefusesBlocked
<1>. QED  BY <1>5, <1>6, <1>7, <1>8, Zenon DEF StepOK, IInv

\* The steps that touch the lighthouse and not the store.
LEMMA LighthouseStep ==
  ASSUME IInv, applyBlocklist \/ ActivateStop \/ ActivateStart
  PROVE  StepOK
<1>1. mem' = mem /\ disk' = disk /\ signed' = signed
  BY DEF applyBlocklist, ActivateStop, ActivateStart, store
<1>2. blockedIn(mem) \subseteq Cert
  BY BlockedAreCerts, Zenon DEF IInv, TypeOK
<1>3. InstOK(mem)' /\ InstOK(disk)' /\ disk'.burned \subseteq mem'.burned
  BY <1>1, Zenon DEF IInv
<1>4. applying' \in 0 .. MaxApplying
  BY BoundAssumption DEF applyBlocklist, ActivateStop, ActivateStart, IInv, TypeOK
<1>5. /\ running' \in BOOLEAN /\ refused' \subseteq Cert /\ unsettled' \in BOOLEAN
      /\ activation' \in {"idle", "stop", "start"}
  BY <1>2, Zenon DEF applyBlocklist, ActivateStop, ActivateStart, IInv, TypeOK
<1>6. TypeOK'
  BY <1>1, <1>4, <1>5, Zenon DEF IInv, TypeOK
<1>7. CASE applyBlocklist
  <2>1. (running' /\ ~unsettled') => refused' = blockedIn(mem)
    BY <1>7 DEF applyBlocklist
  <2>. QED  BY <1>1, <1>3, <1>6, <2>1, Zenon DEF StepOK, IInv, LighthouseRefusesBlocked
<1>8. CASE ActivateStop
  BY <1>1, <1>3, <1>6, <1>8, Zenon DEF StepOK, IInv, LighthouseRefusesBlocked, ActivateStop
<1>9. CASE ActivateStart
  BY <1>1, <1>3, <1>6, <1>9 DEF StepOK, IInv, LighthouseRefusesBlocked, ActivateStart
<1>. QED  BY <1>7, <1>8, <1>9, Zenon

\* A save on behalf of somebody else brings the file up to memory.
LEMMA RegisterStep ==
  ASSUME IInv, Register
  PROVE  StepOK
<1>1. /\ mem' = mem /\ disk' = mem
      /\ UNCHANGED <<running, refused, applying, activation, unsettled, signed>>
  BY DEF Register, lhs
<1>2. InstOK(mem)' /\ InstOK(disk)'
  BY <1>1, Zenon DEF IInv
<1>3. TypeOK' /\ LighthouseRefusesBlocked'
  BY <1>1, Zenon DEF IInv, TypeOK, LighthouseRefusesBlocked
<1>. QED  BY <1>1, <1>2, <1>3 DEF StepOK, IInv

\* A restart takes memory back to the file, which is as well formed, and the
\* lighthouse starts from it.
LEMMA RestartStep ==
  ASSUME IInv, Restart
  PROVE  StepOK
<1>1. mem' = disk /\ disk' = disk /\ signed' = signed
  BY DEF Restart
<1>2. blockedIn(disk) \subseteq Cert
  BY BlockedAreCerts, Zenon DEF IInv, TypeOK
<1>3. InstOK(mem)' /\ InstOK(disk)'
  BY <1>1, Zenon DEF IInv
<1>4. applying' \in 0 .. MaxApplying
  BY BoundAssumption DEF Restart
<1>5. /\ running' \in BOOLEAN /\ refused' \subseteq Cert /\ unsettled' \in BOOLEAN
      /\ activation' \in {"idle", "stop", "start"}
  BY <1>2, Zenon DEF Restart
<1>6. TypeOK'
  BY <1>1, <1>4, <1>5, Zenon DEF IInv, TypeOK
<1>7. LighthouseRefusesBlocked'
  BY <1>1, Zenon DEF Restart, LighthouseRefusesBlocked
<1>. QED  BY <1>1, <1>3, <1>6, <1>7, Zenon DEF StepOK, IInv

LEMMA NextStep ==
  ASSUME IInv, [Next]_vars
  PROVE  StepOK
<1>1. CASE \E k \in Keys, name \in Names \cup {NoName}, mac \in Tokens \cup {NoToken} :
             Enroll(k, name, mac)
  BY <1>1, EnrollStep
<1>2. CASE \E id \in Ids, name \in Names \cup {NoName}, routes \in SUBSET Networks,
              s \in Serials : Approve(id, name, routes, s)
  BY <1>2, ApproveStep
<1>3. CASE \E id \in Ids : Reject(id) \/ Forget(id)
  BY <1>3, RejectForgetStep
<1>4. CASE \E ref \in Refs : Ban(ref) \/ Unban(ref) \/ RemoveMember(ref)
  BY <1>4, SetBanStep, RemoveMemberStep, Zenon DEF Ban, Unban
<1>5. CASE \E token \in Tokens : SetSharedToken(token)
  BY <1>5, SetSharedTokenStep
<1>6. CASE ActivateInstance
  BY <1>6, ActivateInstanceStep
<1>7. CASE applyBlocklist \/ ActivateStop \/ ActivateStart
  BY <1>7, LighthouseStep
<1>8. CASE Restart
  BY <1>8, RestartStep
<1>9. CASE Register
  BY <1>9, RegisterStep
<1>10. CASE UNCHANGED vars
  <2>1. TypeOK' /\ LighthouseRefusesBlocked'
    BY <1>10 DEF IInv, vars, TypeOK, LighthouseRefusesBlocked
  <2>2. InstOK(mem)' /\ InstOK(disk)' /\ disk'.burned \subseteq mem'.burned
    BY <1>10 DEF IInv, vars
  <2>. QED  BY <1>10, <2>1, <2>2, Zenon DEF StepOK, IInv, vars
<1>. QED
  BY <1>1, <1>2, <1>3, <1>4, <1>5, <1>6, <1>7, <1>8, <1>9, <1>10, Zenon DEF Next

LEMMA Invariance == Spec => []IInv
<1>1. IInv /\ [Next]_vars => IInv'
  BY NextStep, Zenon DEF StepOK
<1>. QED  BY InitIInv, <1>1, PTL DEF Spec

-----------------------------------------------------------------------------
(* What the invariant gives.                                               *)

\* What a key is tied to is its allocation, and the owner's is reserved.
LEMMA UsesOfKeys ==
  ASSUME NEW inst, InstOK(inst), NEW k \in MemberKeys
  PROVE  /\ k \in Keys => /\ Uses4(inst, k) \subseteq {inst.alloc4[k]} \ {NoAddr}
                          /\ Uses6(inst, k) \subseteq {inst.alloc6[k]} \ {NoAddr}
         /\ k = Owner => Uses4(inst, k) \cup Uses6(inst, k) \subseteq {TenantHost}
<1>1. CASE k \in Keys
  <2>1. k # Owner
    BY <1>1, KeysAssumption, Zenon
  <2>2. \A id \in RequestsOf(inst, k) :
          inst.requests[id].addr4 = inst.alloc4[k] /\ inst.requests[id].addr6 = inst.alloc6[k]
    BY Zenon DEF InstOK, RequestsOK, RequestsOf
  <2>3. IsMember(inst, k) => /\ inst.members[k].addr4 \in {NoAddr, inst.alloc4[k]}
                             /\ inst.members[k].addr6 \in {NoAddr, inst.alloc6[k]}
    BY <1>1, Zenon DEF InstOK, MembersOK
  <2>. QED  BY <1>1, <2>1, <2>2, <2>3, Zenon DEF Uses4, Uses6
<1>2. CASE k = Owner
  <2>1. k \notin Keys /\ RequestsOf(inst, k) = {}
    <3>1. k \notin Keys /\ inst.requests \in [Ids -> Record \cup {None}]
      BY <1>2, KeysAssumption, Zenon DEF InstOK, Instance
    <3>2. \A r \in Record : r.key \in Keys
      BY Zenon DEF Record
    <3>. QED  BY <3>1, <3>2, Zenon DEF RequestsOf
  <2>. QED  BY <1>2, <2>1, Zenon DEF Uses4, Uses6, InstOK, MembersOK
<1>. QED  BY <1>1, <1>2, Zenon DEF MemberKeys

LEMMA WellFormedApart ==
  ASSUME NEW inst, InstOK(inst)
  PROVE  AddressesApart(inst)
<1>. SUFFICES ASSUME NEW j \in MemberKeys, NEW k \in MemberKeys
              PROVE  /\ LighthouseHost \notin Uses4(inst, k) \cup Uses6(inst, k)
                     /\ j # k => Uses4(inst, j) \cap Uses4(inst, k) = {}
                     /\ j # k => Uses6(inst, j) \cap Uses6(inst, k) = {}
  BY DEF AddressesApart
<1>1. /\ j \in Keys => /\ Uses4(inst, j) \subseteq {inst.alloc4[j]} \ {NoAddr}
                       /\ Uses6(inst, j) \subseteq {inst.alloc6[j]} \ {NoAddr}
      /\ j = Owner => Uses4(inst, j) \cup Uses6(inst, j) \subseteq {TenantHost}
      /\ k \in Keys => /\ Uses4(inst, k) \subseteq {inst.alloc4[k]} \ {NoAddr}
                       /\ Uses6(inst, k) \subseteq {inst.alloc6[k]} \ {NoAddr}
      /\ k = Owner => Uses4(inst, k) \cup Uses6(inst, k) \subseteq {TenantHost}
  BY UsesOfKeys
<1>2. AllocOK(inst) /\ LighthouseHost # TenantHost
  BY DEF InstOK, LighthouseHost, TenantHost
<1>. QED  BY <1>1, <1>2 DEF AllocOK, MemberKeys

-----------------------------------------------------------------------------
(* Certificates.  While every save succeeds, memory and file differ in     *)
(* requests only, every certificate the instance holds was signed for its  *)
(* key, and a key keeps the addresses it had a certificate signed for      *)
(* until it is burned.                                                     *)

SameMembers(a, b) ==
  a.members = b.members /\ a.alloc4 = b.alloc4 /\ a.alloc6 = b.alloc6 /\ a.burned = b.burned

CertsKnown(inst, certs) ==
  /\ inst.members[Owner].cert = None
  /\ \A k \in Keys : IsMember(inst, k) =>
       inst.members[k].cert \in certs /\ inst.members[k].cert.key = k
  /\ \A b \in inst.burned : b.cert \in certs /\ b.cert.key = b.key
  /\ \A c \in certs :
       \/ IsBurned(inst, c.key)
       \/ c.addr4 \in {NoAddr, inst.alloc4[c.key]} /\ c.addr6 \in {NoAddr, inst.alloc6[c.key]}

CInv == SameMembers(mem, disk) /\ CertsKnown(mem, signed)

\* What leaves the blocklist belongs to a member that is in.
Unblocks(inst, new) ==
  \A c \in blockedIn(inst) :
    c \in blockedIn(new) \/ (IsMember(new, c.key) /\ ~Banned(new, c.key))

\* What an operation on the instance does to certificates.
Carries(inst, new, certs) == CertsKnown(new, certs) /\ Unblocks(inst, new)

LEMMA SameMembersCarry ==
  ASSUME NEW inst, NEW new, NEW certs, SameMembers(new, inst), CertsKnown(inst, certs)
  PROVE  Carries(inst, new, certs) /\ blockedIn(new) = blockedIn(inst)
<1>1. CertsKnown(new, certs)
  BY Zenon DEF SameMembers, CertsKnown, IsMember, IsBurned
<1>2. blockedIn(new) = blockedIn(inst)
  BY Zenon DEF SameMembers, blockedIn, Banned, IsMember
<1>. QED  BY <1>1, <1>2, Zenon DEF Carries, Unblocks

\* The operations that touch a request or a setting.
LEMMA RequestOpsCarry ==
  ASSUME NEW inst, InstOK(inst), NEW certs, CertsKnown(inst, certs), NEW id \in Ids
  PROVE  /\ \A name : Carries(inst, Resubmitted(inst, id, name), certs)
         /\ Carries(inst, Rejected(inst, id), certs)
         /\ Carries(inst, Forgotten(inst, id), certs)
<1>1. \A requests : SameMembers([inst EXCEPT !.requests = requests], inst)
  BY DEF InstOK, Instance, SameMembers
<1>2. \A requests : Carries(inst, [inst EXCEPT !.requests = requests], certs)
  BY <1>1, SameMembersCarry, Zenon
<1>. QED  BY <1>2, Zenon DEF Resubmitted, Rejected, Forgotten

\* A key that has an address keeps it (allocate, allocate6).
LEMMA SubmittedCarries ==
  ASSUME NEW inst, InstOK(inst), NEW certs \in SUBSET Cert, CertsKnown(inst, certs),
         NEW k \in Keys, NEW name, NEW id \in Ids
  PROVE  Carries(inst, Submitted(inst, id, k, name), certs)
<1>. DEFINE new == Submitted(inst, id, k, name)
            a4 == allocate(inst, k)
            a6 == allocate6(inst, k)
<1>1. inst \in Instance
  BY DEF InstOK
<1>2. /\ inst.alloc4[k] # NoAddr => a4 = inst.alloc4[k]
      /\ inst.alloc6[k] # NoAddr => a6 = inst.alloc6[k]
  BY Zenon DEF allocate, allocate6, fromPool
<1>. HIDE DEF a4, a6
<1>3. /\ new.alloc4 = [inst.alloc4 EXCEPT ![k] = a4]
      /\ new.alloc6 = [inst.alloc6 EXCEPT ![k] = a6]
      /\ new.members = inst.members /\ new.burned = inst.burned
  BY <1>1 DEF Instance, Submitted, a4, a6
<1>4. /\ \A j \in Keys : new.alloc4[j] = IF j = k THEN a4 ELSE inst.alloc4[j]
      /\ \A j \in Keys : new.alloc6[j] = IF j = k THEN a6 ELSE inst.alloc6[j]
  BY <1>1, <1>3, Zenon DEF Instance
<1>. HIDE DEF new
<1>5. \A c \in certs : c.key \in Keys
  BY DEF Cert
<1>6. CertsKnown(new, certs)
  <2>1. /\ new.members[Owner].cert = None
        /\ \A j \in Keys : IsMember(new, j) => new.members[j].cert \in certs /\ new.members[j].cert.key = j
        /\ \A b \in new.burned : b.cert \in certs /\ b.cert.key = b.key
    BY <1>3, Zenon DEF CertsKnown, IsMember
  <2>2. ASSUME NEW c \in certs, ~IsBurned(new, c.key)
        PROVE  c.addr4 \in {NoAddr, new.alloc4[c.key]} /\ c.addr6 \in {NoAddr, new.alloc6[c.key]}
    <3>1. c.addr4 \in {NoAddr, inst.alloc4[c.key]} /\ c.addr6 \in {NoAddr, inst.alloc6[c.key]} /\ c.key \in Keys
      BY <1>3, <1>5, <2>2, Zenon DEF CertsKnown, IsBurned
    <3>2. /\ inst.alloc4[c.key] # NoAddr => new.alloc4[c.key] = inst.alloc4[c.key]
          /\ inst.alloc6[c.key] # NoAddr => new.alloc6[c.key] = inst.alloc6[c.key]
      BY <1>2, <1>4, <3>1, Zenon
    <3>. QED  BY <3>1, <3>2, Zenon
  <2>. QED  BY <2>1, <2>2, Zenon DEF CertsKnown
<1>7. blockedIn(new) = blockedIn(inst)
  BY <1>3 DEF blockedIn, Banned, IsMember
<1>. QED  BY <1>6, <1>7, Zenon DEF Carries, Unblocks, new

\* A certificate is signed for the addresses its key has.
LEMMA NewCertKnown ==
  ASSUME NEW inst, InstOK(inst), NEW certs, CertsKnown(inst, certs),
         NEW id \in Ids, inst.requests[id] # None, NEW cert,
         cert.key = inst.requests[id].key,
         cert.addr4 = inst.requests[id].addr4, cert.addr6 = inst.requests[id].addr6
  PROVE  CertsKnown(inst, certs \cup {cert})
<1>1. cert.addr4 = inst.alloc4[cert.key] /\ cert.addr6 = inst.alloc6[cert.key]
  BY Zenon DEF InstOK, RequestsOK
<1>. QED  BY <1>1, Zenon DEF CertsKnown

\* Writing a member: the certificate that goes, if it was blocked, is that of
\* a key that is now in.
LEMMA MemberCarries ==
  ASSUME NEW inst \in Instance, NEW certs, CertsKnown(inst, certs),
         NEW k \in MemberKeys, IsMember(inst, k) \/ k \in Keys, NEW m \in Member,
         k = Owner => m.cert = None,
         k \in Keys => m.cert \in certs /\ m.cert.key = k,
         ~m.banned \/ (IsMember(inst, k) /\ m.cert = inst.members[k].cert)
  PROVE  Carries(inst, [inst EXCEPT !.members[k] = m], certs)
<1>. DEFINE new == [inst EXCEPT !.members[k] = m]
<1>1. /\ new.members = [inst.members EXCEPT ![k] = m]
      /\ new.alloc4 = inst.alloc4 /\ new.alloc6 = inst.alloc6 /\ new.burned = inst.burned
  BY DEF Instance
<1>2. \A j \in MemberKeys : new.members[j] = IF j = k THEN m ELSE inst.members[j]
  BY <1>1 DEF Instance
<1>3. m # None /\ Owner \in MemberKeys /\ Owner \notin Keys /\ Keys \subseteq MemberKeys
  BY NoneAssumption, KeysAssumption DEF MemberKeys
<1>. HIDE DEF new
<1>4. CertsKnown(new, certs)
  BY <1>1, <1>2, <1>3, ZenonT(30) DEF CertsKnown, IsMember, IsBurned
<1>5. ASSUME NEW c \in blockedIn(inst)
      PROVE  c \in blockedIn(new) \/ (IsMember(new, c.key) /\ ~Banned(new, c.key))
  <2>0. c # None
    BY DEF blockedIn
  <2>1. CASE \E b \in inst.burned : c = b.cert
    BY <1>1, <2>0, <2>1, Zenon DEF blockedIn
  <2>2. CASE \E j \in MemberKeys : Banned(inst, j) /\ c = inst.members[j].cert
    <3>1. PICK j \in MemberKeys : Banned(inst, j) /\ c = inst.members[j].cert
      BY <2>2
    <3>2. CASE j # k
      <4>1. Banned(new, j) /\ new.members[j].cert = c
        BY <1>2, <3>1, <3>2, Zenon DEF Banned, IsMember
      <4>. QED  BY <2>0, <4>1, Zenon DEF blockedIn
    <3>3. CASE j = k
      <4>1. new.members[k] = m /\ IsMember(new, k)
        BY <1>2, <1>3, Zenon DEF IsMember
      <4>2. CASE m.banned
        BY <2>0, <3>1, <3>3, <4>1, <4>2, Zenon DEF blockedIn, Banned
      <4>3. CASE ~m.banned
        <5>1. k \in Keys
          BY <2>0, <3>1, <3>3, Zenon DEF CertsKnown, MemberKeys
        <5>2. c.key = k
          BY <3>1, <3>3, <5>1, Zenon DEF CertsKnown, Banned
        <5>. QED  BY <4>1, <4>3, <5>2, Zenon DEF Banned
      <4>. QED  BY <4>2, <4>3
    <3>. QED  BY <3>2, <3>3
  <2>. QED  BY <2>1, <2>2, Zenon DEF blockedIn
<1>. QED  BY <1>4, <1>5, Zenon DEF Carries, Unblocks, new

LEMMA AdmittedCarries ==
  ASSUME NEW inst, InstOK(inst), NEW certs, CertsKnown(inst, certs),
         NEW id \in Ids, inst.requests[id] # None,
         NEW name \in Names \cup {NoName}, NEW routes \in SUBSET Networks, NEW cert \in Cert,
         cert.key = inst.requests[id].key,
         cert.addr4 = inst.requests[id].addr4, cert.addr6 = inst.requests[id].addr6
  PROVE  /\ Carries(inst, Answered(inst, id, cert), certs \cup {cert})
         /\ SameMembers(Answered(inst, id, cert), inst)
         /\ Carries(inst, Admitted(inst, id, name, routes, cert), certs \cup {cert})
<1>. DEFINE r == inst.requests[id]
            all == certs \cup {cert}
            ans == Answered(inst, id, cert)
            m == [name |-> name, addr4 |-> r.addr4, addr6 |-> r.addr6,
                  routes |-> routes, cert |-> cert, banned |-> FALSE]
<1>1. r \in Record /\ r.key \in Keys /\ r.key \in MemberKeys /\ r.key # Owner
  <2>1. r \in Record
    BY Zenon DEF InstOK, Instance
  <2>2. r.key \in Keys
    BY <2>1, Zenon DEF Record
  <2>. QED  BY <2>1, <2>2, KeysAssumption, Zenon DEF MemberKeys
<1>2. CertsKnown(inst, all)
  BY NewCertKnown, Zenon
<1>3. ans \in Instance /\ SameMembers(ans, inst)
  BY AnsweredKeeps, Zenon DEF Keeps, InstOK, SameMembers
<1>4. m \in Member /\ m.cert = cert /\ ~m.banned
  BY <1>1, Zenon DEF Member, Record
<1>. HIDE DEF ans, m, all
<1>5. Carries(inst, ans, all) /\ blockedIn(ans) = blockedIn(inst)
  BY <1>2, <1>3, SameMembersCarry, Zenon
<1>6. cert \in all
  BY DEF all
<1>7. Carries(ans, [ans EXCEPT !.members[r.key] = m], all)
  BY <1>1, <1>3, <1>4, <1>5, <1>6, MemberCarries, Zenon DEF Carries
<1>8. Admitted(inst, id, name, routes, cert) = [ans EXCEPT !.members[r.key] = m]
  BY DEF Admitted, ans, m
<1>. QED  BY <1>3, <1>5, <1>7, <1>8, ZenonT(30) DEF Carries, Unblocks, ans, all

LEMMA WithBanCarries ==
  ASSUME NEW inst, InstOK(inst), NEW certs, CertsKnown(inst, certs),
         NEW k \in MemberKeys, IsMember(inst, k), NEW banned \in BOOLEAN
  PROVE  Carries(inst, WithBan(inst, k, banned), certs)
<1>. DEFINE old == inst.members[k]
            m == [old EXCEPT !.banned = banned]
<1>1. inst \in Instance /\ old \in Member
  BY DEF InstOK, Instance, IsMember
<1>2. m \in Member /\ m.cert = old.cert /\ m.banned = banned
  BY <1>1 DEF Member
<1>3. WithBan(inst, k, banned) = [inst EXCEPT !.members[k] = m]
  BY DEF WithBan
<1>. HIDE DEF m
<1>4. /\ k = Owner => m.cert = None
      /\ k \in Keys => m.cert \in certs /\ m.cert.key = k
  BY <1>2, Zenon DEF CertsKnown
<1>5. m.cert = inst.members[k].cert
  BY <1>2
<1>6. inst \in Instance /\ m \in Member
  BY <1>1, <1>2
<1>. HIDE DEF old
<1>7. Carries(inst, [inst EXCEPT !.members[k] = m], certs)
  BY <1>4, <1>5, <1>6, MemberCarries, Zenon
<1>. QED  BY <1>3, <1>7

\* Removing burns the certificate of the member, which was blocked already.
LEMMA RemovedCarries ==
  ASSUME NEW inst, InstOK(inst), NEW certs \in SUBSET Cert, CertsKnown(inst, certs),
         NEW k \in Keys, IsMember(inst, k)
  PROVE  Carries(inst, Removed(inst, k), certs)
<1>. DEFINE new == Removed(inst, k)
            b == [key |-> k, cert |-> inst.members[k].cert]
<1>1. inst \in Instance
  BY DEF InstOK
<1>2. b.key = k /\ b.cert = inst.members[k].cert
  OBVIOUS
<1>. HIDE DEF b
<1>3. /\ new.burned = inst.burned \cup {b}
      /\ new.members = [inst.members EXCEPT ![k] = None]
      /\ new.alloc4 = [inst.alloc4 EXCEPT ![k] = NoAddr]
      /\ new.alloc6 = [inst.alloc6 EXCEPT ![k] = NoAddr]
  BY <1>1 DEF Instance, Removed, b
<1>4. /\ \A j \in MemberKeys : new.members[j] = IF j = k THEN None ELSE inst.members[j]
      /\ \A j \in Keys : j # k => new.alloc4[j] = inst.alloc4[j] /\ new.alloc6[j] = inst.alloc6[j]
  BY <1>1, <1>3, Zenon DEF Instance
<1>5. Owner \in MemberKeys /\ Owner # k /\ Keys \subseteq MemberKeys
  BY KeysAssumption, Zenon DEF MemberKeys
<1>. HIDE DEF new
<1>6. \A c \in certs : c.key \in Keys
  BY DEF Cert
<1>7. /\ \A j \in Keys : IsMember(new, j) => IsMember(inst, j) /\ new.members[j] = inst.members[j]
      /\ new.members[Owner] = inst.members[Owner]
  BY <1>4, <1>5, Zenon DEF IsMember
<1>8. \A c \in certs :
        \/ IsBurned(new, c.key)
        \/ c.addr4 \in {NoAddr, new.alloc4[c.key]} /\ c.addr6 \in {NoAddr, new.alloc6[c.key]}
  BY <1>2, <1>3, <1>4, <1>6, SMTT(30) DEF CertsKnown, IsBurned
<1>9. \A d \in new.burned : d.cert \in certs /\ d.cert.key = d.key
  BY <1>2, <1>3 DEF CertsKnown
<1>10. CertsKnown(new, certs)
  BY <1>7, <1>8, <1>9, Zenon DEF CertsKnown
<1>11. blockedIn(inst) \subseteq blockedIn(new)
  <2>. SUFFICES ASSUME NEW c \in blockedIn(inst) PROVE c \in blockedIn(new)
    OBVIOUS
  <2>0. c # None
    BY DEF blockedIn
  <2>1. CASE \E d \in new.burned : c = d.cert
    BY <2>0, <2>1, Zenon DEF blockedIn
  <2>2. CASE \E j \in MemberKeys \ {k} : Banned(inst, j) /\ c = inst.members[j].cert
    BY <1>4, <2>0, <2>2 DEF blockedIn, Banned, IsMember
  <2>. QED  BY <1>2, <1>3, <2>1, <2>2, Zenon DEF blockedIn
<1>. QED  BY <1>10, <1>11, Zenon DEF Carries, Unblocks, new

\* What every step is shown to do while saves succeed.
CertStepOK == CInv' /\ Unblocks(disk, disk')

LEMMA CarriedByUpdate ==
  ASSUME "save" \notin Faults, CInv, NEW new, Update(new), Carries(mem, new, signed')
  PROVE  CertStepOK
<1>1. mem' = new /\ disk' = new
  BY Zenon DEF Update, Saved, SaveFailed
<1>2. CInv'
  BY <1>1, Zenon DEF CInv, SameMembers, Carries
<1>3. blockedIn(disk) = blockedIn(mem)
  BY Zenon DEF CInv, SameMembers, blockedIn, Banned, IsMember
<1>. QED  BY <1>1, <1>2, <1>3, Zenon DEF CertStepOK, Carries, Unblocks

LEMMA StoreKept ==
  ASSUME CInv, SameMembers(mem', mem), CertsKnown(mem', signed'),
         disk' = disk \/ disk' = mem'
  PROVE  CertStepOK
<1>1. CInv'
  BY Zenon DEF CInv, SameMembers
<1>2. blockedIn(disk') = blockedIn(disk)
  BY ZenonT(30) DEF CInv, SameMembers, blockedIn, Banned, IsMember
<1>. QED  BY <1>1, <1>2, Zenon DEF CertStepOK, Unblocks

LEMMA ApproveCarries ==
  ASSUME "save" \notin Faults, IInv, CInv,
         NEW id \in Ids, NEW name \in Names \cup {NoName},
         NEW routes \in SUBSET Networks, NEW serial \in Serials,
         Approve(id, name, routes, serial)
  PROVE  CertStepOK
<1>. DEFINE r == mem.requests[id]
            cert == [key |-> r.key, addr4 |-> r.addr4, addr6 |-> r.addr6, serial |-> serial]
            given == NameGiven(mem, id, name)
<1>1. InstOK(mem) /\ r # None /\ r \in Record
  BY DEF IInv, InstOK, Instance, Approve
<1>2. cert \in Cert /\ cert.key = r.key /\ cert.addr4 = r.addr4 /\ cert.addr6 = r.addr6
  BY <1>1, Zenon DEF Record, Cert
<1>3. given \in Names \cup {NoName}
  BY <1>1, Zenon DEF NameGiven, Record
<1>4. /\ signed' = signed \cup {cert}
      /\ \/ Update(Admitted(mem, id, given, routes, cert))
         \/ mem' = Answered(mem, id, cert) /\ disk' = disk
  BY Zenon DEF Approve
<1>. HIDE DEF cert, given
<1>5. /\ Carries(mem, Answered(mem, id, cert), signed \cup {cert})
      /\ SameMembers(Answered(mem, id, cert), mem)
      /\ Carries(mem, Admitted(mem, id, given, routes, cert), signed \cup {cert})
  BY <1>1, <1>2, <1>3, AdmittedCarries, Zenon DEF CInv
<1>6. CASE Update(Admitted(mem, id, given, routes, cert))
  BY <1>4, <1>5, <1>6, CarriedByUpdate, Zenon
<1>7. CASE mem' = Answered(mem, id, cert) /\ disk' = disk
  BY <1>4, <1>5, <1>7, StoreKept, Zenon DEF Carries
<1>. QED  BY <1>4, <1>6, <1>7, Zenon

LEMMA CertStep ==
  ASSUME "save" \notin Faults, IInv, CInv, [Next]_vars
  PROVE  CertStepOK
<1>0. InstOK(mem) /\ mem \in Instance /\ CertsKnown(mem, signed) /\ signed \in SUBSET Cert
  BY Zenon DEF IInv, TypeOK, CInv
<1>1. ASSUME NEW k \in Keys, NEW name, NEW mac, Enroll(k, name, mac) PROVE CertStepOK
  <2>1. signed' = signed
    BY <1>1 DEF Enroll
  <2>2. CASE \E id \in Ids : Update(Resubmitted(mem, id, name))
    BY <1>0, <2>1, <2>2, RequestOpsCarry, CarriedByUpdate, Zenon
  <2>3. CASE \E id \in Ids : Update(Submitted(mem, id, k, name))
    BY <1>0, <2>1, <2>3, SubmittedCarries, CarriedByUpdate, Zenon
  <2>. QED  BY <1>1, <2>2, <2>3, Zenon DEF Enroll, RequestsOf
<1>2. ASSUME NEW id \in Ids, Reject(id) \/ Forget(id) PROVE CertStepOK
  <2>1. signed' = signed /\ (Update(Rejected(mem, id)) \/ Update(Forgotten(mem, id)))
    BY <1>2, Zenon DEF Reject, Forget
  <2>. QED  BY <1>0, <2>1, RequestOpsCarry, CarriedByUpdate, Zenon
<1>3. ASSUME NEW ref \in Refs, NEW banned \in BOOLEAN, SetBan(ref, banned) PROVE CertStepOK
  <2>1. PICK k \in MemberKeys : IsMember(mem, k) /\ Update(WithBan(mem, k, banned))
    BY <1>3, Zenon DEF SetBan, memberIn, Update
  <2>2. signed' = signed
    BY <1>3, Zenon DEF SetBan
  <2>. QED  BY <1>0, <2>1, <2>2, WithBanCarries, CarriedByUpdate, Zenon
<1>4. ASSUME NEW ref \in Refs, RemoveMember(ref) PROVE CertStepOK
  <2>1. PICK k \in Keys : IsMember(mem, k) /\ Update(Removed(mem, k))
    BY <1>4, Zenon DEF RemoveMember, memberIn, MemberKeys
  <2>2. signed' = signed
    BY <1>4 DEF RemoveMember
  <2>. QED  BY <1>0, <2>1, <2>2, RemovedCarries, CarriedByUpdate, Zenon
<1>5. ASSUME NEW token \in Tokens, SetSharedToken(token) PROVE CertStepOK
  <2>1. signed' = signed /\ Update([mem EXCEPT !.token = token])
    BY <1>5 DEF SetSharedToken
  <2>2. SameMembers([mem EXCEPT !.token = token], mem)
    BY <1>0 DEF Instance, SameMembers
  <2>. QED  BY <1>0, <2>1, <2>2, SameMembersCarry, CarriedByUpdate, Zenon
<1>6. CASE ActivateInstance
  <2>1. signed' = signed /\ Update([mem EXCEPT !.activated = TRUE])
    BY <1>6, Zenon DEF ActivateInstance, Update
  <2>2. SameMembers([mem EXCEPT !.activated = TRUE], mem)
    BY <1>0 DEF Instance, SameMembers
  <2>. QED  BY <1>0, <2>1, <2>2, SameMembersCarry, CarriedByUpdate, Zenon
<1>7. CASE applyBlocklist \/ ActivateStop \/ ActivateStart \/ Register \/ UNCHANGED vars
  <2>1. mem' = mem /\ (disk' = disk \/ disk' = mem') /\ signed' = signed
    BY <1>7, Zenon DEF applyBlocklist, ActivateStop, ActivateStart, Register, store, vars
  <2>. QED  BY <1>0, <2>1, StoreKept, Zenon DEF SameMembers
<1>8. CASE Restart
  <2>1. mem' = disk /\ disk' = disk /\ signed' = signed
    BY <1>8, Zenon DEF Restart
  <2>2. SameMembers(disk, mem)
    BY Zenon DEF CInv, SameMembers
  <2>. QED  BY <1>0, <2>1, <2>2, SameMembersCarry, StoreKept, Zenon DEF Carries
<1>9. ASSUME NEW ref \in Refs, Ban(ref) \/ Unban(ref) \/ RemoveMember(ref) PROVE CertStepOK
  BY <1>3, <1>4, <1>9, Zenon DEF Ban, Unban
<1>. QED  BY <1>1, <1>2, <1>5, <1>6, <1>7, <1>8, <1>9, ApproveCarries, Zenon DEF Next

LEMMA InitCInv == Init => CInv
<1>. SUFFICES ASSUME Init PROVE CInv
  OBVIOUS
<1>1. PICK token \in Tokens \cup {NoToken} : mem = Created(token)
  BY DEF Init
<1>2. /\ mem.burned = {} /\ mem.members[Owner] = OwnerMember
      /\ \A k \in Keys : mem.members[k] = None
  BY <1>1, KeysAssumption DEF Created, MemberKeys
<1>3. OwnerMember.cert = None
  BY DEF OwnerMember
<1>4. CertsKnown(mem, signed)
  BY <1>2, <1>3, Zenon DEF Init, CertsKnown, IsMember
<1>. QED  BY <1>4 DEF Init, CInv, SameMembers

LEMMA CertInvariance ==
  ASSUME "save" \notin Faults
  PROVE  Spec => []CInv
<1>1. IInv /\ CInv /\ [Next]_vars => CInv'
  BY CertStep DEF CertStepOK
<1>. QED  BY <1>1, InitCInv, Invariance, PTL DEF Spec

\* An address goes to another key only after its key was burned, and with it
\* the one certificate that was signed for it.
LEMMA OnceIsSafe ==
  ASSUME IInv, CInv
  PROVE  SignedOnceIsSafe
<1>. SUFFICES ASSUME NEW c \in signed, \A d \in signed : d.key = c.key => d = c,
                     AddressReused(c)
              PROVE  c \in blockedIn(mem)
  BY DEF SignedOnceIsSafe
<1>1. c \in Cert /\ c.key \in Keys /\ c # None
  BY NoneAssumption DEF IInv, TypeOK, Cert
<1>2. PICK k \in Keys \ {c.key} : \/ c.addr4 # NoAddr /\ c.addr4 \in Uses4(mem, k)
                                  \/ c.addr6 # NoAddr /\ c.addr6 \in Uses6(mem, k)
  BY Zenon DEF AddressReused
<1>3. InstOK(mem) /\ AllocOK(mem) /\ k \in MemberKeys
  BY SMTT(30) DEF IInv, InstOK, MemberKeys
<1>4. \/ c.addr4 # NoAddr /\ c.addr4 = mem.alloc4[k]
      \/ c.addr6 # NoAddr /\ c.addr6 = mem.alloc6[k]
  BY <1>2, <1>3, UsesOfKeys, SMTT(30)
<1>5. ~(c.addr4 \in {NoAddr, mem.alloc4[c.key]} /\ c.addr6 \in {NoAddr, mem.alloc6[c.key]})
  BY <1>1, <1>2, <1>3, <1>4 DEF AllocOK
<1>6. IsBurned(mem, c.key)
  BY <1>5, Zenon DEF CInv, CertsKnown
<1>7. PICK b \in mem.burned : b.key = c.key
  BY <1>6, SMTT(30) DEF IsBurned
<1>8. b.cert = c
  BY <1>7 DEF CInv, CertsKnown
<1>. QED  BY <1>1, <1>8, Zenon DEF blockedIn

-----------------------------------------------------------------------------
\* The hub's state keeps its shape through every handler, failed save and
\* restart.
THEOREM TypeCorrect == Spec => []TypeOK
<1>1. IInv => TypeOK
  BY DEF IInv
<1>. QED  BY <1>1, Invariance, PTL

\* No address is handed out twice (allocate, allocate6, Decide, RemoveMember),
\* for any number of keys, requests and hosts, with saves that may fail.
THEOREM AddressesStayDistinct == Spec => []AddressesDistinct
<1>1. IInv => AddressesDistinct
  BY WellFormedApart, Zenon DEF IInv, AddressesDistinct
<1>. QED  BY <1>1, Invariance, PTL

\* A key that was removed never comes back (RemoveMember, Enroll, Decide).
THEOREM BurnedStayOut == Spec => []BurnedKeptOut
<1>1. IInv => BurnedKeptOut
  BY DEF IInv, InstOK, BurnedKeptOut
<1>. QED  BY <1>1, Invariance, PTL

\* One name, one member (Decide).
THEOREM NamesStayUnique == Spec => []NamesUnique
<1>1. IInv => NamesUnique
  BY SMTT(30) DEF IInv, InstOK, NamesUnique
<1>. QED  BY <1>1, Invariance, PTL

\* A key never has two requests (Enroll).
THEOREM RequestsStaySingle == Spec => []OneRequestPerKey
<1>1. IInv => OneRequestPerKey
  BY SMTT(30) DEF IInv, InstOK, RequestsOK, RequestsOf, OneRequestPerKey
<1>. QED  BY <1>1, Invariance, PTL

\* Once its handlers are done and none has failed, a running lighthouse
\* refuses every certificate the instance blocks (applyBlocklist, New,
\* ActivateInstance), whatever interleaving of handlers and restarts.
THEOREM LighthouseSettles == Spec => []LighthouseRefusesBlocked
<1>1. IInv => LighthouseRefusesBlocked
  BY DEF IInv
<1>. QED  BY <1>1, Invariance, PTL

\* Nothing takes a credential off the burned list in the file, a failed save
\* and the restart after it included (Instance.Burned).
THEOREM BurnedStayBurned == Spec => BurnedForGood
<1>1. IInv /\ [Next]_vars => [disk.burned \subseteq disk'.burned]_vars
  BY NextStep DEF StepOK
<1>. QED  BY <1>1, Invariance, PTL DEF Spec, BurnedForGood

\* While saves succeed, whoever signed one certificate for a key finds it
\* blocked by the time its address belongs to another (RemoveMember, allocate).
THEOREM SignedOnceStaysSafe ==
  ASSUME "save" \notin Faults
  PROVE  Spec => []SignedOnceIsSafe
<1>1. IInv /\ CInv => SignedOnceIsSafe
  BY OnceIsSafe
<1>. QED  BY <1>1, Invariance, CertInvariance, PTL

\* Under the same condition a certificate comes off the file's blocklist only
\* with its member let in again (Unban, Decide).
THEOREM UnblockedAreLetIn ==
  ASSUME "save" \notin Faults
  PROVE  Spec => UnblockedOnlyIfLetIn
<1>1. IInv /\ CInv /\ [Next]_vars =>
        [\A c \in blockedIn(disk) :
           c \in blockedIn(disk') \/ (IsMember(disk', c.key) /\ ~Banned(disk', c.key))]_vars
  BY CertStep, Zenon DEF CertStepOK, Unblocks
<1>. QED  BY <1>1, Invariance, CertInvariance, PTL DEF Spec, UnblockedOnlyIfLetIn
=============================================================================
