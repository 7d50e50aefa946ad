----------------------------- MODULE Membership -----------------------------
(***************************************************************************)
(* One instance as the hub keeps it: who asked to be let in, who was let   *)
(* in, who is kept out, which addresses they hold, and the lighthouse that *)
(* has to refuse the certificates of the ones kept out.                    *)
(*                                                                         *)
(* The instance is held twice, as in internal/hub/store.go: `mem' is the   *)
(* value every handler works on and `disk' is the state file, rewritten    *)
(* atomically at the end of a handler.  A handler that fails after it has  *)
(* touched the instance leaves the two different, and a restart takes the  *)
(* hub back to the file.  The lighthouse holds a third copy of one part,   *)
(* the blocklist, which is refreshed by a step of its own.                 *)
(*                                                                         *)
(* Handlers run concurrently.  What one does under the store's lock is one *)
(* step; what it does after releasing it (reloading the lighthouse) is     *)
(* another.  A decision names a request the owner's machine read earlier,  *)
(* so it may arrive when the request has long been decided.                *)
(*                                                                         *)
(* A definition under "wrong on purpose" is a plausible mistake in the one *)
(* that follows it; with the mistake in place some property must fail.     *)
(***************************************************************************)
EXTENDS Integers, FiniteSets

CONSTANTS
  Connectors,   \* key fingerprints that enroll as connectors
  Tenants,      \* key fingerprints that ask to join as tenants
  Owner,        \* the key the owner's own member is filed under
  Names,        \* names a member may be called
  NoName,       \* the empty name
  InstanceName, \* the instance's name, which is also its owner's
  EmptyRef,     \* the empty reference to a member
  Ids,          \* request identifiers
  Serials,      \* what tells two certificates apart; bounds the approvals
  Networks,     \* prefixes a connector may carry
  Tokens,       \* shared tokens
  NoToken,      \* no shared token
  Hosts4,       \* usable host addresses of the IPv4 overlay, 1 .. Hosts4
  Hosts6,       \* the same for IPv6; 0 when the hub has no IPv6 pool
  MaxApplying,  \* bound on handlers between their save and their reload
  Faults,       \* what may fail: "save", "lighthouse"
  None          \* an absent record, member or certificate

Keys == Connectors \cup Tenants
MemberKeys == Keys \cup {Owner}
NoAddr == 0
LighthouseHost == 1
TenantHost == 2

ASSUME KeysAssumption ==
  /\ Connectors \cap Tenants = {}
  /\ Owner \notin Keys
  /\ EmptyRef \notin MemberKeys \cup Names
  /\ Names \cap MemberKeys = {}
ASSUME NamesAssumption == NoName \notin Names /\ InstanceName \in Names
ASSUME HostsAssumption ==
  /\ Hosts4 \in Nat /\ Hosts4 >= 2
  /\ Hosts6 \in Nat /\ (Hosts6 = 0 \/ Hosts6 >= 2)
ASSUME TokensAssumption == NoToken \notin Tokens
ASSUME BoundAssumption == MaxApplying \in Nat
ASSUME FaultsAssumption == Faults \subseteq {"save", "lighthouse"}

Addr4 == 0 .. Hosts4
Addr6 == 0 .. Hosts6
Status == {"pending", "approved", "rejected"}

\* A certificate binds a key to the addresses of the request it answers.
Cert == [key: Keys, addr4: Addr4, addr6: Addr6, serial: Serials]

Record == [key: Keys, name: Names \cup {NoName}, status: Status,
           addr4: Addr4, addr6: Addr6, cert: Cert \cup {None}]

\* The list of decisions about a member is kept as what Banned() reads off it.
Member == [name: Names \cup {NoName}, addr4: Addr4, addr6: Addr6,
           routes: SUBSET Networks, cert: Cert \cup {None}, banned: BOOLEAN]

Burned == [key: Keys, cert: Cert \cup {None}]

Instance == [requests: [Ids -> Record \cup {None}],
             members: [MemberKeys -> Member \cup {None}],
             alloc4: [Keys -> Addr4],
             alloc6: [Keys -> Addr6],
             burned: SUBSET Burned,
             token: Tokens \cup {NoToken},
             activated: BOOLEAN]

ASSUME NoneAssumption ==
  None \notin Record /\ None \notin Member /\ None \notin Cert

VARIABLES
  mem,          \* the instance in memory
  disk,         \* the instance in the state file
  running,      \* is the instance's lighthouse up
  refused,      \* the blocklist the running lighthouse was given
  applying,     \* ban and unban handlers that have saved and not yet reloaded
  activation,   \* where the handler that activates the instance is
  unsettled,    \* history: a ban's save or a reload failed since the list was last given
  signed        \* history: every certificate that came in with an approval

store == <<mem, disk>>
lhs == <<running, refused, activation>>
vars == <<mem, disk, running, refused, applying, activation, unsettled, signed>>

-----------------------------------------------------------------------------
(* Reading an instance.                                                    *)

\* Requests filed by a key.
RequestsOf(inst, k) ==
  {id \in Ids : inst.requests[id] # None /\ inst.requests[id].key = k}

IsMember(inst, k) == inst.members[k] # None

Banned(inst, k) == IsMember(inst, k) /\ inst.members[k].banned

IsBurned(inst, k) == \E b \in inst.burned : b.key = k

\* The certificates everybody is told to refuse.
blockedIn(inst) ==
  ({inst.members[k].cert : k \in {m \in MemberKeys : Banned(inst, m)}}
     \cup {b.cert : b \in inst.burned}) \ {None}

\* Everyone a reference may mean.  Members are walked in map order and the
\* first match is taken, so any of them may be the one.
memberIn(inst, ref) ==
  {k \in MemberKeys : /\ IsMember(inst, k)
                      /\ \/ k = ref
                         \/ ref = EmptyRef
                         \/ inst.members[k].name = ref}

Refs == MemberKeys \cup Names \cup {EmptyRef}

-----------------------------------------------------------------------------
(* Addresses.  The walk over a prefix is in module Ipam; here a pool is    *)
(* the set of its usable hosts.                                            *)

lowestFree(free) == CHOOSE a \in free : \A b \in free : a <= b
highestFree(free) == CHOOSE a \in free : \A b \in free : a >= b

memberAddresses(inst, six) ==
  {IF six THEN inst.members[k].addr6 ELSE inst.members[k].addr4 :
     k \in {m \in MemberKeys : IsMember(inst, m)}}

\* Wrong on purpose: only members are counted.
FreeHostsOfMembers(hosts, alloc, others) ==
  (1 .. hosts) \ (others \cup {LighthouseHost, TenantHost})
\* Hosts of a pool that nobody holds and nothing is reserved for.
FreeHosts(hosts, alloc, others) ==
  (1 .. hosts) \ ({alloc[k] : k \in Keys} \cup others \cup {LighthouseHost, TenantHost})

fromPool(hosts, alloc, others, k) ==
  LET free == FreeHosts(hosts, alloc, others)
  IN  IF alloc[k] # NoAddr THEN alloc[k]
      ELSE IF free = {} THEN NoAddr
      ELSE IF k \in Connectors THEN highestFree(free)
      ELSE lowestFree(free)

allocate(inst, k) == fromPool(Hosts4, inst.alloc4, memberAddresses(inst, FALSE), k)
allocate6(inst, k) == fromPool(Hosts6, inst.alloc6, memberAddresses(inst, TRUE), k)

-----------------------------------------------------------------------------
(* What a handler makes of an instance.                                    *)

\* A key that is already known keeps its request; one that was refused is
\* put back in front of the owner.
Resubmitted(inst, id, name) ==
  LET r == inst.requests[id]
  IN  [inst EXCEPT !.requests[id] =
         [r EXCEPT !.name = name,
                   !.status = IF r.status = "rejected" THEN "pending" ELSE r.status]]

Submitted(inst, id, k, name) ==
  LET a4 == allocate(inst, k)
      a6 == allocate6(inst, k)
  IN  [inst EXCEPT !.alloc4[k] = a4,
                   !.alloc6[k] = a6,
                   !.requests[id] = [key |-> k, name |-> name, status |-> "pending",
                                     addr4 |-> a4, addr6 |-> a6, cert |-> None]]

\* The request answered with a certificate; nobody has become a member yet.
Answered(inst, id, cert) ==
  [inst EXCEPT !.requests[id] = [@ EXCEPT !.status = "approved", !.cert = cert]]

Admitted(inst, id, name, routes, cert) ==
  LET r == inst.requests[id]
  IN  [Answered(inst, id, cert) EXCEPT
         !.members[r.key] = [name |-> name, addr4 |-> r.addr4, addr6 |-> r.addr6,
                             routes |-> routes, cert |-> cert, banned |-> FALSE]]

Rejected(inst, id) ==
  [inst EXCEPT !.requests[id] = [@ EXCEPT !.status = "rejected", !.cert = None]]

Forgotten(inst, id) == [inst EXCEPT !.requests[id] = None]

WithBan(inst, k, banned) ==
  [inst EXCEPT !.members[k] = [@ EXCEPT !.banned = banned]]

\* Wrong on purpose: the certificate is not burned, or the request is left.
RemovedKeyOnly(inst, k) ==
  [inst EXCEPT !.burned = @ \cup {[key |-> k, cert |-> None]},
               !.members[k] = None, !.alloc4[k] = NoAddr, !.alloc6[k] = NoAddr,
               !.requests = [id \in Ids |-> IF id \in RequestsOf(inst, k) THEN None ELSE @[id]]]
RemovedLeavingRequest(inst, k) ==
  [inst EXCEPT !.burned = @ \cup {[key |-> k, cert |-> inst.members[k].cert]},
               !.members[k] = None, !.alloc4[k] = NoAddr, !.alloc6[k] = NoAddr]
Removed(inst, k) ==
  [inst EXCEPT
     !.burned = @ \cup {[key |-> k, cert |-> inst.members[k].cert]},
     !.members[k] = None,
     !.alloc4[k] = NoAddr,
     !.alloc6[k] = NoAddr,
     !.requests = [id \in Ids |-> IF id \in RequestsOf(inst, k) THEN None ELSE @[id]]]

\* The name an approval gives: the owner's, or else the one asked for.
NameGiven(inst, id, name) == IF name = NoName THEN inst.requests[id].name ELSE name

\* Somebody else already answers under that name.
NameTaken(inst, id, name) ==
  /\ NameGiven(inst, id, name) # NoName
  /\ \E k \in MemberKeys \ {inst.requests[id].key} :
       IsMember(inst, k) /\ inst.members[k].name = NameGiven(inst, id, name)

-----------------------------------------------------------------------------
(* The store.  An update changes the instance in memory and writes the     *)
(* file; when writing fails the change stays in memory.                    *)

Saved(new) == mem' = new /\ disk' = new
SaveFailed(new) == "save" \in Faults /\ mem' = new /\ UNCHANGED disk
Update(new) == Saved(new) \/ SaveFailed(new)

-----------------------------------------------------------------------------
(* Handlers.                                                               *)

Enroll(k, name, mac) ==
  /\ k \in Connectors /\ mem.token # NoToken => mac = mem.token
  /\ ~IsBurned(mem, k)
  /\ \/ \E id \in RequestsOf(mem, k) : Update(Resubmitted(mem, id, name))
     \/ /\ RequestsOf(mem, k) = {}
        /\ allocate(mem, k) # NoAddr \/ allocate6(mem, k) # NoAddr
        /\ \E id \in {i \in Ids : mem.requests[i] = None} :
             Update(Submitted(mem, id, k, name))
  /\ UNCHANGED <<lhs, applying, unsettled, signed>>

\* The owner signs over the request's key and addresses, then the hub files it.
Approve(id, name, routes, serial) ==
  LET r == mem.requests[id]
      cert == [key |-> r.key, addr4 |-> r.addr4, addr6 |-> r.addr6, serial |-> serial]
  IN  /\ r # None
      /\ \A c \in signed : c.serial # serial
      /\ r.key \in Tenants => routes = {}
      /\ signed' = signed \cup {cert}
      /\ \/ ~NameTaken(mem, id, name) /\ Update(Admitted(mem, id, NameGiven(mem, id, name), routes, cert))
         \/ NameTaken(mem, id, name) /\ mem' = Answered(mem, id, cert) /\ UNCHANGED disk
      /\ UNCHANGED <<lhs, applying, unsettled>>

Reject(id) ==
  /\ mem.requests[id] # None
  /\ Update(Rejected(mem, id))
  /\ UNCHANGED <<lhs, applying, unsettled, signed>>

Forget(id) ==
  /\ mem.requests[id] # None
  /\ Update(Forgotten(mem, id))
  /\ UNCHANGED <<lhs, applying, unsettled, signed>>

\* A ban and an unban are the same handler with the opposite event.  The
\* reload is reached only by a handler whose save succeeded.
SetBan(ref, banned) ==
  /\ applying < MaxApplying
  /\ \E k \in memberIn(mem, ref) :
       /\ mem.members[k].banned # banned
       /\ \/ Saved(WithBan(mem, k, banned)) /\ applying' = applying + 1 /\ UNCHANGED unsettled
          \/ SaveFailed(WithBan(mem, k, banned)) /\ unsettled' = TRUE /\ UNCHANGED applying
  /\ UNCHANGED <<lhs, signed>>

Ban(ref) == SetBan(ref, TRUE)
Unban(ref) == SetBan(ref, FALSE)

\* Wrong on purpose: the lighthouse is handed the configuration it has.
applyBlocklistUnchanged ==
  /\ applying > 0
  /\ applying' = applying - 1
  /\ UNCHANGED <<store, running, refused, unsettled, activation, signed>>

\* The rest of Ban and Unban: a running lighthouse is handed what the
\* instance says now.
applyBlocklist ==
  /\ applying > 0
  /\ applying' = applying - 1
  /\ \/ running /\ refused' = blockedIn(mem) /\ unsettled' = FALSE
     \/ running /\ "lighthouse" \in Faults /\ unsettled' = TRUE /\ UNCHANGED refused
     \/ ~running /\ UNCHANGED <<refused, unsettled>>
  /\ UNCHANGED <<store, running, activation, signed>>

\* Wrong on purpose: a member that is not banned may be removed.
RemoveAnyMember(ref) ==
  /\ \E k \in memberIn(mem, ref) \ {Owner} : Update(Removed(mem, k))
  /\ UNCHANGED <<lhs, applying, unsettled, signed>>

RemoveMember(ref) ==
  /\ \E k \in memberIn(mem, ref) \ {Owner} :
       mem.members[k].banned /\ Update(Removed(mem, k))
  /\ UNCHANGED <<lhs, applying, unsettled, signed>>

SetSharedToken(token) ==
  /\ Update([mem EXCEPT !.token = token])
  /\ UNCHANGED <<lhs, applying, unsettled, signed>>

\* The state file holds everything, so a machine that registers (or a handler
\* of another instance) writes what this instance has in memory.
Register == disk' = mem /\ UNCHANGED <<mem, lhs, applying, unsettled, signed>>

-----------------------------------------------------------------------------
(* The lighthouse's life.  Activating stops whatever runs and starts it    *)
(* again, in two steps of the lighthouse table's own lock.                 *)

ActivateInstance ==
  /\ activation = "idle"
  /\ LET new == [mem EXCEPT !.activated = TRUE]
     IN  \/ Saved(new) /\ activation' = "stop"
         \/ SaveFailed(new) /\ UNCHANGED activation
  /\ UNCHANGED <<running, refused, applying, unsettled, signed>>

ActivateStop ==
  /\ activation = "stop"
  /\ activation' = "start" /\ running' = FALSE /\ refused' = {}
  /\ UNCHANGED <<store, applying, unsettled, signed>>

ActivateStart ==
  /\ activation = "start"
  /\ activation' = "idle"
  /\ \/ running' = TRUE /\ refused' = blockedIn(mem) /\ unsettled' = FALSE
     \/ "lighthouse" \in Faults /\ UNCHANGED <<running, refused, unsettled>>
  /\ UNCHANGED <<store, applying, signed>>

\* The hub stops, in whatever state its handlers are, and starts again from
\* the file, bringing up the lighthouse of an instance that has certificates.
Restart ==
  /\ mem' = disk
  /\ UNCHANGED <<disk, signed>>
  /\ applying' = 0 /\ activation' = "idle" /\ unsettled' = FALSE
  /\ \/ disk.activated /\ running' = TRUE /\ refused' = blockedIn(disk)
     \/ disk.activated /\ "lighthouse" \in Faults /\ running' = FALSE /\ refused' = {}
     \/ ~disk.activated /\ running' = FALSE /\ refused' = {}

-----------------------------------------------------------------------------
OwnerMember == [name |-> InstanceName, addr4 |-> TenantHost,
                addr6 |-> IF Hosts6 = 0 THEN NoAddr ELSE TenantHost,
                routes |-> {}, cert |-> None, banned |-> FALSE]

\* An instance as CreateInstance leaves it.
Created(token) ==
  [requests |-> [id \in Ids |-> None],
   members |-> [k \in MemberKeys |-> IF k = Owner THEN OwnerMember ELSE None],
   alloc4 |-> [k \in Keys |-> NoAddr],
   alloc6 |-> [k \in Keys |-> NoAddr],
   burned |-> {},
   token |-> token,
   activated |-> FALSE]

Init ==
  /\ \E token \in Tokens \cup {NoToken} : mem = Created(token)
  /\ disk = mem
  /\ running = FALSE /\ refused = {}
  /\ applying = 0 /\ activation = "idle" /\ unsettled = FALSE
  /\ signed = {}

Next ==
  \/ \E k \in Keys, name \in Names \cup {NoName}, mac \in Tokens \cup {NoToken} :
       Enroll(k, name, mac)
  \/ \E id \in Ids, name \in Names \cup {NoName}, routes \in SUBSET Networks, s \in Serials :
       Approve(id, name, routes, s)
  \/ \E id \in Ids : Reject(id) \/ Forget(id)
  \/ \E ref \in Refs : Ban(ref) \/ Unban(ref) \/ RemoveMember(ref)
  \/ \E token \in Tokens : SetSharedToken(token)
  \/ Register
  \/ applyBlocklist
  \/ ActivateInstance \/ ActivateStop \/ ActivateStart
  \/ Restart

Spec == Init /\ [][Next]_vars

\* A handler that has saved goes on to its reload, and one that has stopped
\* the lighthouse goes on to start it: nothing between the two waits.
FairSpec == Spec /\ WF_vars(applyBlocklist) /\ WF_vars(ActivateStop) /\ WF_vars(ActivateStart)
-----------------------------------------------------------------------------
(* Properties.                                                             *)

\* Every variable holds what the code keeps in it.
TypeOK ==
  /\ mem \in Instance /\ disk \in Instance
  /\ running \in BOOLEAN /\ refused \subseteq Cert
  /\ applying \in 0 .. MaxApplying
  /\ activation \in {"idle", "stop", "start"}
  /\ unsettled \in BOOLEAN
  /\ signed \subseteq Cert

\* Every IPv4 address a key is tied to: the sticky allocation, the one in its
\* request and the one it was admitted with.
Uses4(inst, k) ==
  ((IF k \in Keys THEN {inst.alloc4[k]} ELSE {})
    \cup {inst.requests[id].addr4 : id \in RequestsOf(inst, k)}
    \cup (IF IsMember(inst, k) THEN {inst.members[k].addr4} ELSE {})) \ {NoAddr}

Uses6(inst, k) ==
  ((IF k \in Keys THEN {inst.alloc6[k]} ELSE {})
    \cup {inst.requests[id].addr6 : id \in RequestsOf(inst, k)}
    \cup (IF IsMember(inst, k) THEN {inst.members[k].addr6} ELSE {})) \ {NoAddr}

AddressesApart(inst) ==
  \A j, k \in MemberKeys :
    /\ LighthouseHost \notin Uses4(inst, k) \cup Uses6(inst, k)
    /\ j # k => Uses4(inst, j) \cap Uses4(inst, k) = {}
    /\ j # k => Uses6(inst, j) \cap Uses6(inst, k) = {}

\* "No address is handed out twice" (memberAddresses, allocate, RemoveMember):
\* whatever is enrolled, decided, forgotten, removed, lost or rolled back, no
\* two keys are tied to one address, and nobody is given the lighthouse's.
AddressesDistinct == AddressesApart(mem) /\ AddressesApart(disk)

KeptOut(inst) ==
  \A k \in Keys : IsBurned(inst, k) =>
    /\ ~IsMember(inst, k)
    /\ RequestsOf(inst, k) = {}
    /\ inst.alloc4[k] = NoAddr /\ inst.alloc6[k] = NoAddr

\* A removed key is gone for good (RemoveMember, Enroll, Decide): it has no
\* request a late decision could still admit, no member and no address.
BurnedKeptOut == KeptOut(mem) /\ KeptOut(disk)

OneName(inst) ==
  \A j, k \in MemberKeys :
    /\ j # k /\ IsMember(inst, j) /\ IsMember(inst, k)
    /\ inst.members[j].name = inst.members[k].name
    => inst.members[j].name = NoName

\* "One name, one member" (Decide), across approvals, re-approvals, removals
\* and restarts, the owner's own member included.
NamesUnique == OneName(mem) /\ OneName(disk)

\* "A restart does not fill the panel with duplicates" (Enroll): a key never
\* has two requests, however often it enrolls and is refused or forgotten.
OneRequestPerKey ==
  \A k \in Keys, i, j \in Ids :
    i \in RequestsOf(mem, k) /\ j \in RequestsOf(mem, k) => i = j

\* What the hub says is refused, the running lighthouse refuses (Ban,
\* applyBlocklist, ActivateInstance, New), once every handler has finished and
\* unless one of them reported a failure since the hub last started.
LighthouseRefusesBlocked ==
  running /\ applying = 0 /\ ~unsettled => blockedIn(mem) \subseteq refused

\* Another key holds one of the addresses a certificate was signed for.
AddressReused(c) ==
  \E k \in Keys \ {c.key} :
    \/ c.addr4 # NoAddr /\ c.addr4 \in Uses4(mem, k)
    \/ c.addr6 # NoAddr /\ c.addr6 \in Uses6(mem, k)

\* "Free that address without burning the certificate first and the next
\* member admitted gets handed an address something else can still use"
\* (RemoveMember): whoever signed one certificate for a key finds it blocked
\* by the time its address belongs to another.
SignedOnceIsSafe ==
  \A c \in signed :
    (\A d \in signed : d.key = c.key => d = c) /\ AddressReused(c) => c \in blockedIn(mem)

\* "Nothing takes anything off this list" (Instance.Burned): the file never
\* loses a burned credential.
BurnedForGood == [][disk.burned \subseteq disk'.burned]_vars

\* A certificate comes off the blocklist only because its member is back in
\* (Unban, or Decide over the same key): never by removing, refusing or
\* forgetting somebody, nor by a restart, while the file can be written.
UnblockedOnlyIfLetIn ==
  [][\A c \in blockedIn(disk) :
       c \in blockedIn(disk') \/ (IsMember(disk', c.key) /\ ~Banned(disk', c.key))]_vars

\* A banned member whose certificate the running lighthouse still accepts.
NotYetRefused(k) ==
  /\ running /\ ~unsettled
  /\ Banned(mem, k) /\ mem.members[k].cert \notin refused \cup {None}

\* A ban reaches the lighthouse (Ban, applyBlocklist), or is lifted, or the
\* hub said that it failed.
BanReachesLighthouse == \A k \in Keys : NotYetRefused(k) ~> ~NotYetRefused(k)
=============================================================================
