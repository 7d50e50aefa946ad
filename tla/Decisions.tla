----------------------------- MODULE Decisions ------------------------------
(***************************************************************************)
(* What an owner decides, from the command line to the hub.  A command     *)
(* names a request or a member by something short, the daemon walks the    *)
(* instances the machine owns, one call each, and acts on what it found    *)
(* with one more call; the hub serves applicants and other commands in     *)
(* between.  Membership has the hub's side in full: here it is what the    *)
(* commands read and change, without saves and restarts.                   *)
(***************************************************************************)
EXTENDS Naturals, Sequences

CONSTANTS
  Instances,     \* the instances this machine owns
  Keys,          \* keys of applicants, and of the owner
  OwnerKey,
  OwnerName,     \* what this machine is called in each of its instances
  Fingerprint,   \* for each key, as a sequence
  KindOf,        \* for each key: "owner", "tenant" or "connector"
  Ids,           \* identifiers of requests, sequences
  Asks,          \* what an applicant may ask for: [name, hint, routes, domain]
  MayAsk,        \* who applies where, pairs of an instance and a key
  Approvals,     \* what approve may be given: [name, routes, noDomain]
  Refs,          \* what a command may name, sequences
  Within,        \* the instances it may be narrowed to, sets of them
  FamiliesOf,    \* the address families of each instance
  HasRoom,       \* and sets of those that may have an address left
  MaxName,       \* the longest name that fits, with what is added to it
  None

\* The first characters of an id or a fingerprint, of any number.
Beginnings == [s \in Ids \cup {Fingerprint[k] : k \in Keys} |-> {SubSeq(s, 1, n) : n \in 0 .. Len(s)}]

ASSUME DecisionsAssumption ==
  /\ OwnerKey \in Keys /\ MayAsk \subseteq Instances \X (Keys \ {OwnerKey})
  /\ \A k \in Keys \ {OwnerKey} : KindOf[k] \in {"tenant", "connector"}
  /\ Within \subseteq SUBSET Instances
  /\ \A k \in Keys : Fingerprint[k] \in Seq(Nat)
  /\ \A i \in Instances : HasRoom[i] \subseteq (SUBSET FamiliesOf[i]) \ {{}}
  /\ \A k, l \in Keys : k # l => Fingerprint[k] \notin Beginnings[Fingerprint[l]]
  /\ \A k \in Keys : Fingerprint[k] \notin {OwnerName} \cup {a.name : a \in Asks} \cup {a.hint : a \in Asks}
                                             \cup {p.name : p \in Approvals}

VARIABLES
  requests,  \* for each instance and id, Record or None
  members,   \* for each instance and key, Member or None
  burnt,     \* for each instance, the keys removed from it
  used,      \* ids given so far: they are random, so in one order as in any, and never repeat
  cmd        \* a command under way; others are at once, between two of its calls

decVars == <<requests, members, burnt, used, cmd>>

Applicants == Keys \ {OwnerKey}
\* Between commands only what the last one got wrong is kept: what else it could
\* have meant, and what it changed without having found it.
IdleCmd == [op |-> "idle", rivals |-> {}, astray |-> {}]

OwnCert(i) == [key |-> OwnerKey, networks |-> FamiliesOf[i], routes |-> {}]

DecInit ==
  /\ requests = [i \in Instances |-> [x \in Ids |-> None]]
  /\ members = [i \in Instances |-> [k \in Keys |->
       IF k = OwnerKey THEN [name |-> OwnerName, networks |-> FamiliesOf[i], routes |-> {}, domain |-> None,
                             cert |-> OwnCert(i), banned |-> FALSE]
       ELSE None]]
  /\ burnt = [i \in Instances |-> {}] /\ used = {}
  /\ cmd = IdleCmd
-----------------------------------------------------------------------------
(***************************************************************************)
(* What a reference means.                                                 *)
(***************************************************************************)
Waiting(i) == {x \in Ids : requests[i][x] # None /\ requests[i][x].status = "pending"}
Present(i) == {k \in Keys : members[i][k] # None}

\* A request by the first characters of its id.
RequestsNamed(i, ref) == {x \in Waiting(i) : ref \in Beginnings[x]}

\* memberIn, and findMember's condition: by name, or by the first characters
\* of the fingerprint.
memberIn(i, ref) == {k \in Present(i) : members[i][k].name = ref \/ ref \in Beginnings[Fingerprint[k]]}

OnRequests == {"approve", "reject", "forget"}
OnMembers == {"ban", "unban", "remove"}

Named(op, i, ref) == IF op \in OnRequests THEN RequestsNamed(i, ref) ELSE memberIn(i, ref)

Pairs(op, ref, within) == UNION {{[inst |-> i, what |-> w] : w \in Named(op, i, ref)} : i \in within}

\* What a command's reference has meant from its beginning up to now.
Steady ==
  IF cmd.op = "idle" THEN cmd
  ELSE [cmd EXCEPT !.steady = {e \in @ : \A op \in {cmd.op}, ref \in {cmd.ref} : e.what \in Named(op, e.inst, ref)'}]
-----------------------------------------------------------------------------
(***************************************************************************)
(* Applicants, at the hub: Enroll.                                         *)
(***************************************************************************)
RecordsOf(i, k) == {x \in Ids : requests[i][x] # None /\ requests[i][x].key = k}

Again(i, k, ask) ==
  \E x \in RecordsOf(i, k) :
    /\ requests' = [requests EXCEPT ![i][x].ask = ask,
                                    ![i][x].status = IF @ = "rejected" THEN "pending" ELSE @]
    /\ UNCHANGED used

\* A member that asks again keeps its addresses; a family may be out of them.
Anew(i, k, ask) ==
  /\ RecordsOf(i, k) = {} /\ used # Ids
  /\ \E x \in {CHOOSE y \in Ids \ used : TRUE}, got \in HasRoom[i] :
       /\ members[i][k] # None => members[i][k].networks \subseteq got
       /\ requests' = [requests EXCEPT ![i][x] = [key |-> k, ask |-> ask, networks |-> got, status |-> "pending"]]
       /\ used' = used \cup {x}

Ask(i, k, ask) ==
  /\ k \notin burnt[i]
  /\ KindOf[k] = "tenant" => ask.routes = {} /\ ask.domain = None
  /\ Again(i, k, ask) \/ Anew(i, k, ask)
  /\ UNCHANGED <<members, burnt>>
  /\ cmd' = Steady
-----------------------------------------------------------------------------
(***************************************************************************)
(* A command, in the daemon.                                               *)
(***************************************************************************)
Command(op, ref, within, how) ==
  [op |-> op, ref |-> ref, how |-> how, left |-> within, found |-> {}, steady |-> Pairs(op, ref, within)]

\* What is read of an instance: its requests or its members.
Listed(cm, i) ==
  {[inst |-> i, what |-> w, was |-> IF cm.op = "approve" THEN requests[i][w] ELSE None] : w \in Named(cm.op, i, cm.ref)}

\* Another command, which named what it found by its whole id or fingerprint
\* and read it just now.
Others ==
  LET Given(op, how, ref, i, w) ==
        [op |-> op, ref |-> ref, how |-> how,
         found |-> {[inst |-> i, what |-> w, was |-> IF op = "approve" THEN requests[i][w] ELSE None]}]
  IN  UNION {{Given("approve", how, x, i, x) : how \in Approvals, x \in Waiting(i)}
             \cup {Given(op, None, x, i, x) : op \in {"reject", "forget"}, x \in Waiting(i)}
             \cup {Given(op, None, Fingerprint[k], i, k) : op \in OnMembers, k \in Present(i) \ {OwnerKey}} :
                i \in Instances}

\* What can be typed: approve, reject and forget go by a request, the rest by
\* a member, which has to be named, and an instance may be named with it.
TypedOfRequests ==
  {Command("approve", ref, Instances, how) : ref \in Refs, how \in Approvals}
  \cup {Command(op, ref, Instances, None) : op \in {"reject", "forget"}, ref \in Refs}

TypedOfMembers ==
  {Command(op, ref, within, None) : op \in OnMembers, ref \in Refs \ {<<>>}, within \in Within}

Begin ==
  /\ cmd.op = "idle" /\ cmd' \in TypedOfRequests \cup TypedOfMembers
  /\ UNCHANGED <<requests, members, burnt, used>>

Read(i) ==
  /\ cmd.op # "idle" /\ i \in cmd.left
  /\ cmd' = [cmd EXCEPT !.left = @ \ {i}, !.found = @ \cup Listed(cmd, i)]
  /\ UNCHANGED <<requests, members, burnt, used>>

\* An instance that cannot be read is passed over.
CannotRead(i) ==
  /\ cmd.op # "idle" /\ i \in cmd.left
  /\ cmd' = [cmd EXCEPT !.left = @ \ {i}, !.steady = {e \in @ : e.inst # i}]
  /\ UNCHANGED <<requests, members, burnt, used>>

TheOnly(found) == {e \in found : found = {e}}

\* matchPending: the one with this very id, else the only one.
matchPending(cm) ==
  LET exact == {e \in cm.found : e.what = cm.ref}
  IN  IF exact # {} THEN exact ELSE TheOnly(cm.found)

\* Wrong on purpose: whichever came first.
findMemberAny(cm) == cm.found

\* findMember: the only one.
findMember(cm) == TheOnly(cm.found)

Target(cm) == IF cm.op \in OnRequests THEN matchPending(cm) ELSE findMember(cm)

Finished(cm, e, w) ==
  LET hit == [inst |-> e.inst, what |-> w]
      exact == cm.op \in OnRequests /\ w = cm.ref
      seen == {[inst |-> f.inst, what |-> f.what] : f \in cm.found}
  IN  cmd' = IF cm # cmd THEN Steady
             ELSE [op |-> "idle", rivals |-> IF exact THEN {} ELSE cm.steady \ {hit}, astray |-> {hit} \ seen]

\* None or several are found, or the hub refuses, or cannot be reached.
GivesUp ==
  /\ cmd.op # "idle" /\ cmd.left = {}
  /\ cmd' = IdleCmd
  /\ UNCHANGED <<requests, members, burnt, used>>
-----------------------------------------------------------------------------
(***************************************************************************)
(* Approve: what is signed, and what the hub makes of it.                  *)
(***************************************************************************)
\* Routes of a family the certificate has an address of.
carriable(routes, networks) == routes \cap networks

defaultName(rec) == IF rec.ask.hint # <<>> THEN rec.ask.hint ELSE Fingerprint[rec.key] \o <<0>>

NameFor(rec, how) ==
  IF how.name # <<>> THEN how.name ELSE IF rec.ask.name # <<>> THEN rec.ask.name ELSE defaultName(rec)

fitsInAName(name) == Len(name) <= MaxName

\* Wrong on purpose: a tenant is given the routes the owner named.
WantedOfAll(rec, how) == IF how.routes # None THEN how.routes ELSE rec.ask.routes

\* A tenant carries nothing; a connector what it announced, or what the owner
\* narrowed that to, which must then be carriable as a whole.
Wanted(rec, how) ==
  IF KindOf[rec.key] = "tenant" THEN {} ELSE IF how.routes # None THEN how.routes ELSE rec.ask.routes

Refuses(rec, how) ==
  \/ KindOf[rec.key] # "tenant" /\ how.routes # None /\ carriable(how.routes, rec.networks) # how.routes
  \/ ~fitsInAName(NameFor(rec, how))

Domain(rec, how) == IF KindOf[rec.key] = "tenant" \/ how.noDomain THEN None ELSE rec.ask.domain

Signed(rec, how) == [key |-> rec.key, networks |-> rec.networks, routes |-> carriable(Wanted(rec, how), rec.networks)]

\* Decide, approving: the record is changed before the name is looked at.
Approves(cm) ==
  /\ cm.op = "approve"
  /\ UNCHANGED <<burnt, used>>
  /\ \E e \in Target(cm) :
       LET how == cm.how
           rec == requests[e.inst][e.what]
           name == NameFor(e.was, how)
           taken == \E k \in Present(e.inst) : k # rec.key /\ members[e.inst][k].name = name
       IN  /\ ~Refuses(e.was, how) /\ rec # None
           /\ requests' = [requests EXCEPT ![e.inst][e.what].status = "approved"]
           /\ members' = IF taken THEN members
                         ELSE [members EXCEPT ![e.inst][rec.key] =
                                 [name |-> name, networks |-> rec.networks, routes |-> Signed(e.was, how).routes,
                                  domain |-> Domain(e.was, how), cert |-> Signed(e.was, how), banned |-> FALSE]]
           /\ Finished(cm, e, e.what)

Rejects(cm) ==
  /\ cm.op = "reject"
  /\ UNCHANGED <<members, burnt, used>>
  /\ \E e \in Target(cm) :
       /\ requests[e.inst][e.what] # None
       /\ requests' = [requests EXCEPT ![e.inst][e.what].status = "rejected"]
       /\ Finished(cm, e, e.what)

Forgets(cm) ==
  /\ cm.op = "forget"
  /\ UNCHANGED <<members, burnt, used>>
  /\ \E e \in Target(cm) :
       /\ requests[e.inst][e.what] # None
       /\ requests' = [requests EXCEPT ![e.inst][e.what] = None]
       /\ Finished(cm, e, e.what)
-----------------------------------------------------------------------------
(***************************************************************************)
(* Ban, Unban and RemoveMember: the hub resolves what it is sent again.    *)
(***************************************************************************)
\* The member's whole fingerprint.
Sent(cm, e) == Fingerprint[e.what]

Bans(cm) ==
  /\ cm.op \in {"ban", "unban"}
  /\ UNCHANGED <<requests, burnt, used>>
  /\ \E e \in Target(cm) : \E k \in memberIn(e.inst, Sent(cm, e)) :
       /\ members[e.inst][k].banned = (cm.op = "unban")
       /\ members' = [members EXCEPT ![e.inst][k].banned = (cm.op = "ban")]
       /\ Finished(cm, e, k)

Removes(cm) ==
  /\ cm.op = "remove"
  /\ UNCHANGED used
  /\ \E e \in Target(cm) : \E k \in memberIn(e.inst, Sent(cm, e)) :
       /\ KindOf[k] # "owner" /\ members[e.inst][k].banned
       /\ members' = [members EXCEPT ![e.inst][k] = None]
       /\ requests' = [requests EXCEPT ![e.inst] = [x \in Ids |-> IF x \in RecordsOf(e.inst, k) THEN None ELSE @[x]]]
       /\ burnt' = [burnt EXCEPT ![e.inst] = @ \cup {k}]
       /\ Finished(cm, e, k)

Act(cm) == Approves(cm) \/ Rejects(cm) \/ Forgets(cm) \/ Bans(cm) \/ Removes(cm)

DecNext ==
  \/ \E p \in MayAsk, ask \in Asks : Ask(p[1], p[2], ask)
  \/ Begin
  \/ \E i \in Instances : Read(i) \/ CannotRead(i)
  \/ cmd.op # "idle" /\ cmd.left = {} /\ Act(cmd)
  \/ cmd.op # "idle" /\ \E cm \in Others : Act(cm)
  \/ GivesUp

DecSpec == DecInit /\ [][DecNext]_decVars
-----------------------------------------------------------------------------
\* "The hub records these rather than the request, so the route table says what
\* is true": whatever was asked again, forgotten or approved twice meanwhile, a
\* member's addresses and routes are those its certificate was signed for, and
\* nebula takes such a certificate.
TableSaysTrue ==
  \A i \in Instances, k \in Keys : members[i][k] # None =>
    LET m == members[i][k]
    IN  /\ m.cert = [key |-> k, networks |-> m.networks, routes |-> m.routes]
        /\ m.routes \subseteq m.networks
        /\ KindOf[k] # "connector" => m.routes = {} /\ m.domain = None

\* "An ambiguous name is refused", "give more of the id": what a command did by
\* a short reference, it did only if nothing else in what it could read had
\* answered to that reference all along.  And what the hub changed is what the
\* daemon had found, although the hub looks it up again, names may have moved
\* since, and a prefix is enough for it.
ActsAsMeant ==
  cmd.op = "idle" => cmd.rivals = {} /\ cmd.astray = {}
=============================================================================
