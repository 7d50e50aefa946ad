---------------------------- MODULE TenantDaemon ----------------------------
(***************************************************************************)
(* The daemon on an operator's machine: the instances it owns, the ones it *)
(* is connected to, and a nebula and a name router for each of those.      *)
(*                                                                         *)
(* A ticker and the handlers of the control socket run at the same time.   *)
(* Each takes one step per critical section or call to the hub, and works  *)
(* in between on copies of what it read.  The hub is what this machine     *)
(* sees of it; module Membership has the whole of it.                      *)
(***************************************************************************)
EXTENDS Integers, FiniteSets

CONSTANTS
  Instances,    \* instance identifiers
  Mine,         \* those this machine may create; others belong to somebody else
  Prefixes,     \* networks connectors carry; two overlap when they are equal
  Choices,      \* what this machine decides for itself: families, inbound, cheats
  Tokens,       \* shared tokens
  MaxKeys,      \* bound on the nebula keys generated, each once; then generating fails
  LastDevice,   \* number of the last tun name, 255 in the code
  Handlers,     \* requests on the control socket served at once
  Moves,        \* subset of {"decide", "ban", "carry"}: what others do on the hub
  Faults,       \* subset of {"save", "hub", "nebula"}: what may fail
  None

ASSUME TenantAssumption ==
  /\ IsFiniteSet(Instances) /\ Mine \subseteq Instances
  /\ LastDevice \in Nat /\ Cardinality(Instances) <= LastDevice
  /\ MaxKeys \in Nat
  /\ Choices # {} /\ Tokens # {}
  /\ "ticker" \notin Handlers
  /\ None \notin Nat /\ None \notin Tokens

Keys == 1..MaxKeys
Devices == 0..LastDevice
Actors == {"ticker"} \cup Handlers

\* A certificate is known by the key it was signed over.
Connection == [instance: Instances, key: Keys, cert: Keys \cup {None}, device: Devices]

Data == [conns: [Instances -> Connection \cup {None}],
         owned: [Instances -> Tokens \cup {None}],   \* the authority, with its token
         choice: Choices]

VARIABLES
  hub,        \* per instance, what the hub says to this machine
  data,       \* the daemon's state in memory
  file,       \* the state file
  run,        \* nebula per instance: its device, its routes, the choices it was built with
  router,     \* table per instance the name router answers from, None when there is none
  act,        \* the ticker and the handlers
  used,       \* keys generated so far
  created     \* history: instances whose creation was reported as done

vars == <<hub, data, file, run, router, act, used, created>>

Asked == {"none", "pending", "approved", "rejected"}

HubView == [state: {"unborn", "there", "gone"},
            asked: [Keys -> Asked],           \* requests of this machine, by key
            members: SUBSET Keys,             \* its memberships, a banned one left out
            routes: SUBSET Prefixes,
            token: Tokens \cup {None}]

Runner == [device: Devices, routes: SUBSET Prefixes, choice: Choices]

ASSUME AbsentAssumption == None \notin Connection /\ None \notin Runner

ActorPc == {"idle", "refresh", "next", "admit", "router", "check", "start", "reload",
            "resolve", "rejoin", "join", "created", "token", "leave", "forget",
            "deleted", "destroy", "disown"}

Actor == [pc: ActorPc,
          todo: SUBSET Connection,            \* what is left of Refresh's snapshot
          inst: Instances \cup {None},
          conn: Connection \cup {None},       \* the copy at hand
          table: SUBSET Prefixes,
          choice: Choices \cup {None},
          token: Tokens \cup {None}]

Idle == [pc |-> "idle", todo |-> {}, inst |-> None, conn |-> None,
         table |-> {}, choice |-> None, token |-> None]

TenantTypeOK ==
  /\ hub \in [Instances -> HubView]
  /\ data \in Data /\ file \in Data
  /\ run \in [Instances -> Runner \cup {None}]
  /\ router \in [Instances -> (SUBSET Prefixes) \cup {None}]
  /\ act \in [Actors -> Actor]
  /\ used \in 0..MaxKeys
  /\ created \subseteq Instances

Unasked == [state |-> "unborn", asked |-> [k \in Keys |-> "none"], members |-> {},
            routes |-> {}, token |-> None]

\* A registered machine that has not done anything yet; other people's
\* instances are there already.
Init ==
  /\ hub = [i \in Instances |-> [Unasked EXCEPT !.state = IF i \in Mine THEN @ ELSE "there"]]
  /\ \E c \in Choices :
       data = [conns |-> [i \in Instances |-> None], owned |-> [i \in Instances |-> None],
               choice |-> c]
  /\ file = data
  /\ run = [i \in Instances |-> None]
  /\ router = [i \in Instances |-> None]
  /\ act = [a \in Actors |-> Idle]
  /\ used = 0
  /\ created = {}
-----------------------------------------------------------------------------
(* The state, the runners and the routers, each under its own lock.        *)

Ready(c) == c.cert # None

\* Write: what fn left in memory stays there when it cannot be saved.
Saved(d) == data' = d /\ file' = d
SaveFailed(d) == "save" \in Faults /\ data' = d /\ UNCHANGED file

Lowest(free) == CHOOSE d \in free : \A e \in free : d <= e

taken(conns) == {conns[i].device : i \in {j \in Instances : conns[j] # None}}

\* Wrong on purpose: only connections that run count as taken.
nextDeviceOfReady(conns) ==
  LET free == Devices \ {conns[i].device : i \in {j \in Instances : conns[j] # None /\ Ready(conns[j])}}
  IN  IF free = {} THEN LastDevice ELSE Lowest(free)

nextDevice(conns) ==
  LET free == Devices \ taken(conns) IN IF free = {} THEN LastDevice ELSE Lowest(free)

Continue(s) == [s EXCEPT !.pc = "next", !.conn = None, !.table = {}, !.choice = None]

\* Stopping a nebula.  A reload that had looked it up configures something
\* nobody uses any more, so its actor just goes on.
stop(a, i, next) ==
  /\ run' = [run EXCEPT ![i] = None]
  /\ act' = [b \in Actors |->
       IF b = a THEN next
       ELSE IF act[b].pc = "reload" /\ act[b].conn.instance = i THEN Continue(act[b])
       ELSE act[b]]

-----------------------------------------------------------------------------
(* Refresh: one round over a snapshot of the connections.                  *)

There(i) == hub[i].state = "there"

\* Who may read a route table: the owner, and a member who is not banned.
MemberOf(i) == There(i) /\ (i \in Mine \/ hub[i].members # {})

Goto(a, s) == act' = [act EXCEPT ![a] = s]

Refresh(a) ==
  /\ \/ a = "ticker" /\ act[a].pc = "idle"
     \/ act[a].pc = "refresh"
  /\ Goto(a, [Idle EXCEPT !.pc = "next",
                          !.todo = {data.conns[i] : i \in Instances} \ {None}])
  /\ UNCHANGED <<hub, data, file, run, router, used, created>>

RefreshEnds(a) ==
  /\ act[a].pc = "next" /\ act[a].todo = {}
  /\ Goto(a, Idle)
  /\ UNCHANGED <<hub, data, file, run, router, used, created>>

\* A call that brought nothing: no answer, a refusal, nothing to collect.
Skip(a) ==
  /\ act[a].pc = "next"
  /\ \E c \in act[a].todo :
       /\ \/ "hub" \in Faults
          \/ Ready(c) /\ ~MemberOf(c.instance)
          \/ ~Ready(c) /\ \A k \in Keys : hub[c.instance].asked[k] = "none"
       /\ Goto(a, [act[a] EXCEPT !.todo = @ \ {c}])
  /\ UNCHANGED <<hub, data, file, run, router, used, created>>

\* The hub answers with the first request it finds of this machine.
collect(a) ==
  /\ act[a].pc = "next"
  /\ \E c \in act[a].todo, k \in Keys :
       LET asked == hub[c.instance].asked[k]
           left == [act[a] EXCEPT !.todo = @ \ {c}]
       IN  /\ ~Ready(c) /\ asked # "none"
           /\ Goto(a, IF asked = "approved"
                      THEN [left EXCEPT !.pc = "admit", !.conn = [c EXCEPT !.cert = k]]
                      ELSE left)
  /\ UNCHANGED <<hub, data, file, run, router, used, created>>

\* The certificate goes into the connection that is stored now.
admit(a) ==
  LET i == act[a].conn.instance
      d == [data EXCEPT !.conns[i].cert = act[a].conn.cert]
  IN  /\ act[a].pc = "admit"
      /\ \/ data.conns[i] # None /\ (Saved(d) \/ SaveFailed(d))
         \/ data.conns[i] = None /\ UNCHANGED <<data, file>>
      /\ Goto(a, Continue(act[a]))
      /\ UNCHANGED <<hub, run, router, used, created>>

routes(a) ==
  /\ act[a].pc = "next"
  /\ \E c \in act[a].todo :
       /\ Ready(c) /\ MemberOf(c.instance)
       /\ Goto(a, [act[a] EXCEPT !.pc = "router", !.todo = @ \ {c}, !.conn = c,
                                 !.table = hub[c.instance].routes])
  /\ UNCHANGED <<hub, data, file, run, router, used, created>>

\* Wrong on purpose: a router that cannot listen yet ends the turn.
startRouterFirst(a) ==
  LET i == act[a].conn.instance
      can == router[i] # None \/ run[i] # None
  IN  /\ act[a].pc = "router"
      /\ router' = [router EXCEPT ![i] = IF can THEN act[a].table ELSE @]
      /\ Goto(a, IF can THEN [act[a] EXCEPT !.pc = "check"] ELSE Continue(act[a]))
      /\ UNCHANGED <<hub, data, file, run, used, created>>

\* The router listens on the connection's own address, which is there while
\* its nebula is.
startRouter(a) ==
  LET i == act[a].conn.instance
  IN  /\ act[a].pc = "router"
      /\ router' = [router EXCEPT ![i] = IF @ # None \/ run[i] # None THEN act[a].table ELSE @]
      /\ Goto(a, [act[a] EXCEPT !.pc = "check"])
      /\ UNCHANGED <<hub, data, file, run, used, created>>

\* Prefixes the hub says that other running connections carry.  The tables are
\* read again, and one that cannot be read is left out.
Held(i, seen) == UNION {hub[j].routes : j \in seen \ {i}}

Others(i) == {j \in Instances \ {i} : data.conns[j] # None /\ run[j] # None /\ MemberOf(j)}

startConnection(a) ==
  LET i == act[a].conn.instance
  IN  /\ act[a].pc = "check" /\ run[i] = None
      /\ \E seen \in IF "hub" \in Faults THEN SUBSET Others(i) ELSE {Others(i)} :
           Goto(a, IF Held(i, seen) \cap act[a].table # {}
                   THEN Continue(act[a])
                   ELSE [act[a] EXCEPT !.pc = "start", !.choice = data.choice])
      /\ UNCHANGED <<hub, data, file, run, router, used, created>>

\* Nebula comes up with a certificate over its key and a device of its own.
Starts(c) == c.cert = c.key /\ \A j \in Instances : run[j] # None => run[j].device # c.device

start(a) ==
  LET s == act[a]
      i == s.conn.instance
  IN  /\ s.pc = "start"
      /\ \/ /\ run[i] = None /\ Starts(s.conn)
            /\ run' = [run EXCEPT ![i] = [device |-> s.conn.device, routes |-> s.table,
                                          choice |-> s.choice]]
         \/ /\ run[i] # None \/ ~Starts(s.conn) \/ "nebula" \in Faults
            /\ UNCHANGED run
      /\ Goto(a, Continue(s))
      /\ UNCHANGED <<hub, data, file, router, used, created>>

\* A reload looks the nebula up, lets go of the lock and configures it.
reload(a) ==
  /\ act[a].pc = "check" /\ run[act[a].conn.instance] # None
  /\ Goto(a, [act[a] EXCEPT !.pc = "reload", !.choice = data.choice])
  /\ UNCHANGED <<hub, data, file, run, router, used, created>>

\* Wrong on purpose: a reload brings the table and not the choices.
ReloadRoutes(a) ==
  LET s == act[a]
      i == s.conn.instance
  IN  /\ s.pc = "reload"
      /\ \/ run' = [run EXCEPT ![i].routes = s.table]
         \/ "nebula" \in Faults /\ UNCHANGED run
      /\ Goto(a, Continue(s))
      /\ UNCHANGED <<hub, data, file, router, used, created>>

ReloadConfig(a) ==
  LET s == act[a]
      i == s.conn.instance
  IN  /\ s.pc = "reload"
      /\ \/ run' = [run EXCEPT ![i].routes = s.table, ![i].choice = s.choice]
         \/ "nebula" \in Faults /\ UNCHANGED run
      /\ Goto(a, Continue(s))
      /\ UNCHANGED <<hub, data, file, router, used, created>>

-----------------------------------------------------------------------------
(* Requests on the control socket.                                         *)

Local == <<run, router, created>>

\* A connection with a key of its own.
NewConnection(i, signed) ==
  [instance |-> i, key |-> used + 1, cert |-> IF signed THEN used + 1 ELSE None,
   device |-> nextDevice(data.conns)]

WithConn(c) == [data EXCEPT !.conns[c.instance] = c]

\* A second ask returns at once, and like a first one ends with a Refresh.
Connect(a, i) ==
  /\ a \in Handlers /\ act[a].pc = "idle"
  /\ Goto(a, IF data.conns[i] # None THEN [Idle EXCEPT !.pc = "refresh"]
             ELSE [Idle EXCEPT !.pc = "resolve", !.inst = i])
  /\ UNCHANGED <<hub, data, file, used, Local>>

resolveInstance(a) ==
  LET i == act[a].inst
      c == NewConnection(i, FALSE)
  IN  /\ act[a].pc = "resolve"
      /\ \/ /\ There(i) /\ data.owned[i] = None /\ used < MaxKeys
            /\ used' = used + 1
            /\ \/ Saved(WithConn(c)) /\ Goto(a, [Idle EXCEPT !.pc = "join", !.conn = c])
               \/ SaveFailed(WithConn(c)) /\ Goto(a, Idle)
         \/ /\ There(i) /\ data.owned[i] # None
            /\ Goto(a, [Idle EXCEPT !.pc = "rejoin", !.inst = i])
            /\ UNCHANGED <<data, file, used>>
         \/ /\ ~There(i) \/ "hub" \in Faults \/ used = MaxKeys
            /\ Goto(a, Idle)
            /\ UNCHANGED <<data, file, used>>
      /\ UNCHANGED <<hub, Local>>

\* The request is filed and the answer arrives, or not; or it is not filed.
join(a) ==
  LET i == act[a].conn.instance
      filed == There(i) /\ hub' = [hub EXCEPT ![i].asked[act[a].conn.key] = "pending"]
  IN  /\ act[a].pc = "join"
      /\ \/ filed /\ Goto(a, [Idle EXCEPT !.pc = "refresh"])
         \/ filed /\ "hub" \in Faults /\ Goto(a, Idle)
         \/ (~There(i) \/ "hub" \in Faults) /\ Goto(a, Idle) /\ UNCHANGED hub
      /\ UNCHANGED <<data, file, used, Local>>

\* The owner signs for itself; the authority was read before the hub was asked.
rejoinOwn(a) ==
  LET i == act[a].inst
      c == NewConnection(i, TRUE)
  IN  /\ act[a].pc = "rejoin"
      /\ \/ /\ used < MaxKeys /\ used' = used + 1
            /\ \/ Saved(WithConn(c)) /\ Goto(a, [Idle EXCEPT !.pc = "refresh"])
               \/ SaveFailed(WithConn(c)) /\ Goto(a, Idle)
         \/ /\ ~There(i) \/ "hub" \in Faults \/ used = MaxKeys
            /\ Goto(a, Idle)
            /\ UNCHANGED <<data, file, used>>
      /\ UNCHANGED <<hub, Local>>

\* Create: the instance, its token and its lighthouse are on the hub before
\* the authority is stored here.
Create(a, i, token) ==
  /\ a \in Handlers /\ act[a].pc = "idle"
  /\ i \in Mine /\ hub[i].state = "unborn"
  /\ hub' = [hub EXCEPT ![i].state = "there", ![i].token = token]
  /\ \/ Goto(a, [Idle EXCEPT !.pc = "created", !.inst = i, !.token = token])
     \/ "hub" \in Faults /\ Goto(a, Idle)
  /\ UNCHANGED <<data, file, used, Local>>

StoreAuthority(a) ==
  LET i == act[a].inst
      c == NewConnection(i, TRUE)
      d == [WithConn(c) EXCEPT !.owned[i] = act[a].token]
  IN  /\ act[a].pc = "created"
      /\ \/ /\ used < MaxKeys /\ used' = used + 1
            /\ \/ Saved(d) /\ created' = created \cup {i}
               \/ SaveFailed(d) /\ UNCHANGED created
         \/ used = MaxKeys /\ UNCHANGED <<data, file, used, created>>
      /\ Goto(a, Idle)
      /\ UNCHANGED <<hub, run, router>>

SetToken(a, i, token) ==
  /\ a \in Handlers /\ act[a].pc = "idle"
  /\ data.owned[i] # None /\ There(i)
  /\ hub' = [hub EXCEPT ![i].token = token]
  /\ \/ Goto(a, [Idle EXCEPT !.pc = "token", !.inst = i, !.token = token])
     \/ "hub" \in Faults /\ Goto(a, Idle)
  /\ UNCHANGED <<data, file, used, Local>>

StoreToken(a) ==
  LET i == act[a].inst
      d == [data EXCEPT !.owned[i] = IF @ # None THEN act[a].token ELSE @]
  IN  /\ act[a].pc = "token"
      /\ Saved(d) \/ SaveFailed(d)
      /\ Goto(a, Idle)
      /\ UNCHANGED <<hub, used, Local>>

\* SetFamilies, SetInbound, SetCheat: saved, and then applied by a Refresh.
SetChoice(a, choice) ==
  LET d == [data EXCEPT !.choice = choice]
  IN  /\ a \in Handlers /\ act[a].pc = "idle"
      /\ \/ Saved(d) /\ Goto(a, [Idle EXCEPT !.pc = "refresh"])
         \/ SaveFailed(d) /\ Goto(a, Idle)
      /\ UNCHANGED <<hub, used, Local>>

Disconnect(a, i) ==
  /\ a \in Handlers /\ act[a].pc = "idle"
  /\ data.conns[i] # None
  /\ stop(a, i, [Idle EXCEPT !.pc = "leave", !.inst = i])
  /\ UNCHANGED <<hub, data, file, router, used, created>>

\* Delete asks the hub first, whose answer may be lost.
Delete(a, i) ==
  /\ a \in Handlers /\ act[a].pc = "idle"
  /\ data.owned[i] # None /\ There(i)
  /\ hub' = [hub EXCEPT ![i] = [Unasked EXCEPT !.state = "gone"]]
  /\ \/ Goto(a, [Idle EXCEPT !.pc = "deleted", !.inst = i])
     \/ "hub" \in Faults /\ Goto(a, Idle)
  /\ UNCHANGED <<data, file, used, Local>>

StopDeleted(a) ==
  /\ act[a].pc = "deleted"
  /\ stop(a, act[a].inst, [act[a] EXCEPT !.pc = "destroy"])
  /\ UNCHANGED <<hub, data, file, router, used, created>>

stopRouter(a) ==
  /\ act[a].pc \in {"leave", "destroy"}
  /\ router' = [router EXCEPT ![act[a].inst] = None]
  /\ Goto(a, [act[a] EXCEPT !.pc = IF @ = "leave" THEN "forget" ELSE "disown"])
  /\ UNCHANGED <<hub, data, file, run, used, created>>

\* Wrong on purpose: leaving an instance gives up its authority as well.
ForgottenWhole(a) ==
  LET d == [data EXCEPT !.conns[act[a].inst] = None, !.owned[act[a].inst] = None]
  IN  /\ act[a].pc \in {"forget", "disown"}
      /\ Saved(d) \/ SaveFailed(d)
      /\ Goto(a, Idle)
      /\ UNCHANGED <<hub, used, Local>>

Forgotten(a) ==
  LET i == act[a].inst
      left == [data EXCEPT !.conns[i] = None]
      d == IF act[a].pc = "disown" THEN [left EXCEPT !.owned[i] = None] ELSE left
  IN  /\ act[a].pc \in {"forget", "disown"}
      /\ Saved(d) \/ SaveFailed(d)
      /\ Goto(a, Idle)
      /\ UNCHANGED <<hub, used, Local>>

-----------------------------------------------------------------------------
(* The others: owners decide, connectors come and go, the process ends.    *)

\* A decision on a request of this machine, taken on any status it has.
Decide(i, k, status) ==
  /\ hub[i].asked[k] # "none"
  /\ hub' = [hub EXCEPT ![i].asked[k] = status,
                        ![i].members = IF status = "approved" THEN @ \cup {k} ELSE @]
  /\ UNCHANGED <<data, file, run, router, act, used, created>>

\* This machine is banned, or removed, which takes its request along.
PutOut(i, k) ==
  /\ k \in hub[i].members
  /\ hub' \in {[hub EXCEPT ![i].members = @ \ {k}],
               [hub EXCEPT ![i].members = @ \ {k}, ![i].asked[k] = "none"]}
  /\ UNCHANGED <<data, file, run, router, act, used, created>>

LetBackIn(i, k) ==
  /\ hub[i].asked[k] = "approved" /\ k \notin hub[i].members
  /\ hub' = [hub EXCEPT ![i].members = @ \cup {k}]
  /\ UNCHANGED <<data, file, run, router, act, used, created>>

\* A connector is admitted, banned or removed.
Carry(i, table) ==
  /\ There(i) /\ table # hub[i].routes
  /\ hub' = [hub EXCEPT ![i].routes = table]
  /\ UNCHANGED <<data, file, run, router, act, used, created>>

\* The process ends, takes everything down, and comes back to its file.
Restart ==
  /\ data' = file
  /\ run' = [i \in Instances |-> None]
  /\ router' = [i \in Instances |-> None]
  /\ act' = [a \in Actors |-> Idle]
  /\ UNCHANGED <<hub, file, used, created>>

-----------------------------------------------------------------------------
RefreshStep(a) ==
  \/ Refresh(a) \/ RefreshEnds(a) \/ Skip(a) \/ collect(a) \/ admit(a)
  \/ routes(a) \/ startRouter(a) \/ startConnection(a) \/ start(a)
  \/ reload(a) \/ ReloadConfig(a)

HandlerStep(a) ==
  \/ resolveInstance(a) \/ join(a) \/ rejoinOwn(a) \/ StoreAuthority(a) \/ StoreToken(a)
  \/ StopDeleted(a) \/ stopRouter(a) \/ Forgotten(a)

Request(a) ==
  \/ \E i \in Instances : Connect(a, i) \/ Disconnect(a, i) \/ Delete(a, i)
  \/ \E i \in Instances, t \in Tokens : Create(a, i, t) \/ SetToken(a, i, t)
  \/ \E c \in Choices : SetChoice(a, c)

HubStep ==
  \/ /\ "decide" \in Moves
     /\ \E i \in Instances, k \in Keys, s \in {"approved", "rejected"} : Decide(i, k, s)
  \/ /\ "ban" \in Moves
     /\ \E i \in Instances, k \in Keys : PutOut(i, k) \/ LetBackIn(i, k)
  \/ /\ "carry" \in Moves
     /\ \E i \in Instances, table \in SUBSET Prefixes : Carry(i, table)

Next ==
  \/ \E a \in Actors : RefreshStep(a) \/ HandlerStep(a) \/ Request(a)
  \/ HubStep
  \/ Restart

Spec == Init /\ [][Next]_vars

\* The ticker ticks, what has begun goes on, and a hub or a nebula that is asked
\* again and again says yes now and then, and the process is not restarted for
\* ever.
Applied(a) == ReloadConfig(a) /\ run' # run
Started(a) == start(a) /\ run' # run
FairSpec ==
  /\ Spec
  /\ \A a \in Actors : WF_vars(RefreshStep(a)) /\ WF_vars(HandlerStep(a))
  /\ SF_vars(routes("ticker")) /\ SF_vars(collect("ticker"))
  /\ SF_vars(Started("ticker")) /\ SF_vars(Applied("ticker"))
  /\ <>[][~Restart]_vars
-----------------------------------------------------------------------------
(* Properties.                                                             *)

\* One tun for one connection (nextDevice, Connect, Create, rejoinOwn): no two
\* connections have the same device, in memory or in the file, whichever calls
\* are made at once and whichever saves fail.
DevicesDistinct ==
  \A conns \in {data.conns, file.conns} : \A i, j \in Instances :
    i # j /\ conns[i] # None /\ conns[j] # None => conns[i].device # conns[j].device

\* "The signing key lives here and nowhere else" (Create, Delete): an instance
\* whose creation was reported and that the hub still has can be signed for,
\* now and after a restart.
AuthorityKept ==
  \A i \in created : There(i) => data.owned[i] # None /\ file.owned[i] # None

\* Names are answered over the tunnel (startRouter, stopRouter): a router does
\* not outlive the nebula whose address it listens on, except while a request
\* is between stopping the two.
RouterNeedsNebula ==
  \A i \in Instances : router[i] # None =>
    run[i] # None \/ \E a \in Actors : act[a].pc \in {"leave", "destroy"} /\ act[a].inst = i

\* The connection is up and the hub would tell this machine its table.
Up(i) == run[i] # None /\ data.conns[i] # None /\ Ready(data.conns[i]) /\ MemberOf(i)

Wanted(i) == [routes |-> hub[i].routes, choice |-> data.choice]

\* "A ban reaches this machine on the next refresh", and a connector admitted a
\* minute ago becomes reachable without a restart (Refresh, reload): whatever
\* older tables other callers still have in hand, a running connection gets
\* the hub's table and this machine's own choices, unless they change again,
\* and so do the names this machine answers (startRouter).
TableArrives ==
  \A i \in Instances :
    \/ []<>(Up(i) => /\ run[i].routes = hub[i].routes /\ run[i].choice = data.choice
                     /\ router[i] = hub[i].routes)
    \/ []<><<Wanted(i)' # Wanted(i)>>_vars

\* The owner let this connection in, nothing stands in its way: its key is the
\* only one this machine asked with, nobody carries what it would bring, and
\* no nebula is left over from before.
LetIn(i) ==
  /\ data.conns[i] # None /\ MemberOf(i)
  /\ LET c == data.conns[i]
     IN  /\ \/ i \in Mine
            \/ \A k \in Keys : (hub[i].asked[k] = "approved") = (k = c.key) /\
                               (hub[i].asked[k] = "none") = (k # c.key)
         /\ c.cert \in {None, c.key}
         /\ \A j \in Instances \ {i} :
              /\ hub[j].routes \cap hub[i].routes = {}
              /\ run[j] # None => run[j].device # c.device

\* A granted connection comes up by itself (Refresh, collect, startConnection).
LetInComesUp == \A i \in Instances : LetIn(i) ~> (run[i] # None \/ ~LetIn(i))
=============================================================================
