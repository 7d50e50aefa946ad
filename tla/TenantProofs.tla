---------------------------- MODULE TenantProofs ----------------------------
(* Proofs about TenantDaemon, for every value of its constants. *)
EXTENDS TenantDaemon, FiniteSetTheorems, TLAPS

\* A set of natural numbers has a least element.
LEMMA LeastElement ==
  ASSUME NEW S \in SUBSET Nat, S # {}
  PROVE  \E n \in S : \A m \in S : n <= m
<1>. DEFINE less == OpToRel(<, Nat)
<1>1. IsWellFoundedOn(less, Nat)
  BY NatLessThanWellFounded, Zenon
<1>2. PICK n \in S : \A m \in S : ~(<<m, n>> \in less)
  <2>. HIDE DEF less
  <2>. QED  BY <1>1, WFMin, Zenon
<1>3. \A m \in S : ~(m < n)
  BY <1>2, Zenon DEF OpToRel
<1>. QED  BY <1>3

\* A free device exists, because there are more of them than instances, and
\* nextDevice finds one.
LEMMA NextDeviceIsFree ==
  ASSUME NEW conns \in [Instances -> Connection \cup {None}]
  PROVE  nextDevice(conns) \in Devices \ taken(conns)
<1>. DEFINE S == {j \in Instances : conns[j] # None}
            T == taken(conns)
            f == [j \in S |-> conns[j].device]
            free == Devices \ T
<1>1. f \in Surjection(S, T)
  <2>1. T = {conns[i].device : i \in S}
    BY DEF taken
  <2>. QED  BY <2>1 DEF Surjection
<1>2. IsFiniteSet(S) /\ Cardinality(S) <= Cardinality(Instances)
  BY TenantAssumption, FS_Subset
<1>3. IsFiniteSet(T) /\ Cardinality(T) <= Cardinality(S)
  BY <1>1, <1>2, FS_Surjection
<1>4. IsFiniteSet(Devices) /\ Cardinality(Devices) = LastDevice + 1
  BY FS_Interval, TenantAssumption DEF Devices
<1>5. Cardinality(S) \in Nat /\ Cardinality(T) \in Nat /\ Cardinality(Instances) \in Nat
  BY <1>2, <1>3, FS_CardinalityType, TenantAssumption
<1>6. free # {}
  <2>. SUFFICES ASSUME Devices \subseteq T PROVE FALSE
    OBVIOUS
  <2>1. Cardinality(Devices) <= Cardinality(T)
    BY <1>3, FS_Subset
  <2>. QED  BY <2>1, <1>2, <1>3, <1>4, <1>5, TenantAssumption
<1>7. free \in SUBSET Nat
  BY DEF Devices
<1>8. PICK n \in free : \A m \in free : n <= m
  BY <1>6, <1>7, LeastElement, Zenon
<1>9. Lowest(free) \in free
  BY <1>8 DEF Lowest
<1>. QED  BY <1>6, <1>9 DEF nextDevice
-----------------------------------------------------------------------------
(* Types.  An actor between two steps holds what its next one needs, and a *)
(* reload under way has a nebula to configure.                             *)

Proper(s) ==
  /\ s \in Actor
  /\ s.pc \in {"admit", "router", "check", "start", "reload", "join"} => s.conn \in Connection
  /\ s.pc \in {"resolve", "rejoin", "created", "token", "leave", "forget", "deleted",
               "destroy", "disown"} => s.inst \in Instances
  /\ s.pc \in {"created", "token"} => s.token \in Tokens
  /\ s.pc \in {"start", "reload"} => s.choice \in Choices

Reloadable(s, r) == s.pc = "reload" => r[s.conn.instance] # None

TInv == TenantTypeOK /\ \A a \in Actors : Proper(act[a]) /\ Reloadable(act[a], run)

LEMMA IdleIsProper == Proper(Idle) /\ Idle.pc = "idle"
BY DEF Idle, Proper, Actor, ActorPc

\* Whoever goes back for the next connection of its round.
LEMMA ContinueIsProper ==
  ASSUME NEW s, Proper(s)
  PROVE  Proper(Continue(s)) /\ Continue(s).pc = "next"
BY ZenonT(30) DEF Continue, Proper, Actor, ActorPc

\* A step of one actor, and what the rest of the state has to be.
LEMMA ActorMoves ==
  ASSUME TInv, NEW a \in Actors, NEW s, Goto(a, s),
         Proper(s), Reloadable(s, run'),
         \A i \in Instances : run[i] # None => run'[i] # None,
         hub' \in [Instances -> HubView], data' \in Data, file' \in Data,
         run' \in [Instances -> Runner \cup {None}],
         router' \in [Instances -> (SUBSET Prefixes) \cup {None}],
         used' \in 0..MaxKeys, created' \subseteq Instances
  PROVE  TInv'
<1>1. act' \in [Actors -> Actor] /\ \A b \in Actors : act'[b] = IF b = a THEN s ELSE act[b]
  BY DEF TInv, TenantTypeOK, Goto, Proper
<1>2. TenantTypeOK'
  BY <1>1 DEF TenantTypeOK
<1>3. ASSUME NEW b \in Actors PROVE Proper(act'[b]) /\ Reloadable(act'[b], run')
  <2>1. CASE b = a
    BY <1>1, <2>1
  <2>2. CASE b # a
    <3>1. act'[b] = act[b] /\ Proper(act[b]) /\ Reloadable(act[b], run)
      BY <1>1, <2>2 DEF TInv
    <3>2. act[b].pc = "reload" => act[b].conn.instance \in Instances
      BY <3>1, Zenon DEF Proper, Connection
    <3>. QED  BY <3>1, <3>2 DEF Reloadable
  <2>. QED  BY <2>1, <2>2
<1>. QED  BY <1>2, <1>3, Zenon DEF TInv, Proper, Reloadable

\* The same when nothing but the actor changes.
LEMMA OnlyMoves ==
  ASSUME TInv, NEW a \in Actors, NEW s, Goto(a, s), Proper(s), Reloadable(s, run),
         UNCHANGED <<hub, data, file, run, router, used, created>>
  PROVE  TInv'
BY ActorMoves, Zenon DEF TInv, TenantTypeOK, Reloadable

LEMMA CommitIsTyped ==
  ASSUME TInv, NEW d \in Data, Saved(d) \/ SaveFailed(d)
  PROVE  data' \in Data /\ file' \in Data
BY DEF TInv, TenantTypeOK, Saved, SaveFailed

\* Whoever read a table holds it with the connection it is for.
LEMMA RouterIsProper ==
  ASSUME NEW s \in Actor, NEW c \in Connection, NEW t \in SUBSET Prefixes, NEW n,
         n = [s EXCEPT !.pc = "router", !.todo = @ \ {c}, !.conn = c, !.table = t]
  PROVE  Proper(n) /\ n.pc = "router"
<1>1. /\ n.pc = "router" /\ n.todo = s.todo \ {c} /\ n.inst = s.inst /\ n.conn = c
      /\ n.table = t /\ n.choice = s.choice /\ n.token = s.token
  BY DEF Actor
<1>2. n = [pc |-> n.pc, todo |-> n.todo, inst |-> n.inst, conn |-> n.conn,
           table |-> n.table, choice |-> n.choice, token |-> n.token]
  BY <1>1, Zenon DEF Actor
<1>. QED  BY <1>1, <1>2 DEF Proper, Actor, ActorPc

\* And with the choices, once it is about to start or to reload.
LEMMA StartIsProper ==
  ASSUME NEW s, Proper(s), s.pc = "check", NEW ch \in Choices, NEW n,
         n = [s EXCEPT !.pc = "start", !.choice = ch]
  PROVE  Proper(n) /\ n.pc = "start"
BY Zenon DEF Proper, Actor, ActorPc

LEMMA ReloadIsProper ==
  ASSUME NEW s, Proper(s), s.pc = "check", NEW ch \in Choices, NEW n,
         n = [s EXCEPT !.pc = "reload", !.choice = ch]
  PROVE  Proper(n) /\ n.conn = s.conn
BY Zenon DEF Proper, Actor, ActorPc

\* A reload changes a nebula that is there.
LEMMA ReloadTyped ==
  ASSUME TInv, NEW a \in Actors, ReloadConfig(a)
  PROVE  /\ run' \in [Instances -> Runner \cup {None}]
         /\ \A j \in Instances : run[j] # None => run'[j] # None
<1>. DEFINE i == act[a].conn.instance
<1>0. Proper(act[a]) /\ act[a].pc = "reload" /\ run \in [Instances -> Runner \cup {None}]
  BY DEF ReloadConfig, TInv, TenantTypeOK
<1>1. /\ i \in Instances /\ run[i] \in Runner
      /\ act[a].table \in SUBSET Prefixes /\ act[a].choice \in Choices
  BY <1>0, Zenon DEF TInv, Proper, Reloadable, Actor, Connection
<1>. DEFINE r == [[run[i] EXCEPT !.routes = act[a].table] EXCEPT !.choice = act[a].choice]
<1>2. r \in Runner
  BY <1>1, Zenon DEF Runner
<1>3. run' = [run EXCEPT ![i] = r] \/ run' = run
  BY <1>0, <1>1, Zenon DEF ReloadConfig
<1>. HIDE DEF i, r
<1>. QED  BY <1>0, <1>1, <1>2, <1>3, AbsentAssumption

LEMMA RefreshTyped ==
  ASSUME TInv, NEW a \in Actors, RefreshStep(a)
  PROVE  TInv'
<1>. USE DEF Reloadable
<1>0. Proper(act[a]) /\ data \in Data /\ run \in [Instances -> Runner \cup {None}]
  BY DEF TInv, TenantTypeOK
<1>t. act[a].todo \subseteq Connection
  BY <1>0, Zenon DEF Proper, Actor
<1>1. CASE Refresh(a)
  <2>. DEFINE todo == {data.conns[i] : i \in Instances} \ {None}
              s == [Idle EXCEPT !.pc = "next", !.todo = todo]
  <2>1. todo \subseteq Connection
    BY <1>0 DEF Data
  <2>2. Proper(s) /\ s.pc = "next"
    <3>. HIDE DEF todo
    <3>. QED  BY <2>1, Zenon DEF Idle, Proper, Actor, ActorPc
  <2>3. Goto(a, s) /\ UNCHANGED <<hub, data, file, run, router, used, created>>
    BY <1>1 DEF Refresh
  <2>. HIDE DEF s
  <2>. QED  BY <2>2, <2>3, OnlyMoves
<1>2. CASE RefreshEnds(a)
  BY <1>2, IdleIsProper, OnlyMoves DEF RefreshEnds
<1>3. CASE Skip(a)
  <2>1. PICK c \in act[a].todo : Goto(a, [act[a] EXCEPT !.todo = @ \ {c}])
    BY <1>3 DEF Skip
  <2>2. Proper([act[a] EXCEPT !.todo = @ \ {c}]) /\ act[a].pc = "next"
    BY <1>0, <1>3 DEF Skip, Proper, Actor
  <2>3. [act[a] EXCEPT !.todo = @ \ {c}].pc = "next"
    BY <1>0, <2>2, Zenon DEF Proper, Actor
  <2>. QED  BY <2>1, <2>2, <2>3, <1>3, OnlyMoves, Zenon DEF Skip
<1>4. CASE collect(a)
  <2>. DEFINE left(c) == [act[a] EXCEPT !.todo = @ \ {c}]
              go(c, k) == [left(c) EXCEPT !.pc = "admit", !.conn = [c EXCEPT !.cert = k]]
  <2>1. PICK c \in act[a].todo, k \in Keys :
           Goto(a, IF hub[c.instance].asked[k] = "approved" THEN go(c, k) ELSE left(c))
    BY <1>4, Zenon DEF collect
  <2>2. Proper(left(c)) /\ left(c).pc = "next"
    BY <1>0, <1>4 DEF collect, Proper, Actor
  <2>3. [c EXCEPT !.cert = k] \in Connection
    BY <1>t DEF Connection
  <2>4. Proper(go(c, k)) /\ go(c, k).pc = "admit"
    <3>. DEFINE cc == [c EXCEPT !.cert = k]
                l == left(c)
    <3>1. l \in Actor /\ cc \in Connection
      BY <2>2, <2>3 DEF Proper
    <3>. HIDE DEF l, cc
    <3>2. Proper([l EXCEPT !.pc = "admit", !.conn = cc])
      BY <3>1, ZenonT(30) DEF Proper, Actor, ActorPc
    <3>3. [l EXCEPT !.pc = "admit", !.conn = cc].pc = "admit"
      BY <3>1 DEF Actor
    <3>. QED  BY <3>2, <3>3 DEF l, cc
  <2>. HIDE DEF left, go
  <2>. QED  BY <2>1, <2>2, <2>4, <1>4, OnlyMoves DEF collect
<1>5. CASE admit(a)
  <2>. DEFINE i == act[a].conn.instance
              d == [data EXCEPT !.conns[i].cert = act[a].conn.cert]
  <2>1. act[a].conn \in Connection
    BY <1>0, <1>5 DEF admit, Proper
  <2>2. i \in Instances /\ act[a].conn.cert \in Keys \cup {None}
    BY <2>1 DEF Connection
  <2>3. data.conns[i] # None => d \in Data
    <3>. SUFFICES ASSUME data.conns[i] # None PROVE d \in Data
      BY Zenon
    <3>. DEFINE cc == [data.conns[i] EXCEPT !.cert = act[a].conn.cert]
    <3>1. data \in Data /\ data.conns[i] \in Connection
      BY <1>0, <2>2, Zenon DEF Data
    <3>2. cc \in Connection
      BY <2>2, <3>1, Zenon DEF Connection
    <3>3. d = [data EXCEPT !.conns = [data.conns EXCEPT ![i] = cc]]
      OBVIOUS
    <3>. HIDE DEF cc, d
    <3>. QED  BY <2>2, <3>1, <3>2, <3>3 DEF Data
  <2>4. data' \in Data /\ file' \in Data
    <3>1. CASE data.conns[i] # None /\ (Saved(d) \/ SaveFailed(d))
      <4>. HIDE DEF d
      <4>. QED  BY <3>1, <2>3, CommitIsTyped
    <3>2. CASE UNCHANGED <<data, file>>
      BY <3>2 DEF TInv, TenantTypeOK
    <3>. QED  BY <1>5, <3>1, <3>2, Zenon DEF admit
  <2>. QED  BY <1>0, <1>5, <2>4, ContinueIsProper, ActorMoves, Zenon DEF admit, TInv, TenantTypeOK
<1>6. CASE routes(a)
  <2>. DEFINE s(c) == [act[a] EXCEPT !.pc = "router", !.todo = @ \ {c}, !.conn = c,
                                     !.table = hub[c.instance].routes]
  <2>1. PICK c \in act[a].todo : Goto(a, s(c))
    BY <1>6, Zenon DEF routes
  <2>2. hub[c.instance].routes \in SUBSET Prefixes
    BY <1>t DEF Connection, TInv, TenantTypeOK, HubView
  <2>3. Proper(s(c)) /\ s(c).pc = "router"
    <3>1. c \in Connection /\ act[a] \in Actor
      BY <1>t, <1>0 DEF Proper
    <3>. QED  BY <3>1, <2>2, RouterIsProper, ZenonT(30)
  <2>. HIDE DEF s
  <2>. QED  BY <2>1, <2>3, <1>6, OnlyMoves DEF routes
<1>c. act[a].pc \in {"router", "check", "start", "reload"} =>
        act[a].conn \in Connection /\ act[a].conn.instance \in Instances
  BY <1>0, Zenon DEF Proper, Connection
<1>g. Proper(Continue(act[a])) /\ Continue(act[a]).pc = "next"
  BY <1>0, ContinueIsProper
<1>7. CASE startRouter(a)
  <2>1. act[a].table \in SUBSET Prefixes
    BY <1>0, Zenon DEF Proper, Actor
  <2>2. router' \in [Instances -> (SUBSET Prefixes) \cup {None}]
    BY <2>1, <1>7, Zenon DEF startRouter, TInv, TenantTypeOK
  <2>3. Proper([act[a] EXCEPT !.pc = "check"]) /\ [act[a] EXCEPT !.pc = "check"].pc = "check"
    BY <1>0, <1>7, Zenon DEF startRouter, Proper, Actor, ActorPc
  <2>4. Goto(a, [act[a] EXCEPT !.pc = "check"]) /\ UNCHANGED <<hub, data, file, run, used, created>>
    BY <1>7, Zenon DEF startRouter
  <2>. QED  BY <2>2, <2>3, <2>4, ActorMoves, Zenon DEF TInv, TenantTypeOK
<1>8. CASE startConnection(a)
  <2>. DEFINE s == [act[a] EXCEPT !.pc = "start", !.choice = data.choice]
  <2>1. data.choice \in Choices
    BY <1>0 DEF Data
  <2>2. Proper(s) /\ s.pc = "start"
    <3>1. act[a].pc = "check"
      BY <1>8 DEF startConnection
    <3>. QED  BY <1>0, <3>1, <2>1, StartIsProper, ZenonT(30)
  <2>3. Goto(a, Continue(act[a])) \/ Goto(a, s)
    BY <1>8 DEF startConnection
  <2>. HIDE DEF s
  <2>. QED  BY <1>8, <1>g, <2>2, <2>3, OnlyMoves DEF startConnection
<1>9. CASE start(a)
  <2>. DEFINE i == act[a].conn.instance
              r == [device |-> act[a].conn.device, routes |-> act[a].table, choice |-> act[a].choice]
  <2>1. i \in Instances /\ r \in Runner
    BY <1>0, <1>9, <1>c, Zenon DEF start, Proper, Actor, Connection, Runner
  <2>2. run' = [run EXCEPT ![i] = r] \/ run' = run
    BY <1>9, Zenon DEF start
  <2>3. /\ run' \in [Instances -> Runner \cup {None}]
        /\ \A j \in Instances : run[j] # None => run'[j] # None
    <3>. HIDE DEF i, r
    <3>. QED  BY <1>0, <2>1, <2>2, AbsentAssumption
  <2>. QED  BY <1>9, <1>g, <2>3, ActorMoves, Zenon DEF start, TInv, TenantTypeOK
<1>10. CASE reload(a)
  <2>. DEFINE s == [act[a] EXCEPT !.pc = "reload", !.choice = data.choice]
  <2>1. data.choice \in Choices
    BY <1>0 DEF Data
  <2>2. Proper(s) /\ s.conn = act[a].conn
    <3>1. act[a].pc = "check"
      BY <1>10 DEF reload
    <3>. QED  BY <1>0, <3>1, <2>1, ReloadIsProper, ZenonT(30)
  <2>3. Goto(a, s) /\ run[act[a].conn.instance] # None
    BY <1>10 DEF reload
  <2>. HIDE DEF s
  <2>. QED  BY <1>10, <2>2, <2>3, OnlyMoves DEF reload
<1>11. CASE ReloadConfig(a)
  BY <1>11, <1>g, ReloadTyped, ActorMoves, Zenon DEF ReloadConfig, TInv, TenantTypeOK
<1>. QED  BY <1>1, <1>2, <1>3, <1>4, <1>5, <1>6, <1>7, <1>8, <1>9, <1>10, <1>11 DEF RefreshStep

\* The local states of a request between its steps.
LEMMA ServingIsProper ==
  ASSUME NEW i \in Instances, NEW s,
         \/ s = [Idle EXCEPT !.pc = "resolve", !.inst = i]
         \/ s = [Idle EXCEPT !.pc = "rejoin", !.inst = i]
         \/ s = [Idle EXCEPT !.pc = "leave", !.inst = i]
         \/ s = [Idle EXCEPT !.pc = "deleted", !.inst = i]
  PROVE  Proper(s) /\ s.pc # "reload" /\ s.inst = i
BY ZenonT(30) DEF Idle, Proper, Actor, ActorPc

LEMMA TokenIsProper ==
  ASSUME NEW i \in Instances, NEW t \in Tokens, NEW s,
         \/ s = [Idle EXCEPT !.pc = "created", !.inst = i, !.token = t]
         \/ s = [Idle EXCEPT !.pc = "token", !.inst = i, !.token = t]
  PROVE  Proper(s) /\ s.pc \in {"created", "token"}
BY ZenonT(30) DEF Idle, Proper, Actor, ActorPc

LEMMA JoinIsProper ==
  ASSUME NEW c \in Connection, NEW s, s = [Idle EXCEPT !.pc = "join", !.conn = c]
  PROVE  Proper(s) /\ s.pc = "join"
BY Zenon DEF Idle, Proper, Actor, ActorPc

LEMMA RefreshIsProper ==
  ASSUME NEW s, s = [Idle EXCEPT !.pc = "refresh"]
  PROVE  Proper(s) /\ s.pc = "refresh"
BY DEF Idle, Proper, Actor, ActorPc

\* A request that takes something down goes from one thing to the next.
LEMMA LeavingIsProper ==
  ASSUME NEW s, Proper(s), s.inst \in Instances, NEW p \in {"forget", "destroy", "disown"}
  PROVE  LET n == [s EXCEPT !.pc = p] IN Proper(n) /\ n.pc = p /\ n.inst = s.inst
BY DEF Proper, Actor, ActorPc

\* A new connection is for its instance, on a device nobody has.
LEMMA NewConnectionTyped ==
  ASSUME TInv, NEW i \in Instances, NEW b \in BOOLEAN, used < MaxKeys
  PROVE  /\ NewConnection(i, b) \in Connection
         /\ NewConnection(i, b).instance = i
         /\ NewConnection(i, b).device \notin taken(data.conns)
         /\ WithConn(NewConnection(i, b)) = [data EXCEPT !.conns[i] = NewConnection(i, b)]
         /\ WithConn(NewConnection(i, b)) \in Data
         /\ used + 1 \in 0..MaxKeys
<1>1. data.conns \in [Instances -> Connection \cup {None}] /\ data \in Data /\ used \in 0..MaxKeys
  BY DEF TInv, TenantTypeOK, Data
<1>2. nextDevice(data.conns) \in Devices \ taken(data.conns)
  BY <1>1, NextDeviceIsFree
<1>3. used + 1 \in Keys /\ used + 1 \in 0..MaxKeys
  BY <1>1, TenantAssumption DEF Keys
<1>4. NewConnection(i, b) \in Connection
  BY <1>2, <1>3 DEF NewConnection, Connection
<1>5. NewConnection(i, b).instance = i /\ NewConnection(i, b).device = nextDevice(data.conns)
  BY DEF NewConnection
<1>6. WithConn(NewConnection(i, b)) = [data EXCEPT !.conns[i] = NewConnection(i, b)]
  BY <1>5 DEF WithConn
<1>. DEFINE c == NewConnection(i, b)
<1>7. c \in Connection
  BY <1>4
<1>. HIDE DEF c
<1>8. [data EXCEPT !.conns[i] = c] \in Data
  BY <1>1, <1>7, Zenon DEF Data
<1>. QED  BY <1>2, <1>3, <1>4, <1>5, <1>6, <1>8 DEF c

LEMMA StopTyped ==
  ASSUME TInv, NEW a \in Actors, NEW i \in Instances, NEW next, Proper(next), next.pc # "reload",
         stop(a, i, next), UNCHANGED <<hub, data, file, router, used, created>>
  PROVE  TInv'
<1>1. run' = [run EXCEPT ![i] = None] /\ run' \in [Instances -> Runner \cup {None}]
  BY DEF stop, TInv, TenantTypeOK
<1>2. ASSUME NEW b \in Actors PROVE Proper(act'[b]) /\ Reloadable(act'[b], run')
  <2>0. Proper(act[b]) /\ Reloadable(act[b], run)
    BY DEF TInv
  <2>1. CASE b = a
    BY <2>1, Zenon DEF stop, Reloadable
  <2>2. CASE b # a /\ act[b].pc = "reload" /\ act[b].conn.instance = i
    <3>1. act'[b] = Continue(act[b])
      BY <2>2, Zenon DEF stop
    <3>. QED  BY <3>1, <2>0, ContinueIsProper, Zenon DEF Reloadable
  <2>3. CASE b # a /\ ~(act[b].pc = "reload" /\ act[b].conn.instance = i)
    <3>1. act'[b] = act[b]
      BY <2>3, Zenon DEF stop
    <3>2. act[b].pc = "reload" => act[b].conn.instance \in Instances
      BY <2>0, Zenon DEF Proper, Connection
    <3>3. act[b].pc = "reload" => run'[act[b].conn.instance] = run[act[b].conn.instance]
      BY <3>2, <2>3, <1>1, Zenon DEF TInv, TenantTypeOK
    <3>. QED  BY <2>0, <3>1, <3>3, Zenon DEF Reloadable
  <2>. QED  BY <2>1, <2>2, <2>3
<1>3. act' \in [Actors -> Actor]
  <2>1. \A b \in Actors : act'[b] \in Actor
    BY <1>2, Zenon DEF Proper
  <2>. QED  BY <2>1, Zenon DEF stop
<1>4. TenantTypeOK'
  BY <1>1, <1>3 DEF TInv, TenantTypeOK
<1>. QED  BY <1>2, <1>4 DEF TInv, Proper, Reloadable

LEMMA HandlerTyped ==
  ASSUME TInv, NEW a \in Actors, HandlerStep(a)
  PROVE  TInv'
<1>. USE DEF Reloadable
<1>0. /\ Proper(act[a]) /\ data \in Data /\ used \in 0..MaxKeys /\ hub \in [Instances -> HubView]
      /\ file \in Data
  BY DEF TInv, TenantTypeOK
<1>i. Proper(Idle) /\ Idle.pc = "idle"
  BY IdleIsProper, Zenon
<1>1. CASE resolveInstance(a)
  <2>. DEFINE i == act[a].inst
              c == NewConnection(i, FALSE)
  <2>1. i \in Instances
    BY <1>0, <1>1 DEF resolveInstance, Proper
  <2>2. used < MaxKeys => c \in Connection /\ WithConn(c) \in Data /\ used + 1 \in 0..MaxKeys
    BY <2>1, NewConnectionTyped, Zenon
  <2>3. \/ /\ used < MaxKeys /\ used' = used + 1
           /\ \/ Saved(WithConn(c)) /\ Goto(a, [Idle EXCEPT !.pc = "join", !.conn = c])
              \/ SaveFailed(WithConn(c)) /\ Goto(a, Idle)
        \/ /\ Goto(a, [Idle EXCEPT !.pc = "rejoin", !.inst = i]) \/ Goto(a, Idle)
           /\ UNCHANGED <<data, file, used>>
    BY <1>1, Zenon DEF resolveInstance
  <2>4. UNCHANGED <<hub, run, router, created>>
    BY <1>1 DEF resolveInstance, Local
  <2>. HIDE DEF i, c
  <2>5. data' \in Data /\ file' \in Data /\ used' \in 0..MaxKeys
    BY <1>0, <2>2, <2>3, CommitIsTyped
  <2>6. \E s : Goto(a, s) /\ Proper(s) /\ s.pc # "reload"
    <3>1. CASE used < MaxKeys /\ Goto(a, [Idle EXCEPT !.pc = "join", !.conn = c])
      BY <3>1, <2>2, JoinIsProper, Zenon
    <3>2. CASE Goto(a, [Idle EXCEPT !.pc = "rejoin", !.inst = i])
      BY <3>2, <2>1, ServingIsProper, Zenon
    <3>3. CASE Goto(a, Idle)
      BY <3>3, <1>i, Zenon
    <3>. QED  BY <2>3, <3>1, <3>2, <3>3
  <2>. QED  BY <2>4, <2>5, <2>6, ActorMoves DEF TInv, TenantTypeOK
<1>2. CASE join(a)
  <2>. DEFINE i == act[a].conn.instance
              k == act[a].conn.key
  <2>1. act[a].conn \in Connection /\ i \in Instances /\ k \in Keys
    BY <1>0, <1>2, Zenon DEF join, Proper, Connection
  <2>2. /\ hub' = [hub EXCEPT ![i].asked[k] = "pending"] \/ hub' = hub
        /\ Goto(a, [Idle EXCEPT !.pc = "refresh"]) \/ Goto(a, Idle)
        /\ UNCHANGED <<data, file, used, run, router, created>>
    BY <1>2, Zenon DEF join, Local
  <2>3. hub' \in [Instances -> HubView]
    <3>. HIDE DEF i, k
    <3>. DEFINE h == [hub[i] EXCEPT !.asked[k] = "pending"]
    <3>1. h \in HubView
      BY <1>0, <2>1, Zenon DEF HubView, Asked
    <3>2. hub' = [hub EXCEPT ![i] = h] \/ hub' = hub
      BY <2>2
    <3>. HIDE DEF h
    <3>. QED  BY <1>0, <2>1, <3>1, <3>2
  <2>4. \E s : Goto(a, s) /\ Proper(s) /\ s.pc # "reload"
    BY <1>i, <2>2, RefreshIsProper, Zenon
  <2>. HIDE DEF i, k
  <2>. QED  BY <2>2, <2>3, <2>4, ActorMoves, Zenon DEF TInv, TenantTypeOK
<1>3. CASE rejoinOwn(a)
  <2>. DEFINE i == act[a].inst
              c == NewConnection(i, TRUE)
  <2>1. i \in Instances
    BY <1>0, <1>3 DEF rejoinOwn, Proper
  <2>2. used < MaxKeys => c \in Connection /\ WithConn(c) \in Data /\ used + 1 \in 0..MaxKeys
    BY <2>1, NewConnectionTyped, Zenon
  <2>3. \/ /\ used < MaxKeys /\ used' = used + 1
           /\ \/ Saved(WithConn(c)) /\ Goto(a, [Idle EXCEPT !.pc = "refresh"])
              \/ SaveFailed(WithConn(c)) /\ Goto(a, Idle)
        \/ Goto(a, Idle) /\ UNCHANGED <<data, file, used>>
    BY <1>3, Zenon DEF rejoinOwn
  <2>4. UNCHANGED <<hub, run, router, created>>
    BY <1>3 DEF rejoinOwn, Local
  <2>. HIDE DEF i, c
  <2>5. data' \in Data /\ file' \in Data /\ used' \in 0..MaxKeys
    BY <1>0, <2>2, <2>3, CommitIsTyped
  <2>6. \E s : Goto(a, s) /\ Proper(s) /\ s.pc # "reload"
    BY <1>i, <2>3, RefreshIsProper, SMTT(30)
  <2>. QED  BY <2>4, <2>5, <2>6, ActorMoves DEF TInv, TenantTypeOK
<1>4. CASE StoreAuthority(a)
  <2>. DEFINE i == act[a].inst
              c == NewConnection(i, TRUE)
              w == WithConn(c)
              d == [w EXCEPT !.owned[i] = act[a].token]
  <2>1. i \in Instances /\ act[a].token \in Tokens
    BY <1>0, <1>4 DEF StoreAuthority, Proper
  <2>2. used < MaxKeys => w \in Data /\ used + 1 \in 0..MaxKeys
    BY <2>1, NewConnectionTyped, Zenon
  <2>3. used < MaxKeys => d \in Data
    <3>. HIDE DEF w
    <3>. QED  BY <2>1, <2>2 DEF Data
  <2>4. \/ used < MaxKeys /\ used' = used + 1 /\ (Saved(d) \/ SaveFailed(d))
        \/ UNCHANGED <<data, file, used>>
    BY <1>4 DEF StoreAuthority
  <2>5. /\ created' = created \cup {i} \/ created' = created
        /\ Goto(a, Idle) /\ UNCHANGED <<hub, run, router>>
    BY <1>4 DEF StoreAuthority
  <2>. HIDE DEF d, w, i
  <2>6. data' \in Data /\ file' \in Data /\ used' \in 0..MaxKeys
    BY <1>0, <2>2, <2>3, <2>4, CommitIsTyped, SMTT(30)
  <2>. QED  BY <1>i, <2>1, <2>5, <2>6, ActorMoves DEF TInv, TenantTypeOK
<1>5. CASE StoreToken(a)
  <2>. DEFINE i == act[a].inst
              d == [data EXCEPT !.owned[i] = IF @ # None THEN act[a].token ELSE @]
  <2>1. i \in Instances /\ act[a].token \in Tokens
    BY <1>0, <1>5, Zenon DEF StoreToken, Proper
  <2>2. d \in Data
    BY <1>0, <2>1 DEF Data
  <2>3. (Saved(d) \/ SaveFailed(d)) /\ Goto(a, Idle) /\ UNCHANGED <<hub, used, run, router, created>>
    BY <1>5 DEF StoreToken, Local
  <2>. HIDE DEF d
  <2>. QED  BY <1>i, <2>2, <2>3, CommitIsTyped, ActorMoves DEF TInv, TenantTypeOK
<1>6. CASE StopDeleted(a)
  <2>. DEFINE s == [act[a] EXCEPT !.pc = "destroy"]
  <2>1. act[a].inst \in Instances
    BY <1>0, <1>6 DEF StopDeleted, Proper
  <2>2. Proper(s) /\ s.pc = "destroy"
    BY <1>0, <2>1, LeavingIsProper, Zenon
  <2>3. stop(a, act[a].inst, s) /\ UNCHANGED <<hub, data, file, router, used, created>>
    BY <1>6 DEF StopDeleted
  <2>. HIDE DEF s
  <2>. QED  BY <2>1, <2>2, <2>3, StopTyped
<1>7. CASE stopRouter(a)
  <2>. DEFINE s == [act[a] EXCEPT !.pc = IF @ = "leave" THEN "forget" ELSE "disown"]
  <2>1. act[a].inst \in Instances
    BY <1>0, <1>7 DEF stopRouter, Proper
  <2>2. Proper(s) /\ s.pc # "reload"
    BY <1>0, <2>1 DEF Proper, Actor, ActorPc
  <2>3. /\ Goto(a, s) /\ UNCHANGED <<hub, data, file, run, used, created>>
        /\ router' = [router EXCEPT ![act[a].inst] = None]
    BY <1>7 DEF stopRouter
  <2>4. router' \in [Instances -> (SUBSET Prefixes) \cup {None}]
    BY <2>1, <2>3 DEF TInv, TenantTypeOK
  <2>. HIDE DEF s
  <2>. QED  BY <2>2, <2>3, <2>4, ActorMoves, Zenon DEF TInv, TenantTypeOK
<1>8. CASE Forgotten(a)
  <2>. DEFINE i == act[a].inst
              left == [data EXCEPT !.conns[i] = None]
              d == IF act[a].pc = "disown" THEN [left EXCEPT !.owned[i] = None] ELSE left
  <2>1. i \in Instances
    BY <1>0, <1>8 DEF Forgotten, Proper
  <2>2. left \in Data
    BY <1>0, <2>1 DEF Data
  <2>3. d \in Data
    <3>. HIDE DEF left
    <3>. QED  BY <2>1, <2>2 DEF Data
  <2>4. (Saved(d) \/ SaveFailed(d)) /\ Goto(a, Idle) /\ UNCHANGED <<hub, used, run, router, created>>
    BY <1>8 DEF Forgotten, Local
  <2>. HIDE DEF d
  <2>. QED  BY <1>i, <2>3, <2>4, CommitIsTyped, ActorMoves DEF TInv, TenantTypeOK
<1>. QED  BY <1>1, <1>2, <1>3, <1>4, <1>5, <1>6, <1>7, <1>8 DEF HandlerStep

LEMMA RequestTyped ==
  ASSUME TInv, NEW a \in Actors, Request(a)
  PROVE  TInv'
<1>. USE DEF Reloadable
<1>0. data \in Data /\ hub \in [Instances -> HubView]
  BY DEF TInv, TenantTypeOK
<1>i. Proper(Idle) /\ Idle.pc = "idle"
  BY IdleIsProper
<1>1. ASSUME NEW i \in Instances, Connect(a, i) PROVE TInv'
  <2>1. /\ \/ Goto(a, [Idle EXCEPT !.pc = "refresh"])
           \/ Goto(a, [Idle EXCEPT !.pc = "resolve", !.inst = i])
        /\ UNCHANGED <<hub, data, file, run, router, used, created>>
    BY <1>1 DEF Connect, Local
  <2>2. \E s : Goto(a, s) /\ Proper(s) /\ s.pc # "reload"
    <3>1. CASE Goto(a, [Idle EXCEPT !.pc = "refresh"])
      BY <3>1, RefreshIsProper
    <3>2. CASE Goto(a, [Idle EXCEPT !.pc = "resolve", !.inst = i])
      BY <3>2, ServingIsProper, Zenon
    <3>. QED  BY <2>1, <3>1, <3>2
  <2>. QED  BY <2>1, <2>2, OnlyMoves
<1>2. ASSUME NEW i \in Instances, Disconnect(a, i) PROVE TInv'
  <2>. DEFINE s == [Idle EXCEPT !.pc = "leave", !.inst = i]
  <2>1. Proper(s) /\ s.pc # "reload"
    BY ServingIsProper, Zenon
  <2>2. stop(a, i, s) /\ UNCHANGED <<hub, data, file, router, used, created>>
    BY <1>2, Zenon DEF Disconnect
  <2>. HIDE DEF s
  <2>. QED  BY <2>1, <2>2, StopTyped
<1>3. ASSUME NEW i \in Instances, Delete(a, i) PROVE TInv'
  <2>. DEFINE h == [Unasked EXCEPT !.state = "gone"]
  <2>1. h \in HubView
    BY DEF Unasked, HubView, Asked
  <2>2. /\ hub' = [hub EXCEPT ![i] = h]
        /\ Goto(a, [Idle EXCEPT !.pc = "deleted", !.inst = i]) \/ Goto(a, Idle)
        /\ UNCHANGED <<data, file, used, run, router, created>>
    BY <1>3 DEF Delete, Local
  <2>. HIDE DEF h
  <2>3. hub' \in [Instances -> HubView]
    BY <1>0, <2>1, <2>2
  <2>4. \E s : Goto(a, s) /\ Proper(s) /\ s.pc # "reload"
    <3>1. CASE Goto(a, [Idle EXCEPT !.pc = "deleted", !.inst = i])
      BY <3>1, ServingIsProper, Zenon
    <3>. QED  BY <1>i, <2>2, <3>1
  <2>. QED  BY <2>2, <2>3, <2>4, ActorMoves DEF TInv, TenantTypeOK
<1>4. ASSUME NEW i \in Instances, NEW t \in Tokens, Create(a, i, t) \/ SetToken(a, i, t) PROVE TInv'
  <2>. DEFINE h == [[hub[i] EXCEPT !.state = "there"] EXCEPT !.token = t]
              g == [hub[i] EXCEPT !.token = t]
  <2>1. h \in HubView /\ g \in HubView
    BY <1>0, Zenon DEF HubView
  <2>2. hub' = [hub EXCEPT ![i] = h] \/ hub' = [hub EXCEPT ![i] = g]
    BY <1>0, <1>4, Zenon DEF Create, SetToken
  <2>3. /\ \/ Goto(a, [Idle EXCEPT !.pc = "created", !.inst = i, !.token = t])
           \/ Goto(a, [Idle EXCEPT !.pc = "token", !.inst = i, !.token = t])
           \/ Goto(a, Idle)
        /\ UNCHANGED <<data, file, used, run, router, created>>
    BY <1>4 DEF Create, SetToken, Local
  <2>. HIDE DEF h, g
  <2>4. hub' \in [Instances -> HubView]
    BY <1>0, <2>1, <2>2
  <2>5. \E s : Goto(a, s) /\ Proper(s) /\ s.pc # "reload"
    BY <1>i, <2>3, TokenIsProper, Zenon
  <2>. QED  BY <2>3, <2>4, <2>5, ActorMoves DEF TInv, TenantTypeOK
<1>5. ASSUME NEW c \in Choices, SetChoice(a, c) PROVE TInv'
  <2>. DEFINE d == [data EXCEPT !.choice = c]
  <2>1. d \in Data
    BY <1>0 DEF Data
  <2>2. /\ (Saved(d) \/ SaveFailed(d)) /\ UNCHANGED <<hub, used, run, router, created>>
        /\ Goto(a, [Idle EXCEPT !.pc = "refresh"]) \/ Goto(a, Idle)
    BY <1>5 DEF SetChoice, Local
  <2>. HIDE DEF d
  <2>3. \E s : Goto(a, s) /\ Proper(s) /\ s.pc # "reload"
    BY <1>i, <2>2, RefreshIsProper
  <2>. QED  BY <2>1, <2>2, <2>3, CommitIsTyped, ActorMoves DEF TInv, TenantTypeOK
<1>. QED  BY <1>1, <1>2, <1>3, <1>4, <1>5 DEF Request

\* What others do on the hub leaves it typed.
LEMMA HubStepTyped ==
  ASSUME hub \in [Instances -> HubView], HubStep
  PROVE  hub' \in [Instances -> HubView] /\ UNCHANGED <<data, file, run, router, act, used, created>>
<1>1. ASSUME NEW i \in Instances, NEW k \in Keys, NEW st \in {"approved", "rejected"}, Decide(i, k, st)
      PROVE  hub' \in [Instances -> HubView]
  <2>. DEFINE m == IF st = "approved" THEN hub[i].members \cup {k} ELSE hub[i].members
              h == [[hub[i] EXCEPT !.asked[k] = st] EXCEPT !.members = m]
  <2>1. m \in SUBSET Keys
    BY DEF HubView
  <2>2. h \in HubView
    <3>. HIDE DEF m
    <3>. QED  BY <2>1, Zenon DEF HubView, Asked
  <2>3. hub' = [hub EXCEPT ![i] = h]
    BY <1>1, Zenon DEF Decide, HubView
  <2>. HIDE DEF h
  <2>. QED  BY <2>2, <2>3
<1>2. ASSUME NEW i \in Instances, NEW k \in Keys, PutOut(i, k)
      PROVE  hub' \in [Instances -> HubView]
  <2>. DEFINE h == [hub[i] EXCEPT !.members = @ \ {k}]
              g == [h EXCEPT !.asked[k] = "none"]
  <2>1. h \in HubView
    BY Zenon DEF HubView
  <2>2. g \in HubView
    <3>. HIDE DEF h
    <3>. QED  BY <2>1, Zenon DEF HubView, Asked
  <2>3. hub' = [hub EXCEPT ![i] = h] \/ hub' = [hub EXCEPT ![i] = g]
    BY <1>2 DEF PutOut, HubView
  <2>. HIDE DEF h, g
  <2>. QED  BY <2>1, <2>2, <2>3
<1>3. ASSUME NEW i \in Instances, NEW k \in Keys, LetBackIn(i, k)
      PROVE  hub' \in [Instances -> HubView]
  <2>. DEFINE h == [hub[i] EXCEPT !.members = @ \cup {k}]
  <2>1. hub[i] \in HubView
    BY Zenon
  <2>2. h \in HubView
    BY <2>1, Zenon DEF HubView
  <2>3. hub' = [hub EXCEPT ![i] = h]
    BY <1>3, Zenon DEF LetBackIn
  <2>. HIDE DEF h
  <2>. QED  BY <2>2, <2>3
<1>4. ASSUME NEW i \in Instances, NEW table \in SUBSET Prefixes, Carry(i, table)
      PROVE  hub' \in [Instances -> HubView]
  <2>. DEFINE h == [hub[i] EXCEPT !.routes = table]
  <2>1. hub[i] \in HubView
    BY Zenon
  <2>2. h \in HubView
    BY <2>1, Zenon DEF HubView
  <2>3. hub' = [hub EXCEPT ![i] = h]
    BY <1>4, Zenon DEF Carry
  <2>. HIDE DEF h
  <2>. QED  BY <2>2, <2>3
<1>5. hub' \in [Instances -> HubView]
  BY <1>1, <1>2, <1>3, <1>4, Zenon DEF HubStep
<1>6. UNCHANGED <<data, file, run, router, act, used, created>>
  BY Zenon DEF HubStep, Decide, PutOut, LetBackIn, Carry
<1>. QED  BY <1>5, <1>6

LEMMA InitTyped == Init => TInv
<1>. SUFFICES ASSUME Init PROVE TInv
  OBVIOUS
<1>1. hub \in [Instances -> HubView]
  <2>1. ASSUME NEW st \in {"unborn", "there", "gone"} PROVE [Unasked EXCEPT !.state = st] \in HubView
    BY DEF Unasked, HubView, Asked
  <2>2. \A i \in Instances : hub[i] \in {[Unasked EXCEPT !.state = "unborn"], [Unasked EXCEPT !.state = "there"]}
    BY Zenon DEF Init, Unasked
  <2>. QED  BY <2>1, <2>2, Zenon DEF Init
<1>2. data \in Data /\ file \in Data
  BY DEF Init, Data
<1>3. act \in [Actors -> Actor] /\ \A a \in Actors : act[a] = Idle
  BY IdleIsProper DEF Init, Proper
<1>4. used \in 0..MaxKeys
  BY TenantAssumption DEF Init
<1>5. TenantTypeOK
  BY <1>1, <1>2, <1>3, <1>4 DEF Init, TenantTypeOK
<1>. QED  BY <1>3, <1>5, IdleIsProper DEF TInv, Reloadable

LEMMA NextTyped == TInv /\ [Next]_vars => TInv'
<1>. SUFFICES ASSUME TInv, [Next]_vars PROVE TInv'
  OBVIOUS
<1>1. CASE \E a \in Actors : RefreshStep(a) \/ HandlerStep(a) \/ Request(a)
  BY <1>1, RefreshTyped, HandlerTyped, RequestTyped
<1>2. CASE HubStep
  BY <1>2, HubStepTyped, Zenon DEF TInv, TenantTypeOK, Proper, Reloadable
<1>3. CASE Restart
  <2>1. act' \in [Actors -> Actor] /\ \A a \in Actors : act'[a] = Idle
    BY <1>3, IdleIsProper DEF Restart, Proper
  <2>2. TenantTypeOK'
    BY <1>3, <2>1 DEF Restart, TInv, TenantTypeOK
  <2>3. Proper(Idle) /\ Idle.pc # "reload"
    BY IdleIsProper, Zenon
  <2>. QED  BY <2>1, <2>2, <2>3 DEF TInv, Reloadable, Proper
<1>4. CASE UNCHANGED vars
  BY <1>4 DEF vars, TInv, TenantTypeOK, Proper, Reloadable
<1>. QED  BY <1>1, <1>2, <1>3, <1>4 DEF Next

\* What the daemon keeps in memory, in its file and in the hands of its ticker
\* and handlers stays well-formed through every interleaving, lost answer, failed
\* save and restart.  Two facts make it so: a new connection always finds a free
\* device in range (nextDevice), and whoever is about to configure a nebula has
\* one (reload, stop).
THEOREM TenantTypeCorrect == Spec => []TenantTypeOK
<1>1. TInv => TenantTypeOK
  BY DEF TInv
<1>. QED  BY <1>1, InitTyped, NextTyped, PTL DEF Spec
-----------------------------------------------------------------------------
(* Devices.                                                                *)

Apart(conns) == \A i, j \in Instances :
  i # j /\ conns[i] # None /\ conns[j] # None => conns[i].device # conns[j].device

\* One connection goes, keeps its device, or gets one that nobody has.
LEMMA ApartKept ==
  ASSUME NEW old, NEW new, Apart(old), NEW i \in Instances,
         \A j \in Instances \ {i} : new[j] = old[j],
         \/ new[i] = None
         \/ new[i].device \notin taken(old)
         \/ old[i] # None /\ new[i].device = old[i].device
  PROVE  Apart(new)
<1>. SUFFICES ASSUME NEW j \in Instances, j # i, new[i] # None, new[j] # None
              PROVE  new[i].device # new[j].device
  BY DEF Apart
<1>1. new[j] = old[j] /\ old[j].device \in taken(old)
  BY DEF taken
<1>. QED  BY <1>1, Zenon DEF Apart

LEMMA CommitApart ==
  ASSUME DevicesDistinct, NEW d, Apart(d.conns), Saved(d) \/ SaveFailed(d)
  PROVE  DevicesDistinct'
BY DEF DevicesDistinct, Apart, Saved, SaveFailed

LEMMA DevicesStep == TInv /\ DevicesDistinct /\ [Next]_vars => DevicesDistinct'
<1>. SUFFICES ASSUME TInv, DevicesDistinct, [Next]_vars PROVE DevicesDistinct'
  OBVIOUS
<1>0. /\ data \in Data /\ data.conns \in [Instances -> Connection \cup {None}]
      /\ Apart(data.conns) /\ Apart(file.conns)
  BY DEF TInv, TenantTypeOK, Data, DevicesDistinct, Apart
<1>s. ASSUME UNCHANGED <<data, file>> PROVE DevicesDistinct'
  BY <1>s DEF DevicesDistinct
<1>1. ASSUME NEW a \in Actors, RefreshStep(a) PROVE DevicesDistinct'
  <2>1. CASE admit(a)
    <3>. DEFINE i == act[a].conn.instance
                d == [data EXCEPT !.conns[i].cert = act[a].conn.cert]
    <3>1. i \in Instances
      BY <2>1, Zenon DEF admit, TInv, Proper, Connection
    <3>2. CASE data.conns[i] # None /\ (Saved(d) \/ SaveFailed(d))
      <4>1. /\ d.conns[i].device = data.conns[i].device
            /\ \A j \in Instances \ {i} : d.conns[j] = data.conns[j]
        BY <1>0, <3>1, <3>2, Zenon DEF Data, Connection
      <4>. HIDE DEF d, i
      <4>2. Apart(d.conns)
        BY <1>0, <3>1, <3>2, <4>1, ApartKept
      <4>. QED  BY <3>2, <4>2, CommitApart, Zenon
    <3>. QED  BY <2>1, <3>2, <1>s, Zenon DEF admit
  <2>2. CASE ~admit(a)
    <3>1. UNCHANGED <<data, file>>
      BY <1>1, <2>2, Zenon DEF RefreshStep, Refresh, RefreshEnds, Skip, collect, routes, startRouter,
                        startConnection, start, reload, ReloadConfig
    <3>. QED  BY <3>1, <1>s
  <2>. QED  BY <2>1, <2>2, Zenon
<1>n. ASSUME NEW i \in Instances, NEW b \in BOOLEAN, used < MaxKeys
      PROVE  Apart(WithConn(NewConnection(i, b)).conns)
  <2>. DEFINE c == NewConnection(i, b)
  <2>1. c.device \notin taken(data.conns) /\ WithConn(c) = [data EXCEPT !.conns[i] = c]
    BY <1>n, NewConnectionTyped
  <2>. HIDE DEF c
  <2>2. /\ WithConn(c).conns[i] = c
        /\ \A j \in Instances \ {i} : WithConn(c).conns[j] = data.conns[j]
    BY <1>0, <2>1 DEF Data
  <2>3. Apart(WithConn(c).conns)
    BY <1>0, <2>1, <2>2, ApartKept
  <2>. QED  BY <2>3 DEF c
<1>2. ASSUME NEW a \in Actors, HandlerStep(a) PROVE DevicesDistinct'
  <2>0. Proper(act[a])
    BY DEF TInv
  <2>1. CASE resolveInstance(a)
    <3>1. act[a].inst \in Instances
      BY <2>0, <2>1 DEF resolveInstance, Proper
    <3>. DEFINE d == WithConn(NewConnection(act[a].inst, FALSE))
    <3>2. used < MaxKeys => Apart(d.conns)
      BY <3>1, <1>n, Zenon
    <3>3. (used < MaxKeys /\ (Saved(d) \/ SaveFailed(d))) \/ UNCHANGED <<data, file>>
      BY <2>1, Zenon DEF resolveInstance
    <3>. HIDE DEF d
    <3>. QED  BY <3>2, <3>3, <1>s, CommitApart
  <2>2. CASE rejoinOwn(a)
    <3>1. act[a].inst \in Instances
      BY <2>0, <2>2 DEF rejoinOwn, Proper
    <3>. DEFINE d == WithConn(NewConnection(act[a].inst, TRUE))
    <3>2. used < MaxKeys => Apart(d.conns)
      BY <3>1, <1>n, Zenon
    <3>3. (used < MaxKeys /\ (Saved(d) \/ SaveFailed(d))) \/ UNCHANGED <<data, file>>
      BY <2>2, Zenon DEF rejoinOwn
    <3>. HIDE DEF d
    <3>. QED  BY <3>2, <3>3, <1>s, CommitApart
  <2>3. CASE StoreAuthority(a)
    <3>1. act[a].inst \in Instances
      BY <2>0, <2>3 DEF StoreAuthority, Proper
    <3>. DEFINE w == WithConn(NewConnection(act[a].inst, TRUE))
                d == [w EXCEPT !.owned[act[a].inst] = act[a].token]
    <3>2. used < MaxKeys => Apart(w.conns) /\ w \in Data
      BY <3>1, <1>n, NewConnectionTyped, Zenon
    <3>3. (used < MaxKeys /\ (Saved(d) \/ SaveFailed(d))) \/ UNCHANGED <<data, file>>
      BY <2>3 DEF StoreAuthority
    <3>. HIDE DEF w
    <3>4. used < MaxKeys => d.conns = w.conns
      BY <3>2 DEF Data
    <3>. HIDE DEF d
    <3>. QED  BY <3>2, <3>3, <3>4, <1>s, CommitApart
  <2>4. CASE StoreToken(a)
    <3>. DEFINE d == [data EXCEPT !.owned[act[a].inst] = IF @ # None THEN act[a].token ELSE @]
    <3>1. d.conns = data.conns
      BY <1>0 DEF Data
    <3>2. Saved(d) \/ SaveFailed(d)
      BY <2>4 DEF StoreToken
    <3>. HIDE DEF d
    <3>. QED  BY <1>0, <3>1, <3>2, CommitApart
  <2>5. CASE Forgotten(a)
    <3>. DEFINE i == act[a].inst
                left == [data EXCEPT !.conns[i] = None]
                d == IF act[a].pc = "disown" THEN [left EXCEPT !.owned[i] = None] ELSE left
    <3>1. i \in Instances
      BY <2>0, <2>5 DEF Forgotten, Proper
    <3>2. left \in Data /\ left.conns[i] = None /\ \A j \in Instances \ {i} : left.conns[j] = data.conns[j]
      BY <1>0, <3>1 DEF Data
    <3>3. Saved(d) \/ SaveFailed(d)
      BY <2>5 DEF Forgotten
    <3>. HIDE DEF left, i
    <3>4. d.conns = left.conns
      BY <3>2, Zenon DEF Data
    <3>. HIDE DEF d
    <3>5. Apart(left.conns)
      BY <1>0, <3>1, <3>2, ApartKept, ZenonT(30)
    <3>. QED  BY <3>3, <3>4, <3>5, CommitApart
  <2>6. CASE join(a) \/ StopDeleted(a) \/ stopRouter(a)
    BY <2>6, <1>s DEF join, StopDeleted, stopRouter
  <2>. QED  BY <1>2, <2>1, <2>2, <2>3, <2>4, <2>5, <2>6 DEF HandlerStep
<1>3. ASSUME NEW a \in Actors, Request(a) PROVE DevicesDistinct'
  <2>1. ASSUME NEW c \in Choices, SetChoice(a, c) PROVE DevicesDistinct'
    <3>. DEFINE d == [data EXCEPT !.choice = c]
    <3>1. d.conns = data.conns
      BY <1>0 DEF Data
    <3>2. Saved(d) \/ SaveFailed(d)
      BY <2>1 DEF SetChoice
    <3>. HIDE DEF d
    <3>. QED  BY <1>0, <3>1, <3>2, CommitApart
  <2>2. CASE UNCHANGED <<data, file>>
    BY <2>2, <1>s, Zenon
  <2>. QED  BY <1>3, <2>1, <2>2, Zenon DEF Request, Connect, Disconnect, Delete, Create, SetToken
<1>4. CASE HubStep
  BY <1>4, <1>s, HubStepTyped, Zenon DEF TInv, TenantTypeOK
<1>5. CASE Restart
  BY <1>5 DEF Restart, DevicesDistinct
<1>6. CASE UNCHANGED vars
  BY <1>6, <1>s DEF vars
<1>. QED  BY <1>1, <1>2, <1>3, <1>4, <1>5, <1>6 DEF Next

\* One tun for one connection, for any number of instances, handlers and devices
\* as long as there are more devices than instances: no two connections have the
\* same device, in memory or in the file, whichever calls are made at once and
\* whichever saves fail (nextDevice, Connect, Create, rejoinOwn).
THEOREM DevicesAreDistinct == Spec => []DevicesDistinct
<1>1. Init => DevicesDistinct
  BY DEF Init, DevicesDistinct
<1>. QED  BY <1>1, InitTyped, NextTyped, DevicesStep, PTL DEF Spec
-----------------------------------------------------------------------------
(* Routers.                                                                *)

Closing(s, i) == s.pc \in {"leave", "destroy"} /\ s.inst = i

\* An actor that has not stopped a nebula moves, and no nebula stops.
LEMMA RouterKept ==
  ASSUME TInv, RouterNeedsNebula, NEW a \in Actors, NEW s, Goto(a, s),
         act[a].pc \notin {"leave", "destroy"},
         \A i \in Instances : run[i] # None => run'[i] # None,
         \A i \in Instances : router'[i] # None => router[i] # None \/ run[i] # None
  PROVE  RouterNeedsNebula'
<1>. SUFFICES ASSUME NEW i \in Instances, router'[i] # None, run'[i] = None
              PROVE  \E b \in Actors : Closing(act'[b], i)
  BY DEF RouterNeedsNebula, Closing
<1>1. PICK b \in Actors : Closing(act[b], i)
  BY DEF RouterNeedsNebula, Closing
<1>2. b # a /\ act'[b] = act[b]
  BY <1>1, Zenon DEF Closing, Goto, TInv, TenantTypeOK
<1>. QED  BY <1>1, <1>2, Zenon

\* Whoever stops a nebula is the one that stops its router next.
LEMMA RouterStops ==
  ASSUME TInv, RouterNeedsNebula, NEW a \in Actors, NEW i \in Instances, NEW next,
         Closing(next, i), stop(a, i, next), UNCHANGED router,
         act[a].pc \notin {"leave", "destroy"}
  PROVE  RouterNeedsNebula'
<1>. SUFFICES ASSUME NEW j \in Instances, router'[j] # None, run'[j] = None
              PROVE  \E b \in Actors : Closing(act'[b], j)
  BY DEF RouterNeedsNebula, Closing
<1>1. CASE j = i
  BY <1>1, Zenon DEF stop
<1>2. CASE j # i
  <2>1. run[j] = None
    BY <1>2, Zenon DEF stop, TInv, TenantTypeOK
  <2>2. PICK b \in Actors : Closing(act[b], j)
    BY <2>1, Zenon DEF RouterNeedsNebula, Closing
  <2>3. b # a /\ act'[b] = act[b]
    BY <2>2 DEF Closing, stop
  <2>. QED  BY <2>2, <2>3, Zenon
<1>. QED  BY <1>1, <1>2, Zenon

LEMMA RouterStep == TInv /\ RouterNeedsNebula /\ [Next]_vars => RouterNeedsNebula'
<1>. SUFFICES ASSUME TInv, RouterNeedsNebula, [Next]_vars PROVE RouterNeedsNebula'
  OBVIOUS
<1>0. /\ run \in [Instances -> Runner \cup {None}]
      /\ router \in [Instances -> (SUBSET Prefixes) \cup {None}]
  BY DEF TInv, TenantTypeOK
<1>1. ASSUME NEW a \in Actors, RefreshStep(a) PROVE RouterNeedsNebula'
  <2>0. Proper(act[a]) /\ act[a].pc \notin {"leave", "destroy"}
    BY <1>1, Zenon DEF TInv, RefreshStep, Refresh, RefreshEnds, Skip, collect, admit, routes, startRouter,
                startConnection, start, reload, ReloadConfig
  <2>1. \E s : Goto(a, s)
    BY <1>1, Zenon DEF RefreshStep, Refresh, RefreshEnds, Skip, collect, admit, routes, startRouter,
                startConnection, start, reload, ReloadConfig
  <2>2. \A i \in Instances : run[i] # None => run'[i] # None
    <3>1. CASE start(a)
      BY <1>0, <3>1 DEF start
    <3>2. CASE ReloadConfig(a)
      BY <3>2, ReloadTyped
    <3>3. CASE ~start(a) /\ ~ReloadConfig(a)
      BY <1>1, <3>3, Zenon DEF RefreshStep, Refresh, RefreshEnds, Skip, collect, admit, routes,
                        startRouter, startConnection, reload
    <3>. QED  BY <3>1, <3>2, <3>3, Zenon
  <2>3. \A i \in Instances : router'[i] # None => router[i] # None \/ run[i] # None
    <3>1. CASE startRouter(a)
      BY <1>0, <3>1 DEF startRouter
    <3>2. CASE ~startRouter(a)
      BY <1>1, <3>2, Zenon DEF RefreshStep, Refresh, RefreshEnds, Skip, collect, admit, routes,
                        startConnection, start, reload, ReloadConfig
    <3>. QED  BY <3>1, <3>2, Zenon
  <2>. QED  BY <2>0, <2>1, <2>2, <2>3, RouterKept
<1>2. ASSUME NEW a \in Actors, HandlerStep(a) PROVE RouterNeedsNebula'
  <2>0. Proper(act[a])
    BY DEF TInv
  <2>1. CASE StopDeleted(a)
    <3>1. act[a].pc = "deleted" /\ act[a].inst \in Instances
      BY <2>0, <2>1 DEF StopDeleted, Proper
    <3>. DEFINE s == [act[a] EXCEPT !.pc = "destroy"]
    <3>2. Closing(s, act[a].inst)
      BY <2>0, <3>1, LeavingIsProper DEF Closing
    <3>3. stop(a, act[a].inst, s) /\ UNCHANGED router
      BY <2>1, Zenon DEF StopDeleted
    <3>. HIDE DEF s
    <3>. QED  BY <3>1, <3>2, <3>3, RouterStops
  <2>2. CASE stopRouter(a)
    <3>. SUFFICES ASSUME NEW j \in Instances, router'[j] # None, run'[j] = None
                  PROVE  \E b \in Actors : Closing(act'[b], j)
      BY DEF RouterNeedsNebula, Closing
    <3>1. router[j] # None /\ run[j] = None /\ j # act[a].inst
      BY <1>0, <2>2, Zenon DEF stopRouter
    <3>2. PICK b \in Actors : Closing(act[b], j)
      BY <3>1 DEF RouterNeedsNebula, Closing
    <3>3. b # a /\ act'[b] = act[b]
      BY <2>2, <3>1, <3>2, Zenon DEF Closing, stopRouter, Goto, TInv, TenantTypeOK
    <3>. QED  BY <3>2, <3>3, Zenon
  <2>3. CASE ~StopDeleted(a) /\ ~stopRouter(a)
    <3>1. \E s : Goto(a, s)
      BY <1>2, <2>3, Zenon DEF HandlerStep, resolveInstance, join, rejoinOwn, StoreAuthority, StoreToken, Forgotten
    <3>2. act[a].pc \notin {"leave", "destroy"} /\ UNCHANGED <<run, router>>
      BY <1>2, <2>3, Zenon DEF HandlerStep, resolveInstance, join, rejoinOwn, StoreAuthority, StoreToken,
                        Forgotten, Local
    <3>. QED  BY <3>1, <3>2, RouterKept
  <2>. QED  BY <2>1, <2>2, <2>3, Zenon
<1>3. ASSUME NEW a \in Actors, Request(a) PROVE RouterNeedsNebula'
  <2>0. act[a].pc = "idle"
    BY <1>3, Zenon DEF Request, Connect, Disconnect, Delete, Create, SetToken, SetChoice
  <2>1. ASSUME NEW i \in Instances, Disconnect(a, i) PROVE RouterNeedsNebula'
    <3>. DEFINE s == [Idle EXCEPT !.pc = "leave", !.inst = i]
    <3>1. Closing(s, i)
      BY DEF Idle, Closing
    <3>2. stop(a, i, s) /\ UNCHANGED router
      BY <2>1, Zenon DEF Disconnect
    <3>. HIDE DEF s
    <3>. QED  BY <2>0, <3>1, <3>2, RouterStops
  <2>2. CASE ~\E i \in Instances : Disconnect(a, i)
    <3>1. (\E s : Goto(a, s)) /\ UNCHANGED <<run, router>>
      BY <1>3, <2>2, Zenon DEF Request, Connect, Delete, Create, SetToken, SetChoice, Local
    <3>. QED  BY <2>0, <3>1, RouterKept
  <2>. QED  BY <2>1, <2>2
<1>4. CASE HubStep
  <2>1. UNCHANGED <<run, router, act>>
    BY <1>4, HubStepTyped, Zenon DEF TInv, TenantTypeOK
  <2>. QED  BY <2>1, Zenon DEF RouterNeedsNebula
<1>5. CASE Restart
  BY <1>5, Zenon DEF Restart, RouterNeedsNebula
<1>6. CASE UNCHANGED vars
  BY <1>6 DEF vars, RouterNeedsNebula
<1>. QED  BY <1>1, <1>2, <1>3, <1>4, <1>5, <1>6 DEF Next

\* A name router does not outlive the nebula whose address it listens on, except
\* while a request is between stopping the two (startRouter, stopRouter): neither
\* a round of Refresh with an old table in hand nor two requests that leave the
\* same instance at once bring one up that nobody takes down.
THEOREM RoutersNeedNebula == Spec => []RouterNeedsNebula
<1>1. Init => RouterNeedsNebula
  BY DEF Init, RouterNeedsNebula
<1>. QED  BY <1>1, InitTyped, NextTyped, RouterStep, PTL DEF Spec
-----------------------------------------------------------------------------
(* Authorities.  An identifier is used once: what was created was born, and *)
(* what is being given up is gone for good.                                *)

Ahead(s, h) ==
  /\ s.pc = "created" => h[s.inst].state # "unborn"
  /\ s.pc \in {"deleted", "destroy", "disown"} => h[s.inst].state = "gone"

AInv ==
  /\ AuthorityKept
  /\ \A i \in created : hub[i].state # "unborn"
  /\ \A a \in Actors : Ahead(act[a], hub)

\* An instance is born once and does not come back.
Onward == \A i \in Instances :
  /\ hub[i].state # "unborn" => hub'[i].state # "unborn"
  /\ hub[i].state = "gone" => hub'[i].state = "gone"

LEMMA StatesOnward ==
  ASSUME TInv, Next
  PROVE  Onward
<1>0. hub \in [Instances -> HubView]
  BY DEF TInv, TenantTypeOK
<1>1. ASSUME NEW a \in Actors, RefreshStep(a) PROVE Onward
  BY <1>1, Zenon DEF Onward, RefreshStep, Refresh, RefreshEnds, Skip, collect, admit, routes, startRouter,
              startConnection, start, reload, ReloadConfig
<1>2. ASSUME NEW a \in Actors, HandlerStep(a) PROVE Onward
  <2>1. CASE join(a)
    <3>1. \A i \in Instances : hub'[i].state = hub[i].state
      BY <1>0, <2>1, SMTT(30) DEF join, HubView
    <3>. QED  BY <3>1, Zenon DEF Onward
  <2>2. CASE ~join(a)
    BY <1>2, <2>2, Zenon DEF Onward, HandlerStep, resolveInstance, rejoinOwn, StoreAuthority, StoreToken,
                      StopDeleted, stopRouter, Forgotten
  <2>. QED  BY <2>1, <2>2
<1>3. ASSUME NEW a \in Actors, Request(a) PROVE Onward
  <2>1. ASSUME NEW i \in Instances, Delete(a, i) PROVE Onward
    BY <1>0, <2>1 DEF Onward, Delete, Unasked, HubView
  <2>2. ASSUME NEW i \in Instances, NEW t \in Tokens, Create(a, i, t) PROVE Onward
    BY <1>0, <2>2 DEF Onward, Create, HubView
  <2>3. ASSUME NEW i \in Instances, NEW t \in Tokens, SetToken(a, i, t) PROVE Onward
    BY <1>0, <2>3 DEF Onward, SetToken, HubView
  <2>4. CASE UNCHANGED hub
    BY <2>4 DEF Onward
  <2>. QED  BY <1>3, <2>1, <2>2, <2>3, <2>4, Zenon DEF Request, Connect, Disconnect, SetChoice
<1>4. CASE HubStep
  <2>1. ASSUME NEW i \in Instances, NEW k \in Keys, NEW st, Decide(i, k, st) PROVE Onward
    BY <1>0, <2>1 DEF Onward, Decide, HubView
  <2>2. ASSUME NEW i \in Instances, NEW k \in Keys, PutOut(i, k) PROVE Onward
    BY <1>0, <2>2, SMTT(30) DEF Onward, PutOut, HubView
  <2>3. ASSUME NEW i \in Instances, NEW k \in Keys, LetBackIn(i, k) PROVE Onward
    BY <1>0, <2>3 DEF Onward, LetBackIn, HubView
  <2>4. ASSUME NEW i \in Instances, NEW t, Carry(i, t) PROVE Onward
    BY <1>0, <2>4 DEF Onward, Carry, HubView
  <2>. QED  BY <1>4, <2>1, <2>2, <2>3, <2>4 DEF HubStep
<1>5. CASE Restart
  BY <1>5, Zenon DEF Onward, Restart
<1>. QED  BY <1>1, <1>2, <1>3, <1>4, <1>5 DEF Next

\* An actor that does not move stays ahead.
LEMMA StaysAhead ==
  ASSUME NEW s, Proper(s), Ahead(s, hub), Onward
  PROVE  Ahead(s, hub')
BY DEF Proper, Ahead, Onward

\* Only Create, Delete and what follows a Delete put an actor where something is
\* known of its instance.
LEMMA ActorsAhead ==
  ASSUME TInv, AInv, Next
  PROVE  \A b \in Actors : Ahead(act'[b], hub')
<1>. SUFFICES ASSUME NEW b \in Actors PROVE Ahead(act'[b], hub')
  OBVIOUS
<1>0. /\ act \in [Actors -> Actor] /\ Onward /\ hub \in [Instances -> HubView]
      /\ Proper(act[b]) /\ Ahead(act[b], hub)
  BY StatesOnward DEF TInv, TenantTypeOK, AInv
<1>k. ASSUME act'[b] = act[b] PROVE Ahead(act'[b], hub')
  BY <1>0, <1>k, StaysAhead, Zenon
<1>p. ASSUME act'[b].pc \notin {"created", "deleted", "destroy", "disown"} PROVE Ahead(act'[b], hub')
  BY <1>p DEF Ahead
<1>g. ASSUME NEW a \in Actors, NEW s, Goto(a, s),
             s.pc \notin {"created", "deleted", "destroy", "disown"}
      PROVE  Ahead(act'[b], hub')
  BY <1>0, <1>g, <1>k, <1>p, Zenon DEF Goto
<1>i. Idle.pc = "idle"
  BY DEF Idle
<1>c. ASSUME NEW s PROVE s \in Actor => Continue(s).pc = "next"
  BY DEF Continue, Actor
<1>1. ASSUME NEW a \in Actors, RefreshStep(a) PROVE Ahead(act'[b], hub')
  <2>0. act[a] \in Actor
    BY <1>0
  <2>1. CASE Refresh(a) \/ RefreshEnds(a)
    BY <2>1, <1>g, Zenon DEF Refresh, RefreshEnds, Idle
  <2>2. CASE Skip(a)
    <3>1. PICK c : Goto(a, [act[a] EXCEPT !.todo = @ \ {c}])
      BY <2>2, Zenon DEF Skip
    <3>2. [act[a] EXCEPT !.todo = @ \ {c}].pc = "next"
      BY <2>0, <2>2 DEF Skip, Actor
    <3>. QED  BY <3>1, <3>2, <1>g, Zenon
  <2>3. CASE collect(a)
    <3>. DEFINE left(c) == [act[a] EXCEPT !.todo = @ \ {c}]
                go(c, k) == [left(c) EXCEPT !.pc = "admit", !.conn = [c EXCEPT !.cert = k]]
    <3>1. PICK c, k : Goto(a, left(c)) \/ Goto(a, go(c, k))
      BY <2>3, Zenon DEF collect
    <3>2. left(c).pc = "next" /\ go(c, k).pc = "admit"
      BY <2>0, <2>3 DEF collect, Actor
    <3>. HIDE DEF left, go
    <3>. QED  BY <3>1, <3>2, <1>g
  <2>4. CASE admit(a) \/ start(a) \/ ReloadConfig(a)
    BY <2>0, <2>4, <1>c, <1>g, Zenon DEF admit, start, ReloadConfig
  <2>5. CASE routes(a)
    <3>. DEFINE s(c) == [act[a] EXCEPT !.pc = "router", !.todo = @ \ {c}, !.conn = c,
                                       !.table = hub[c.instance].routes]
    <3>1. PICK c : Goto(a, s(c))
      BY <2>5, Zenon DEF routes
    <3>2. s(c).pc = "router"
      BY <2>0, Zenon DEF Actor
    <3>. HIDE DEF s
    <3>. QED  BY <3>1, <3>2, <1>g
  <2>6. CASE startRouter(a)
    <3>1. [act[a] EXCEPT !.pc = "check"].pc = "check"
      BY <2>0 DEF Actor
    <3>. QED  BY <2>6, <3>1, <1>g, Zenon DEF startRouter
  <2>7. CASE startConnection(a) \/ reload(a)
    <3>. DEFINE s(p) == [act[a] EXCEPT !.pc = p, !.choice = data.choice]
    <3>1. Goto(a, Continue(act[a])) \/ Goto(a, s("start")) \/ Goto(a, s("reload"))
      BY <2>7 DEF startConnection, reload
    <3>2. s("start").pc = "start" /\ s("reload").pc = "reload"
      BY <2>0, Zenon DEF Actor
    <3>. HIDE DEF s
    <3>. QED  BY <2>0, <3>1, <3>2, <1>c, <1>g, Zenon
  <2>. QED  BY <1>1, <2>1, <2>2, <2>3, <2>4, <2>5, <2>6, <2>7, SMTT(30) DEF RefreshStep
<1>2. ASSUME NEW a \in Actors, HandlerStep(a) PROVE Ahead(act'[b], hub')
  <2>0. act[a] \in Actor /\ Proper(act[a]) /\ Ahead(act[a], hub)
    BY <1>0, Zenon DEF TInv, AInv
  <2>1. CASE resolveInstance(a)
    BY <2>1, <1>g, Zenon DEF resolveInstance, Idle
  <2>2. CASE join(a) \/ rejoinOwn(a)
    BY <2>2, <1>g, Zenon DEF join, rejoinOwn, Idle
  <2>3. CASE StoreAuthority(a) \/ StoreToken(a) \/ Forgotten(a)
    BY <2>3, <1>g, <1>i, SMTT(30) DEF StoreAuthority, StoreToken, Forgotten
  <2>4. CASE StopDeleted(a)
    <3>. DEFINE s == [act[a] EXCEPT !.pc = "destroy"]
    <3>1. s.inst = act[a].inst /\ act[a].inst \in Instances /\ hub[act[a].inst].state = "gone"
      BY <2>0, <2>4 DEF StopDeleted, Actor, Proper, Ahead
    <3>2. hub' = hub /\ stop(a, act[a].inst, s)
      BY <2>4 DEF StopDeleted
    <3>3. s.pc = "destroy"
      BY <2>0, Zenon DEF Actor
    <3>. HIDE DEF s
    <3>4. CASE b = a
      BY <3>1, <3>2, <3>3, <3>4, Zenon DEF stop, Ahead
    <3>5. CASE b # a /\ act'[b] = act[b]
      BY <3>5, <1>k, Zenon
    <3>6. CASE b # a /\ act'[b] = Continue(act[b])
      BY <1>0, <3>6, <1>c, <1>p, Zenon
    <3>. QED  BY <3>2, <3>4, <3>5, <3>6, SMTT(30) DEF stop
  <2>5. CASE stopRouter(a)
    <3>. DEFINE s == [act[a] EXCEPT !.pc = IF @ = "leave" THEN "forget" ELSE "disown"]
    <3>1. /\ s.inst = act[a].inst /\ s.pc \in {"forget", "disown"}
          /\ s.pc = "disown" => act[a].pc = "destroy"
      BY <2>0, <2>5, Zenon DEF stopRouter, Actor
    <3>2. hub' = hub /\ Goto(a, s)
      BY <2>5, Zenon DEF stopRouter
    <3>. HIDE DEF s
    <3>3. Ahead(s, hub')
      BY <2>0, <3>1, <3>2, Zenon DEF Ahead
    <3>. QED  BY <1>0, <3>2, <3>3, <1>k DEF Goto
  <2>. QED  BY <1>2, <2>1, <2>2, <2>3, <2>4, <2>5, Zenon DEF HandlerStep
<1>3. ASSUME NEW a \in Actors, Request(a) PROVE Ahead(act'[b], hub')
  <2>1. ASSUME NEW i \in Instances, Connect(a, i) PROVE Ahead(act'[b], hub')
    BY <2>1, <1>g, Zenon DEF Connect, Idle
  <2>2. ASSUME NEW i \in Instances, Disconnect(a, i) PROVE Ahead(act'[b], hub')
    <3>. DEFINE s == [Idle EXCEPT !.pc = "leave", !.inst = i]
    <3>1. s.pc = "leave" /\ stop(a, i, s)
      BY <2>2 DEF Disconnect, Idle
    <3>. HIDE DEF s
    <3>2. act'[b] = s \/ act'[b] = act[b] \/ act'[b] = Continue(act[b])
      BY <3>1 DEF stop
    <3>. QED  BY <1>0, <3>1, <3>2, <1>c, <1>k, <1>p, Zenon
  <2>3. ASSUME NEW i \in Instances, Delete(a, i) PROVE Ahead(act'[b], hub')
    <3>. DEFINE s == [Idle EXCEPT !.pc = "deleted", !.inst = i]
    <3>1. s.pc = "deleted" /\ s.inst = i /\ hub'[i].state = "gone"
      BY <1>0, <2>3 DEF Delete, Idle, Unasked
    <3>2. Goto(a, s) \/ Goto(a, Idle)
      BY <2>3 DEF Delete
    <3>. HIDE DEF s
    <3>3. Ahead(s, hub')
      BY <3>1, Zenon DEF Ahead
    <3>4. CASE Goto(a, s)
      BY <1>0, <3>3, <3>4, <1>k, Zenon DEF Goto
    <3>. QED  BY <3>2, <3>4, <1>g, <1>i, SMTT(30)
  <2>4. ASSUME NEW i \in Instances, NEW t \in Tokens, Create(a, i, t) PROVE Ahead(act'[b], hub')
    <3>. DEFINE s == [Idle EXCEPT !.pc = "created", !.inst = i, !.token = t]
    <3>1. s.pc = "created" /\ s.inst = i /\ hub'[i].state = "there"
      BY <1>0, <2>4 DEF Create, Idle, HubView
    <3>2. Goto(a, s) \/ Goto(a, Idle)
      BY <2>4, Zenon DEF Create
    <3>. HIDE DEF s
    <3>3. Ahead(s, hub')
      BY <3>1, Zenon DEF Ahead
    <3>4. CASE Goto(a, s)
      BY <1>0, <3>3, <3>4, <1>k DEF Goto
    <3>. QED  BY <3>2, <3>4, <1>g, <1>i, SMTT(30)
  <2>5. ASSUME NEW i \in Instances, NEW t \in Tokens, SetToken(a, i, t) PROVE Ahead(act'[b], hub')
    BY <2>5, <1>g, Zenon DEF SetToken, Idle
  <2>6. ASSUME NEW c \in Choices, SetChoice(a, c) PROVE Ahead(act'[b], hub')
    BY <2>6, <1>g, Zenon DEF SetChoice, Idle
  <2>. QED  BY <1>3, <2>1, <2>2, <2>3, <2>4, <2>5, <2>6, SMTT(30) DEF Request
<1>4. CASE HubStep
  BY <1>4, <1>0, <1>k, HubStepTyped, Zenon
<1>5. CASE Restart
  BY <1>5, <1>i, <1>p, Zenon DEF Restart
<1>. QED  BY <1>1, <1>2, <1>3, <1>4, <1>5, SMTT(30) DEF Next

\* Both copies of an authority stay, as long as the hub has the instance.
LEMMA OwnedKept ==
  ASSUME TInv, AInv, Next, NEW i \in Instances, There(i), data.owned[i] # None, file.owned[i] # None
  PROVE  data'.owned[i] # None /\ file'.owned[i] # None
<1>0. data \in Data
  BY DEF TInv, TenantTypeOK
<1>s. ASSUME UNCHANGED <<data, file>> PROVE data'.owned[i] # None /\ file'.owned[i] # None
  BY <1>s, Zenon
<1>w. ASSUME NEW d, d.owned[i] # None, Saved(d) \/ SaveFailed(d)
      PROVE  data'.owned[i] # None /\ file'.owned[i] # None
  BY <1>w DEF Saved, SaveFailed
<1>n. ASSUME NEW j \in Instances, NEW b \in BOOLEAN, used < MaxKeys
      PROVE  WithConn(NewConnection(j, b)) \in Data /\ WithConn(NewConnection(j, b)).owned = data.owned
  <2>1. WithConn(NewConnection(j, b)) = [data EXCEPT !.conns[j] = NewConnection(j, b)]
    BY <1>n, NewConnectionTyped
  <2>2. WithConn(NewConnection(j, b)) \in Data
    BY <1>n, NewConnectionTyped, Zenon
  <2>. QED  BY <1>0, <2>1, <2>2 DEF Data
<1>1. ASSUME NEW a \in Actors, RefreshStep(a) PROVE data'.owned[i] # None /\ file'.owned[i] # None
  <2>1. CASE admit(a)
    <3>. DEFINE d == [data EXCEPT !.conns[act[a].conn.instance].cert = act[a].conn.cert]
    <3>1. d.owned = data.owned
      BY <1>0, Zenon DEF Data
    <3>2. UNCHANGED <<data, file>> \/ Saved(d) \/ SaveFailed(d)
      BY <2>1, Zenon DEF admit
    <3>. HIDE DEF d
    <3>. QED  BY <3>1, <3>2, <1>s, <1>w
  <2>2. CASE ~admit(a)
    <3>1. UNCHANGED <<data, file>>
      BY <1>1, <2>2, Zenon DEF RefreshStep, Refresh, RefreshEnds, Skip, collect, routes, startRouter,
                        startConnection, start, reload, ReloadConfig
    <3>. QED  BY <3>1, <1>s
  <2>. QED  BY <2>1, <2>2, Zenon
<1>2. ASSUME NEW a \in Actors, HandlerStep(a) PROVE data'.owned[i] # None /\ file'.owned[i] # None
  <2>0. Proper(act[a]) /\ Ahead(act[a], hub)
    BY DEF TInv, AInv
  <2>1. CASE resolveInstance(a)
    <3>1. act[a].inst \in Instances
      BY <2>0, <2>1, Zenon DEF resolveInstance, Proper
    <3>. DEFINE d == WithConn(NewConnection(act[a].inst, FALSE))
    <3>2. used < MaxKeys => d.owned = data.owned
      BY <3>1, <1>n, Zenon
    <3>3. (used < MaxKeys /\ (Saved(d) \/ SaveFailed(d))) \/ UNCHANGED <<data, file>>
      BY <2>1, Zenon DEF resolveInstance
    <3>. HIDE DEF d
    <3>. QED  BY <3>2, <3>3, <1>s, <1>w, Zenon
  <2>2. CASE rejoinOwn(a)
    <3>1. act[a].inst \in Instances
      BY <2>0, <2>2, Zenon DEF rejoinOwn, Proper
    <3>. DEFINE d == WithConn(NewConnection(act[a].inst, TRUE))
    <3>2. used < MaxKeys => d.owned = data.owned
      BY <3>1, <1>n, Zenon
    <3>3. (used < MaxKeys /\ (Saved(d) \/ SaveFailed(d))) \/ UNCHANGED <<data, file>>
      BY <2>2, Zenon DEF rejoinOwn
    <3>. HIDE DEF d
    <3>. QED  BY <3>2, <3>3, <1>s, <1>w
  <2>3. CASE StoreAuthority(a)
    <3>1. act[a].inst \in Instances /\ act[a].token # None
      BY <2>0, <2>3, TenantAssumption, Zenon DEF StoreAuthority, Proper
    <3>. DEFINE w == WithConn(NewConnection(act[a].inst, TRUE))
                d == [w EXCEPT !.owned[act[a].inst] = act[a].token]
    <3>2. used < MaxKeys => w.owned = data.owned /\ w \in Data
      BY <3>1, <1>n, Zenon
    <3>3. (used < MaxKeys /\ (Saved(d) \/ SaveFailed(d))) \/ UNCHANGED <<data, file>>
      BY <2>3, Zenon DEF StoreAuthority
    <3>. HIDE DEF w
    <3>4. used < MaxKeys => d.owned[i] # None
      BY <3>1, <3>2 DEF Data
    <3>. HIDE DEF d
    <3>. QED  BY <3>3, <3>4, <1>s, <1>w
  <2>4. CASE StoreToken(a)
    <3>. DEFINE d == [data EXCEPT !.owned[act[a].inst] = IF @ # None THEN act[a].token ELSE @]
    <3>1. act[a].inst \in Instances /\ act[a].token # None
      BY <2>0, <2>4, TenantAssumption DEF StoreToken, Proper
    <3>2. d.owned[i] # None
      BY <1>0, <3>1, Zenon DEF Data
    <3>3. Saved(d) \/ SaveFailed(d)
      BY <2>4, Zenon DEF StoreToken
    <3>. HIDE DEF d
    <3>. QED  BY <3>2, <3>3, <1>w
  <2>5. CASE Forgotten(a)
    <3>. DEFINE j == act[a].inst
                left == [data EXCEPT !.conns[j] = None]
                d == IF act[a].pc = "disown" THEN [left EXCEPT !.owned[j] = None] ELSE left
    <3>1. act[a].pc = "disown" => j # i
      BY <2>0 DEF Ahead, There
    <3>2. left.owned = data.owned
      BY <1>0, Zenon DEF Data
    <3>3. left \in Data
      BY <1>0, <2>0, <2>5 DEF Forgotten, Proper, Data
    <3>4. Saved(d) \/ SaveFailed(d)
      BY <2>5 DEF Forgotten
    <3>. HIDE DEF left
    <3>5. d.owned[i] # None
      BY <3>1, <3>2, <3>3, ZenonT(30) DEF Data
    <3>. HIDE DEF d
    <3>. QED  BY <3>4, <3>5, <1>w, Zenon
  <2>6. CASE join(a) \/ StopDeleted(a) \/ stopRouter(a)
    BY <2>6, <1>s DEF join, StopDeleted, stopRouter
  <2>. QED  BY <1>2, <2>1, <2>2, <2>3, <2>4, <2>5, <2>6, ZenonT(30) DEF HandlerStep
<1>3. ASSUME NEW a \in Actors, Request(a) PROVE data'.owned[i] # None /\ file'.owned[i] # None
  <2>1. ASSUME NEW c \in Choices, SetChoice(a, c) PROVE data'.owned[i] # None /\ file'.owned[i] # None
    <3>. DEFINE d == [data EXCEPT !.choice = c]
    <3>1. d.owned = data.owned
      BY <1>0 DEF Data
    <3>2. Saved(d) \/ SaveFailed(d)
      BY <2>1, Zenon DEF SetChoice
    <3>. HIDE DEF d
    <3>. QED  BY <3>1, <3>2, <1>w
  <2>2. CASE UNCHANGED <<data, file>>
    BY <2>2, <1>s, Zenon
  <2>. QED  BY <1>3, <2>1, <2>2, Zenon DEF Request, Connect, Disconnect, Delete, Create, SetToken
<1>4. CASE HubStep
  BY <1>4, <1>s, HubStepTyped, Zenon DEF TInv, TenantTypeOK
<1>5. CASE Restart
  BY <1>5, Zenon DEF Restart
<1>. QED  BY <1>1, <1>2, <1>3, <1>4, <1>5, SMTT(30) DEF Next

\* An instance is reported as created by the handler that stored its authority.
LEMMA CreatedGrows ==
  ASSUME TInv, Next, NEW i \in created', i \notin created
  PROVE  \E a \in Actors : /\ act[a].pc = "created" /\ act[a].inst = i /\ Proper(act[a])
                           /\ data'.owned[i] # None /\ file'.owned[i] # None
<1>1. PICK a \in Actors : StoreAuthority(a)
  <2>1. ASSUME NEW a \in Actors, RefreshStep(a) PROVE created' = created
    BY <2>1, Zenon DEF RefreshStep, Refresh, RefreshEnds, Skip, collect, admit, routes, startRouter,
                startConnection, start, reload, ReloadConfig
  <2>2. ASSUME NEW a \in Actors, HandlerStep(a), ~StoreAuthority(a) PROVE created' = created
    BY <2>2, Zenon DEF HandlerStep, resolveInstance, join, rejoinOwn, StoreToken, StopDeleted, stopRouter,
                Forgotten, Local
  <2>3. ASSUME NEW a \in Actors, Request(a) PROVE created' = created
    BY <2>3, Zenon DEF Request, Connect, Disconnect, Delete, Create, SetToken, SetChoice, Local
  <2>4. ASSUME HubStep \/ Restart PROVE created' = created
    BY <2>4, Zenon DEF HubStep, Decide, PutOut, LetBackIn, Carry, Restart
  <2>. QED  BY <2>1, <2>2, <2>3, <2>4 DEF Next
<1>. DEFINE w == WithConn(NewConnection(act[a].inst, TRUE))
            d == [w EXCEPT !.owned[act[a].inst] = act[a].token]
<1>2. /\ act[a].pc = "created" /\ act[a].inst = i
      /\ Saved(d) /\ used < MaxKeys
  BY <1>1, Zenon DEF StoreAuthority
<1>3. Proper(act[a]) /\ act[a].inst \in Instances /\ act[a].token \in Tokens
  BY <1>2 DEF TInv, Proper
<1>4. w \in Data
  BY <1>2, <1>3, NewConnectionTyped, Zenon
<1>. HIDE DEF w
<1>5. d.owned[i] = act[a].token
  BY <1>2, <1>3, <1>4 DEF Data
<1>. HIDE DEF d
<1>. QED  BY <1>2, <1>3, <1>5, TenantAssumption, Zenon DEF Saved

LEMMA AuthorityStep == TInv /\ AInv /\ [Next]_vars => AInv'
<1>. SUFFICES ASSUME TInv, AInv, [Next]_vars PROVE AInv'
  OBVIOUS
<1>1. CASE Next
  <2>0. Onward /\ hub \in [Instances -> HubView] /\ created \subseteq Instances
    BY <1>1, StatesOnward DEF TInv, TenantTypeOK
  <2>1. \A a \in Actors : Ahead(act'[a], hub')
    BY <1>1, ActorsAhead, Zenon
  <2>2. ASSUME NEW i \in created' PROVE hub'[i].state # "unborn"
    <3>1. CASE i \in created
      BY <3>1, <2>0, Zenon DEF AInv, Onward
    <3>2. CASE i \notin created
      <4>1. PICK a \in Actors : act[a].pc = "created" /\ act[a].inst = i /\ Proper(act[a])
        BY <1>1, <3>2, CreatedGrows, Zenon
      <4>2. i \in Instances /\ hub[i].state # "unborn"
        BY <4>1, Zenon DEF AInv, Ahead, Proper
      <4>. QED  BY <2>0, <4>2, Zenon DEF Onward
    <3>. QED  BY <3>1, <3>2, Zenon
  <2>3. ASSUME NEW i \in created', hub'[i].state = "there"
        PROVE  data'.owned[i] # None /\ file'.owned[i] # None
    <3>1. CASE i \in created
      <4>1. There(i) /\ i \in Instances
        BY <2>0, <2>3, <3>1, Zenon DEF AInv, Onward, HubView, There
      <4>2. data.owned[i] # None /\ file.owned[i] # None
        BY <3>1, <4>1, Zenon DEF AInv, AuthorityKept
      <4>. QED  BY <1>1, <4>1, <4>2, OwnedKept, Zenon
    <3>2. CASE i \notin created
      BY <1>1, <3>2, CreatedGrows, Zenon
    <3>. QED  BY <3>1, <3>2, Zenon
  <2>. QED  BY <2>1, <2>2, <2>3, Zenon DEF AInv, AuthorityKept, There, Ahead
<1>2. CASE UNCHANGED vars
  BY <1>2 DEF vars, AInv, AuthorityKept, There, Ahead
<1>. QED  BY <1>1, <1>2

\* The signing key of an instance whose creation was reported and that the hub
\* still has is in memory and in the file (Create, Delete): no failed save, lost
\* answer, restart or other request gives it up, since only what follows a
\* deletion on the hub removes it and a deleted instance does not come back.
THEOREM AuthorityIsKept == Spec => []AuthorityKept
<1>1. Init => AInv
  BY IdleIsProper DEF Init, AInv, AuthorityKept, Ahead
<1>2. AInv => AuthorityKept
  BY DEF AInv
<1>. QED  BY <1>1, <1>2, InitTyped, NextTyped, AuthorityStep, PTL DEF Spec
=============================================================================
