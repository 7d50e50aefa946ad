--------------------------- MODULE InstancesProofs ---------------------------
(* Proofs about Instances, for every value of its constants. *)
EXTENDS Instances, WellFoundedInduction, TLAPS

\* A set of natural numbers has a least element.
LEMMA LeastElement ==
  ASSUME NEW S \in SUBSET Nat, S # {}
  PROVE  \E n \in S : \A m \in S : n <= m
<1>. DEFINE less == OpToRel(<, Nat)
<1>1. IsWellFoundedOn(less, Nat)
  BY NatLessThanWellFounded, Zenon
<1>2. PICK n \in S : \A m \in S : ~(<<m, n>> \in less)
  <2>. HIDE DEF less
  <2>. QED  BY <1>1, WFMin, Zenon
<1>3. \A m \in S : ~(m < n)
  BY <1>2, Zenon DEF OpToRel
<1>. QED  BY <1>3

\* The walks over ports and subnets answer with something free.
LEMMA LowestIsFree ==
  ASSUME NEW free \in SUBSET Nat, free # {}
  PROVE  Lowest(free) \in free
<1>1. PICK n \in free : \A m \in free : n <= m
  BY LeastElement
<1>. QED  BY <1>1, Zenon DEF Lowest

-----------------------------------------------------------------------------
(* A handler between two critical sections holds what it has picked.       *)

HandlersOK ==
  \A h \in Handlers :
    /\ handler[h].pc \in {"port", "overlay6", "add"} =>
         h \in Creators /\ handler[h].name \in Names /\ handler[h].overlay \in 1 .. Subnets4
    /\ handler[h].pc \in {"overlay6", "add"} => handler[h].port \in Ports
    /\ handler[h].pc \in {"get", "stop", "start", "end", "remove"} => handler[h].id \in InstanceIds

\* What holds whoever creates.
IInv ==
  /\ InstancesTypeOK /\ HandlersOK
  /\ NamesApart(mem) /\ NamesApart(disk)

LEMMA IdleOK == Idle \in Local /\ Idle.pc = "idle"
BY SubnetsAssumption DEF Idle, Serving, Local, NoPort, NoSubnet

LEMMA InitIInv == Init => IInv
<1>. SUFFICES ASSUME Init PROVE IInv
  OBVIOUS
<1>1. HandlersOK
  BY IdleOK DEF Init, HandlersOK
<1>2. InstancesTypeOK
  BY IdleOK DEF Init, InstancesTypeOK
<1>3. Existing(mem) = {} /\ disk = mem
  BY DEF Init, Existing, Exists
<1>. QED  BY <1>1, <1>2, <1>3 DEF IInv, NamesApart

\* A handler's next local state, when it is a proper one.
Proper(h, l) ==
  /\ l \in Local
  /\ l.pc \in {"port", "overlay6", "add"} =>
       h \in Creators /\ l.name \in Names /\ l.overlay \in 1 .. Subnets4
  /\ l.pc \in {"overlay6", "add"} => l.port \in Ports
  /\ l.pc \in {"get", "stop", "start", "end", "remove"} => l.id \in InstanceIds

LEMMA HandlerMoves ==
  ASSUME IInv, NEW h \in Handlers, NEW l, Proper(h, l),
         handler' = [handler EXCEPT ![h] = l]
  PROVE  handler' \in [Handlers -> Local] /\ HandlersOK'
<1>1. handler' \in [Handlers -> Local]
  BY DEF IInv, InstancesTypeOK, Proper
<1>2. HandlersOK'
  BY DEF IInv, InstancesTypeOK, HandlersOK, Proper
<1>. QED  BY <1>1, <1>2

\* Nothing is in new that was not, with the same reservations, in old.
Within(new, old) ==
  \A id \in Existing(new) :
    /\ id \in Existing(old)
    /\ new[id].name = old[id].name
    /\ new[id].port = old[id].port
    /\ new[id].overlay = old[id].overlay
    /\ new[id].overlay6 = old[id].overlay6

LEMMA WithinApart ==
  ASSUME NEW new, NEW old, Within(new, old)
  PROVE  /\ NamesApart(old) => NamesApart(new)
         /\ PortsApart(old) => PortsApart(new)
         /\ OverlaysApart(old) => OverlaysApart(new)
BY DEF Within, NamesApart, PortsApart, OverlaysApart

\* Every step but Add leaves the store within what it was, and a restart,
\* which may bring an instance back, leaves no handler at work.
StoreShrinks ==
  /\ \/ Within(mem', mem)
     \/ mem' = disk /\ handler' = [h \in Handlers |-> Idle]
  /\ disk' = disk \/ disk' = mem'

\* What a step of each kind does: the types stay, and the store shrinks or an
\* instance is added.
Adds(h) ==
  /\ At(h, "add") /\ Finish(h)
  /\ \A other \in Existing(mem) : mem[other].name # handler[h].name
  /\ \E id \in InstanceIds : Update([mem EXCEPT ![id] = Built(h)])

StepOK == InstancesTypeOK' /\ HandlersOK' /\ (StoreShrinks \/ \E h \in Handlers : Adds(h))

LEMMA Quiet ==
  ASSUME IInv, NEW h \in Handlers, NEW l, Proper(h, l),
         handler' = [handler EXCEPT ![h] = l], UNCHANGED <<mem, disk>>,
         running' \in [InstanceIds -> Ports \cup {NoPort}],
         born' \subseteq InstanceIds, failed' \subseteq InstanceIds
  PROVE  StepOK
<1>1. handler' \in [Handlers -> Local] /\ HandlersOK'
  BY HandlerMoves, Zenon
<1>2. InstancesTypeOK'
  BY <1>1 DEF IInv, InstancesTypeOK
<1>3. StoreShrinks
  BY DEF StoreShrinks, Within
<1>. QED  BY <1>1, <1>2, <1>3 DEF StepOK

LEMMA IdleProper == \A h \in Handlers : Proper(h, Idle)
BY IdleOK DEF Proper

\* The handler of a step has a local state of its type.
LEMMA LocalOf ==
  ASSUME IInv, NEW h \in Handlers
  PROVE  handler[h] \in Local
BY DEF IInv, InstancesTypeOK

LEMMA CreateStep ==
  ASSUME IInv, NEW h \in Handlers,
         (\E name \in Names : CreateInstance(h, name)) \/ freePort(h) \/ CreateOverlay6(h)
  PROVE  StepOK
<1>. /\ running' = running /\ born' = born /\ failed' = failed /\ mem' = mem /\ disk' = disk
     /\ running \in [InstanceIds -> Ports \cup {NoPort}]
     /\ born \subseteq InstanceIds /\ failed \subseteq InstanceIds
  BY DEF CreateInstance, freePort, CreateOverlay6, IInv, InstancesTypeOK
<1>. DEFINE at == handler[h]
<1>0. at \in Local
  BY LocalOf
<1>1. CASE \E name \in Names : CreateInstance(h, name)
  <2>1. PICK name \in Names : CreateInstance(h, name)
    BY <1>1
  <2>. DEFINE free == (1 .. Subnets4) \ UsedOverlays
              l == Creating("port", name, Lowest(free), NoSubnet, NoPort)
  <2>2. h \in Creators /\ free # {} /\ Becomes(h, l)
    BY <2>1, Zenon DEF CreateInstance
  <2>3. Lowest(free) \in 1 .. Subnets4
    BY <2>2, LowestIsFree, SubnetsAssumption
  <2>4. Proper(h, l)
    BY <2>2, <2>3, SubnetsAssumption DEF Proper, Local, Creating, NoSubnet, NoPort
  <2>. QED  BY <2>2, <2>4, Quiet, Zenon DEF Becomes
<1>2. CASE freePort(h)
  <2>. DEFINE free == Ports \ UsedPorts
              l == Creating("overlay6", at.name, at.overlay, NoSubnet, Lowest(free))
  <2>1. CASE free # {} /\ Becomes(h, l)
    <3>1. Lowest(free) \in Ports
      BY <2>1, LowestIsFree, PortsAssumption DEF Ports
    <3>2. h \in Creators /\ at.name \in Names /\ at.overlay \in 1 .. Subnets4
      BY <1>2, Zenon DEF freePort, At, IInv, HandlersOK
    <3>3. Proper(h, l)
      BY <3>1, <3>2, SubnetsAssumption DEF Proper, Local, Creating, NoSubnet, NoPort
    <3>. QED  BY <2>1, <3>3, Quiet, Zenon DEF Becomes
  <2>2. CASE Finish(h)
    BY <2>2, IdleProper, Quiet, Zenon DEF Finish, Becomes
  <2>. QED  BY <1>2, <2>1, <2>2, Zenon DEF freePort
<1>3. CASE CreateOverlay6(h)
  <2>. DEFINE free == (1 .. Subnets6) \ UsedOverlays6
              l(subnet) == Creating("add", at.name, at.overlay, subnet, at.port)
  <2>0. ASSUME NEW subnet \in 0 .. Subnets6 PROVE Proper(h, l(subnet))
    <3>1. h \in Creators /\ at.name \in Names /\ at.overlay \in 1 .. Subnets4 /\ at.port \in Ports
      BY <1>3 DEF CreateOverlay6, At, IInv, HandlersOK
    <3>. QED  BY <3>1, SubnetsAssumption DEF Proper, Local, Creating
  <2>1. CASE Becomes(h, l(NoSubnet))
    <3>1. NoSubnet \in 0 .. Subnets6
      BY SubnetsAssumption DEF NoSubnet
    <3>. QED  BY <2>0, <2>1, <3>1, Quiet, Zenon DEF Becomes
  <2>2. CASE free # {} /\ Becomes(h, l(Lowest(free)))
    <3>1. Lowest(free) \in 0 .. Subnets6
      BY <2>2, LowestIsFree, SubnetsAssumption
    <3>. QED  BY <2>0, <2>2, <3>1, Quiet, Zenon DEF Becomes
  <2>3. CASE Finish(h)
    BY <2>3, IdleProper, Quiet, Zenon DEF Finish, Becomes
  <2>. QED  BY <1>3, <2>1, <2>2, <2>3, Zenon DEF CreateOverlay6
<1>. QED  BY <1>1, <1>2, <1>3

\* The instance a handler adds is one.
LEMMA BuiltOK ==
  ASSUME IInv, NEW h \in Handlers, At(h, "add")
  PROVE  Built(h) \in Instance
<1>1. handler[h] \in Local
  BY LocalOf, Zenon
<1>. QED  BY <1>1 DEF IInv, HandlersOK, At, Built, Instance, Local

LEMMA AddStep ==
  ASSUME IInv, NEW h \in Handlers, Add(h)
  PROVE  StepOK
<1>1. handler' \in [Handlers -> Local] /\ HandlersOK'
  BY IdleProper, HandlerMoves, Zenon DEF Add, Finish, Becomes
<1>2. CASE UNCHANGED <<mem, disk, born>>
  BY <1>2, IdleProper, Quiet, Zenon DEF Add, Finish, Becomes, IInv, InstancesTypeOK
<1>3. CASE /\ \A other \in Existing(mem) : mem[other].name # handler[h].name
           /\ \E id \in InstanceIds \ born :
                born' = born \cup {id} /\ Update([mem EXCEPT ![id] = Built(h)])
  <2>1. Adds(h)
    BY <1>3, Zenon DEF Add, Adds
  <2>2. /\ mem' \in [InstanceIds -> Instance \cup {None}]
        /\ disk' \in [InstanceIds -> Instance \cup {None}]
    BY <1>3, BuiltOK DEF Add, Update, Saved, SaveFailed, IInv, InstancesTypeOK
  <2>3. InstancesTypeOK'
    BY <1>1, <1>3, <2>2 DEF Add, IInv, InstancesTypeOK
  <2>. QED  BY <1>1, <2>1, <2>3 DEF StepOK
<1>. QED  BY <1>2, <1>3, Zenon DEF Add

\* Setting a flag of an instance, or taking the instance away.
LEMMA Shrunk ==
  ASSUME IInv, NEW id \in InstanceIds, Exists(mem, id), NEW new,
         \/ new = [mem EXCEPT ![id] = None]
         \/ new = [mem EXCEPT ![id].activated = TRUE]
  PROVE  new \in [InstanceIds -> Instance \cup {None}] /\ Within(new, mem)
<1>1. mem \in [InstanceIds -> Instance \cup {None}]
  BY DEF IInv, InstancesTypeOK
<1>2. CASE new = [mem EXCEPT ![id] = None]
  BY <1>1, <1>2 DEF Within, Existing, Exists
<1>3. CASE new = [mem EXCEPT ![id].activated = TRUE]
  <2>. DEFINE i == [mem[id] EXCEPT !.activated = TRUE]
  <2>1. mem[id] \in Instance
    BY <1>1 DEF Exists
  <2>2. /\ i \in Instance
        /\ i.name = mem[id].name /\ i.port = mem[id].port
        /\ i.overlay = mem[id].overlay /\ i.overlay6 = mem[id].overlay6
    BY <2>1, Zenon DEF Instance
  <2>3. new = [mem EXCEPT ![id] = i]
    BY <1>3
  <2>. HIDE DEF i
  <2>. QED  BY <1>1, <2>2, <2>3 DEF Within, Existing, Exists
<1>. QED  BY <1>2, <1>3

LEMMA ActivateInstanceStep ==
  ASSUME IInv, NEW h \in Handlers, NEW id \in InstanceIds, ActivateInstance(h, id)
  PROVE  StepOK
<1>. DEFINE new == [mem EXCEPT ![id].activated = TRUE]
            l == Serving("get", id, NoPort)
<1>1. Exists(mem, id) /\ mem' = new /\ (disk' = new \/ disk' = disk)
  BY DEF ActivateInstance, Saved, SaveFailed
<1>2. new \in [InstanceIds -> Instance \cup {None}] /\ Within(new, mem)
  BY <1>1, Shrunk, Zenon
<1>3. Proper(h, l)
  BY SubnetsAssumption DEF Proper, Local, Serving, NoSubnet
<1>4. Becomes(h, l) \/ UNCHANGED handler
  BY DEF ActivateInstance
<1>5. handler' \in [Handlers -> Local] /\ HandlersOK'
  <2>1. CASE Becomes(h, l)
    BY <1>3, <2>1, HandlerMoves, Zenon DEF Becomes
  <2>2. CASE UNCHANGED handler
    BY <2>2, Zenon DEF IInv, InstancesTypeOK, HandlersOK
  <2>. QED  BY <1>4, <2>1, <2>2
<1>. HIDE DEF new, l
<1>6. InstancesTypeOK'
  BY <1>1, <1>2, <1>5, Zenon DEF IInv, InstancesTypeOK, ActivateInstance
<1>7. StoreShrinks
  BY <1>1, <1>2 DEF StoreShrinks
<1>. QED  BY <1>5, <1>6, <1>7 DEF StepOK

LEMMA ActivateRestStep ==
  ASSUME IInv, NEW h \in Handlers, ActivateGet(h) \/ ActivateStop(h) \/ ActivateStart(h)
  PROVE  StepOK
<1>. DEFINE at == handler[h]
<1>0. at \in Local /\ at.id \in InstanceIds
  BY LocalOf DEF IInv, HandlersOK, ActivateGet, ActivateStop, ActivateStart, At
<1>. /\ running \in [InstanceIds -> Ports \cup {NoPort}]
     /\ born \subseteq InstanceIds /\ failed \subseteq InstanceIds
  BY DEF IInv, InstancesTypeOK
<1>1. CASE ActivateGet(h)
  <2>. DEFINE l == Serving("stop", at.id, mem[at.id].port)
  <2>1. CASE Exists(mem, at.id) /\ Becomes(h, l)
    <3>1. mem[at.id].port \in Ports
      BY <1>0, <2>1, Zenon DEF IInv, InstancesTypeOK, Exists, Instance
    <3>2. Proper(h, l)
      BY <1>0, <3>1, SubnetsAssumption DEF Proper, Local, Serving, NoSubnet
    <3>. QED  BY <1>1, <2>1, <3>2, Quiet, Zenon DEF ActivateGet, Becomes
  <2>2. CASE Finish(h)
    BY <1>1, <2>2, IdleProper, Quiet, Zenon DEF ActivateGet, Finish, Becomes
  <2>. QED  BY <1>1, <2>1, <2>2, Zenon DEF ActivateGet
<1>2. CASE ActivateStop(h)
  <2>. DEFINE l == Serving("start", at.id, at.port)
  <2>1. Proper(h, l)
    BY <1>0, SubnetsAssumption DEF Proper, Local, Serving, NoSubnet
  <2>2. running' \in [InstanceIds -> Ports \cup {NoPort}]
    BY <1>2, Zenon DEF ActivateStop
  <2>. QED  BY <1>2, <2>1, <2>2, Quiet, Zenon DEF ActivateStop, Becomes
<1>3. CASE ActivateStart(h)
  <2>1. running' \in [InstanceIds -> Ports \cup {NoPort}]
    BY <1>0, <1>3 DEF ActivateStart, Local
  <2>2. failed' \subseteq InstanceIds
    BY <1>0, <1>3 DEF ActivateStart
  <2>. QED  BY <1>3, <2>1, <2>2, IdleProper, Quiet, Zenon DEF ActivateStart, Finish, Becomes
<1>. QED  BY <1>1, <1>2, <1>3, Zenon

LEMMA DeleteStep ==
  ASSUME IInv, NEW h \in Handlers,
         (\E id \in InstanceIds : Delete(h, id)) \/ DeleteStop(h) \/ Remove(h)
  PROVE  StepOK
<1>. /\ running \in [InstanceIds -> Ports \cup {NoPort}]
     /\ born \subseteq InstanceIds /\ failed \subseteq InstanceIds
  BY DEF IInv, InstancesTypeOK
<1>1. ASSUME NEW id \in InstanceIds, NEW pc \in {"end", "remove"}
      PROVE  Proper(h, Serving(pc, id, NoPort))
  BY SubnetsAssumption DEF Proper, Local, Serving, NoSubnet
<1>2. CASE \E id \in InstanceIds : Delete(h, id)
  BY <1>1, <1>2, Quiet, Zenon DEF Delete, Becomes
<1>3. CASE DeleteStop(h)
  <2>1. handler[h].id \in InstanceIds
    BY <1>3, Zenon DEF IInv, HandlersOK, DeleteStop, At
  <2>2. running' \in [InstanceIds -> Ports \cup {NoPort}]
    BY <1>3, Zenon DEF DeleteStop
  <2>. QED  BY <1>1, <1>3, <2>1, <2>2, Quiet, Zenon DEF DeleteStop, Becomes
<1>4. CASE Remove(h)
  <2>. DEFINE id == handler[h].id
              new == [mem EXCEPT ![id] = None]
  <2>1. id \in InstanceIds
    BY <1>4 DEF IInv, HandlersOK, Remove, At
  <2>2. CASE UNCHANGED <<mem, disk>>
    BY <1>4, <2>2, IdleProper, Quiet, Zenon DEF Remove, Finish, Becomes
  <2>3. CASE Exists(mem, id) /\ Update(new)
    <3>1. mem' = new /\ (disk' = new \/ disk' = disk)
      BY <2>3, Zenon DEF Update, Saved, SaveFailed
    <3>2. new \in [InstanceIds -> Instance \cup {None}] /\ Within(new, mem)
      BY <2>1, <2>3, Shrunk, Zenon
    <3>3. handler' \in [Handlers -> Local] /\ HandlersOK'
      BY <1>4, IdleProper, HandlerMoves, Zenon DEF Remove, Finish, Becomes
    <3>. HIDE DEF new
    <3>4. InstancesTypeOK'
      BY <1>4, <3>1, <3>2, <3>3, Zenon DEF IInv, InstancesTypeOK, Remove
    <3>. QED  BY <3>1, <3>2, <3>3, <3>4, Zenon DEF StepOK, StoreShrinks
  <2>. QED  BY <1>4, <2>2, <2>3, Zenon DEF Remove
<1>. QED  BY <1>2, <1>3, <1>4

LEMMA RestartStep ==
  ASSUME IInv, Restart \/ SaveElsewhere
  PROVE  StepOK
<1>1. CASE Restart
  <2>1. handler' = [h \in Handlers |-> Idle] /\ mem' = disk /\ disk' = disk /\ born' = born
    BY <1>1 DEF Restart
  <2>2. PICK up \in Startable(disk) :
          /\ running' = [id \in InstanceIds |-> IF id \in up THEN disk[id].port ELSE NoPort]
          /\ failed' = IF "lighthouse" \in Faults THEN Existing(disk) \ up ELSE {}
    BY <1>1, Zenon DEF Restart
  <2>3. up \subseteq Existing(disk)
    BY DEF Startable
  <2>4. \A id \in up : disk[id].port \in Ports
    BY <2>3, Zenon DEF IInv, InstancesTypeOK, Existing, Exists, Instance
  <2>5. InstancesTypeOK'
    BY <2>1, <2>2, <2>4, IdleOK, Zenon DEF IInv, InstancesTypeOK, Existing
  <2>6. HandlersOK'
    BY <2>1, IdleOK DEF HandlersOK
  <2>. QED  BY <2>1, <2>5, <2>6, Zenon DEF StepOK, StoreShrinks
<1>2. CASE SaveElsewhere
  <2>1. InstancesTypeOK' /\ HandlersOK'
    BY <1>2 DEF SaveElsewhere, IInv, InstancesTypeOK, HandlersOK
  <2>2. StoreShrinks
    BY <1>2 DEF SaveElsewhere, StoreShrinks, Within
  <2>. QED  BY <2>1, <2>2 DEF StepOK
<1>. QED  BY <1>1, <1>2

LEMMA NextStep ==
  ASSUME IInv, [Next]_vars
  PROVE  StepOK
<1>1. ASSUME NEW h \in Handlers, HandlerStep(h) PROVE StepOK
  BY <1>1, CreateStep, AddStep, ActivateInstanceStep, ActivateRestStep, DeleteStep DEF HandlerStep
<1>2. CASE UNCHANGED vars
  <2>1. InstancesTypeOK' /\ HandlersOK'
    BY <1>2 DEF vars, IInv, InstancesTypeOK, HandlersOK
  <2>2. StoreShrinks
    BY <1>2 DEF vars, StoreShrinks, Within
  <2>. QED  BY <2>1, <2>2 DEF StepOK
<1>. QED  BY <1>1, <1>2, RestartStep DEF Next

-----------------------------------------------------------------------------
(* Names.                                                                  *)

LEMMA NamesKept ==
  ASSUME IInv, StepOK
  PROVE  NamesApart(mem)' /\ NamesApart(disk)'
<1>1. CASE StoreShrinks
  <2>1. NamesApart(mem')
    BY <1>1, WithinApart DEF IInv, StoreShrinks
  <2>. QED  BY <1>1, <2>1 DEF IInv, StoreShrinks
<1>2. CASE \E h \in Handlers : Adds(h)
  <2>1. PICK h \in Handlers, id \in InstanceIds :
          /\ \A other \in Existing(mem) : mem[other].name # handler[h].name
          /\ Update([mem EXCEPT ![id] = Built(h)])
    BY <1>2 DEF Adds
  <2>. DEFINE b == Built(h)
              new == [mem EXCEPT ![id] = b]
  <2>2. b.name = handler[h].name
    BY DEF Built
  <2>. HIDE DEF b
  <2>3. NamesApart(new)
    BY <2>1, <2>2 DEF NamesApart, Existing, Exists, IInv, InstancesTypeOK
  <2>4. mem' = new /\ (disk' = new \/ disk' = disk)
    BY <2>1 DEF Update, Saved, SaveFailed, b
  <2>. HIDE DEF new
  <2>. QED  BY <2>3, <2>4, Zenon DEF IInv
<1>. QED  BY <1>1, <1>2 DEF StepOK

LEMMA Invariance == Spec => []IInv
<1>1. IInv /\ [Next]_vars => IInv'
  BY NextStep, NamesKept DEF StepOK, IInv
<1>. QED  BY InitIInv, <1>1, PTL DEF Spec

-----------------------------------------------------------------------------
(* Ports and overlays.  They are read in one critical section and used in  *)
(* another, so what a creating handler holds has to stay free in between.  *)
(* It does when nobody else creates.                                       *)

Reserved(h) ==
  /\ handler[h].pc \in {"port", "overlay6", "add"} => handler[h].overlay \notin UsedOverlays
  /\ handler[h].pc \in {"overlay6", "add"} => handler[h].port \notin UsedPorts
  /\ handler[h].pc = "add" =>
       handler[h].overlay6 = NoSubnet \/ handler[h].overlay6 \notin UsedOverlays6

RInv ==
  /\ \A h \in Handlers : Reserved(h)
  /\ PortsApart(mem) /\ PortsApart(disk)
  /\ OverlaysApart(mem) /\ OverlaysApart(disk)

LEMMA InitRInv == Init => RInv
<1>. SUFFICES ASSUME Init PROVE RInv
  OBVIOUS
<1>1. Existing(mem) = {} /\ disk = mem
  BY DEF Init, Existing, Exists
<1>2. \A h \in Handlers : Reserved(h)
  BY IdleOK, Zenon DEF Init, Reserved
<1>. QED  BY <1>1, <1>2 DEF RInv, PortsApart, OverlaysApart

\* A step in which one handler moves and does not hold anything after it.
LEMMA LetsGo ==
  ASSUME IInv, RInv, Within(mem', mem), NEW h \in Handlers, NEW l,
         handler' = [handler EXCEPT ![h] = l], l.pc \notin {"port", "overlay6", "add"},
         NEW g \in Handlers
  PROVE  Reserved(g)'
<1>1. UsedOverlays' \subseteq UsedOverlays
  BY DEF Within, UsedOverlays
<1>2. UsedPorts' \subseteq UsedPorts
  BY DEF Within, UsedPorts
<1>3. UsedOverlays6' \subseteq UsedOverlays6
  BY DEF Within, UsedOverlays6
<1>4. handler'[g] = IF g = h THEN l ELSE handler[g]
  BY DEF IInv, InstancesTypeOK
<1>5. Reserved(g)
  BY DEF RInv
<1>. QED  BY <1>1, <1>2, <1>3, <1>4, <1>5 DEF Reserved

\* Each pick is free when it is made, and the earlier ones still are.
LEMMA PicksAreFree ==
  ASSUME IInv, RInv, NEW h \in Handlers, NEW g \in Handlers,
         (\E name \in Names : CreateInstance(h, name)) \/ freePort(h) \/ CreateOverlay6(h)
  PROVE  Reserved(g)'
<1>. DEFINE at == handler[h]
<1>0. /\ UsedOverlays' = UsedOverlays /\ UsedPorts' = UsedPorts /\ UsedOverlays6' = UsedOverlays6
      /\ Within(mem', mem) /\ handler \in [Handlers -> Local]
  BY Zenon DEF CreateInstance, freePort, CreateOverlay6, UsedOverlays, UsedPorts, UsedOverlays6,
         Within, IInv, InstancesTypeOK
<1>1. Reserved(h) /\ Reserved(g)
  BY DEF RInv
<1>2. ASSUME NEW l, Becomes(h, l),
             l.pc \in {"port", "overlay6", "add"} => l.overlay \notin UsedOverlays,
             l.pc \in {"overlay6", "add"} => l.port \notin UsedPorts,
             l.pc = "add" => l.overlay6 = NoSubnet \/ l.overlay6 \notin UsedOverlays6
      PROVE  Reserved(g)'
  <2>1. handler'[g] = IF g = h THEN l ELSE handler[g]
    BY <1>0, <1>2 DEF Becomes
  <2>. QED  BY <1>0, <1>1, <1>2, <2>1, Zenon DEF Reserved
<1>3. CASE Finish(h)
  BY <1>0, <1>3, IdleOK, LetsGo, Zenon DEF Finish, Becomes
<1>4. CASE \E name \in Names : CreateInstance(h, name)
  <2>1. PICK name \in Names : CreateInstance(h, name)
    BY <1>4
  <2>. DEFINE free == (1 .. Subnets4) \ UsedOverlays
              l == Creating("port", name, Lowest(free), NoSubnet, NoPort)
  <2>2. free # {} /\ Becomes(h, l)
    BY <2>1 DEF CreateInstance
  <2>3. Lowest(free) \notin UsedOverlays
    BY <2>2, LowestIsFree, SubnetsAssumption
  <2>4. l.pc = "port" /\ l.overlay = Lowest(free)
    BY DEF Creating
  <2>. HIDE DEF l, free
  <2>. QED  BY <1>2, <2>2, <2>3, <2>4
<1>5. CASE freePort(h)
  <2>. DEFINE free == Ports \ UsedPorts
              l == Creating("overlay6", at.name, at.overlay, NoSubnet, Lowest(free))
  <2>1. CASE free # {} /\ Becomes(h, l)
    <3>1. Lowest(free) \notin UsedPorts
      BY <2>1, LowestIsFree, PortsAssumption DEF Ports
    <3>2. l.pc = "overlay6" /\ l.overlay = at.overlay /\ l.port = Lowest(free)
      BY DEF Creating
    <3>3. at.overlay \notin UsedOverlays
      BY <1>1, <1>5 DEF Reserved, freePort, At
    <3>. HIDE DEF l, free, at
    <3>. QED  BY <1>2, <2>1, <3>1, <3>2, <3>3
  <2>. QED  BY <1>3, <1>5, <2>1, Zenon DEF freePort
<1>6. CASE CreateOverlay6(h)
  <2>. DEFINE free == (1 .. Subnets6) \ UsedOverlays6
              l(subnet) == Creating("add", at.name, at.overlay, subnet, at.port)
  <2>1. ASSUME NEW subnet, Becomes(h, l(subnet)),
               subnet = NoSubnet \/ subnet \notin UsedOverlays6
        PROVE  Reserved(g)'
    <3>1. /\ l(subnet).pc = "add" /\ l(subnet).overlay = at.overlay
          /\ l(subnet).port = at.port /\ l(subnet).overlay6 = subnet
      BY DEF Creating
    <3>2. at.overlay \notin UsedOverlays /\ at.port \notin UsedPorts
      BY <1>1, <1>6, Zenon DEF Reserved, CreateOverlay6, At
    <3>. HIDE DEF l, at
    <3>. QED  BY <1>2, <2>1, <3>1, <3>2, Zenon
  <2>2. free # {} => Lowest(free) \notin UsedOverlays6
    BY LowestIsFree, SubnetsAssumption
  <2>3. Finish(h) \/ Becomes(h, l(NoSubnet)) \/ (free # {} /\ Becomes(h, l(Lowest(free))))
    BY <1>6 DEF CreateOverlay6
  <2>. HIDE DEF l, free
  <2>. QED  BY <1>3, <2>1, <2>2, <2>3, Zenon
<1>. QED  BY <1>4, <1>5, <1>6, Zenon

\* When one handler at most creates, its picks are free until it adds them.
LEMMA ReservedStep ==
  ASSUME \A a, b \in Creators : a = b, IInv, RInv, [Next]_vars, NEW g \in Handlers
  PROVE  Reserved(g)'
<1>1. ASSUME NEW h \in Handlers, Add(h) PROVE Reserved(g)'
  <2>1. handler'[g] = IF g = h THEN Idle ELSE handler[g]
    BY <1>1, Zenon DEF Add, Finish, Becomes, IInv, InstancesTypeOK
  <2>2. h \in Creators
    BY <1>1 DEF IInv, HandlersOK, Add, At
  <2>3. g # h => handler[g].pc \notin {"port", "overlay6", "add"}
    BY <2>2 DEF IInv, HandlersOK
  <2>4. handler'[g].pc \notin {"port", "overlay6", "add"}
    BY <2>1, <2>3, IdleOK
  <2>. QED  BY <2>4, Zenon DEF Reserved
<1>2. ASSUME NEW h \in Handlers, NEW id \in InstanceIds, ActivateInstance(h, id)
      PROVE  Reserved(g)'
  <2>1. Exists(mem, id) /\ mem' = [mem EXCEPT ![id].activated = TRUE]
    BY <1>2 DEF ActivateInstance, Saved, SaveFailed
  <2>2. Within(mem', mem)
    BY <2>1, Shrunk, Zenon
  <2>3. At(h, "idle") /\ (Becomes(h, Serving("get", id, NoPort)) \/ UNCHANGED handler)
    BY <1>2 DEF ActivateInstance
  <2>4. handler[h] \in Local /\ (handler' = handler => handler' = [handler EXCEPT ![h] = handler[h]])
    BY DEF IInv, InstancesTypeOK
  <2>5. Serving("get", id, NoPort).pc = "get"
    BY DEF Serving
  <2>. QED  BY <2>2, <2>3, <2>4, <2>5, LetsGo DEF Becomes, At
<1>3. ASSUME NEW h \in Handlers, Remove(h) PROVE Reserved(g)'
  <2>1. Within(mem', mem)
    <3>1. CASE UNCHANGED mem
      BY <3>1 DEF Within
    <3>2. CASE Exists(mem, handler[h].id) /\ mem' = [mem EXCEPT ![handler[h].id] = None]
      <4>1. handler[h].id \in InstanceIds
        BY <1>3 DEF IInv, HandlersOK, Remove, At
      <4>. QED  BY <3>2, <4>1, Shrunk, Zenon
    <3>. QED  BY <1>3, <3>1, <3>2 DEF Remove, Update, Saved, SaveFailed
  <2>. QED  BY <1>3, <2>1, IdleOK, LetsGo, Zenon DEF Remove, Finish, Becomes
<1>4. ASSUME NEW h \in Handlers,
             \/ ActivateGet(h) \/ ActivateStop(h) \/ ActivateStart(h)
             \/ (\E id \in InstanceIds : Delete(h, id)) \/ DeleteStop(h)
      PROVE  Reserved(g)'
  <2>1. Within(mem', mem)
    BY <1>4, Zenon DEF Within, ActivateGet, ActivateStop, ActivateStart, Delete, DeleteStop
  <2>2. \/ Finish(h)
        \/ \E id, port : \/ Becomes(h, Serving("stop", id, port))
                         \/ Becomes(h, Serving("start", id, port))
                         \/ Becomes(h, Serving("end", id, port))
                         \/ Becomes(h, Serving("remove", id, port))
    BY <1>4, Zenon DEF ActivateGet, ActivateStop, ActivateStart, Delete, DeleteStop
  <2>3. \A pc, id, port : Serving(pc, id, port).pc = pc
    BY DEF Serving
  <2>4. PICK l : Becomes(h, l) /\ l.pc \notin {"port", "overlay6", "add"}
    BY <2>2, <2>3, IdleOK DEF Finish
  <2>. QED  BY <2>1, <2>4, LetsGo, Zenon DEF Becomes
<1>5. CASE Restart
  <2>1. handler'[g].pc = "idle"
    BY <1>5, IdleOK, Zenon DEF Restart
  <2>. QED  BY <2>1 DEF Reserved
<1>6. CASE SaveElsewhere \/ UNCHANGED vars
  <2>1. UsedOverlays' = UsedOverlays /\ UsedPorts' = UsedPorts /\ UsedOverlays6' = UsedOverlays6
    BY <1>6 DEF SaveElsewhere, vars, UsedOverlays, UsedPorts, UsedOverlays6
  <2>2. handler' = handler
    BY <1>6 DEF SaveElsewhere, vars
  <2>. QED  BY <2>1, <2>2 DEF RInv, Reserved
<1>. QED  BY <1>1, <1>2, <1>3, <1>4, <1>5, <1>6, PicksAreFree DEF Next, HandlerStep

LEMMA RInvStep ==
  ASSUME \A a, b \in Creators : a = b, IInv, RInv, [Next]_vars
  PROVE  RInv'
<1>1. \A g \in Handlers : Reserved(g)'
  BY ReservedStep
<1>2. StepOK
  BY NextStep
<1>3. CASE StoreShrinks
  <2>1. PortsApart(mem') /\ OverlaysApart(mem')
    BY <1>3, WithinApart DEF RInv, StoreShrinks
  <2>. QED  BY <1>1, <1>3, <2>1 DEF RInv, StoreShrinks
<1>4. CASE \E h \in Handlers : Adds(h)
  <2>1. PICK h \in Handlers, id \in InstanceIds :
          At(h, "add") /\ Update([mem EXCEPT ![id] = Built(h)])
    BY <1>4, Zenon DEF Adds
  <2>. DEFINE b == Built(h)
              new == [mem EXCEPT ![id] = b]
  <2>2. /\ \A other \in Existing(mem) : mem[other].port # b.port /\ mem[other].overlay # b.overlay
        /\ b.overlay6 = NoSubnet \/ \A other \in Existing(mem) : mem[other].overlay6 # b.overlay6
    BY <2>1, Zenon DEF RInv, Reserved, At, Built, UsedPorts, UsedOverlays, UsedOverlays6
  <2>. HIDE DEF b
  <2>3. mem \in [InstanceIds -> Instance \cup {None}]
    BY DEF IInv, InstancesTypeOK
  <2>4. PortsApart(new)
    BY <2>2, <2>3, Zenon DEF RInv, PortsApart, Existing, Exists
  <2>5. OverlaysApart(new)
    BY <2>2, <2>3 DEF RInv, OverlaysApart, Existing, Exists
  <2>6. mem' = new /\ (disk' = new \/ disk' = disk)
    BY <2>1 DEF Update, Saved, SaveFailed, b
  <2>. HIDE DEF new
  <2>. QED  BY <1>1, <2>4, <2>5, <2>6, Zenon DEF RInv
<1>. QED  BY <1>2, <1>3, <1>4 DEF StepOK

-----------------------------------------------------------------------------
(* Lighthouses.  A handler reads an instance, stops its lighthouse and      *)
(* starts or removes it in separate critical sections; what it read stays   *)
(* true in between when one request is served at a time.                    *)

\* What a handler that is at work on an instance relies on.
Attends(h) ==
  LET at == handler[h]
  IN  /\ at.pc \in {"idle", "port", "overlay6", "add"} => at.id = None
      /\ at.pc \in {"get", "stop", "start"} => Exists(mem, at.id)
      /\ at.pc \in {"stop", "start"} => at.port = mem[at.id].port
      /\ at.pc \in {"start", "remove"} => running[at.id] = NoPort

\* Identifiers are not used again, so a new instance finds no lighthouse.
BornBefore == Existing(mem) \subseteq born /\ Existing(disk) \subseteq born

OnOwnPort ==
  \A id \in InstanceIds : running[id] # NoPort => Exists(mem, id) /\ running[id] = mem[id].port

LInv == BornBefore /\ OnOwnPort /\ (\A h \in Handlers : Attends(h)) /\ ActivatedIsUp

LEMMA InitLInv == Init => LInv
<1>. SUFFICES ASSUME Init PROVE LInv
  OBVIOUS
<1>1. Existing(mem) = {} /\ disk = mem
  BY DEF Init, Existing, Exists
<1>2. OnOwnPort
  BY Zenon DEF Init, OnOwnPort
<1>3. \A h \in Handlers : Attends(h)
  BY DEF Init, Attends, Idle, Serving
<1>. QED  BY <1>1, <1>2, <1>3 DEF LInv, BornBefore, ActivatedIsUp

\* The one handler moves.
LEMMA OneMoves ==
  ASSUME \A a, b \in Handlers : a = b, IInv, NEW h \in Handlers, NEW l,
         handler' = [handler EXCEPT ![h] = l]
  PROVE  /\ handler'[h] = l
         /\ \A g \in Handlers : g = h
         /\ \A id : Busy(id) <=> handler[h].id = id
         /\ \A id : Busy(id)' <=> l.id = id
<1>1. handler'[h] = l
  BY DEF IInv, InstancesTypeOK
<1>2. \A g \in Handlers : g = h
  BY Zenon
<1>. QED  BY <1>1, <1>2, Zenon DEF Busy

\* A step that only moves the handler, from no instance.
LEMMA OnlyMoves ==
  ASSUME \A a, b \in Handlers : a = b, IInv, LInv, NEW h \in Handlers, NEW l,
         handler' = [handler EXCEPT ![h] = l], handler[h].id = None,
         l.pc \in {"idle", "port", "overlay6", "add", "end"},
         l.pc # "end" => l.id = None,
         UNCHANGED <<mem, disk, running, born, failed>>
  PROVE  LInv'
<1>1. /\ handler'[h] = l /\ (\A g \in Handlers : g = h)
      /\ \A id : Busy(id) <=> handler[h].id = id
  BY OneMoves, Zenon
<1>2. \A g \in Handlers : Attends(g)'
  BY <1>1 DEF Attends
<1>3. BornBefore' /\ OnOwnPort'
  BY Zenon DEF LInv, BornBefore, OnOwnPort, Existing, Exists
<1>4. ActivatedIsUp'
  <2>1. \A id \in Existing(mem) : ~Busy(id)
    BY <1>1, InstanceNoneAssumption, Zenon DEF Existing
  <2>2. Existing(mem)' = Existing(mem)
    BY Zenon DEF Existing, Exists
  <2>. QED  BY <2>1, <2>2, Zenon DEF LInv, ActivatedIsUp
<1>. QED  BY <1>2, <1>3, <1>4 DEF LInv

LEMMA CreateAttends ==
  ASSUME \A a, b \in Handlers : a = b, IInv, LInv, NEW h \in Handlers,
         \/ \E name \in Names : CreateInstance(h, name)
         \/ freePort(h) \/ CreateOverlay6(h)
         \/ \E id \in InstanceIds : Delete(h, id)
         \/ Add(h) /\ UNCHANGED <<mem, disk, born>>
  PROVE  LInv'
<1>1. UNCHANGED <<mem, disk, running, born, failed>>
  BY Zenon DEF CreateInstance, freePort, CreateOverlay6, Delete, Add
<1>2. handler[h].pc \in {"idle", "port", "overlay6", "add"}
  BY Zenon DEF CreateInstance, freePort, CreateOverlay6, Delete, Add, At
<1>3. handler[h].id = None
  BY <1>2, Zenon DEF LInv, Attends
<1>4. \/ Finish(h)
      \/ \E id : Becomes(h, Serving("end", id, NoPort))
      \/ \E name, overlay, overlay6, port :
            \/ Becomes(h, Creating("port", name, overlay, overlay6, port))
            \/ Becomes(h, Creating("overlay6", name, overlay, overlay6, port))
            \/ Becomes(h, Creating("add", name, overlay, overlay6, port))
  BY Zenon DEF CreateInstance, freePort, CreateOverlay6, Delete, Add
<1>5. /\ \A pc, name, overlay, overlay6, port :
            /\ Creating(pc, name, overlay, overlay6, port).pc = pc
            /\ Creating(pc, name, overlay, overlay6, port).id = None
      /\ \A pc, id, port : Serving(pc, id, port).pc = pc
      /\ Idle.pc = "idle" /\ Idle.id = None
  BY DEF Creating, Serving, Idle
<1>6. PICK l : /\ Becomes(h, l) /\ l.pc \in {"idle", "port", "overlay6", "add", "end"}
               /\ l.pc # "end" => l.id = None
  BY <1>4, <1>5 DEF Finish
<1>. QED  BY <1>1, <1>3, <1>6, OnlyMoves, Zenon DEF Becomes

LEMMA AddAttends ==
  ASSUME \A a, b \in Handlers : a = b, IInv, LInv, NEW h \in Handlers, Add(h),
         NEW id \in InstanceIds \ born, born' = born \cup {id},
         Update([mem EXCEPT ![id] = Built(h)])
  PROVE  LInv'
<1>. DEFINE b == Built(h)
<1>1. /\ Idle.pc = "idle" /\ Idle.id = None /\ b.activated = FALSE
  BY DEF Idle, Serving, Built
<1>2. b # None
  BY BuiltOK, InstanceNoneAssumption DEF Add
<1>3. handler' = [handler EXCEPT ![h] = Idle] /\ running' = running /\ failed' = failed
  BY Zenon DEF Add, Finish, Becomes
<1>4. mem' = [mem EXCEPT ![id] = b] /\ (disk' = mem' \/ disk' = disk)
  BY Zenon DEF Update, Saved, SaveFailed
<1>5. /\ mem \in [InstanceIds -> Instance \cup {None}]
      /\ handler[h].id = None /\ ~Exists(mem, id)
  BY Zenon DEF IInv, InstancesTypeOK, LInv, Attends, Add, At, BornBefore, Existing
<1>. HIDE DEF b
<1>6. /\ mem'[id] = b
      /\ \A i \in InstanceIds : i # id => mem'[i] = mem[i]
  BY <1>4, <1>5
<1>7. BornBefore'
  BY <1>4, <1>6, Zenon DEF LInv, BornBefore, Existing, Exists
<1>8. OnOwnPort'
  BY <1>3, <1>5, <1>6, Zenon DEF LInv, OnOwnPort, Exists
<1>9. /\ handler'[h] = Idle /\ (\A g \in Handlers : g = h)
      /\ \A i : Busy(i) <=> handler[h].id = i
  BY <1>3, OneMoves, Zenon
<1>10. \A g \in Handlers : Attends(g)'
  BY <1>1, <1>9 DEF Attends
<1>11. ActivatedIsUp'
  <2>. SUFFICES ASSUME NEW i \in InstanceIds, Exists(mem, i)', i \notin failed', mem'[i].activated
                PROVE  running'[i] = mem'[i].port
    BY Zenon DEF ActivatedIsUp, Existing
  <2>1. i # id
    BY <1>1, <1>6
  <2>2. ~Busy(i)
    BY <1>5, <1>9, InstanceNoneAssumption, Zenon
  <2>3. mem'[i] = mem[i] /\ i \in Existing(mem)
    BY <1>6, <2>1, Zenon DEF Exists, Existing
  <2>. QED  BY <1>3, <2>2, <2>3 DEF LInv, ActivatedIsUp
<1>. QED  BY <1>7, <1>8, <1>10, <1>11 DEF LInv

LEMMA ActivateInstanceAttends ==
  ASSUME \A a, b \in Handlers : a = b, IInv, LInv, NEW h \in Handlers,
         NEW id \in InstanceIds, ActivateInstance(h, id)
  PROVE  LInv'
<1>. DEFINE i == [mem[id] EXCEPT !.activated = TRUE]
            l == Serving("get", id, NoPort)
<1>1. /\ mem \in [InstanceIds -> Instance \cup {None}] /\ mem[id] \in Instance
      /\ handler \in [Handlers -> Local] /\ failed \subseteq InstanceIds
  BY DEF IInv, InstancesTypeOK, ActivateInstance, Exists
<1>2. i \in Instance /\ i.port = mem[id].port
  BY <1>1, Zenon DEF Instance
<1>3. i # None
  BY <1>2, InstanceNoneAssumption, Zenon
<1>4. l.pc = "get" /\ l.id = id
  BY DEF Serving
<1>5. /\ mem' = [mem EXCEPT ![id] = i] /\ (disk' = mem' \/ disk' = disk)
      /\ running' = running /\ born' = born
      /\ \/ handler' = [handler EXCEPT ![h] = l] /\ failed' = failed
         \/ handler' = handler /\ failed' = failed \cup {id}
  BY Zenon DEF ActivateInstance, Saved, SaveFailed, Becomes
<1>6. handler[h].pc = "idle" /\ handler[h].id = None
  BY DEF ActivateInstance, At, LInv, Attends
<1>. HIDE DEF i, l
<1>7. /\ mem'[id] = i
      /\ \A j \in InstanceIds : j # id => mem'[j] = mem[j]
  BY <1>1, <1>5
<1>8. \A j \in InstanceIds : Exists(mem, j)' <=> Exists(mem, j)
  BY <1>1, <1>3, <1>7, InstanceNoneAssumption DEF Exists
<1>9. BornBefore'
  BY <1>5, <1>8, Zenon DEF LInv, BornBefore, Existing, Exists
<1>10. OnOwnPort'
  BY <1>2, <1>5, <1>7, <1>8, Zenon DEF LInv, OnOwnPort
<1>11. \A g \in Handlers : g = h
  BY Zenon
<1>12. /\ \/ handler'[h] = l /\ failed' = failed
          \/ handler'[h] = handler[h] /\ failed' = failed \cup {id}
  BY <1>1, <1>5
<1>13. \A g \in Handlers : Attends(g)'
  BY <1>4, <1>6, <1>8, <1>11, <1>12 DEF Attends, ActivateInstance
<1>14. ActivatedIsUp'
  <2>. SUFFICES ASSUME NEW j \in InstanceIds, Exists(mem, j)', j \notin failed', mem'[j].activated,
                       handler'[h].id # j
                PROVE  running'[j] = mem'[j].port
    BY Zenon DEF ActivatedIsUp, Existing, Busy
  <2>1. j # id
    BY <1>4, <1>12
  <2>2. ~Busy(j)
    BY <1>6, <1>11, InstanceNoneAssumption, Zenon DEF Busy
  <2>3. mem'[j] = mem[j] /\ j \in Existing(mem) /\ j \notin failed
    BY <1>7, <1>8, <1>12, <2>1 DEF Existing
  <2>. QED  BY <1>5, <2>2, <2>3, Zenon DEF LInv, ActivatedIsUp
<1>. QED  BY <1>9, <1>10, <1>13, <1>14 DEF LInv

\* A step at one instance's lighthouse: the handler stays at the instance, or
\* it leaves it up, reported or gone.
LEMMA LighthouseMoves ==
  ASSUME \A a, b \in Handlers : a = b, IInv, LInv, NEW h \in Handlers, NEW l,
         handler' = [handler EXCEPT ![h] = l],
         NEW id \in InstanceIds, handler[h].id = id,
         mem' = mem, disk' = disk, born' = born,
         \A j \in InstanceIds : j # id => running'[j] = running[j] /\ (j \in failed' <=> j \in failed),
         running'[id] # NoPort => Exists(mem, id) /\ running'[id] = mem[id].port,
         l.id = id \/ id \in failed' \/ ~Exists(mem, id) \/ running'[id] = mem[id].port,
         Attends(h)'
  PROVE  LInv'
<1>1. /\ handler'[h] = l /\ (\A g \in Handlers : g = h)
      /\ \A i : Busy(i) <=> handler[h].id = i
      /\ \A i : Busy(i)' <=> l.id = i
  BY OneMoves, Zenon
<1>2. \A g \in Handlers : Attends(g)'
  BY <1>1, Zenon
<1>3. BornBefore'
  BY Zenon DEF LInv, BornBefore, Existing, Exists
<1>4. OnOwnPort'
  BY Zenon DEF LInv, OnOwnPort, Exists
<1>5. ActivatedIsUp'
  <2>. SUFFICES ASSUME NEW j \in InstanceIds, Exists(mem, j), j \notin failed', mem[j].activated,
                       ~Busy(j)'
                PROVE  running'[j] = mem[j].port
    BY Zenon DEF ActivatedIsUp, Existing, Exists
  <2>1. CASE j = id
    BY <1>1, <2>1, Zenon
  <2>2. CASE j # id
    <3>1. ~Busy(j) /\ j \notin failed /\ running'[j] = running[j]
      BY <1>1, <2>2, Zenon
    <3>. QED  BY <3>1, Zenon DEF LInv, ActivatedIsUp, Existing
  <2>. QED  BY <2>1, <2>2
<1>. QED  BY <1>2, <1>3, <1>4, <1>5 DEF LInv

LEMMA ActivateRestAttends ==
  ASSUME \A a, b \in Handlers : a = b, IInv, RInv, LInv, NEW h \in Handlers,
         ActivateGet(h) \/ ActivateStop(h) \/ ActivateStart(h) \/ DeleteStop(h)
  PROVE  LInv'
<1>. DEFINE at == handler[h]
            id == at.id
<1>0. /\ id \in InstanceIds /\ Attends(h) /\ mem' = mem /\ disk' = disk /\ born' = born
      /\ handler \in [Handlers -> Local] /\ running \in [InstanceIds -> Ports \cup {NoPort}]
  BY Zenon DEF IInv, HandlersOK, InstancesTypeOK, LInv, ActivateGet, ActivateStop, ActivateStart,
         DeleteStop, At
<1>1. /\ \A pc, i, port : /\ Serving(pc, i, port).pc = pc
                          /\ Serving(pc, i, port).id = i
                          /\ Serving(pc, i, port).port = port
      /\ Idle.pc = "idle" /\ Idle.id = None
  BY DEF Serving, Idle
<1>2. \A l : handler' = [handler EXCEPT ![h] = l] => handler'[h] = l
  BY <1>0
<1>3. CASE ActivateGet(h)
  <2>. DEFINE l == Serving("stop", id, mem[id].port)
  <2>1. Exists(mem, id)
    BY <1>0, <1>3, Zenon DEF ActivateGet, Attends, At
  <2>2. handler' = [handler EXCEPT ![h] = l] /\ running' = running /\ failed' = failed
    BY <1>3, <2>1, Zenon DEF ActivateGet, Becomes
  <2>3. l.pc = "stop" /\ l.id = id /\ l.port = mem[id].port
    BY Zenon DEF Serving
  <2>. HIDE DEF l
  <2>4. Attends(h)'
    BY <1>0, <1>2, <2>1, <2>2, <2>3 DEF Attends, Exists
  <2>. QED  BY <1>0, <2>2, <2>3, <2>4, LighthouseMoves, Zenon DEF LInv, OnOwnPort
<1>4. CASE ActivateStop(h)
  <2>. DEFINE l == Serving("start", id, at.port)
  <2>1. Exists(mem, id) /\ at.port = mem[id].port
    BY <1>0, <1>4, Zenon DEF ActivateStop, Attends, At
  <2>2. /\ handler' = [handler EXCEPT ![h] = l] /\ failed' = failed
        /\ running' = [running EXCEPT ![id] = NoPort]
    BY <1>4, Zenon DEF ActivateStop, Becomes
  <2>3. l.pc = "start" /\ l.id = id /\ l.port = at.port
    BY Zenon DEF Serving
  <2>. HIDE DEF l
  <2>4. running'[id] = NoPort /\ \A j \in InstanceIds : j # id => running'[j] = running[j]
    BY <1>0, <2>2
  <2>5. Attends(h)'
    BY <1>0, <1>2, <2>1, <2>2, <2>3, <2>4, Zenon DEF Attends, Exists
  <2>. QED  BY <1>0, <2>2, <2>3, <2>4, <2>5, LighthouseMoves, Zenon
<1>5. CASE DeleteStop(h)
  <2>. DEFINE l == Serving("remove", id, NoPort)
  <2>2. /\ handler' = [handler EXCEPT ![h] = l] /\ failed' = failed
        /\ running' = [running EXCEPT ![id] = NoPort]
    BY <1>5, Zenon DEF DeleteStop, Becomes
  <2>3. l.pc = "remove" /\ l.id = id
    BY <1>1
  <2>. HIDE DEF l
  <2>4. running'[id] = NoPort /\ \A j \in InstanceIds : j # id => running'[j] = running[j]
    BY <1>0, <2>2
  <2>5. Attends(h)'
    BY <1>2, <2>2, <2>3, <2>4, Zenon DEF Attends
  <2>. QED  BY <1>0, <2>2, <2>3, <2>4, <2>5, LighthouseMoves, Zenon
<1>6. CASE ActivateStart(h)
  <2>1. /\ handler' = [handler EXCEPT ![h] = Idle]
        /\ \/ running[id] # NoPort
           \/ ~Bound(at.port) /\ running' = [running EXCEPT ![id] = at.port] /\ failed' = failed \ {id}
           \/ Bound(at.port)
           \/ running' = running /\ failed' = failed \cup {id}
    BY <1>6, Zenon DEF ActivateStart, Finish, Becomes
  <2>2. Exists(mem, id) /\ at.port = mem[id].port /\ running[id] = NoPort
    BY <1>0, <1>6, Zenon DEF ActivateStart, Attends, At
  <2>3. ~Bound(at.port)
    <3>. SUFFICES ASSUME NEW j \in InstanceIds, running[j] = mem[id].port PROVE FALSE
      BY <2>2, Zenon DEF Bound
    <3>1. mem[id].port # NoPort
      BY <1>0, <2>2, PortsAssumption DEF IInv, InstancesTypeOK, Exists, Instance, Ports, NoPort
    <3>2. Exists(mem, j) /\ mem[j].port = mem[id].port
      BY <3>1, Zenon DEF LInv, OnOwnPort
    <3>3. j = id
      BY <1>0, <2>2, <3>2, Zenon DEF RInv, PortsApart, Existing
    <3>. QED  BY <2>2, <3>1, <3>3
  <2>4. /\ \A j \in InstanceIds : j # id => running'[j] = running[j] /\ (j \in failed' <=> j \in failed)
        /\ \/ running'[id] = mem[id].port
           \/ running'[id] = NoPort /\ id \in failed'
    BY <1>0, <2>1, <2>2, <2>3, Zenon
  <2>5. Attends(h)'
    BY <1>1, <1>2, <2>1, Zenon DEF Attends
  <2>. QED  BY <1>0, <2>1, <2>2, <2>4, <2>5, LighthouseMoves, Zenon
<1>. QED  BY <1>3, <1>4, <1>5, <1>6, Zenon

LEMMA RemoveAttends ==
  ASSUME \A a, b \in Handlers : a = b, IInv, LInv, NEW h \in Handlers, Remove(h)
  PROVE  LInv'
<1>. DEFINE id == handler[h].id
<1>0. /\ id \in InstanceIds /\ running[id] = NoPort
      /\ mem \in [InstanceIds -> Instance \cup {None}]
  BY Zenon DEF IInv, HandlersOK, InstancesTypeOK, LInv, Attends, Remove, At
<1>1. /\ handler' = [handler EXCEPT ![h] = Idle]
      /\ running' = running /\ born' = born /\ failed' = failed
      /\ \/ mem' = [mem EXCEPT ![id] = None] /\ (disk' = mem' \/ disk' = disk)
         \/ ~Exists(mem, id) /\ mem' = mem /\ disk' = disk
  BY Zenon DEF Remove, Finish, Becomes, Update, Saved, SaveFailed
<1>2. Idle.pc = "idle" /\ Idle.id = None
  BY DEF Idle, Serving
<1>3. /\ handler'[h] = Idle /\ (\A g \in Handlers : g = h)
      /\ \A i : Busy(i) <=> handler[h].id = i
  BY <1>1, OneMoves, Zenon
<1>4. /\ ~Exists(mem', id)
      /\ \A j \in InstanceIds : j # id => mem'[j] = mem[j]
  BY <1>0, <1>1 DEF Exists
<1>5. BornBefore'
  BY <1>1, <1>4, Zenon DEF LInv, BornBefore, Existing, Exists
<1>6. OnOwnPort'
  BY <1>0, <1>1, <1>4, Zenon DEF LInv, OnOwnPort, Exists
<1>7. \A g \in Handlers : Attends(g)'
  BY <1>2, <1>3 DEF Attends
<1>8. ActivatedIsUp'
  <2>. SUFFICES ASSUME NEW j \in InstanceIds, Exists(mem, j)', j \notin failed', mem'[j].activated
                PROVE  running'[j] = mem'[j].port
    BY Zenon DEF ActivatedIsUp, Existing
  <2>1. j # id /\ mem'[j] = mem[j] /\ Exists(mem, j)
    BY <1>4 DEF Exists
  <2>. QED  BY <1>1, <1>3, <2>1, Zenon DEF LInv, ActivatedIsUp, Existing
<1>. QED  BY <1>5, <1>6, <1>7, <1>8 DEF LInv

\* New starts every lighthouse it can, and no two instances of the file want
\* one port.
LEMMA RestartAttends ==
  ASSUME IInv, RInv, LInv, Restart
  PROVE  LInv'
<1>1. /\ handler' = [h \in Handlers |-> Idle] /\ mem' = disk /\ disk' = disk /\ born' = born
  BY Zenon DEF Restart
<1>2. PICK up \in Startable(disk) :
        /\ running' = [id \in InstanceIds |-> IF id \in up THEN disk[id].port ELSE NoPort]
        /\ failed' = IF "lighthouse" \in Faults THEN Existing(disk) \ up ELSE {}
  BY Zenon DEF Restart
<1>. DEFINE active == {id \in Existing(disk) : disk[id].activated}
<1>3. /\ up \subseteq active
      /\ "lighthouse" \in Faults \/ \A i \in active \ up : \E j \in up : disk[i].port = disk[j].port
  BY Zenon DEF Startable
<1>4. BornBefore'
  BY <1>1, Zenon DEF LInv, BornBefore, Existing, Exists
<1>5. OnOwnPort'
  BY <1>1, <1>2, <1>3, Zenon DEF OnOwnPort, Existing, Exists
<1>6. \A g \in Handlers : Attends(g)'
  <2>1. Idle.pc = "idle" /\ Idle.id = None
    BY DEF Idle, Serving
  <2>. QED  BY <1>1, <2>1 DEF Attends
<1>7. ActivatedIsUp'
  <2>. SUFFICES ASSUME NEW i \in Existing(disk), i \notin failed', disk[i].activated
                PROVE  running'[i] = disk[i].port
    BY <1>1, Zenon DEF ActivatedIsUp, Existing, Exists
  <2>1. i \in up
    <3>1. CASE "lighthouse" \in Faults
      BY <1>2, <3>1
    <3>2. CASE \A k \in active \ up : \E j \in up : disk[k].port = disk[j].port
      <4>. SUFFICES ASSUME i \notin up PROVE FALSE
        OBVIOUS
      <4>1. PICK j \in up : disk[i].port = disk[j].port
        BY <3>2, Zenon
      <4>. QED  BY <1>3, <4>1, Zenon DEF RInv, PortsApart
    <3>. QED  BY <1>3, <3>1, <3>2
  <2>. QED  BY <1>2, <2>1, Zenon DEF Existing
<1>. QED  BY <1>4, <1>5, <1>6, <1>7 DEF LInv

LEMMA LInvStep ==
  ASSUME \A a, b \in Handlers : a = b, IInv, RInv, LInv, [Next]_vars
  PROVE  LInv'
<1>1. CASE SaveElsewhere \/ UNCHANGED vars
  <2>1. /\ mem' = mem /\ running' = running /\ handler' = handler /\ born' = born
        /\ failed' = failed /\ (disk' = mem \/ disk' = disk)
    BY <1>1, Zenon DEF SaveElsewhere, vars
  <2>2. BornBefore'
    BY <2>1, Zenon DEF LInv, BornBefore, Existing, Exists
  <2>3. OnOwnPort' /\ ActivatedIsUp' /\ \A h \in Handlers : Attends(h)'
    BY <2>1, Zenon DEF LInv, OnOwnPort, ActivatedIsUp, Attends, Busy, Existing, Exists
  <2>. QED  BY <2>2, <2>3 DEF LInv
<1>2. ASSUME NEW h \in Handlers, Add(h) PROVE LInv'
  <2>1. CASE UNCHANGED <<mem, disk, born>>
    BY <1>2, <2>1, CreateAttends, Zenon
  <2>2. CASE \E id \in InstanceIds \ born :
               born' = born \cup {id} /\ Update([mem EXCEPT ![id] = Built(h)])
    BY <1>2, <2>2, AddAttends, Zenon
  <2>. QED  BY <1>2, <2>1, <2>2, Zenon DEF Add
<1>3. ASSUME NEW h \in Handlers, HandlerStep(h) PROVE LInv'
  BY <1>2, <1>3, CreateAttends, ActivateInstanceAttends, ActivateRestAttends, RemoveAttends, Zenon
     DEF HandlerStep
<1>. QED  BY <1>1, <1>3, RestartAttends, Zenon DEF Next

-----------------------------------------------------------------------------
\* The hub's instances, handlers and lighthouses keep their shape through
\* every interleaving, failed save and restart.
THEOREM InstancesTypeCorrect == Spec => []InstancesTypeOK
<1>1. IInv => InstancesTypeOK
  BY DEF IInv
<1>. QED  BY <1>1, Invariance, PTL

\* No two instances have one name (Store.Add), however many handlers create
\* at once.
THEOREM InstanceNamesStayUnique == Spec => []InstanceNamesUnique
<1>1. IInv => InstanceNamesUnique
  BY DEF IInv, InstanceNamesUnique
<1>. QED  BY <1>1, Invariance, PTL

\* With one CreateInstance at a time no port is reserved twice (freePort),
\* whatever is activated, deleted or lost meanwhile.
THEOREM PortsStayDistinct ==
  ASSUME \A a, b \in Creators : a = b
  PROVE  Spec => []PortsDistinct
<1>1. IInv /\ RInv /\ [Next]_vars => RInv'
  BY RInvStep
<1>2. RInv => PortsDistinct
  BY DEF RInv, PortsDistinct
<1>. QED  BY <1>1, <1>2, InitRInv, Invariance, PTL DEF Spec

\* Under the same condition no overlay of either family is (CreateInstance,
\* allocateOverlay).
THEOREM OverlaysStayDistinct ==
  ASSUME \A a, b \in Creators : a = b
  PROVE  Spec => []OverlaysDistinct
<1>1. IInv /\ RInv /\ [Next]_vars => RInv'
  BY RInvStep
<1>2. RInv => OverlaysDistinct
  BY DEF RInv, OverlaysDistinct
<1>. QED  BY <1>1, <1>2, InitRInv, Invariance, PTL DEF Spec

\* While the hub serves one request at a time, a lighthouse that runs is that
\* of an instance it knows (Delete, ActivateInstance, New).
THEOREM LighthousesStayOwned ==
  ASSUME \A a, b \in Handlers : a = b
  PROVE  Spec => []NoOrphanLighthouse
<1>1. \A a, b \in Creators : a = b
  BY CreatorsAssumption
<1>2. IInv /\ RInv /\ [Next]_vars => RInv'
  BY <1>1, RInvStep
<1>3. IInv /\ RInv /\ LInv /\ [Next]_vars => LInv'
  BY LInvStep
<1>4. LInv => NoOrphanLighthouse
  BY DEF LInv, OnOwnPort, NoOrphanLighthouse
<1>. QED  BY <1>2, <1>3, <1>4, InitRInv, InitLInv, Invariance, PTL DEF Spec

\* Under the same condition an instance that has its certificates has its
\* lighthouse, on its own port, unless the one request is at it or a failure
\* was reported (ActivateInstance, New).
THEOREM ActivatedStayUp ==
  ASSUME \A a, b \in Handlers : a = b
  PROVE  Spec => []ActivatedIsUp
<1>1. \A a, b \in Creators : a = b
  BY CreatorsAssumption
<1>2. IInv /\ RInv /\ [Next]_vars => RInv'
  BY <1>1, RInvStep
<1>3. IInv /\ RInv /\ LInv /\ [Next]_vars => LInv'
  BY LInvStep
<1>4. LInv => ActivatedIsUp
  BY DEF LInv
<1>. QED  BY <1>2, <1>3, <1>4, InitRInv, InitLInv, Invariance, PTL DEF Spec
===============================================================================
