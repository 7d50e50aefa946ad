------------------------------ MODULE Instances ------------------------------
(***************************************************************************)
(* All the instances of one hub: what CreateInstance reserves for each (a  *)
(* name, an overlay of either family, a UDP port), and the lighthouses     *)
(* that ActivateInstance, Delete and a restart start and stop.             *)
(*                                                                         *)
(* A handler runs concurrently with the others and takes the store's lock  *)
(* or the lighthouse table's once per step.  CreateInstance reads which    *)
(* overlays and which ports are taken in three separate critical sections  *)
(* and adds the instance in a fourth.                                      *)
(***************************************************************************)
EXTENDS Integers, FiniteSets

CONSTANTS
  InstanceIds,  \* identifiers newID may draw; bounds the instances created
  Names,        \* names an instance may be given
  PortMin, PortMax,
  Subnets4,     \* subnets the IPv4 pools hold, in the order they are handed out
  Subnets6,     \* the same for IPv6; 0 when the hub has no IPv6 pool
  Handlers,     \* requests the hub may be serving at one time
  Creators,     \* those of them that may create an instance
  Faults,       \* what may fail: "save", "lighthouse"
  None

NoPort == 0
NoSubnet == 0
Ports == PortMin .. PortMax

ASSUME PortsAssumption == PortMin \in Nat \ {0} /\ PortMax \in Nat /\ PortMin <= PortMax
ASSUME SubnetsAssumption == Subnets4 \in Nat /\ Subnets6 \in Nat
ASSUME CreatorsAssumption == Creators \subseteq Handlers
ASSUME InstanceFaultsAssumption == Faults \subseteq {"save", "lighthouse"}

Instance == [name: Names, overlay: 1 .. Subnets4, overlay6: 0 .. Subnets6,
             port: Ports, activated: BOOLEAN]

\* What a handler remembers between two critical sections.
Local == [pc: {"idle", "port", "overlay6", "add", "get", "stop", "start", "end", "remove"},
          id: InstanceIds \cup {None}, name: Names \cup {None},
          overlay: 0 .. Subnets4, overlay6: 0 .. Subnets6, port: Ports \cup {NoPort}]

ASSUME InstanceNoneAssumption == None \notin Instance /\ None \notin InstanceIds

VARIABLES
  mem,       \* the instances in memory
  disk,      \* the instances in the state file
  running,   \* the port each running lighthouse is bound to
  handler,   \* where every request is
  born,      \* identifiers newID has drawn
  failed     \* history: instances whose last activation reported a failure

vars == <<mem, disk, running, handler, born, failed>>

-----------------------------------------------------------------------------
Exists(insts, id) == insts[id] # None
Existing(insts) == {id \in InstanceIds : Exists(insts, id)}

\* Wrong on purpose: an instance without certificates reserves nothing.
UsedPortsOfActivated == {mem[id].port : id \in {i \in Existing(mem) : mem[i].activated}}
UsedPorts == {mem[id].port : id \in Existing(mem)}
UsedOverlays == {mem[id].overlay : id \in Existing(mem)}
UsedOverlays6 == {mem[id].overlay6 : id \in Existing(mem)}

Lowest(free) == CHOOSE a \in free : \A b \in free : a <= b

\* A handler that creates an instance, with what it has picked so far, and
\* one that is at work on an instance there is.
Creating(pc, name, overlay, overlay6, port) ==
  [pc |-> pc, id |-> None, name |-> name, overlay |-> overlay, overlay6 |-> overlay6, port |-> port]
Serving(pc, id, port) ==
  [pc |-> pc, id |-> id, name |-> None, overlay |-> NoSubnet, overlay6 |-> NoSubnet, port |-> port]
Idle == Serving("idle", None, NoPort)

At(h, pc) == handler[h].pc = pc
Becomes(h, local) == handler' = [handler EXCEPT ![h] = local]
Finish(h) == Becomes(h, Idle)

Saved(new) == mem' = new /\ disk' = new
SaveFailed(new) == "save" \in Faults /\ mem' = new /\ UNCHANGED disk
Update(new) == Saved(new) \/ SaveFailed(new)

-----------------------------------------------------------------------------
(* CreateInstance, one step for each time it takes the store's lock.       *)

\* The lowest free overlay; a hub whose pools are full refuses.
CreateInstance(h, name) ==
  /\ At(h, "idle") /\ h \in Creators
  /\ LET free == (1 .. Subnets4) \ UsedOverlays
     IN  /\ free # {}
         /\ Becomes(h, Creating("port", name, Lowest(free), NoSubnet, NoPort))
  /\ UNCHANGED <<mem, disk, running, born, failed>>

freePort(h) ==
  /\ At(h, "port")
  /\ LET free == Ports \ UsedPorts
     IN  \/ /\ free # {}
            /\ Becomes(h, Creating("overlay6", handler[h].name, handler[h].overlay,
                                   NoSubnet, Lowest(free)))
         \/ free = {} /\ Finish(h)
  /\ UNCHANGED <<mem, disk, running, born, failed>>

CreateOverlay6(h) ==
  /\ At(h, "overlay6")
  /\ LET free == (1 .. Subnets6) \ UsedOverlays6
         with(subnet) == Creating("add", handler[h].name, handler[h].overlay, subnet, handler[h].port)
     IN  \/ Subnets6 = 0 /\ Becomes(h, with(NoSubnet))
         \/ Subnets6 > 0 /\ free # {} /\ Becomes(h, with(Lowest(free)))
         \/ Subnets6 > 0 /\ free = {} /\ Finish(h)
  /\ UNCHANGED <<mem, disk, running, born, failed>>

\* The instance a creating handler has put together.
Built(h) == [name |-> handler[h].name, overlay |-> handler[h].overlay,
             overlay6 |-> handler[h].overlay6, port |-> handler[h].port,
             activated |-> FALSE]

\* The name is checked where the instance is added; a name that is taken is
\* an error, and what was picked is dropped.
Add(h) ==
  /\ At(h, "add")
  /\ Finish(h)
  /\ IF \E other \in Existing(mem) : mem[other].name = handler[h].name
     THEN UNCHANGED <<mem, disk, born>>
     ELSE \E id \in InstanceIds \ born :
            /\ born' = born \cup {id}
            /\ Update([mem EXCEPT ![id] = Built(h)])
  /\ UNCHANGED <<running, failed>>

-----------------------------------------------------------------------------
(* ActivateInstance: the certificates are stored, the instance is read     *)
(* again, its lighthouse is stopped and started.                           *)

ActivateInstance(h, id) ==
  /\ At(h, "idle") /\ Exists(mem, id)
  /\ LET new == [mem EXCEPT ![id].activated = TRUE]
     IN  \/ /\ Saved(new)
            /\ Becomes(h, Serving("get", id, NoPort))
            /\ UNCHANGED failed
         \/ SaveFailed(new) /\ failed' = failed \cup {id} /\ UNCHANGED handler
  /\ UNCHANGED <<running, born>>

ActivateGet(h) ==
  /\ At(h, "get")
  /\ LET id == handler[h].id
     IN  IF Exists(mem, id)
         THEN Becomes(h, Serving("stop", id, mem[id].port))
         ELSE Finish(h)
  /\ UNCHANGED <<mem, disk, running, born, failed>>

ActivateStop(h) ==
  /\ At(h, "stop")
  /\ Becomes(h, Serving("start", handler[h].id, handler[h].port))
  /\ running' = [running EXCEPT ![handler[h].id] = NoPort]
  /\ UNCHANGED <<mem, disk, born, failed>>

\* A port is bound by one socket, and the device is named after it.
Bound(port) == \E id \in InstanceIds : running[id] = port

ActivateStart(h) ==
  LET id == handler[h].id
      port == handler[h].port
  IN  /\ At(h, "start")
      /\ Finish(h)
      /\ \/ running[id] # NoPort /\ UNCHANGED <<running, failed>>
         \/ /\ running[id] = NoPort /\ ~Bound(port)
            /\ running' = [running EXCEPT ![id] = port]
            /\ failed' = failed \ {id}
         \/ running[id] = NoPort /\ Bound(port) /\ UNCHANGED <<running, failed>>
         \/ /\ running[id] = NoPort /\ "lighthouse" \in Faults
            /\ failed' = failed \cup {id} /\ UNCHANGED running
      /\ UNCHANGED <<mem, disk, born>>

-----------------------------------------------------------------------------
(* Delete: read, stop the lighthouse, remove.                              *)

Delete(h, id) ==
  /\ At(h, "idle") /\ Exists(mem, id)
  /\ Becomes(h, Serving("end", id, NoPort))
  /\ UNCHANGED <<mem, disk, running, born, failed>>

\* Wrong on purpose: the lighthouse is left running.
DeleteStopNothing(h) ==
  /\ At(h, "end")
  /\ Becomes(h, Serving("remove", handler[h].id, NoPort))
  /\ UNCHANGED <<mem, disk, running, born, failed>>

DeleteStop(h) ==
  /\ At(h, "end")
  /\ Becomes(h, Serving("remove", handler[h].id, NoPort))
  /\ running' = [running EXCEPT ![handler[h].id] = NoPort]
  /\ UNCHANGED <<mem, disk, born, failed>>

Remove(h) ==
  LET id == handler[h].id
  IN  /\ At(h, "remove")
      /\ Finish(h)
      /\ \/ Exists(mem, id) /\ Update([mem EXCEPT ![id] = None])
         \/ ~Exists(mem, id) /\ UNCHANGED <<mem, disk>>
      /\ UNCHANGED <<running, born, failed>>

-----------------------------------------------------------------------------
\* The instances New may bring up: each one it tries finds its port bound by
\* an earlier one, or starts, or fails.
Startable(insts) ==
  LET active == {id \in Existing(insts) : insts[id].activated}
      clash(i, j) == insts[i].port = insts[j].port
  IN  {up \in SUBSET active :
         /\ \A i, j \in up : i # j => ~clash(i, j)
         /\ "lighthouse" \in Faults \/ \A i \in active \ up : \E j \in up : clash(i, j)}

\* Wrong on purpose: no lighthouse is brought up.
RestartWithoutStarting ==
  /\ mem' = disk /\ UNCHANGED <<disk, born>>
  /\ handler' = [h \in Handlers |-> Idle]
  /\ running' = [id \in InstanceIds |-> NoPort]
  /\ failed' = {}

\* The hub stops, whatever its handlers are doing, and starts from the file.
Restart ==
  /\ mem' = disk /\ UNCHANGED <<disk, born>>
  /\ handler' = [h \in Handlers |-> Idle]
  /\ \E up \in Startable(disk) :
       /\ running' = [id \in InstanceIds |-> IF id \in up THEN disk[id].port ELSE NoPort]
       /\ failed' = IF "lighthouse" \in Faults THEN Existing(disk) \ up ELSE {}

\* Any other handler's save writes the whole file.
SaveElsewhere == disk' = mem /\ UNCHANGED <<mem, running, handler, born, failed>>

-----------------------------------------------------------------------------
Init ==
  /\ mem = [id \in InstanceIds |-> None] /\ disk = mem
  /\ running = [id \in InstanceIds |-> NoPort]
  /\ handler = [h \in Handlers |-> Idle]
  /\ born = {} /\ failed = {}

HandlerStep(h) ==
  \/ \E name \in Names : CreateInstance(h, name)
  \/ freePort(h) \/ CreateOverlay6(h) \/ Add(h)
  \/ \E id \in InstanceIds : ActivateInstance(h, id) \/ Delete(h, id)
  \/ ActivateGet(h) \/ ActivateStop(h) \/ ActivateStart(h)
  \/ DeleteStop(h) \/ Remove(h)

Next == (\E h \in Handlers : HandlerStep(h)) \/ Restart \/ SaveElsewhere

Spec == Init /\ [][Next]_vars
-----------------------------------------------------------------------------
(* Properties.                                                             *)

\* Every variable holds what the code keeps in it.
InstancesTypeOK ==
  /\ mem \in [InstanceIds -> Instance \cup {None}]
  /\ disk \in [InstanceIds -> Instance \cup {None}]
  /\ running \in [InstanceIds -> Ports \cup {NoPort}]
  /\ handler \in [Handlers -> Local]
  /\ born \subseteq InstanceIds /\ failed \subseteq InstanceIds

NamesApart(insts) ==
  \A i, j \in Existing(insts) : insts[i].name = insts[j].name => i = j

PortsApart(insts) ==
  \A i, j \in Existing(insts) : insts[i].port = insts[j].port => i = j

OverlaysApart(insts) ==
  \A i, j \in Existing(insts) :
    \/ insts[i].overlay = insts[j].overlay
    \/ insts[i].overlay6 # NoSubnet /\ insts[i].overlay6 = insts[j].overlay6
    => i = j

\* "Names are unique on a hub ... so two creates at once cannot both pass"
\* (Store.Add), in memory and in the file, with saves that fail and restarts.
InstanceNamesUnique == NamesApart(mem) /\ NamesApart(disk)

\* "A port is unique on this hub by construction" (lighthouseDevice, freePort).
PortsDistinct == PortsApart(mem) /\ PortsApart(disk)

\* No two instances are given one prefix (allocateOverlay, CreateInstance).
OverlaysDistinct == OverlaysApart(mem) /\ OverlaysApart(disk)

\* "Delete removes an instance: its lighthouse stops, its addresses and its
\* port go back to the pool" (Delete): a lighthouse that runs is that of an
\* instance the hub knows.
NoOrphanLighthouse == \A id \in InstanceIds : running[id] # NoPort => Exists(mem, id)

Busy(id) == \E h \in Handlers : handler[h].id = id

\* An instance that has its certificates has its lighthouse (ActivateInstance,
\* New), on the port its members were told, unless a handler is at it or a
\* failure was reported: no other instance keeps it from its port.
ActivatedIsUp ==
  \A id \in Existing(mem) \ failed :
    mem[id].activated /\ ~Busy(id) => running[id] = mem[id].port
==============================================================================
