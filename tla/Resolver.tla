------------------------------ MODULE Resolver ------------------------------
(***************************************************************************)
(* robinet dns install and remove.  The daemon reads from the hub which    *)
(* names go to which connection, and answers with a plan; the command, as  *)
(* root, applies it: a file for every device, from which networkd          *)
(* configures a link whenever one appears, and resolvectl for the link     *)
(* that is there now.  Two commands may run at once, each step of one may  *)
(* fail, and links, connections and the hub's tables change meanwhile.     *)
(***************************************************************************)
EXTENDS Naturals, FiniteSets

CONSTANTS
  Conns,        \* instances this machine may be connected to
  Devices,      \* device numbers, the lowest free one is used
  Commands,     \* commands that may run at once
  MaxTable,     \* bound on the lists of names the hub has for a connection
  MaxEvents,    \* bound on what happens outside the commands
  Absent

\* What a file or a link says: the server to ask, and the list of names.
Settings == [server : Conns \cup {Absent}, names : 0 .. MaxTable]
Entries == [conn : Conns, dev : Devices, names : 0 .. MaxTable]

ASSUME ResolverAssumption ==
  /\ Devices \subseteq Nat /\ IsFiniteSet(Devices) /\ {MaxTable, MaxEvents} \subseteq Nat
  /\ Absent \notin Settings \cup Entries /\ \A P \in SUBSET Entries : P # Absent

VARIABLES
  conn,      \* [dev, ready] of every connection, or Absent
  table,     \* the list of names the hub has for it, 0 when there are none
  link,      \* the links that are up and their [server, names], or Absent
  unitFile,  \* the file of every device: [server, names], or Absent
  networkd,  \* whether networkd runs
  cmd,       \* the commands
  agreed,    \* of the commands since none ran: their plan, when it is one and
             \* none failed, and whether it is still what the daemon would say
  events     \* events so far

resVars == <<conn, table, link, unitFile, networkd, cmd, agreed, events>>

\* A link's setting before anybody has set one; a connection's server is its
\* own router.
Unset == [server |-> Absent, names |-> 0]
Setting(e) == [server |-> e.conn, names |-> e.names]

\* The first device that is free.
nextDevice(free) == {d \in free : \A e \in free : d <= e}

IdleCmd == [at |-> "idle", left |-> {}, plan |-> {}, entry |-> Absent, remove |-> FALSE]
Quiet == \A k \in Commands : cmd[k].at = "idle"

\* A machine with one connection, whose resolver was told nothing yet.
ResInit ==
  /\ \E d \in nextDevice(Devices) :
       LET first == CHOOSE c \in Conns : TRUE
       IN  conn = [c \in Conns |-> IF c = first THEN [dev |-> d, ready |-> TRUE] ELSE Absent]
  /\ table = [c \in Conns |-> MaxTable]
  /\ link = [d \in Devices |-> Absent] /\ unitFile = [d \in Devices |-> Absent]
  /\ networkd \in BOOLEAN
  /\ cmd = [k \in Commands |-> IdleCmd]
  /\ agreed = [plan |-> Absent, ok |-> FALSE, fresh |-> FALSE]
  /\ events = 0
-----------------------------------------------------------------------------
(***************************************************************************)
(* What the daemon, the hub and the owner do meanwhile, as far as a plan   *)
(* depends on it.                                                          *)
(***************************************************************************)
Event == events < MaxEvents /\ events' = events + 1
Overtaken == agreed' = [agreed EXCEPT !.fresh = FALSE]

FreeDevices == {d \in Devices : \A c \in Conns : conn[c] # Absent => conn[c].dev # d}

Attach(c) ==
  /\ Event /\ conn[c] = Absent
  /\ \E d \in nextDevice(FreeDevices) : conn' = [conn EXCEPT ![c] = [dev |-> d, ready |-> FALSE]]
  /\ Overtaken
  /\ UNCHANGED <<table, link, unitFile, networkd, cmd>>

Admitted(c) ==
  /\ Event /\ conn[c] # Absent /\ ~conn[c].ready
  /\ conn' = [conn EXCEPT ![c].ready = TRUE]
  /\ Overtaken
  /\ UNCHANGED <<table, link, unitFile, networkd, cmd>>

Detach(c) ==
  /\ Event /\ conn[c] # Absent
  /\ link' = [link EXCEPT ![conn[c].dev] = Absent]
  /\ conn' = [conn EXCEPT ![c] = Absent]
  /\ Overtaken
  /\ UNCHANGED <<table, unitFile, networkd, cmd>>

\* A connector is admitted, an alias is set.
TableChanges(c, t) ==
  /\ Event /\ t # table[c]
  /\ table' = [table EXCEPT ![c] = t]
  /\ Overtaken
  /\ UNCHANGED <<conn, link, unitFile, networkd, cmd>>

\* Nebula makes the device afresh, and networkd does what its file says.
LinkUp(c) ==
  /\ conn[c] # Absent /\ conn[c].ready /\ link[conn[c].dev] = Absent
  /\ LET d == conn[c].dev
     IN  link' = [link EXCEPT ![d] = IF networkd /\ unitFile[d] # Absent THEN unitFile[d] ELSE Unset]
  /\ UNCHANGED <<conn, table, unitFile, networkd, cmd, agreed, events>>

LinkDown(d) ==
  /\ Event /\ link[d] # Absent
  /\ link' = [link EXCEPT ![d] = Absent]
  /\ UNCHANGED <<conn, table, unitFile, networkd, cmd, agreed>>
-----------------------------------------------------------------------------
(***************************************************************************)
(* The plan.                                                               *)
(***************************************************************************)
\* What a plan says of a connection; no names means take it off.
DNSEntry(c, d, n) == [conn |-> c, dev |-> d, names |-> n]

\* The connections are read at once, and the tables one after another.
Ask(k, remove) ==
  /\ cmd[k].at = "idle" /\ Event
  /\ cmd' = [cmd EXCEPT ![k] = [IdleCmd EXCEPT
       !.at = "plan", !.remove = remove,
       !.left = {[conn |-> c, dev |-> conn[c].dev, ready |-> conn[c].ready] : c \in {x \in Conns : conn[x] # Absent}}]]
  /\ agreed' = IF Quiet THEN [plan |-> Absent, ok |-> TRUE, fresh |-> ~remove]
               ELSE [agreed EXCEPT !.fresh = @ /\ ~remove]
  /\ UNCHANGED <<conn, table, link, unitFile, networkd>>

\* A connection that is to be removed, is waiting, or whose table cannot be read
\* has no names.
DNSPlan(k, c, read) ==
  /\ cmd[k].at = "plan" /\ c \in cmd[k].left
  /\ LET asked == ~cmd[k].remove /\ c.ready
     IN  /\ read \/ asked
         /\ cmd' = [cmd EXCEPT ![k].left = @ \ {c}, ![k].plan = @ \cup
                      {DNSEntry(c.conn, c.dev, IF asked /\ read THEN table[c.conn] ELSE 0)}]
         /\ agreed' = IF read THEN agreed ELSE [agreed EXCEPT !.fresh = FALSE]
  /\ UNCHANGED <<conn, table, link, unitFile, networkd, events>>
-----------------------------------------------------------------------------
(***************************************************************************)
(* Applying it.                                                            *)
(***************************************************************************)
\* A command that failed has no plan to speak of, nor have two that differ.
Settled(ok, plan) ==
  IF ok /\ agreed.ok /\ agreed.plan \in {Absent, plan} THEN [agreed EXCEPT !.plan = plan]
  ELSE [plan |-> Absent, ok |-> FALSE, fresh |-> FALSE]

\* Wrong on purpose: the files of devices that are not in the plan stay.
SweepNone(keep) == unitFile' = unitFile /\ link' = link

\* The files of other devices go; a reload of networkd may undo what it had set.
sweep(keep) ==
  LET swept == {d \in Devices \ keep : unitFile[d] # Absent}
  IN  /\ unitFile' = [d \in Devices |-> IF d \in swept THEN Absent ELSE unitFile[d]]
      /\ \E undone \in SUBSET {d \in swept : networkd /\ link[d] # Absent} :
           link' = [d \in Devices |-> IF d \in undone THEN Unset ELSE link[d]]

Apply(k) ==
  /\ cmd[k].at = "plan" /\ cmd[k].left = {}
  /\ sweep({e.dev : e \in {x \in cmd[k].plan : x.names > 0}})
  /\ cmd' = [cmd EXCEPT ![k].at = "entries", ![k].left = cmd[k].plan]
  /\ UNCHANGED <<conn, table, networkd, agreed, events>>

Done(k) ==
  /\ cmd[k].at = "entries" /\ cmd[k].left = {}
  /\ cmd' = [cmd EXCEPT ![k] = IdleCmd]
  /\ agreed' = Settled(TRUE, cmd[k].plan)
  /\ UNCHANGED <<conn, table, link, unitFile, networkd, events>>

Reloaded(d, s) == link' \in {link, IF networkd /\ link[d] # Absent THEN [link EXCEPT ![d] = s] ELSE link}

\* The entry's file is written, or removed, and networkd told.
WriteFile(k, e) ==
  /\ cmd[k].at = "entries" /\ e \in cmd[k].left
  /\ unitFile' = [unitFile EXCEPT ![e.dev] = IF e.names > 0 THEN Setting(e) ELSE Absent]
  /\ IF unitFile' = unitFile /\ e.names = 0 THEN link' = link
     ELSE Reloaded(e.dev, IF e.names > 0 THEN Setting(e) ELSE Unset)
  /\ cmd' = [cmd EXCEPT ![k].at = "first", ![k].entry = e, ![k].left = @ \ {e}]
  /\ UNCHANGED <<conn, table, networkd, agreed, events>>

Entry(k) == cmd[k].entry

\* resolvectl, twice: install sets the server and then the names, remove clears
\* the names and then the server.
resolvectl(k) ==
  /\ cmd[k].at \in {"first", "second"} /\ link[Entry(k).dev] # Absent
  /\ link' = IF (Entry(k).names > 0) = (cmd[k].at = "first")
             THEN [link EXCEPT ![Entry(k).dev].server = IF Entry(k).names > 0 THEN Entry(k).conn ELSE Absent]
             ELSE [link EXCEPT ![Entry(k).dev].names = Entry(k).names]
  /\ cmd' = [cmd EXCEPT ![k].at = IF @ = "first" THEN "second" ELSE "entries",
                        ![k].entry = IF cmd[k].at = "first" THEN @ ELSE Absent]
  /\ UNCHANGED <<conn, table, unitFile, networkd, agreed, events>>

\* There is no such link, the resolver refuses, the file cannot be written, or
\* the daemon cannot be asked: the command ends where it is.
Fails(k) ==
  /\ cmd[k].at # "idle"
  /\ cmd' = [cmd EXCEPT ![k] = IdleCmd]
  /\ agreed' = Settled(FALSE, {})
  /\ UNCHANGED <<conn, table, link, unitFile, networkd, events>>

\* What setup --cleanup does to the resolver.
RemoveAll ==
  /\ Event /\ sweep({})
  /\ agreed' = IF Quiet THEN [plan |-> {}, ok |-> TRUE, fresh |-> FALSE] ELSE Settled(FALSE, {})
  /\ UNCHANGED <<conn, table, networkd, cmd>>
-----------------------------------------------------------------------------
ResNext ==
  \/ \E c \in Conns : Attach(c) \/ Admitted(c) \/ Detach(c) \/ LinkUp(c) \/ \E t \in 0 .. MaxTable : TableChanges(c, t)
  \/ \E d \in Devices : LinkDown(d)
  \/ \E k \in Commands :
       \/ \E remove \in BOOLEAN : Ask(k, remove)
       \/ \E c \in cmd[k].left : cmd[k].at = "plan" /\ \E read \in BOOLEAN : DNSPlan(k, c, read)
       \/ \E e \in cmd[k].left : cmd[k].at = "entries" /\ WriteFile(k, e)
       \/ Apply(k) \/ Done(k) \/ resolvectl(k) \/ Fails(k)
  \/ RemoveAll

ResSpec == ResInit /\ [][ResNext]_resVars
-----------------------------------------------------------------------------

\* What is found on a device: the file, and a link that has it set.  Without
\* networkd a link that was made since has less set, or nothing.
Shows(d, s) ==
  /\ unitFile[d] = IF s.names > 0 THEN s ELSE Absent
  /\ \/ link[d] \in {Absent, IF s.names > 0 THEN s ELSE Unset}
     \/ ~networkd /\ link[d].server \in {s.server, Absent} /\ link[d].names \in {s.names, 0}

\* "running it twice is running it once", "install idempotent rather than
\* cumulative": once commands that had one plan are through and none failed, in
\* whatever order their steps were taken, the files are those of the plan and no
\* others, and so is every link of it, whenever it was made.  When nothing has
\* changed since install began and it could read every table, the names that go
\* to a connection's link are the ones the hub has for it.
SettledAsPlanned ==
  Quiet /\ agreed.ok =>
    /\ \A e \in agreed.plan : Shows(e.dev, Setting(e))
    /\ \A d \in Devices : unitFile[d] # Absent => \E e \in agreed.plan : e.dev = d
    /\ agreed.fresh => \A c \in Conns : conn[c] # Absent =>
         Shows(conn[c].dev, [server |-> c, names |-> IF conn[c].ready THEN table[c] ELSE 0])
=============================================================================
