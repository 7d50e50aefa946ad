------------------------------ MODULE Service -------------------------------
(***************************************************************************)
(* The tenant daemon as a service of its machine.  robinet join writes the *)
(* state file, setup installs the unit and starts it, systemd starts the   *)
(* daemon again whenever it ends by itself, commands reach it over its     *)
(* socket, an upgrade replaces the binary under it, restart makes it run   *)
(* the new one, and setup --cleanup takes everything away.  join, a        *)
(* command, setup or cleanup, and the daemon run at once.  One daemon runs *)
(* at a time, which is systemd's.                                          *)
(***************************************************************************)
EXTENDS Naturals

CONSTANTS
  MaxBuild,     \* bound on the builds that are installed, one after another
  MaxChanges,   \* bound on the changes asked of the daemon
  MaxFaults,    \* bound on kills, reboots and sockets that cannot be had
  MaxName,      \* bound on the names the machine is given
  Burst,        \* StartLimitBurst
  None

ASSUME ServiceAssumption ==
  /\ MaxBuild \in Nat \ {0} /\ Burst \in Nat \ {0}
  /\ MaxChanges \in Nat /\ MaxFaults \in Nat /\ MaxName \in Nat

Builds == 1 .. MaxBuild
Changes == 1 .. MaxChanges

Data == [name : 0 .. MaxName, changes : SUBSET Changes]
Process == [build : Builds, at : {"exec", "opened", "serving"}, signalled : BOOLEAN,
            mem : Data \cup {None}, newest : BOOLEAN]
Copy == [copy : Data, newest : BOOLEAN]
Command == [op : {"change", "restart"}, build : Builds]
Report == [name : 0 .. MaxName, changes : SUBSET Changes, clash : BOOLEAN]

ASSUME ServiceNoneAssumption == None \notin Data /\ None \notin Process /\ None \notin Copy /\ None \notin Command

VARIABLES
  disk,       \* the build that is installed
  unit,       \* the unit: "none", "written" or "enabled"
  active,     \* systemd's: "none", "waiting" to start it, "on", "stopping" it,
              \* "stopped", "failed", or "exited" with nobody to start it again
  starts,     \* starts in the current interval
  daemon,     \* the process, or None
  socket,     \* "none", "live", or "stale" when its process is gone
  file,       \* the state file: [name, changes], or None
  joining,    \* robinet join: the copy it read, or None
  call,       \* a command at the socket, or None
  root,       \* setup or cleanup: where it is, or "idle"
  reported,   \* the changes and the name that somebody was told are done
  made,       \* how many changes were asked for
  faults,     \* faults so far
  told,       \* the build restart said would be started and was not yet, or 0
  clean       \* whether cleanup said that the machine is a stranger again

svcVars == <<disk, unit, active, starts, daemon, socket, file, joining, call, root,
             reported, made, faults, told, clean>>

Fresh == [name |-> 0, changes |-> {}]
Registered(f) == f # None /\ f.name > 0

\* Somebody's copy of the file is no longer what the file holds.
Outdated(holder) == IF holder = None THEN None ELSE [holder EXCEPT !.newest = FALSE]

\* What was reported is of no use any more once the file was written over, or
\* removed, under somebody who had a copy of it.
Nothing == [name |-> 0, changes |-> {}, clash |-> FALSE]
Clash == [Nothing EXCEPT !.clash = TRUE]
Told(c) == IF reported.clash THEN Clash ELSE [reported EXCEPT !.changes = @ \cup {c}]
Named(n) == IF reported.clash THEN Clash ELSE [reported EXCEPT !.name = n]

daemonReachable == daemon # None /\ daemon.at = "serving"

\* A daemon of another build is not believed.
checkVersion(own, build) == own = build

SvcInit ==
  /\ disk = 1 /\ unit = "none" /\ active = "none" /\ starts = 0
  /\ daemon = None /\ socket = "none" /\ file = None
  /\ joining = None /\ call = None /\ root = "idle"
  /\ reported = Nothing /\ made = 0 /\ faults = 0
  /\ told = 0 /\ clean = FALSE
-----------------------------------------------------------------------------
(***************************************************************************)
(* systemd, as the unit tells it.                                          *)
(***************************************************************************)
\* Wrong on purpose: Restart=on-failure, and a requested restart is no failure.
comesBackOnFailure(failed) == failed

\* Restart=always: a daemon that ended by itself is started again.
comesBack(failed) == TRUE

\* The process is gone.
Gone(failed) ==
  /\ daemon' = None
  /\ active' = IF active = "stopping" THEN "stopped" ELSE IF comesBack(failed) THEN "waiting" ELSE "exited"

Start ==
  /\ active = "waiting" /\ daemon = None
  /\ IF starts < Burst
     THEN /\ active' = "on" /\ starts' = starts + 1
          /\ daemon' = [build |-> disk, at |-> "exec", signalled |-> FALSE, mem |-> None, newest |-> TRUE]
     ELSE active' = "failed" /\ UNCHANGED <<starts, daemon>>
  /\ UNCHANGED <<disk, unit, socket, file, joining, call, root, reported, made, faults, told, clean>>

\* StartLimitIntervalSec has passed.
Interval ==
  /\ starts > 0 /\ starts' = 0
  /\ UNCHANGED <<disk, unit, active, daemon, socket, file, joining, call, root, reported, made, faults, told, clean>>

Upgrade ==
  /\ disk < MaxBuild /\ disk' = disk + 1
  /\ UNCHANGED <<unit, active, starts, daemon, socket, file, joining, call, root, reported, made, faults, told, clean>>

\* The daemon is killed and leaves its socket behind.
Kill ==
  /\ faults < MaxFaults /\ daemon # None
  /\ faults' = faults + 1
  /\ Gone(TRUE)
  /\ socket' = IF socket = "live" THEN "stale" ELSE socket
  /\ UNCHANGED <<disk, unit, starts, file, joining, call, root, reported, made, told, clean>>

\* The machine starts again: files stay, and what is enabled is started.
Reboot ==
  /\ faults < MaxFaults /\ faults' = faults + 1
  /\ daemon' = None /\ socket' = "none" /\ starts' = 0
  /\ active' = IF unit = "enabled" THEN "waiting" ELSE "none"
  /\ joining' = None /\ call' = None /\ root' = "idle"
  /\ UNCHANGED <<disk, unit, file, reported, made, told, clean>>
-----------------------------------------------------------------------------
(***************************************************************************)
(* robinet up.                                                             *)
(***************************************************************************)
\* OpenState and NewDaemon; a machine that is not registered has no daemon.
OpenState ==
  /\ daemon # None /\ daemon.at = "exec" /\ ~daemon.signalled
  /\ IF Registered(file)
     THEN daemon' = [daemon EXCEPT !.at = "opened", !.mem = file, !.newest = TRUE] /\ UNCHANGED active
     ELSE Gone(TRUE)
  /\ UNCHANGED <<disk, unit, starts, socket, file, joining, call, root, reported, made, faults, told, clean>>

\* Wrong on purpose: a socket that was left behind is in the way.
ServeOverStale ==
  /\ daemon # None /\ daemon.at = "opened" /\ ~daemon.signalled
  /\ IF socket = "stale" THEN Gone(TRUE) /\ UNCHANGED socket
     ELSE daemon' = [daemon EXCEPT !.at = "serving"] /\ socket' = "live" /\ UNCHANGED active
  /\ told' = IF daemon.build >= told THEN 0 ELSE told
  /\ UNCHANGED <<disk, unit, starts, file, joining, call, root, reported, made, faults, clean>>

\* A stale socket is removed and the path bound.
Serve ==
  /\ daemon # None /\ daemon.at = "opened" /\ ~daemon.signalled
  /\ daemon' = [daemon EXCEPT !.at = "serving"] /\ socket' = "live"
  /\ told' = IF daemon.build >= told THEN 0 ELSE told
  /\ UNCHANGED <<disk, unit, active, starts, file, joining, call, root, reported, made, faults, clean>>

ServeFails ==
  /\ faults < MaxFaults /\ daemon # None /\ daemon.at = "opened"
  /\ faults' = faults + 1
  /\ Gone(TRUE)
  /\ socket' \in {"none", socket}
  /\ UNCHANGED <<disk, unit, starts, file, joining, call, root, reported, made, told, clean>>

\* Wrong on purpose: the command is told before the change is saved.
handleUnsaved ==
  /\ call # None /\ call.op = "change"
  /\ daemon # None /\ daemon.at = "serving"
  /\ LET mem == [daemon.mem EXCEPT !.changes = @ \cup {made}]
     IN  \E saved \in BOOLEAN :
           /\ daemon' = [daemon EXCEPT !.mem = mem, !.newest = saved \/ @]
           /\ file' = IF saved THEN mem ELSE file
           /\ joining' = IF saved THEN Outdated(joining) ELSE joining
           /\ reported' = IF ~daemon.newest THEN Clash
                          ELSE IF checkVersion(call.build, daemon.build) THEN Told(made) ELSE reported
  /\ call' = None
  /\ UNCHANGED <<disk, unit, active, starts, socket, root, made, faults, told, clean>>

\* A change is made in memory and the whole of it saved, which may fail.  The
\* answer says which build it is from, and the command believes its own only; by
\* then the change is made.
handle ==
  /\ call # None /\ call.op = "change"
  /\ daemon # None /\ daemon.at = "serving"
  /\ LET mem == [daemon.mem EXCEPT !.changes = @ \cup {made}]
     IN  \E saved \in BOOLEAN :
           /\ daemon' = [daemon EXCEPT !.mem = mem, !.newest = saved \/ @]
           /\ file' = IF saved THEN mem ELSE file
           /\ joining' = IF saved THEN Outdated(joining) ELSE joining
           /\ reported' = IF ~saved THEN reported ELSE IF ~daemon.newest THEN Clash
                          ELSE IF checkVersion(call.build, daemon.build) THEN Told(made) ELSE reported
  /\ call' = None
  /\ UNCHANGED <<disk, unit, active, starts, socket, root, made, faults, told, clean>>

\* The reply is flushed before the daemon signals itself, and restart believes a
\* daemon of any build.
handleRestart ==
  /\ call # None /\ call.op = "restart"
  /\ daemon # None /\ daemon.at = "serving"
  /\ daemon' = [daemon EXCEPT !.signalled = TRUE]
  /\ told' = call.build
  /\ call' = None
  /\ UNCHANGED <<disk, unit, active, starts, socket, file, joining, root, reported, made, faults, clean>>

\* A signal ends it wherever it is, with exit status zero: the server and the
\* connections are closed and the socket is removed.
Stop ==
  /\ daemon # None /\ daemon.signalled
  /\ Gone(FALSE)
  /\ socket' \in IF daemon.at = "serving" THEN {"none"} ELSE {"none", socket}
  /\ UNCHANGED <<disk, unit, starts, file, joining, call, root, reported, made, faults, told, clean>>
-----------------------------------------------------------------------------
(***************************************************************************)
(* Commands over the socket.                                               *)
(***************************************************************************)
Call(op) ==
  /\ call = None /\ (op = "change" => made < MaxChanges)
  /\ made' = IF op = "change" THEN made + 1 ELSE made
  /\ call' = [op |-> op, build |-> disk]
  /\ UNCHANGED <<disk, unit, active, starts, daemon, socket, file, joining, root, reported, faults, told, clean>>

\* Nobody listens, or the connection is closed before an answer.
unreachable ==
  /\ call # None /\ ~daemonReachable
  /\ call' = None
  /\ UNCHANGED <<disk, unit, active, starts, daemon, socket, file, joining, root, reported, made, faults, told, clean>>
-----------------------------------------------------------------------------
(***************************************************************************)
(* robinet join: the file is read, the hub is asked, the file is written.  *)
(***************************************************************************)
JoinReads ==
  /\ joining = None
  /\ joining' = [copy |-> IF file = None THEN Fresh ELSE file, newest |-> TRUE]
  /\ clean' = FALSE
  /\ UNCHANGED <<disk, unit, active, starts, daemon, socket, file, call, root, reported, made, faults, told>>

\* Registering again keeps the name unless one is given.  When the daemon is not
\* reachable join goes on to run setup, which may be run at any other time too.
JoinWrites ==
  /\ joining # None
  /\ \E n \in 1 .. MaxName :
       /\ n \in {joining.copy.name, joining.copy.name + 1}
       /\ file' = [joining.copy EXCEPT !.name = n]
       /\ reported' = IF joining.newest THEN Named(n) ELSE Clash
  /\ joining' = None /\ daemon' = Outdated(daemon)
  /\ UNCHANGED <<disk, unit, active, starts, socket, call, root, made, faults, told, clean>>

\* The hub refuses, or the file cannot be written.
JoinFails ==
  /\ joining # None
  /\ joining' = None
  /\ UNCHANGED <<disk, unit, active, starts, daemon, socket, file, call, root, reported, made, faults, told, clean>>
-----------------------------------------------------------------------------
(***************************************************************************)
(* robinet setup, and setup --cleanup --force.                             *)
(***************************************************************************)
\* setup, on a machine that is registered; --no-enable ends here.
WriteUnit ==
  /\ root = "idle" /\ file # None
  /\ unit' = IF unit = "none" THEN "written" ELSE unit
  /\ root' \in {"enable", "idle"}
  /\ UNCHANGED <<disk, active, starts, daemon, socket, file, joining, call, reported, made, faults, told, clean>>

\* systemctl stop, of a process or of a start that is still to come.
Stopped == active' = IF daemon # None THEN "stopping" ELSE IF active \in {"waiting", "on"} THEN "stopped" ELSE active
Signalled == daemon' = IF daemon # None THEN [daemon EXCEPT !.signalled = TRUE] ELSE None

\* daemon-reload, enable, and restart rather than enable --now.
Restart ==
  /\ root = "enable"
  /\ unit' = "enabled"
  /\ Stopped /\ Signalled
  /\ root' = "restart"
  /\ UNCHANGED <<disk, starts, socket, file, joining, call, reported, made, faults, told, clean>>

RestartStarts ==
  /\ root = "restart" /\ daemon = None
  /\ active' = "waiting" /\ root' = "idle"
  /\ UNCHANGED <<disk, unit, starts, daemon, socket, file, joining, call, reported, made, faults, told, clean>>

\* systemctl fails, before the unit is enabled or after.
SetupFails ==
  /\ root = "enable" /\ root' = "idle"
  /\ unit' \in {unit, "enabled"}
  /\ UNCHANGED <<disk, active, starts, daemon, socket, file, joining, call, reported, made, faults, told, clean>>

\* Wrong on purpose: the service is disabled and left running.
CleanupStopsLess ==
  /\ root = "idle"
  /\ root' = "stopping"
  /\ UNCHANGED <<disk, unit, active, starts, daemon, socket, file, joining, call, reported, made, faults, told, clean>>

\* systemctl stop, whose failure or absence is not looked at.
CleanupStops ==
  /\ root = "idle"
  /\ \/ Stopped /\ Signalled /\ root' = "stopping"
     \/ UNCHANGED <<active, daemon>> /\ root' = "unstopped"
  /\ UNCHANGED <<disk, unit, starts, socket, file, joining, call, reported, made, faults, told, clean>>

\* The unit goes, where there is a systemctl, then the resolver's files, which
\* module Resolver is about, then the directory with the state.
CleanupRemoves ==
  /\ root = "unstopped" \/ (root = "stopping" /\ active # "stopping")
  /\ unit' \in (IF root = "stopping" THEN {} ELSE {unit}) \cup {"none"}
  /\ file' = None
  /\ clean' = (root = "stopping" /\ joining = None)
  /\ reported' = IF daemon = None THEN Nothing ELSE Clash
  /\ told' = 0
  /\ daemon' = Outdated(daemon) /\ joining' = Outdated(joining)
  /\ root' = "idle"
  /\ UNCHANGED <<disk, active, starts, socket, call, made, faults>>
-----------------------------------------------------------------------------
SvcNext ==
  \/ Start \/ Interval \/ Upgrade \/ Kill \/ Reboot
  \/ OpenState \/ Serve \/ ServeFails \/ handle \/ handleRestart \/ Stop
  \/ Call("change") \/ Call("restart") \/ unreachable
  \/ JoinReads \/ JoinWrites \/ JoinFails
  \/ WriteUnit \/ Restart \/ RestartStarts \/ SetupFails
  \/ CleanupStops \/ CleanupRemoves

\* The daemon goes on with what it has begun, and systemd starts what it is to.
Runs == OpenState \/ Serve \/ Stop \/ Start

SvcSpec == SvcInit /\ [][SvcNext]_svcVars /\ WF_svcVars(Runs) /\ WF_svcVars(RestartStarts)
-----------------------------------------------------------------------------
\* The service, its process and the commands are in states the code has.
SvcTypeOK ==
  /\ disk \in Builds /\ unit \in {"none", "written", "enabled"} /\ starts \in 0 .. Burst
  /\ active \in {"none", "waiting", "on", "stopping", "stopped", "failed", "exited"}
  /\ daemon \in Process \cup {None} /\ (daemon # None /\ daemon.at # "exec" => Registered(daemon.mem))
  /\ socket \in {"none", "live", "stale"}
  /\ file \in Data \cup {None} /\ (file # None => Registered(file))
  /\ joining \in Copy \cup {None} /\ call \in Command \cup {None}
  /\ root \in {"idle", "enable", "restart", "stopping", "unstopped"}
  /\ reported \in Report
  /\ made \in 0 .. MaxChanges /\ (call # None /\ call.op = "change" => made > 0)
  /\ faults \in 0 .. MaxFaults /\ told \in 0 .. MaxBuild /\ clean \in BOOLEAN

\* "A stale socket from a previous run would block the bind": the path leads to
\* the daemon that serves, and to none once it has stopped in order.
SocketIsOwn == socket = "live" <=> daemonReachable

\* What somebody was told is done is in the state file, and the next daemon has
\* it: a name from join, and changes over the socket.  join and the daemon each
\* write the whole of a copy, so this holds until one writes over the other.
ReportedIsKept ==
  ~reported.clash /\ Registered(file) =>
    /\ reported.changes \subseteq file.changes
    /\ file.name = reported.name

\* "this machine is a stranger again": when cleanup could stop the service and
\* nobody was joining, nothing is left, and no daemon brings the file back.
StrangerAgain == clean => file = None /\ unit = "none" /\ daemon = None /\ socket # "live"

\* "the daemon is stopping, its supervisor starts" the build of the command: one
\* of that build or a later one serves in the end, unless the service is stopped,
\* has failed too often or is cleaned up.
RestartTakesEffect ==
  (told > 0) ~> (told = 0 \/ active \in {"none", "stopped", "failed"} \/ ~Registered(file))

\* A service that is on is reachable in the end, whatever the last daemon left
\* behind, unless it is stopped, has failed too often or is cleaned up.
ComesUp ==
  (active \in {"on", "waiting"}) ~> (daemonReachable \/ active \in {"none", "stopped", "failed"} \/ ~Registered(file))
=============================================================================
