--------------------------- MODULE DaemonProofs -----------------------------
(***************************************************************************)
(* Proofs about Service, what a command and the system's service manager   *)
(* do with the daemon, and about TcpSplice, the TCP flows it carries, for  *)
(* every value of their constants.                                         *)
(***************************************************************************)
EXTENDS Service, TcpSplice, TLAPS
-----------------------------------------------------------------------------
(***************************************************************************)
(* The service.                                                            *)
(***************************************************************************)
\* A daemon, or a join, that has the newest copy of the file has all of it.
CopiesMatch ==
  /\ daemon # None /\ daemon.at # "exec" /\ daemon.newest =>
       file # None /\ daemon.mem.name = file.name /\ file.changes \subseteq daemon.mem.changes
  /\ joining # None /\ joining.newest => joining.copy = IF file = None THEN Fresh ELSE file

\* What was reported, also before there is a file.
Covered ==
  ~reported.clash =>
    IF file = None THEN reported = Nothing
    ELSE reported.name = file.name /\ reported.changes \subseteq file.changes

\* A service that is being stopped for good does not start again, and one that
\* was cleaned up has nobody left to start it.
StaysStopped ==
  /\ root = "stopping" => active \notin {"waiting", "on"} /\ (daemon # None => active = "stopping")
  /\ clean => joining = None /\ active # "waiting" /\ root \notin {"enable", "restart"}

SInv == SvcTypeOK /\ SocketIsOwn /\ CopiesMatch /\ Covered /\ StaysStopped /\ StrangerAgain
-----------------------------------------------------------------------------
(* What the operators make of processes, copies and reports.               *)

LEMMA ReportsTyped ==
  ASSUME reported \in Report
  PROVE  /\ Nothing \in Report /\ Clash \in Report /\ ~Nothing.clash /\ Clash.clash
         /\ Nothing.name = 0 /\ Nothing.changes = {}
         /\ \A c \in Changes : Told(c) \in Report
         /\ \A n \in 0 .. MaxName : Named(n) \in Report
<1>1. Nothing \in Report /\ ~Nothing.clash /\ Nothing.name = 0 /\ Nothing.changes = {}
  BY ServiceAssumption DEF Nothing, Report
<1>2. Clash \in Report /\ Clash.clash
  BY <1>1, Zenon DEF Clash, Report
<1>3. \A c \in Changes : Told(c) \in Report
  BY <1>2 DEF Told, Report
<1>4. \A n \in 0 .. MaxName : Named(n) \in Report
  BY <1>2 DEF Named, Report
<1>. QED  BY <1>1, <1>2, <1>3, <1>4

\* The process goes on as it was, except for the signal or for its copy.
LEMMA SameProcess ==
  ASSUME NEW d \in Process
  PROVE  /\ Outdated(d) \in Process /\ Outdated(d) # None /\ ~Outdated(d).newest
         /\ Outdated(d).at = d.at /\ Outdated(d).mem = d.mem
         /\ [d EXCEPT !.signalled = TRUE] \in Process
         /\ [d EXCEPT !.signalled = TRUE].at = d.at /\ [d EXCEPT !.signalled = TRUE].mem = d.mem
         /\ [d EXCEPT !.signalled = TRUE].newest = d.newest
BY ServiceNoneAssumption, Zenon DEF Outdated, Process

LEMMA SameCopy ==
  ASSUME NEW j \in Copy
  PROVE  Outdated(j) \in Copy /\ Outdated(j) # None /\ ~Outdated(j).newest
BY ServiceNoneAssumption, Zenon DEF Outdated, Copy

LEMMA OutdatedNone == Outdated(None) = None
BY DEF Outdated
-----------------------------------------------------------------------------
LEMMA SInvInit == SvcInit => SInv
<1>. SUFFICES ASSUME SvcInit PROVE SInv
  OBVIOUS
<1>1. reported \in Report /\ reported = Nothing
  BY ServiceAssumption DEF SvcInit, Nothing, Report
<1>2. 1 \in Builds
  BY ServiceAssumption DEF Builds
<1>3. SvcTypeOK
  <2>1. 0 \in 0 .. Burst /\ 0 \in 0 .. MaxChanges /\ 0 \in 0 .. MaxFaults /\ 0 \in 0 .. MaxBuild
    BY ServiceAssumption
  <2>. QED  BY <1>1, <1>2, <2>1, Zenon DEF SvcInit, SvcTypeOK
<1>4. SocketIsOwn /\ CopiesMatch /\ Covered /\ StaysStopped /\ StrangerAgain
  BY DEF SvcInit, SocketIsOwn, CopiesMatch, Covered, StaysStopped, StrangerAgain, daemonReachable
<1>. QED  BY <1>3, <1>4 DEF SInv

\* A step that leaves the file, its copies and what was reported alone.
LEMMA FileAlone ==
  ASSUME SInv, UNCHANGED <<file, joining, reported>>,
         daemon' = None \/ (daemon # None /\ daemon' # None /\ daemon'.at = daemon.at
                             /\ daemon'.mem = daemon.mem /\ daemon'.newest = daemon.newest)
  PROVE  CopiesMatch' /\ Covered'
BY DEF SInv, CopiesMatch, Covered

\* systemd, the machine and an upgrade.
LEMMA SystemKeepsSInv ==
  ASSUME SInv, Start \/ Interval \/ Upgrade \/ Kill \/ Reboot
  PROVE  SInv'
<1>. USE ServiceAssumption, ServiceNoneAssumption DEF SInv, SocketIsOwn, StaysStopped, StrangerAgain, daemonReachable
<1>1. CASE Start
  <2>. DEFINE d == [build |-> disk, at |-> "exec", signalled |-> FALSE, mem |-> None, newest |-> TRUE]
  <2>0. d \in Process /\ d.at = "exec"
    BY DEF SvcTypeOK, Process
  <2>1. CASE starts < Burst
    <3>0. starts' \in 0 .. Burst
      BY <1>1, <2>1 DEF Start, SvcTypeOK
    <3>a. /\ daemon' = d /\ active' = "on"
          /\ UNCHANGED <<disk, unit, socket, file, joining, call, root, reported, made, faults, told, clean>>
      BY <1>1, <2>1 DEF Start
    <3>. HIDE DEF d
    <3>1. /\ daemon' \in Process /\ daemon' # None /\ daemon'.at = "exec" /\ active' = "on"
          /\ UNCHANGED <<disk, unit, socket, file, joining, call, root, reported, made, faults, told, clean>>
      BY <3>a, <2>0
    <3>2. active = "waiting" /\ daemon = None
      BY <1>1 DEF Start
    <3>3. SvcTypeOK'
      BY <3>0, <3>1, ZenonT(30) DEF SvcTypeOK
    <3>. QED  BY <3>1, <3>2, <3>3 DEF CopiesMatch, Covered
  <2>2. CASE ~(starts < Burst)
    BY <1>1, <2>2 DEF Start, SvcTypeOK, CopiesMatch, Covered
  <2>. QED  BY <2>1, <2>2
<1>2. CASE Interval
  BY <1>2 DEF Interval, SvcTypeOK, CopiesMatch, Covered
<1>3. CASE Upgrade
  BY <1>3 DEF Upgrade, SvcTypeOK, CopiesMatch, Covered, Builds
<1>4. CASE Kill
  BY <1>4 DEF Kill, Gone, comesBack, SvcTypeOK, CopiesMatch, Covered
<1>5. CASE Reboot
  BY <1>5 DEF Reboot, SvcTypeOK, CopiesMatch, Covered
<1>. QED  BY <1>1, <1>2, <1>3, <1>4, <1>5

\* The daemon starting, and ending.
LEMMA DaemonKeepsSInv ==
  ASSUME SInv, OpenState \/ Serve \/ ServeFails \/ handleRestart \/ Stop
  PROVE  SInv'
<1>. USE ServiceAssumption, ServiceNoneAssumption DEF SInv, SocketIsOwn, StaysStopped, StrangerAgain, daemonReachable
<1>1. CASE OpenState
  <2>1. CASE Registered(file)
    <3>1. daemon \in Process /\ file \in Data
      BY <1>1, <2>1 DEF OpenState, SvcTypeOK, Registered
    <3>2. /\ daemon' = [daemon EXCEPT !.at = "opened", !.mem = file, !.newest = TRUE]
          /\ UNCHANGED <<disk, unit, active, starts, socket, file, joining, call, root, reported, made, faults, told, clean>>
      BY <1>1, <2>1 DEF OpenState
    <3>3. daemon' \in Process /\ daemon' # None /\ daemon'.at = "opened" /\ daemon'.mem = file
      BY <3>1, <3>2, ZenonT(30) DEF Process
    <3>4. SvcTypeOK'
      BY <3>2, <3>3, <2>1 DEF SvcTypeOK
    <3>5. daemon # None /\ daemon.at = "exec"
      BY <1>1 DEF OpenState
    <3>. QED  BY <2>1, <3>2, <3>3, <3>4, <3>5 DEF CopiesMatch, Covered, Registered
  <2>2. CASE ~Registered(file)
    BY <1>1, <2>2 DEF OpenState, Gone, comesBack, SvcTypeOK, CopiesMatch, Covered
  <2>. QED  BY <2>1, <2>2
<1>2. CASE Serve
  <2>1. /\ daemon \in Process /\ daemon.at = "opened"
        /\ daemon' = [daemon EXCEPT !.at = "serving"] /\ socket' = "live" /\ told' \in 0 .. MaxBuild
        /\ UNCHANGED <<disk, unit, active, starts, file, joining, call, root, reported, made, faults, clean>>
    BY <1>2 DEF Serve, SvcTypeOK
  <2>2. daemon' \in Process /\ daemon' # None /\ daemon'.at = "serving" /\ daemon'.mem = daemon.mem
          /\ daemon'.newest = daemon.newest
    BY <2>1 DEF Process
  <2>3. SvcTypeOK'
    BY <2>1, <2>2 DEF SvcTypeOK
  <2>. QED  BY <2>1, <2>2, <2>3 DEF CopiesMatch, Covered
<1>3. CASE ServeFails
  BY <1>3 DEF ServeFails, Gone, comesBack, SvcTypeOK, CopiesMatch, Covered
<1>4. CASE handleRestart
  <2>1. /\ daemon \in Process /\ call \in Command /\ daemon' = [daemon EXCEPT !.signalled = TRUE]
        /\ told' = call.build /\ call' = None
        /\ UNCHANGED <<disk, unit, active, starts, socket, file, joining, root, reported, made, faults, clean>>
    BY <1>4 DEF handleRestart, SvcTypeOK
  <2>2. told' \in 0 .. MaxBuild
    BY <2>1 DEF Command, Builds
  <2>3. SvcTypeOK'
    BY <2>1, <2>2, SameProcess DEF SvcTypeOK
  <2>4. CopiesMatch' /\ Covered'
    BY <2>1, SameProcess, FileAlone, Zenon
  <2>. QED  BY <2>1, <2>3, <2>4, SameProcess
<1>5. CASE Stop
  BY <1>5 DEF Stop, Gone, comesBack, SvcTypeOK, CopiesMatch, Covered
<1>. QED  BY <1>1, <1>2, <1>3, <1>4, <1>5

\* Commands: a change that is saved covers what was reported, and more.
LEMMA CallKeepsSInv ==
  ASSUME SInv, Call("change") \/ Call("restart") \/ unreachable
  PROVE  SInv'
<1>. USE ServiceAssumption, ServiceNoneAssumption DEF SInv, SocketIsOwn, StaysStopped, StrangerAgain, daemonReachable
<1>1. ASSUME NEW op \in {"change", "restart"}, Call(op) PROVE SInv'
  <2>1. [op |-> op, build |-> disk] \in Command /\ [op |-> op, build |-> disk].op = op
    BY Zenon DEF SvcTypeOK, Command
  <2>2. SvcTypeOK'
    BY <1>1, <2>1 DEF Call, SvcTypeOK
  <2>. QED  BY <1>1, <2>2, Zenon DEF Call, CopiesMatch, Covered
<1>2. CASE unreachable
  BY <1>2 DEF unreachable, SvcTypeOK, CopiesMatch, Covered
<1>. QED  BY <1>1, <1>2, Zenon

LEMMA HandleKeepsSInv ==
  ASSUME SInv, handle
  PROVE  SInv'
<1>. USE ServiceAssumption, ServiceNoneAssumption
<1>. DEFINE mem == [daemon.mem EXCEPT !.changes = @ \cup {made}]
<1>1. PICK saved \in BOOLEAN :
        /\ daemon' = [daemon EXCEPT !.mem = mem, !.newest = saved \/ @]
        /\ file' = IF saved THEN mem ELSE file
        /\ joining' = IF saved THEN Outdated(joining) ELSE joining
        /\ reported' = IF ~saved THEN reported ELSE IF ~daemon.newest THEN Clash
                       ELSE IF checkVersion(call.build, daemon.build) THEN Told(made) ELSE reported
  BY Zenon DEF handle
<1>2. /\ daemon \in Process /\ daemon.at = "serving" /\ call' = None /\ made \in Changes
      /\ UNCHANGED <<disk, unit, active, starts, socket, root, made, faults, told, clean>>
  BY DEF handle, SInv, SvcTypeOK, Changes
<1>3. daemon.mem \in Data /\ Registered(daemon.mem) /\ file \in Data \cup {None}
      /\ joining \in Copy \cup {None} /\ reported \in Report
  BY <1>2 DEF SInv, SvcTypeOK, Process, Registered
<1>4. mem \in Data /\ mem.name = daemon.mem.name /\ mem.changes = daemon.mem.changes \cup {made} /\ mem # None
  BY <1>2, <1>3 DEF Data
<1>. HIDE DEF mem
<1>5. daemon' \in Process /\ daemon' # None /\ daemon'.at = "serving" /\ daemon'.mem = mem
      /\ daemon'.newest = (saved \/ daemon.newest)
  BY <1>1, <1>2, <1>4, Zenon DEF Process
<1>6. Registered(mem)
  BY <1>3, <1>4 DEF Registered
<1>7. joining' \in Copy \cup {None} /\ (saved /\ joining' # None => ~joining'.newest)
  BY <1>1, <1>3, SameCopy, OutdatedNone
<1>8. reported' \in Report
  BY <1>1, <1>2, <1>3, ReportsTyped
<1>9. SvcTypeOK'
  BY <1>1, <1>2, <1>3, <1>4, <1>5, <1>6, <1>7, <1>8 DEF SInv, SvcTypeOK
<1>10. SocketIsOwn' /\ StaysStopped' /\ StrangerAgain'
  BY <1>2, <1>5 DEF SInv, SocketIsOwn, StaysStopped, StrangerAgain, daemonReachable
<1>11. CASE saved
  <2>1. CopiesMatch'
    BY <1>1, <1>4, <1>5, <1>7, <1>11 DEF CopiesMatch
  <2>2. Covered'
    <3>1. CASE ~daemon.newest
      BY <1>1, <1>11, <3>1, <1>3, ReportsTyped DEF Covered
    <3>2. CASE daemon.newest
      <4>1. file # None /\ file.name = mem.name /\ file.changes \subseteq mem.changes /\ made \in mem.changes
        BY <1>2, <1>4, <3>2 DEF SInv, CopiesMatch
      <4>2. reported' = Told(made) \/ reported' = reported
        BY <1>1, <1>11, <3>2
      <4>3. CASE reported' = reported
        BY <1>1, <1>4, <1>11, <4>1, <4>3 DEF SInv, Covered
      <4>4. CASE reported' = Told(made)
        <5>1. CASE reported.clash
          BY <4>4, <5>1, <1>3, ReportsTyped DEF Told, Covered
        <5>2. CASE ~reported.clash
          <6>1. reported' = [reported EXCEPT !.changes = @ \cup {made}]
            BY <4>4, <5>2 DEF Told
          <6>2. reported'.name = reported.name /\ reported'.changes = reported.changes \cup {made}
            BY <6>1, <1>3 DEF Report
          <6>. QED  BY <6>2, <5>2, <1>1, <1>4, <1>11, <4>1 DEF SInv, Covered
        <5>. QED  BY <5>1, <5>2
      <4>. QED  BY <4>2, <4>3, <4>4
    <3>. QED  BY <3>1, <3>2
  <2>. QED  BY <1>9, <1>10, <2>1, <2>2 DEF SInv
<1>12. CASE ~saved
  <2>1. UNCHANGED <<file, joining, reported>>
    BY <1>1, <1>12
  <2>2. CopiesMatch'
    BY <2>1, <1>2, <1>4, <1>5, <1>12 DEF SInv, CopiesMatch
  <2>3. Covered'
    BY <2>1 DEF SInv, Covered
  <2>. QED  BY <1>9, <1>10, <2>2, <2>3 DEF SInv
<1>. QED  BY <1>11, <1>12

\* join, which writes over whatever the daemon has of the file.
LEMMA JoinKeepsSInv ==
  ASSUME SInv, JoinReads \/ JoinWrites \/ JoinFails
  PROVE  SInv'
<1>. USE ServiceAssumption, ServiceNoneAssumption
<1>1. CASE JoinReads
  <2>. DEFINE f == IF file = None THEN Fresh ELSE file
              j == [copy |-> f, newest |-> TRUE]
  <2>1. f \in Data
    BY DEF SInv, SvcTypeOK, Fresh, Data
  <2>. HIDE DEF f
  <2>2. j \in Copy /\ j.copy = f
    BY <2>1 DEF Copy
  <2>. USE DEF f
  <2>3. joining' = j /\ clean' \in BOOLEAN /\ ~clean'
        /\ UNCHANGED <<disk, unit, active, starts, daemon, socket, file, call, root, reported, made, faults, told>>
    BY <1>1, Zenon DEF JoinReads
  <2>. HIDE DEF j
  <2>4. SvcTypeOK'
    <3>. HIDE DEF f
    <3>. QED  BY <2>2, <2>3 DEF SInv, SvcTypeOK, Registered
  <2>5. CopiesMatch'
    BY <2>2, <2>3 DEF SInv, CopiesMatch
  <2>. QED  BY <2>3, <2>4, <2>5 DEF SInv, SocketIsOwn, Covered, StaysStopped, StrangerAgain, daemonReachable
<1>2. CASE JoinWrites
  <2>1. PICK n \in 1 .. MaxName :
          /\ file' = [joining.copy EXCEPT !.name = n]
          /\ reported' = IF joining.newest THEN Named(n) ELSE Clash
    BY <1>2 DEF JoinWrites
  <2>2. /\ joining \in Copy /\ joining # None /\ joining' = None /\ daemon' = Outdated(daemon)
        /\ UNCHANGED <<disk, unit, active, starts, socket, call, root, made, faults, told, clean>>
    BY <1>2 DEF JoinWrites, SInv, SvcTypeOK
  <2>3. file' \in Data /\ file' # None /\ Registered(file') /\ file'.name = n /\ file'.changes = joining.copy.changes
    BY <2>1, <2>2 DEF Copy, Data, Registered
  <2>4. /\ daemon' \in Process \cup {None} /\ (daemon' = None <=> daemon = None)
        /\ daemon # None => ~daemon'.newest /\ daemon'.at = daemon.at /\ daemon'.mem = daemon.mem
    BY <2>2, SameProcess, OutdatedNone, Zenon DEF SInv, SvcTypeOK
  <2>5. reported \in Report /\ n \in 0 .. MaxName
    BY DEF SInv, SvcTypeOK
  <2>6. reported' \in Report
    BY <2>1, <2>5, ReportsTyped, Zenon
  <2>7. SvcTypeOK'
    BY <2>2, <2>3, <2>4, <2>6 DEF SInv, SvcTypeOK
  <2>8. SocketIsOwn' /\ StaysStopped' /\ StrangerAgain' /\ CopiesMatch'
    BY <2>2, <2>4 DEF SInv, SocketIsOwn, StaysStopped, StrangerAgain, CopiesMatch, daemonReachable
  <2>9. Covered'
    <3>1. CASE ~joining.newest \/ reported.clash
      <4>1. reported' = Clash
        BY <2>1, <3>1 DEF Named
      <4>. QED  BY <4>1, <2>5, ReportsTyped DEF Covered
    <3>2. CASE joining.newest /\ ~reported.clash
      <4>1. reported' = [reported EXCEPT !.name = n]
        BY <2>1, <3>2 DEF Named
      <4>2. reported'.name = n /\ reported'.changes = reported.changes
        BY <4>1, <2>5 DEF Report
      <4>3. joining.copy = IF file = None THEN Fresh ELSE file
        BY <2>2, <3>2, Zenon DEF SInv, CopiesMatch
      <4>4. reported.changes \subseteq joining.copy.changes
        BY <4>3, <3>2, <2>5, ReportsTyped, Zenon DEF SInv, Covered
      <4>. QED  BY <4>2, <4>4, <2>3 DEF Covered
    <3>. QED  BY <3>1, <3>2
  <2>. QED  BY <2>7, <2>8, <2>9 DEF SInv
<1>3. CASE JoinFails
  BY <1>3 DEF JoinFails, SInv, SvcTypeOK, SocketIsOwn, CopiesMatch, Covered, StaysStopped, StrangerAgain, daemonReachable
<1>. QED  BY <1>1, <1>2, <1>3

\* systemctl stop leaves a daemon that has only to notice its signal.
LEMMA StopTyped ==
  ASSUME SvcTypeOK, Stopped, Signalled
  PROVE  /\ active' \in {"none", "stopping", "stopped", "failed", "exited"} \cup {active}
         /\ active' \notin {"waiting", "on"} /\ (daemon' # None => active' = "stopping")
         /\ daemon' \in Process \cup {None} /\ (daemon' = None <=> daemon = None)
         /\ daemon # None => daemon'.newest = daemon.newest /\ daemon'.at = daemon.at /\ daemon'.mem = daemon.mem
<1>1. /\ daemon' \in Process \cup {None} /\ (daemon' = None <=> daemon = None)
      /\ daemon # None => daemon'.newest = daemon.newest /\ daemon'.at = daemon.at /\ daemon'.mem = daemon.mem
  BY SameProcess, ServiceNoneAssumption, Zenon DEF Signalled, SvcTypeOK
<1>. QED  BY <1>1 DEF Stopped, SvcTypeOK

\* What root does keeps the types of everything else.
LEMMA RootTyped ==
  ASSUME SvcTypeOK,
         disk' = disk, starts' = starts, socket' = socket, file' = file, joining' = joining, call' = call,
         reported' = reported, made' = made, faults' = faults, told' = told, clean' = clean,
         unit' \in {"none", "written", "enabled"},
         root' \in {"idle", "enable", "restart", "stopping", "unstopped"},
         active' \in {"none", "waiting", "on", "stopping", "stopped", "failed", "exited"},
         daemon' \in Process \cup {None},
         daemon' # None => daemon # None /\ daemon'.at = daemon.at /\ daemon'.mem = daemon.mem
  PROVE  SvcTypeOK'
<1>1. /\ disk' \in Builds /\ starts' \in 0 .. Burst /\ socket' \in {"none", "live", "stale"}
      /\ joining' \in Copy \cup {None} /\ call' \in Command \cup {None} /\ reported' \in Report
  BY Zenon DEF SvcTypeOK
<1>2. /\ made' \in 0 .. MaxChanges /\ (call' # None /\ call'.op = "change" => made' > 0)
      /\ faults' \in 0 .. MaxFaults /\ told' \in 0 .. MaxBuild /\ clean' \in BOOLEAN
  BY Zenon DEF SvcTypeOK
<1>3. file' \in Data \cup {None} /\ (file' # None => Registered(file)')
  BY Zenon DEF SvcTypeOK, Registered
<1>4. daemon' # None /\ daemon'.at # "exec" => Registered(daemon'.mem)
  BY Zenon DEF SvcTypeOK
<1>. QED  BY <1>1, <1>2, <1>3, <1>4, Zenon DEF SvcTypeOK

LEMMA RootKeepsSInv ==
  ASSUME SInv, WriteUnit \/ Restart \/ RestartStarts \/ SetupFails \/ CleanupStops \/ CleanupRemoves
  PROVE  SInv'
<1>. USE ServiceAssumption, ServiceNoneAssumption
<1>1. CASE WriteUnit \/ RestartStarts \/ SetupFails
  <2>1. /\ disk' = disk /\ starts' = starts /\ daemon' = daemon /\ socket' = socket /\ file' = file
        /\ joining' = joining /\ call' = call /\ reported' = reported /\ made' = made /\ faults' = faults
        /\ told' = told /\ clean' = clean
    BY <1>1, Zenon DEF WriteUnit, RestartStarts, SetupFails
  <2>2. SocketIsOwn' /\ CopiesMatch' /\ Covered'
    BY <2>1, Zenon DEF SInv, SocketIsOwn, CopiesMatch, Covered, daemonReachable
  <2>3. SvcTypeOK'
    <3>1. SvcTypeOK
      BY Zenon DEF SInv
    <3>2. unit \in {"none", "written", "enabled"} /\ daemon \in Process \cup {None}
          /\ active \in {"none", "waiting", "on", "stopping", "stopped", "failed", "exited"}
      BY <3>1, Zenon DEF SvcTypeOK
    <3>3. /\ unit' \in {"none", "written", "enabled"} /\ root' \in {"idle", "enable"}
          /\ active' \in {active, "waiting"}
      BY <1>1, <3>2, Zenon DEF WriteUnit, RestartStarts, SetupFails
    <3>. QED  BY <2>1, <3>1, <3>2, <3>3, RootTyped, Zenon
  <2>4. StaysStopped' /\ StrangerAgain'
    BY <1>1, <2>1 DEF WriteUnit, RestartStarts, SetupFails, SInv, StaysStopped, StrangerAgain
  <2>. QED  BY <2>2, <2>3, <2>4, Zenon DEF SInv
<1>2. CASE Restart
  <2>1. /\ Stopped /\ Signalled /\ root' = "restart" /\ unit' = "enabled" /\ root = "enable"
        /\ UNCHANGED <<disk, starts, socket, file, joining, call, reported, made, faults, told, clean>>
    BY <1>2, Zenon DEF Restart
  <2>2. SvcTypeOK'
    <3>1. SvcTypeOK
      BY Zenon DEF SInv
    <3>2. active' \in {"none", "waiting", "on", "stopping", "stopped", "failed", "exited"}
      BY <2>1, <3>1, StopTyped, Zenon DEF SvcTypeOK
    <3>. QED  BY <2>1, <3>1, <3>2, StopTyped, RootTyped, Zenon
  <2>. QED  BY <2>1, <2>2, StopTyped, Zenon DEF SInv, SocketIsOwn, CopiesMatch, Covered, StaysStopped, StrangerAgain, daemonReachable
<1>3. CASE CleanupStops
  <2>0. /\ root = "idle"
        /\ UNCHANGED <<disk, unit, starts, socket, file, joining, call, reported, made, faults, told, clean>>
    BY <1>3, Zenon DEF CleanupStops
  <2>1. CASE Stopped /\ Signalled /\ root' = "stopping"
    <3>1. SvcTypeOK'
      <4>1. SvcTypeOK /\ unit \in {"none", "written", "enabled"}
        BY Zenon DEF SInv, SvcTypeOK
      <4>2. active' \in {"none", "waiting", "on", "stopping", "stopped", "failed", "exited"}
        BY <2>1, <4>1, StopTyped, Zenon DEF SvcTypeOK
      <4>. QED  BY <2>0, <2>1, <4>1, <4>2, StopTyped, RootTyped, Zenon
    <3>. QED  BY <2>0, <2>1, <3>1, StopTyped, Zenon DEF SInv, SocketIsOwn, CopiesMatch, Covered, StaysStopped, StrangerAgain, daemonReachable
  <2>2. CASE UNCHANGED <<active, daemon>> /\ root' = "unstopped"
    <3>1. SvcTypeOK /\ daemon \in Process \cup {None} /\ unit \in {"none", "written", "enabled"}
          /\ active \in {"none", "waiting", "on", "stopping", "stopped", "failed", "exited"}
      BY Zenon DEF SInv, SvcTypeOK
    <3>2. SvcTypeOK'
      BY <2>0, <2>2, <3>1, RootTyped, Zenon
    <3>3. SocketIsOwn' /\ CopiesMatch' /\ Covered'
      BY <2>0, <2>2, Zenon DEF SInv, SocketIsOwn, CopiesMatch, Covered, daemonReachable
    <3>4. StaysStopped' /\ StrangerAgain'
      BY <2>0, <2>2, Zenon DEF SInv, StaysStopped, StrangerAgain
    <3>. QED  BY <3>2, <3>3, <3>4, Zenon DEF SInv
  <2>. QED  BY <1>3, <2>1, <2>2 DEF CleanupStops
<1>4. CASE CleanupRemoves
  <2>1. /\ root = "unstopped" \/ (root = "stopping" /\ active # "stopping")
        /\ unit' \in {"none", unit} /\ (root = "stopping" => unit' = "none")
        /\ file' = None /\ clean' = (root = "stopping" /\ joining = None)
        /\ reported' = (IF daemon = None THEN Nothing ELSE Clash) /\ told' = 0 /\ root' = "idle"
        /\ daemon' = Outdated(daemon) /\ joining' = Outdated(joining)
        /\ UNCHANGED <<disk, active, starts, socket, call, made, faults>>
    BY <1>4, Zenon DEF CleanupRemoves
  <2>2. /\ daemon' \in Process \cup {None} /\ (daemon' = None <=> daemon = None)
        /\ daemon # None => ~daemon'.newest /\ daemon'.at = daemon.at /\ daemon'.mem = daemon.mem
    BY <2>1, SameProcess, OutdatedNone, Zenon DEF SInv, SvcTypeOK
  <2>3. joining' \in Copy \cup {None} /\ (joining' = None <=> joining = None) /\ (joining # None => ~joining'.newest)
    BY <2>1, SameCopy, OutdatedNone DEF SInv, SvcTypeOK
  <2>4. reported \in Report
    BY Zenon DEF SInv, SvcTypeOK
  <2>5. reported' \in Report
    BY <2>1, <2>4, ReportsTyped, Zenon
  <2>6. SvcTypeOK'
    BY <2>1, <2>2, <2>3, <2>5 DEF SInv, SvcTypeOK
  <2>7. Covered'
    BY <2>1, <2>4, ReportsTyped, Zenon DEF Covered
  <2>. QED  BY <2>1, <2>2, <2>3, <2>6, <2>7, Zenon DEF SInv, SocketIsOwn, CopiesMatch, StaysStopped, StrangerAgain, daemonReachable
<1>. QED  BY <1>1, <1>2, <1>3, <1>4
-----------------------------------------------------------------------------
LEMMA SInvNext ==
  ASSUME SInv, [SvcNext]_svcVars
  PROVE  SInv'
<1>1. CASE UNCHANGED svcVars
  <2>1. /\ disk' = disk /\ unit' = unit /\ active' = active /\ starts' = starts /\ daemon' = daemon
        /\ socket' = socket /\ file' = file /\ joining' = joining /\ call' = call /\ root' = root
        /\ reported' = reported /\ made' = made /\ faults' = faults /\ told' = told /\ clean' = clean
    BY <1>1, Zenon DEF svcVars
  <2>2. SvcTypeOK'
    BY <2>1 DEF SInv, SvcTypeOK
  <2>3. SocketIsOwn' /\ StaysStopped'
    BY <2>1, Zenon DEF SInv, SocketIsOwn, StaysStopped, daemonReachable
  <2>4. CopiesMatch' /\ Covered'
    BY <2>1, Zenon DEF SInv, CopiesMatch, Covered
  <2>5. StrangerAgain'
    BY <2>1, Zenon DEF SInv, StrangerAgain
  <2>. QED  BY <2>2, <2>3, <2>4, <2>5, Zenon DEF SInv
<1>2. CASE SvcNext
  BY <1>2, DaemonKeepsSInv, SystemKeepsSInv, CallKeepsSInv, HandleKeepsSInv, JoinKeepsSInv, RootKeepsSInv DEF SvcNext
<1>. QED  BY <1>1, <1>2, Zenon

LEMMA SInvAlways == SvcSpec => []SInv
BY SInvInit, SInvNext, PTL DEF SvcSpec

\* The service, its daemon and the commands keep their shape through kills,
\* reboots, upgrades, failed saves and cleanups.
THEOREM SvcTypeCorrect == SvcSpec => []SvcTypeOK
<1>1. SInv => SvcTypeOK
  BY DEF SInv
<1>. QED  BY <1>1, SInvAlways, PTL

\* However often the daemon is started, killed and stopped, the socket's path
\* leads to the one that serves or to nobody.
THEOREM SocketStaysOwn == SvcSpec => []SocketIsOwn
<1>1. SInv => SocketIsOwn
  BY DEF SInv
<1>. QED  BY <1>1, SInvAlways, PTL

\* What join and the daemon reported is in the state file, for any number of
\* changes, names, builds and faults, until one writes over the other's copy.
THEOREM ReportsAreKept == SvcSpec => []ReportedIsKept
<1>1. SInv => ReportedIsKept
  BY DEF SInv, Covered, ReportedIsKept, Registered
<1>. QED  BY <1>1, SInvAlways, PTL

\* After a cleanup that could stop the service, nothing brings the machine's
\* registration back.
THEOREM StaysStranger == SvcSpec => []StrangerAgain
<1>1. SInv => StrangerAgain
  BY DEF SInv
<1>. QED  BY <1>1, SInvAlways, PTL
-----------------------------------------------------------------------------
(***************************************************************************)
(* One TCP flow.  What is on its way from one peer to the other is counted *)
(* through, from what was read to what was written last.                   *)
(***************************************************************************)
TcpTypeOK ==
  /\ stage \in {"dialing", "splicing", "closed", "refused"}
  /\ peer \in [Ends -> {"open", "finished", "reset"}]
  /\ sent \in [Ends -> Nat]
  /\ arrived \in [Ends -> Seq(Nat)]
  /\ copier \in [Ends -> [at : {"read", "write", "done"}, buf : Seq(Nat)]]
  /\ leaving \in [Ends -> Seq(Nat)]
  /\ shut \in [Ends -> {"no", "fin", "rst"}]
  /\ got \in [Ends -> Seq(Nat)]
  /\ eof \in [Ends -> BOOLEAN]

\* The numbers after n, in order.
Follow(s, n) == \A i \in DOMAIN s : s[i] = n + i

\* Of s numbers, the ones that were read and the ones that are on their way.
Ordered(read, way, s) ==
  Follow(read, 0) /\ Follow(way, Len(read)) /\ Len(read) + Len(way) <= s

\* The rest of them, in a buffer and before it, with nothing missing.
Complete(read, way, buf, rest, s) ==
  /\ Follow(buf, Len(read) + Len(way)) /\ Follow(rest, Len(read) + Len(way) + Len(buf))
  /\ Len(read) + Len(way) + Len(buf) + Len(rest) = s

\* What has reached e, or left for it, is the beginning of what was written.
Delivered(e) ==
  /\ Ordered(got[e], leaving[e], sent[Other(e)])
  /\ peer[e] = "reset" => leaving[e] = <<>>

\* As long as the copier towards e goes on, so is the rest.
Carried(e) ==
  copier[Other(e)].at # "done" /\ peer[e] # "reset" =>
    Complete(got[e], leaving[e], copier[Other(e)].buf, arrived[Other(e)], sent[Other(e)])

Buffers(e) ==
  LET c == copier[Other(e)]
  IN  /\ c.at = "write" <=> c.buf # <<>>
      /\ c.at = "read" => c = Reading
      /\ c.at = "done" => c = Done

\* Our side of e is shut by the copier towards it, which is done then; and of
\* a flow nobody reset, only after everything was passed on.
ShutLast(e) ==
  /\ stage \in {"dialing", "splicing"} /\ shut[e] # "no" => copier[Other(e)] = Done
  /\ NoReset /\ copier[Other(e)] = Done => shut[e] # "no"
  /\ NoReset /\ stage # "refused" /\ shut[e] = "fin" =>
       peer[Other(e)] = "finished" /\ Len(got[e]) + Len(leaving[e]) = sent[Other(e)]

EofLast(e) ==
  eof[e] /\ stage # "refused" /\ NoReset => peer[Other(e)] = "finished" /\ Len(got[e]) = sent[Other(e)]

Way(e) == Delivered(e) /\ Carried(e) /\ Buffers(e) /\ ShutLast(e) /\ EofLast(e)

TcpInv == TcpTypeOK /\ \A e \in Ends : Way(e)

LEMMA OtherEnd == \A e \in Ends : Other(e) \in Ends /\ Other(Other(e)) = e /\ Other(e) # e
BY DEF Ends, Other

LEMMA DoneIsEmpty ==
  Done.at = "done" /\ Done.buf = <<>> /\ Done.at # "read" /\ Done.at # "write"
BY DEF Done

LEMMA TcpInitInv == TcpInit => TcpInv
<1>. SUFFICES ASSUME TcpInit PROVE TcpInv
  OBVIOUS
<1>. USE DEF TcpInit, Reading, Done
<1>1. TcpTypeOK
  BY DEF TcpTypeOK
<1>2. ASSUME NEW e \in Ends PROVE Way(e)
  <2>1. Delivered(e) /\ Carried(e)
    BY <1>2, OtherEnd DEF Delivered, Carried, Follow, Ordered, Complete
  <2>2. Buffers(e) /\ ShutLast(e) /\ EofLast(e)
    BY <1>2, OtherEnd DEF Buffers, ShutLast, EofLast, NoReset
  <2>. QED  BY <2>1, <2>2 DEF Way
<1>. QED  BY <1>1, <1>2 DEF TcpInv

\* What it does to numbers in order: to append the next, to take the first
\* away, and to cut them in two.
LEMMA FollowAppend ==
  ASSUME NEW s \in Seq(Nat), NEW n \in Nat, Follow(s, n), NEW x, x = n + Len(s) + 1
  PROVE  Append(s, x) \in Seq(Nat) /\ Len(Append(s, x)) = Len(s) + 1 /\ Follow(Append(s, x), n)
BY SMTT(30) DEF Follow

LEMMA EmptyIsShort ==
  ASSUME NEW s \in Seq(Nat)
  PROVE  Len(s) \in Nat /\ (s = <<>> <=> Len(s) = 0)
OBVIOUS

LEMMA FollowTail ==
  ASSUME NEW s \in Seq(Nat), NEW n \in Nat, Follow(s, n), s # <<>>
  PROVE  /\ Head(s) = n + 1 /\ Tail(s) \in Seq(Nat) /\ Len(Tail(s)) = Len(s) - 1
         /\ Follow(Tail(s), n + 1)
<1>1. Len(s) \in Nat /\ Len(s) > 0 /\ DOMAIN s = 1 .. Len(s)
  OBVIOUS
<1>2. Tail(s) \in Seq(Nat) /\ Len(Tail(s)) = Len(s) - 1
  BY <1>1
<1>3. \A i \in 1 .. Len(s) - 1 : Tail(s)[i] = s[i + 1]
  BY <1>1
<1>. QED  BY <1>1, <1>2, <1>3, SMTT(30) DEF Follow

LEMMA TailIsShorter ==
  ASSUME NEW s \in Seq(Nat), s # <<>>
  PROVE  Head(s) \in Nat /\ Tail(s) \in Seq(Nat) /\ (Len(s) = 1 <=> Tail(s) = <<>>)
<1>1. Len(s) \in Nat /\ Len(s) > 0 /\ Tail(s) \in Seq(Nat) /\ Len(Tail(s)) = Len(s) - 1 /\ Head(s) \in Nat
  OBVIOUS
<1>2. Len(s) = 1 <=> Len(s) - 1 = 0
  BY <1>1
<1>. QED  BY <1>1, <1>2, EmptyIsShort, Zenon

LEMMA FrontAndBack ==
  ASSUME NEW s \in Seq(Nat), NEW m \in 1 .. Len(s)
  PROVE  SubSeq(s, 1, m) \in Seq(Nat) /\ SubSeq(s, 1, m) # <<>> /\ SubSeq(s, m + 1, Len(s)) \in Seq(Nat)
<1>1. SubSeq(s, 1, m) \in Seq(Nat) /\ SubSeq(s, m + 1, Len(s)) \in Seq(Nat)
  OBVIOUS
<1>2. Len(SubSeq(s, 1, m)) = m
  OBVIOUS
<1>. QED  BY <1>1, <1>2, EmptyIsShort, SMTT(30)

LEMMA FollowSplit ==
  ASSUME NEW s \in Seq(Nat), NEW n \in Nat, Follow(s, n), NEW m \in 1 .. Len(s)
  PROVE  /\ SubSeq(s, 1, m) \in Seq(Nat) /\ Len(SubSeq(s, 1, m)) = m /\ Follow(SubSeq(s, 1, m), n)
         /\ SubSeq(s, m + 1, Len(s)) \in Seq(Nat) /\ Len(SubSeq(s, m + 1, Len(s))) = Len(s) - m
         /\ Follow(SubSeq(s, m + 1, Len(s)), n + m)
<1>1. Len(s) \in Nat /\ DOMAIN s = 1 .. Len(s)
  OBVIOUS
<1>2. /\ SubSeq(s, 1, m) = [i \in 1 .. m |-> s[i]]
      /\ SubSeq(s, m + 1, Len(s)) = [i \in 1 .. Len(s) - m |-> s[m + i]]
  <2>1. SubSeq(s, 1, m) = [i \in 1 .. (1 + m - 1) |-> s[i + 1 - 1]]
    BY <1>1
  <2>2. SubSeq(s, m + 1, Len(s)) = [i \in 1 .. (1 + Len(s) - (m + 1)) |-> s[i + (m + 1) - 1]]
    BY <1>1
  <2>. QED  BY <2>1, <2>2, <1>1
<1>. DEFINE front == [i \in 1 .. m |-> s[i]]
            back == [i \in 1 .. Len(s) - m |-> s[m + i]]
<1>3. m \in Nat /\ Len(s) - m \in Nat /\ (\A i \in 1 .. Len(s) : s[i] \in Nat /\ s[i] = n + i)
  BY <1>1 DEF Follow
<1>4. front \in Seq(Nat) /\ Len(front) = m
  BY <1>1, <1>3
<1>5. back \in Seq(Nat) /\ Len(back) = Len(s) - m
  BY <1>1, <1>3
<1>6. Follow(front, n) /\ Follow(back, n + m)
  BY <1>1, <1>3 DEF Follow
<1>. HIDE DEF front, back
<1>7. SubSeq(s, 1, m) = front /\ SubSeq(s, m + 1, Len(s)) = back
  BY <1>2 DEF front, back
<1>. QED  BY <1>4, <1>5, <1>6, <1>7, Zenon

\* One more is written, a buffer is filled, its first goes on its way, and the
\* first on its way is read.
LEMMA OneWritten ==
  ASSUME NEW g \in Seq(Nat), NEW l \in Seq(Nat), NEW b \in Seq(Nat), NEW a \in Seq(Nat), NEW s \in Nat,
         Complete(g, l, b, a, s)
  PROVE  Append(a, s + 1) \in Seq(Nat) /\ Complete(g, l, b, Append(a, s + 1), s + 1)
<1>. DEFINE n == Len(g) + Len(l) + Len(b)
<1>1. n \in Nat /\ n + Len(a) = s /\ Follow(a, n) /\ Follow(b, Len(g) + Len(l))
  BY DEF Complete
<1>2. Len(Append(a, s + 1)) = Len(a) + 1 /\ Follow(Append(a, s + 1), n) /\ Append(a, s + 1) \in Seq(Nat)
  <2>. HIDE DEF n
  <2>. QED  BY <1>1, FollowAppend, Zenon
<1>. QED  BY <1>1, <1>2 DEF Complete

LEMMA BufferFilled ==
  ASSUME NEW g \in Seq(Nat), NEW l \in Seq(Nat), NEW a \in Seq(Nat), NEW s \in Nat,
         Complete(g, l, <<>>, a, s), NEW m \in 1 .. Len(a)
  PROVE  /\ SubSeq(a, 1, m) \in Seq(Nat) /\ SubSeq(a, m + 1, Len(a)) \in Seq(Nat) /\ SubSeq(a, 1, m) # <<>>
         /\ Complete(g, l, SubSeq(a, 1, m), SubSeq(a, m + 1, Len(a)), s)
<1>. DEFINE n == Len(g) + Len(l)
<1>1. n \in Nat /\ n + Len(a) = s /\ Follow(a, n)
  BY DEF Complete
<1>2. /\ SubSeq(a, 1, m) \in Seq(Nat) /\ Len(SubSeq(a, 1, m)) = m /\ Follow(SubSeq(a, 1, m), n)
      /\ SubSeq(a, m + 1, Len(a)) \in Seq(Nat) /\ Len(SubSeq(a, m + 1, Len(a))) = Len(a) - m
      /\ Follow(SubSeq(a, m + 1, Len(a)), n + m)
  <2>. HIDE DEF n
  <2>. QED  BY <1>1, FollowSplit, Zenon
<1>3. ASSUME NEW f \in Seq(Nat), NEW r \in Seq(Nat), Len(f) = m, Len(r) = Len(a) - m, Follow(f, n), Follow(r, n + m)
      PROVE  Complete(g, l, f, r, s) /\ f # <<>>
  <2>0. m # 0 /\ f # <<>>
    BY <1>3, EmptyIsShort
  <2>1. n + m = n + Len(f) /\ n + Len(f) + Len(r) = s
    <3>1. n \in Nat /\ m \in Nat /\ Len(a) \in Nat /\ n + Len(a) = s
      BY <1>1, EmptyIsShort
    <3>. HIDE DEF n
    <3>2. \A x, y, z \in Nat : x + y + (z - y) = x + z
      OBVIOUS
    <3>3. n + m + (Len(a) - m) = n + Len(a)
      BY <3>1, <3>2
    <3>4. Len(f) = m /\ Len(r) = Len(a) - m
      BY <1>3
    <3>. QED  BY <3>1, <3>3, <3>4, Zenon
  <2>. QED  BY <2>0, <2>1, <1>3, Zenon DEF Complete
<1>. QED  BY <1>2, <1>3, Zenon

LEMMA FirstSentOn ==
  ASSUME NEW g \in Seq(Nat), NEW l \in Seq(Nat), NEW b \in Seq(Nat), NEW a \in Seq(Nat), NEW s \in Nat,
         Ordered(g, l, s), Complete(g, l, b, a, s), b # <<>>
  PROVE  /\ Append(l, Head(b)) \in Seq(Nat) /\ Tail(b) \in Seq(Nat) /\ (Len(b) = 1 <=> Tail(b) = <<>>)
         /\ Ordered(g, Append(l, Head(b)), s) /\ Complete(g, Append(l, Head(b)), Tail(b), a, s)
<1>1. Follow(b, Len(g) + Len(l)) /\ Len(g) + Len(l) \in Nat
  BY DEF Complete
<1>2. /\ Head(b) = Len(g) + Len(l) + 1 /\ Tail(b) \in Seq(Nat) /\ Len(Tail(b)) = Len(b) - 1
      /\ Follow(Tail(b), Len(g) + Len(l) + 1)
  BY <1>1, FollowTail
<1>3. /\ Append(l, Head(b)) \in Seq(Nat) /\ Len(Append(l, Head(b))) = Len(l) + 1
      /\ Follow(Append(l, Head(b)), Len(g))
  BY <1>2, FollowAppend DEF Ordered
<1>4. ASSUME NEW h \in Seq(Nat), NEW r \in Seq(Nat), Len(h) = Len(l) + 1, Len(r) = Len(b) - 1,
             Follow(h, Len(g)), Follow(r, Len(g) + Len(l) + 1)
      PROVE  Ordered(g, h, s) /\ Complete(g, h, r, a, s) /\ (Len(b) = 1 <=> r = <<>>)
  <2>1. Len(g) + Len(l) + Len(b) + Len(a) = s /\ Follow(a, Len(g) + Len(l) + Len(b)) /\ Follow(g, 0)
    BY DEF Complete, Ordered
  <2>2. /\ Len(g) + Len(h) = Len(g) + Len(l) + 1 /\ Len(g) + Len(h) + Len(r) = Len(g) + Len(l) + Len(b)
        /\ Len(g) + Len(h) + Len(r) + Len(a) = s /\ Len(g) + Len(h) <= s
    <3>1. Len(g) \in Nat /\ Len(l) \in Nat /\ Len(b) \in Nat /\ Len(a) \in Nat /\ Len(b) # 0
      BY EmptyIsShort, Zenon
    <3>2. /\ Len(g) + (Len(l) + 1) = Len(g) + Len(l) + 1
          /\ Len(g) + (Len(l) + 1) + (Len(b) - 1) = Len(g) + Len(l) + Len(b)
          /\ Len(g) + (Len(l) + 1) <= s
      BY <2>1, <3>1
    <3>. QED  BY <2>1, <3>2, <1>4, Zenon
  <2>3. Len(b) = 1 <=> r = <<>>
    <3>1. Len(b) \in Nat /\ (Len(b) = 1 <=> Len(b) - 1 = 0)
      BY EmptyIsShort
    <3>. QED  BY <3>1, <1>4, EmptyIsShort, Zenon
  <2>. QED  BY <2>1, <2>2, <2>3, <1>4, Zenon DEF Ordered, Complete
<1>. QED  BY <1>2, <1>3, <1>4, Zenon

LEMMA FirstRead ==
  ASSUME NEW g \in Seq(Nat), NEW l \in Seq(Nat), NEW s \in Nat, Ordered(g, l, s), l # <<>>
  PROVE  /\ Append(g, Head(l)) \in Seq(Nat) /\ Tail(l) \in Seq(Nat)
         /\ Len(Append(g, Head(l))) = Len(g) + 1 /\ Len(Tail(l)) = Len(l) - 1
         /\ Ordered(Append(g, Head(l)), Tail(l), s)
         /\ \A b, a \in Seq(Nat) : Complete(g, l, b, a, s) => Complete(Append(g, Head(l)), Tail(l), b, a, s)
<1>1. Head(l) = Len(g) + 1 /\ Tail(l) \in Seq(Nat) /\ Len(Tail(l)) = Len(l) - 1 /\ Follow(Tail(l), Len(g) + 1)
  BY FollowTail DEF Ordered
<1>2. /\ Append(g, Head(l)) \in Seq(Nat) /\ Len(Append(g, Head(l))) = Len(g) + 1
      /\ Follow(Append(g, Head(l)), 0)
  BY <1>1, FollowAppend DEF Ordered
<1>3. ASSUME NEW h \in Seq(Nat), NEW r \in Seq(Nat), Len(h) = Len(g) + 1, Len(r) = Len(l) - 1,
             Follow(h, 0), Follow(r, Len(g) + 1)
      PROVE  Ordered(h, r, s) /\ \A b, a \in Seq(Nat) : Complete(g, l, b, a, s) => Complete(h, r, b, a, s)
  <2>1. Len(h) + Len(r) = Len(g) + Len(l) /\ Len(g) + Len(l) <= s
    BY <1>3 DEF Ordered
  <2>. QED  BY <2>1, <1>3, Zenon DEF Ordered, Complete
<1>. QED  BY <1>1, <1>2, <1>3, Zenon
-----------------------------------------------------------------------------
\* A step that leaves what is on its way to d alone.
LEMMA WayStays ==
  ASSUME TcpInv, NEW d \in Ends,
         UNCHANGED <<stage, peer, got[d], leaving[d], shut[d], eof[d]>>,
         UNCHANGED <<sent[Other(d)], arrived[Other(d)], copier[Other(d)]>>
  PROVE  Way(d)'
<1>0. Way(d)
  BY DEF TcpInv
<1>1. Delivered(d)' /\ Carried(d)'
  BY <1>0, Zenon DEF Way, Delivered, Carried
<1>2. Buffers(d)' /\ ShutLast(d)' /\ EofLast(d)'
  BY <1>0, Zenon DEF Way, Buffers, ShutLast, EofLast, NoReset
<1>. QED  BY <1>1, <1>2 DEF Way

\* The types of what is on its way to d.
LEMMA WayTypes ==
  ASSUME TcpTypeOK, NEW d \in Ends
  PROVE  /\ got[d] \in Seq(Nat) /\ leaving[d] \in Seq(Nat) /\ arrived[Other(d)] \in Seq(Nat)
         /\ copier[Other(d)].buf \in Seq(Nat) /\ sent[Other(d)] \in Nat
<1>1. Other(d) \in Ends
  BY OtherEnd, Zenon
<1>2. got[d] \in Seq(Nat) /\ leaving[d] \in Seq(Nat) /\ arrived[Other(d)] \in Seq(Nat) /\ sent[Other(d)] \in Nat
  BY <1>1, Zenon DEF TcpTypeOK
<1>3. copier[Other(d)] \in [at : {"read", "write", "done"}, buf : Seq(Nat)]
  BY <1>1, Zenon DEF TcpTypeOK
<1>. QED  BY <1>2, <1>3, Zenon

\* A peer writes: the next number arrives.
LEMMA SendInv ==
  ASSUME TcpInv, NEW e \in Ends, Send(e)
  PROVE  TcpInv'
<1>1. /\ peer[e] = "open" /\ sent' = [sent EXCEPT ![e] = @ + 1]
      /\ arrived' = [arrived EXCEPT ![e] = Append(@, sent[e] + 1)]
      /\ UNCHANGED <<stage, peer, copier, leaving, shut, got, eof>>
  BY DEF Send
<1>2. TcpTypeOK /\ \A d \in Ends : Way(d)
  BY Zenon DEF TcpInv
<1>3. TcpTypeOK'
  BY <1>1, <1>2, SMTT(30) DEF TcpTypeOK
<1>4. sent'[e] = sent[e] + 1 /\ arrived'[e] = Append(arrived[e], sent[e] + 1)
  BY <1>1, <1>2 DEF TcpTypeOK
<1>5. Way(e)'
  <2>1. sent'[Other(e)] = sent[Other(e)] /\ arrived'[Other(e)] = arrived[Other(e)]
    BY <1>1, <1>2, OtherEnd DEF TcpTypeOK
  <2>. QED  BY <2>1, <1>1, WayStays
<1>6. ASSUME NEW d \in Ends, Other(d) = e PROVE Way(d)'
  <2>1. /\ got[d] \in Seq(Nat) /\ leaving[d] \in Seq(Nat) /\ arrived[e] \in Seq(Nat)
        /\ copier[e].buf \in Seq(Nat) /\ sent[e] \in Nat
    BY <1>2, <1>6, WayTypes, Zenon
  <2>2. Way(d)
    BY <1>2
  <2>3. Delivered(d)'
    <3>1. \A g, l \in Seq(Nat), s \in Nat : Ordered(g, l, s) => Ordered(g, l, s + 1)
      BY DEF Ordered
    <3>. QED  BY <3>1, <2>1, <2>2, <1>1, <1>4, <1>6, Zenon DEF Way, Delivered
  <2>4. Carried(d)'
    <3>1. Complete(got[d], leaving[d], copier[e].buf, arrived[e], sent[e]) =>
            Complete(got[d], leaving[d], copier[e].buf, Append(arrived[e], sent[e] + 1), sent[e] + 1)
      BY <2>1, OneWritten
    <3>. QED  BY <3>1, <2>2, <1>1, <1>4, <1>6, Zenon DEF Way, Carried
  <2>5. Buffers(d)'
    BY <2>2, <1>1, <1>6, Zenon DEF Way, Buffers
  <2>6. ShutLast(d)'
    <3>1. peer[Other(d)] # "finished"
      BY <1>1, <1>6
    <3>2. NoReset' = NoReset
      BY <1>1 DEF NoReset
    <3>3. ~(NoReset /\ stage # "refused" /\ shut[d] = "fin")
      BY <3>1, <2>2, Zenon DEF Way, ShutLast
    <3>. QED  BY <3>2, <3>3, <2>2, <1>1, Zenon DEF Way, ShutLast
  <2>7. EofLast(d)'
    BY <2>2, <1>1, <1>6, Zenon DEF Way, EofLast, NoReset
  <2>. QED  BY <2>3, <2>4, <2>5, <2>6, <2>7 DEF Way
<1>7. \A d \in Ends : d = e \/ Other(d) = e
  BY DEF Ends, Other
<1>. QED  BY <1>3, <1>5, <1>6, <1>7, Zenon DEF TcpInv

\* A step in which peers end, or the dial does: what is on its way stays, but
\* that a reset loses what its peer has not read.
LEMMA PeerEndsInv ==
  ASSUME TcpInv, NEW e \in Ends, Finish(e) \/ ResetByPeer(e)
  PROVE  TcpInv'
<1>1. TcpTypeOK /\ \A d \in Ends : Way(d)
  BY DEF TcpInv
<1>2. CASE Finish(e)
  <2>1. /\ peer[e] = "open" /\ peer' = [peer EXCEPT ![e] = "finished"]
        /\ UNCHANGED <<stage, sent, arrived, copier, leaving, shut, got, eof>>
    BY <1>2, Zenon DEF Finish
  <2>2. TcpTypeOK'
    BY <2>1, <1>1 DEF TcpTypeOK
  <2>3. \A d \in Ends : peer'[d] = IF d = e THEN "finished" ELSE peer[d]
    BY <2>1, <1>1 DEF TcpTypeOK
  <2>4. NoReset' = NoReset
    BY <2>1, <2>3 DEF NoReset
  <2>5. ASSUME NEW d \in Ends PROVE Way(d)'
    <3>1. Way(d) /\ (peer'[d] = "reset" <=> peer[d] = "reset") /\ Other(d) \in Ends
      BY <1>1, <2>1, <2>3, OtherEnd
    <3>2. Delivered(d)' /\ Carried(d)' /\ Buffers(d)'
      BY <3>1, <2>1, Zenon DEF Way, Delivered, Carried, Buffers
    <3>3. peer[Other(d)] = "finished" => peer'[Other(d)] = "finished"
      BY <3>1, <2>3
    <3>4. ShutLast(d)' /\ EofLast(d)'
      BY <3>1, <3>3, <2>1, <2>4, Zenon DEF Way, ShutLast, EofLast
    <3>. QED  BY <3>2, <3>4 DEF Way
  <2>. QED  BY <2>2, <2>5 DEF TcpInv
<1>3. CASE ResetByPeer(e)
  <2>1. /\ peer' = [peer EXCEPT ![e] = "reset"] /\ leaving' = [leaving EXCEPT ![e] = <<>>]
        /\ UNCHANGED <<stage, sent, arrived, copier, shut, got, eof>>
    BY <1>3, Zenon DEF ResetByPeer
  <2>2. TcpTypeOK'
    <3>1. <<>> \in Seq(Nat)
      OBVIOUS
    <3>. QED  BY <2>1, <3>1, <1>1, Zenon DEF TcpTypeOK
  <2>3. /\ \A d \in Ends : peer'[d] = IF d = e THEN "reset" ELSE peer[d]
        /\ \A d \in Ends : leaving'[d] = IF d = e THEN <<>> ELSE leaving[d]
    BY <2>1, <1>1 DEF TcpTypeOK
  <2>4. ~NoReset'
    BY <2>3 DEF NoReset
  <2>5. ASSUME NEW d \in Ends PROVE Way(d)'
    <3>1. Way(d) /\ got[d] \in Seq(Nat) /\ leaving[d] \in Seq(Nat) /\ sent[Other(d)] \in Nat
      BY <1>1, WayTypes, Zenon
    <3>2. CASE d # e
      <4>1. peer'[d] = peer[d] /\ leaving'[d] = leaving[d]
        BY <3>2, <2>3
      <4>. QED  BY <3>1, <4>1, <2>1, <2>4, Zenon DEF Way, Delivered, Carried, Buffers, ShutLast, EofLast
    <3>3. CASE d = e
      <4>1. peer'[d] = "reset" /\ leaving'[d] = <<>>
        BY <3>3, <2>3
      <4>2. \A g, l \in Seq(Nat), s \in Nat : Ordered(g, l, s) => Ordered(g, <<>>, s)
        BY DEF Ordered, Follow
      <4>3. Delivered(d)'
        BY <3>1, <4>1, <4>2, <2>1, Zenon DEF Way, Delivered
      <4>. QED  BY <3>1, <4>1, <4>3, <2>1, <2>4, Zenon DEF Way, Carried, Buffers, ShutLast, EofLast
    <3>. QED  BY <3>2, <3>3
  <2>. QED  BY <2>2, <2>5 DEF TcpInv
<1>. QED  BY <1>2, <1>3

\* A peer reads, or reads the end.
LEMMA ReceiveInv ==
  ASSUME TcpInv, NEW e \in Ends, Receive(e)
  PROVE  TcpInv'
<1>1. /\ leaving[e] # <<>> /\ peer[e] # "reset"
      /\ got' = [got EXCEPT ![e] = Append(@, Head(leaving[e]))] /\ leaving' = [leaving EXCEPT ![e] = Tail(@)]
      /\ UNCHANGED <<stage, peer, sent, arrived, copier, shut, eof>>
  BY DEF Receive
<1>2. TcpTypeOK /\ \A d \in Ends : Way(d)
  BY DEF TcpInv
<1>3. /\ \A d \in Ends : got'[d] = IF d = e THEN Append(got[e], Head(leaving[e])) ELSE got[d]
      /\ \A d \in Ends : leaving'[d] = IF d = e THEN Tail(leaving[e]) ELSE leaving[d]
  BY <1>1, <1>2, Zenon DEF TcpTypeOK
<1>4. Way(e) /\ got[e] \in Seq(Nat) /\ leaving[e] \in Seq(Nat) /\ sent[Other(e)] \in Nat
      /\ copier[Other(e)].buf \in Seq(Nat) /\ arrived[Other(e)] \in Seq(Nat)
  BY <1>2, WayTypes
<1>5. /\ got'[e] \in Seq(Nat) /\ leaving'[e] \in Seq(Nat)
      /\ Len(got'[e]) = Len(got[e]) + 1 /\ Len(leaving'[e]) = Len(leaving[e]) - 1
      /\ Ordered(got'[e], leaving'[e], sent[Other(e)])
      /\ \A b, a \in Seq(Nat) : Complete(got[e], leaving[e], b, a, sent[Other(e)]) =>
                                Complete(got'[e], leaving'[e], b, a, sent[Other(e)])
  <2>1. got'[e] = Append(got[e], Head(leaving[e])) /\ leaving'[e] = Tail(leaving[e])
    BY <1>3, Zenon
  <2>2. Ordered(got[e], leaving[e], sent[Other(e)])
    BY <1>4, Zenon DEF Way, Delivered
  <2>. DEFINE g == Append(got[e], Head(leaving[e]))
              l == Tail(leaving[e])
  <2>3. /\ g \in Seq(Nat) /\ l \in Seq(Nat) /\ Len(g) = Len(got[e]) + 1 /\ Len(l) = Len(leaving[e]) - 1
        /\ Ordered(g, l, sent[Other(e)])
    BY <2>2, <1>1, <1>4, FirstRead, Zenon
  <2>4. \A b, a \in Seq(Nat) :
          Complete(got[e], leaving[e], b, a, sent[Other(e)]) => Complete(g, l, b, a, sent[Other(e)])
    BY <2>2, <1>1, <1>4, FirstRead, Zenon
  <2>. HIDE DEF g, l
  <2>5. got'[e] = g /\ leaving'[e] = l
    BY <2>1 DEF g, l
  <2>. QED  BY <2>3, <2>4, <2>5, Zenon
<1>6. TcpTypeOK'
  <2>1. got' \in [Ends -> Seq(Nat)] /\ leaving' \in [Ends -> Seq(Nat)]
    BY <1>1, <1>2, <1>3, <1>5, Zenon DEF TcpTypeOK
  <2>. QED  BY <2>1, <1>1, <1>2, Zenon DEF TcpTypeOK
<1>7. Way(e)'
  <2>1. Delivered(e)' /\ Carried(e)' /\ Buffers(e)'
    BY <1>1, <1>4, <1>5, Zenon DEF Way, Delivered, Carried, Buffers
  <2>2. Len(got'[e]) + Len(leaving'[e]) = Len(got[e]) + Len(leaving[e])
    <3>1. \A x, y \in Nat : (x + 1) + (y - 1) = x + y
      OBVIOUS
    <3>2. Len(got[e]) \in Nat /\ Len(leaving[e]) \in Nat
      BY <1>4, EmptyIsShort, Zenon
    <3>. QED  BY <3>1, <3>2, <1>5, Zenon
  <2>3. ShutLast(e)'
    BY <2>2, <1>1, <1>4, Zenon DEF Way, ShutLast, NoReset
  <2>4. EofLast(e)'
    <3>1. \A g, l \in Seq(Nat), s \in Nat : Ordered(g, l, s) /\ Len(g) = s => Len(l) = 0
      BY EmptyIsShort DEF Ordered
    <3>2. Len(got[e]) # sent[Other(e)]
      BY <3>1, <1>1, <1>4, EmptyIsShort, Zenon DEF Way, Delivered
    <3>. QED  BY <3>2, <1>1, <1>4, Zenon DEF Way, EofLast, NoReset
  <2>. QED  BY <2>1, <2>3, <2>4 DEF Way
<1>8. ASSUME NEW d \in Ends, d # e PROVE Way(d)'
  BY <1>1, <1>3, <1>8, WayStays, Zenon
<1>. QED  BY <1>6, <1>7, <1>8 DEF TcpInv

LEMMA ReceiveEofInv ==
  ASSUME TcpInv, NEW e \in Ends, ReceiveEof(e)
  PROVE  TcpInv'
<1>1. /\ leaving[e] = <<>> /\ shut[e] = "fin" /\ eof' = [eof EXCEPT ![e] = TRUE]
      /\ UNCHANGED <<stage, peer, sent, arrived, copier, leaving, shut, got>>
  BY Zenon DEF ReceiveEof
<1>2. TcpTypeOK /\ \A d \in Ends : Way(d)
  BY DEF TcpInv
<1>3. TcpTypeOK'
  BY <1>1, <1>2, Zenon DEF TcpTypeOK
<1>4. Way(e)'
  <2>1. Len(got[e]) + Len(leaving[e]) = Len(got[e])
    <3>1. got[e] \in Seq(Nat) /\ leaving[e] \in Seq(Nat)
      BY <1>2, WayTypes, Zenon
    <3>2. \A x \in Nat : x + 0 = x
      OBVIOUS
    <3>. QED  BY <3>1, <3>2, <1>1, EmptyIsShort, Zenon
  <2>2. EofLast(e)'
    BY <2>1, <1>1, <1>2, Zenon DEF Way, ShutLast, EofLast, NoReset
  <2>3. Delivered(e)' /\ Carried(e)' /\ Buffers(e)' /\ ShutLast(e)'
    BY <1>1, <1>2, Zenon DEF Way, Delivered, Carried, Buffers, ShutLast, NoReset
  <2>. QED  BY <2>2, <2>3 DEF Way
<1>5. ASSUME NEW d \in Ends, d # e PROVE Way(d)'
  <2>1. eof'[d] = eof[d]
    BY <1>1, <1>2, <1>5 DEF TcpTypeOK
  <2>. QED  BY <2>1, <1>1, WayStays, Zenon
<1>. QED  BY <1>3, <1>4, <1>5 DEF TcpInv

\* The dial succeeds, or fails and the flow is refused.
LEMMA DialInv ==
  ASSUME TcpInv, DialSucceeds \/ DialFails
  PROVE  TcpInv'
<1>1. TcpTypeOK /\ \A d \in Ends : Way(d)
  BY DEF TcpInv
<1>2. CASE DialSucceeds
  <2>1. /\ stage = "dialing" /\ stage' = "splicing"
        /\ UNCHANGED <<peer, sent, arrived, copier, leaving, shut, got, eof>>
    BY <1>2, Zenon DEF DialSucceeds
  <2>2. TcpTypeOK'
    BY <2>1, <1>1, Zenon DEF TcpTypeOK
  <2>3. ASSUME NEW d \in Ends PROVE Way(d)'
    BY <2>1, <2>3, <1>1, Zenon DEF Way, Delivered, Carried, Buffers, ShutLast, EofLast, NoReset
  <2>. QED  BY <2>2, <2>3 DEF TcpInv
<1>3. CASE DialFails
  <2>1. /\ stage' = "refused" /\ shut' = Close("mesh", shut)
        /\ UNCHANGED <<peer, sent, arrived, copier, leaving, got, eof>>
    BY <1>3, Zenon DEF DialFails
  <2>2. TcpTypeOK' /\ \A d \in Ends : shut[d] # "no" => shut'[d] # "no"
    BY <2>1, <1>1 DEF TcpTypeOK, Close, Ends
  <2>3. ASSUME NEW d \in Ends PROVE Way(d)'
    BY <2>1, <2>2, <2>3, <1>1, Zenon DEF Way, Delivered, Carried, Buffers, ShutLast, EofLast, NoReset
  <2>. QED  BY <2>2, <2>3 DEF TcpInv
<1>. QED  BY <1>2, <1>3

\* io.Copy fills its buffer.
LEMMA CopyReadInv ==
  ASSUME TcpInv, NEW e \in Ends, CopyRead(e)
  PROVE  TcpInv'
<1>1. PICK m \in 1 .. Len(arrived[e]) :
         /\ copier' = [copier EXCEPT ![e] = [at |-> "write", buf |-> SubSeq(arrived[e], 1, m)]]
         /\ arrived' = [arrived EXCEPT ![e] = SubSeq(@, m + 1, Len(@))]
  BY Zenon DEF CopyRead
<1>2. copier[e].at = "read" /\ stage = "splicing" /\ UNCHANGED <<stage, peer, sent, leaving, shut, got, eof>>
  BY DEF CopyRead
<1>3. TcpTypeOK /\ \A d \in Ends : Way(d)
  BY DEF TcpInv
<1>. DEFINE front == SubSeq(arrived[e], 1, m)
            back == SubSeq(arrived[e], m + 1, Len(arrived[e]))
<1>4. front \in Seq(Nat) /\ front # <<>> /\ back \in Seq(Nat)
  BY <1>3, FrontAndBack, Zenon DEF TcpTypeOK
<1>5. /\ copier' = [copier EXCEPT ![e] = [at |-> "write", buf |-> front]]
      /\ arrived' = [arrived EXCEPT ![e] = back]
  BY <1>1, <1>3, Zenon DEF TcpTypeOK
<1>6. ASSUME NEW d \in Ends, Other(d) = e
      PROVE  Complete(got[d], leaving[d], <<>>, arrived[e], sent[e]) =>
               Complete(got[d], leaving[d], front, back, sent[e])
  <2>1. /\ got[d] \in Seq(Nat) /\ leaving[d] \in Seq(Nat) /\ arrived[e] \in Seq(Nat) /\ sent[e] \in Nat
    BY <1>3, <1>6, WayTypes, Zenon
  <2>. QED  BY <2>1, BufferFilled, Zenon
<1>. HIDE DEF front, back
<1>7. copier'[e] = [at |-> "write", buf |-> front] /\ arrived'[e] = back
  BY <1>3, <1>5, Zenon DEF TcpTypeOK
<1>8. TcpTypeOK'
  BY <1>2, <1>3, <1>4, <1>5, Zenon DEF TcpTypeOK
<1>9. Way(e)'
  <2>1. copier'[Other(e)] = copier[Other(e)] /\ arrived'[Other(e)] = arrived[Other(e)]
    BY <1>3, <1>5, OtherEnd, Zenon DEF TcpTypeOK
  <2>. QED  BY <2>1, <1>2, WayStays, Zenon
<1>10. ASSUME NEW d \in Ends, Other(d) = e PROVE Way(d)'
  <2>1. Way(d) /\ copier[e] = Reading /\ copier[e].buf = <<>>
    BY <1>2, <1>3, <1>10, Zenon DEF Way, Buffers, Reading
  <2>2. Delivered(d)' /\ EofLast(d)'
    BY <2>1, <1>2, <1>10, Zenon DEF Way, Delivered, EofLast, NoReset
  <2>3. copier'[e].at = "write" /\ copier'[e].buf = front
    BY <1>7
  <2>4. Carried(d)'
    BY <2>1, <2>3, <1>2, <1>6, <1>7, <1>10, Zenon DEF Way, Carried
  <2>5. Buffers(d)'
    BY <2>3, <1>4, <1>10, Zenon DEF Buffers
  <2>6. copier[e] # Done /\ copier'[e] # Done
    BY <2>1, <2>3, <1>2 DEF Done
  <2>7. ShutLast(d)'
    BY <2>1, <2>6, <1>2, <1>10, Zenon DEF Way, ShutLast, NoReset
  <2>. QED  BY <2>2, <2>4, <2>5, <2>7 DEF Way
<1>11. \A d \in Ends : d = e \/ Other(d) = e
  BY DEF Ends, Other
<1>. QED  BY <1>8, <1>9, <1>10, <1>11, Zenon DEF TcpInv

\* io.Copy writes a number on.
LEMMA CopyWriteInv ==
  ASSUME TcpInv, NEW e \in Ends, CopyWrite(e)
  PROVE  TcpInv'
<1>. DEFINE c == copier[e]
            d == Other(e)
            next == IF Len(c.buf) = 1 THEN Reading ELSE [c EXCEPT !.buf = Tail(@)]
            way == Append(leaving[d], Head(c.buf))
<1>1. /\ stage = "splicing" /\ c.at = "write" /\ peer[d] # "reset"
      /\ leaving' = [leaving EXCEPT ![d] = way] /\ copier' = [copier EXCEPT ![e] = next]
      /\ UNCHANGED <<stage, peer, sent, arrived, shut, got, eof>>
  BY DEF CopyWrite
<1>2. TcpTypeOK /\ (\A x \in Ends : Way(x)) /\ d \in Ends /\ Other(d) = e /\ d # e
  BY OtherEnd, Zenon DEF TcpInv
<1>3. /\ got[d] \in Seq(Nat) /\ leaving[d] \in Seq(Nat) /\ arrived[e] \in Seq(Nat)
      /\ c.buf \in Seq(Nat) /\ sent[e] \in Nat
  BY <1>2, WayTypes
<1>4. c.buf # <<>> /\ shut[d] = "no"
  <2>1. c # Done
    BY <1>1 DEF Done
  <2>. QED  BY <2>1, <1>1, <1>2, Zenon DEF Way, Buffers, ShutLast
<1>5. way \in Seq(Nat) /\ Tail(c.buf) \in Seq(Nat) /\ (Len(c.buf) = 1 <=> Tail(c.buf) = <<>>)
  <2>1. \A l \in Seq(Nat), n \in Nat : Append(l, n) \in Seq(Nat)
    OBVIOUS
  <2>. QED  BY <2>1, <1>3, <1>4, TailIsShorter, Zenon
<1>6. /\ next \in [at : {"read", "write", "done"}, buf : Seq(Nat)]
      /\ next.buf = Tail(c.buf) /\ next.at # "done"
      /\ next.at = "write" <=> next.buf # <<>> 
      /\ next.at = "read" => next = Reading
  <2>2. CASE Len(c.buf) = 1
    <3>1. next = Reading /\ Tail(c.buf) = <<>>
      BY <2>2, <1>5, Zenon
    <3>. HIDE DEF next
    <3>. QED  BY <3>1 DEF Reading
  <2>3. CASE Len(c.buf) # 1
    <3>1. next = [c EXCEPT !.buf = Tail(c.buf)] /\ Tail(c.buf) # <<>>
      BY <2>3, <1>5, Zenon
    <3>. HIDE DEF next
    <3>2. \A b \in [at : {"read", "write", "done"}, buf : Seq(Nat)], t \in Seq(Nat) :
            b.at = "write" => [b EXCEPT !.buf = t] = [at |-> "write", buf |-> t]
      BY SMTT(30)
    <3>3. c \in [at : {"read", "write", "done"}, buf : Seq(Nat)]
      BY <1>2, Zenon DEF TcpTypeOK
    <3>4. next = [at |-> "write", buf |-> Tail(c.buf)]
      BY <3>1, <3>2, <3>3, <1>1, <1>5, Zenon
    <3>. DEFINE t == Tail(c.buf)
    <3>5. next = [at |-> "write", buf |-> t] /\ t \in Seq(Nat) /\ t # <<>>
      BY <3>1, <3>4, <1>5, Zenon
    <3>. HIDE DEF t
    <3>6. /\ next \in [at : {"read", "write", "done"}, buf : Seq(Nat)]
          /\ next.buf = t /\ next.at = "write" /\ next.buf # <<>>
      BY <3>5
    <3>. QED  BY <3>6 DEF t
  <2>. QED  BY <2>2, <2>3
<1>7. Ordered(got[d], way, sent[e]) /\ Complete(got[d], way, next.buf, arrived[e], sent[e])
  <2>1. Ordered(got[d], leaving[d], sent[e]) /\ Complete(got[d], leaving[d], c.buf, arrived[e], sent[e])
    BY <1>1, <1>2, Zenon DEF Way, Delivered, Carried
  <2>2. Ordered(got[d], way, sent[e]) /\ Complete(got[d], way, Tail(c.buf), arrived[e], sent[e])
    BY <2>1, <1>3, <1>4, FirstSentOn, Zenon
  <2>. QED  BY <2>2, <1>6, Zenon
<1>. HIDE DEF way, next
<1>8. leaving'[d] = way /\ copier'[e] = next
  BY <1>1, <1>2, Zenon DEF TcpTypeOK
<1>9. TcpTypeOK'
  BY <1>1, <1>2, <1>5, <1>6, Zenon DEF TcpTypeOK
<1>10. Way(e)'
  <2>1. leaving'[e] = leaving[e] /\ copier'[d] = copier[d]
    BY <1>1, <1>2 DEF TcpTypeOK
  <2>. QED  BY <2>1, <1>1, WayStays, Zenon
<1>11. Way(d)'
  <2>1. Delivered(d)' /\ Carried(d)'
    BY <1>1, <1>2, <1>7, <1>8, Zenon DEF Delivered, Carried
  <2>2. Buffers(d)'
    BY <1>2, <1>6, <1>8, Zenon DEF Buffers
  <2>3. next # Done
    BY <1>6 DEF Done
  <2>4. ShutLast(d)' /\ EofLast(d)'
    <3>1. "no" # "fin"
      OBVIOUS
    <3>. QED  BY <3>1, <2>3, <1>1, <1>2, <1>4, <1>8, Zenon DEF Way, ShutLast, EofLast, NoReset
  <2>. QED  BY <2>1, <2>2, <2>4 DEF Way
<1>12. \A x \in Ends : x = e \/ x = d
  BY DEF Ends, Other
<1>. QED  BY <1>9, <1>10, <1>11, <1>12, Zenon DEF TcpInv

\* A way ends, at the end of its stream or on an error.
LEMMA CopyEndsInv ==
  ASSUME TcpInv, NEW e \in Ends, CopyEof(e) \/ CopyFails(e)
  PROVE  TcpInv'
<1>. DEFINE d == Other(e)
<1>1. /\ stage = "splicing" /\ copier' = [copier EXCEPT ![e] = Done]
      /\ UNCHANGED <<stage, peer, sent, arrived, leaving, got, eof>>
  BY DEF CopyEof, CopyFails
<1>2. TcpTypeOK /\ (\A x \in Ends : Way(x)) /\ d \in Ends /\ Other(d) = e /\ d # e
  BY OtherEnd, Zenon DEF TcpInv
<1>3. TcpTypeOK' /\ copier'[e] = Done /\ copier'[d] = copier[d] /\ shut'[e] = shut[e]
  <2>1. Done \in [at : {"read", "write", "done"}, buf : Seq(Nat)]
    BY DEF Done
  <2>2. shut' \in [Ends -> {"no", "fin", "rst"}] /\ shut'[e] = shut[e]
    BY <1>2, Zenon DEF TcpTypeOK, CopyEof, CopyFails
  <2>. QED  BY <2>1, <2>2, <1>1, <1>2, Zenon DEF TcpTypeOK
<1>4. Way(e)'
  BY <1>1, <1>3, WayStays, Zenon
<1>5. Way(d)'
  <2>1. Delivered(d)' /\ EofLast(d)'
    BY <1>1, <1>2, Zenon DEF Way, Delivered, EofLast, NoReset
  <2>2. Carried(d)' /\ Buffers(d)'
    BY <1>2, <1>3, DoneIsEmpty, Zenon DEF Carried, Buffers
  <2>3. ShutLast(d)'
    <3>1. CASE CopyFails(e)
      <4>1. ~NoReset
        BY <3>1, <1>2 DEF CopyFails, NoReset
      <4>. QED  BY <4>1, <1>1, <1>2, <1>3, Zenon DEF ShutLast, NoReset
    <3>2. CASE CopyEof(e)
      <4>1. copier[e].at = "read" /\ arrived[e] = <<>> /\ peer[e] = "finished"
        BY <3>2, Zenon DEF CopyEof
      <4>2. NoReset => shut'[d] = "fin"
        BY <3>2, <1>2, Zenon DEF CopyEof, NoReset, TcpTypeOK
      <4>3. copier[e].buf = <<>>
        BY <4>1, <1>2, Zenon DEF Way, Buffers, Reading
      <4>4. NoReset => Complete(got[d], leaving[d], <<>>, <<>>, sent[e])
        BY <4>1, <4>3, <1>2, Zenon DEF Way, Carried, NoReset
      <4>5. /\ got[d] \in Seq(Nat) /\ leaving[d] \in Seq(Nat) /\ sent[e] \in Nat
        BY <1>2, WayTypes
      <4>6. \A g, l \in Seq(Nat), n \in Nat : Complete(g, l, <<>>, <<>>, n) => Len(g) + Len(l) = n
        <5>. TAKE g, l \in Seq(Nat), n \in Nat
        <5>1. Len(g) \in Nat /\ Len(l) \in Nat /\ Len(<<>>) = 0
          OBVIOUS
        <5>. QED  BY <5>1 DEF Complete
      <4>7. NoReset => Len(got[d]) + Len(leaving[d]) = sent[e]
        BY <4>4, <4>5, <4>6, Zenon
      <4>8. "fin" # "no"
        OBVIOUS
      <4>. QED  BY <4>1, <4>2, <4>7, <4>8, <1>1, <1>2, <1>3, Zenon DEF ShutLast, NoReset
    <3>. QED  BY <3>1, <3>2
  <2>. QED  BY <2>1, <2>2, <2>3 DEF Way
<1>6. \A x \in Ends : x = e \/ x = d
  BY DEF Ends, Other
<1>. QED  BY <1>3, <1>4, <1>5, <1>6, Zenon DEF TcpInv

\* Both connections are closed: what has not been read is lost to the peer.
LEMMA TeardownInv ==
  ASSUME TcpInv, Teardown
  PROVE  TcpInv'
<1>1. /\ stage = "splicing" /\ stage' = "closed" /\ \A x \in Ends : copier[x] = Done
      /\ UNCHANGED <<peer, sent, arrived, copier, got, eof>>
  BY DEF Teardown
<1>2. TcpTypeOK /\ \A x \in Ends : Way(x)
  BY Zenon DEF TcpInv
<1>3. TcpTypeOK'
  <2>1. ASSUME NEW s \in [Ends -> {"no", "fin", "rst"}], NEW x \in Ends
        PROVE  Close(x, s) \in [Ends -> {"no", "fin", "rst"}]
    BY DEF Close
  <2>2. ASSUME NEW l \in [Ends -> Seq(Nat)], NEW x \in Ends
        PROVE  Lost(x, l) \in [Ends -> Seq(Nat)]
    <3>1. <<>> \in Seq(Nat) /\ l[x] \in Seq(Nat)
      OBVIOUS
    <3>. QED  BY <3>1 DEF Lost
  <2>3. "mesh" \in Ends /\ "host" \in Ends
    BY DEF Ends
  <2>4. shut' \in [Ends -> {"no", "fin", "rst"}] /\ leaving' \in [Ends -> Seq(Nat)]
    BY <2>1, <2>2, <2>3, <1>2, Zenon DEF Teardown, TcpTypeOK
  <2>. QED  BY <2>4, <1>1, <1>2, Zenon DEF TcpTypeOK
<1>4. ASSUME NEW d \in Ends
      PROVE  /\ shut'[d] # "no" /\ leaving'[d] \in {leaving[d], <<>>}
             /\ shut'[d] = "fin" => shut[d] \in {"no", "fin"} /\ leaving'[d] = leaving[d]
  BY <1>2, <1>4, Zenon DEF Teardown, TcpTypeOK, Close, Lost, Ends
<1>5. ASSUME NEW d \in Ends PROVE Way(d)'
  <2>1. Way(d) /\ Other(d) \in Ends /\ copier[Other(d)] = Done
    BY <1>1, <1>2, <1>5, OtherEnd
  <2>2. Ordered(got[d], leaving'[d], sent[Other(d)])
    <3>1. got[d] \in Seq(Nat) /\ leaving[d] \in Seq(Nat) /\ sent[Other(d)] \in Nat
      BY <1>2, <1>5, WayTypes
    <3>2. \A g, l \in Seq(Nat), n \in Nat : Ordered(g, l, n) => Ordered(g, <<>>, n)
      <4>. TAKE g, l \in Seq(Nat), n \in Nat
      <4>1. Len(g) \in Nat /\ Len(l) \in Nat /\ Len(<<>>) = 0
        OBVIOUS
      <4>. QED  BY <4>1 DEF Ordered, Follow
    <3>. QED  BY <3>1, <3>2, <2>1, <1>4, Zenon DEF Way, Delivered
  <2>3. Delivered(d)' /\ EofLast(d)'
    <3>1. "closed" # "refused" /\ "splicing" # "refused"
      OBVIOUS
    <3>. QED  BY <3>1, <2>1, <2>2, <1>1, <1>4, <1>5, Zenon DEF Way, Delivered, EofLast, NoReset
  <2>4. Carried(d)' /\ Buffers(d)'
    BY <2>1, <1>1, DoneIsEmpty, Zenon DEF Carried, Buffers
  <2>5. ShutLast(d)'
    BY <2>1, <1>1, <1>4, <1>5, Zenon DEF Way, ShutLast, NoReset
  <2>. QED  BY <2>3, <2>4, <2>5 DEF Way
<1>. QED  BY <1>3, <1>5 DEF TcpInv

LEMMA TcpNextInv == TcpInv /\ [TcpNext]_tcpVars => TcpInv'
<1>. SUFFICES ASSUME TcpInv, [TcpNext]_tcpVars PROVE TcpInv'
  OBVIOUS
<1>1. CASE UNCHANGED tcpVars
  BY <1>1, ZenonT(30) DEF tcpVars, TcpInv, TcpTypeOK, Way, Delivered, Carried, Buffers, ShutLast, EofLast, NoReset
<1>2. CASE DialSucceeds \/ DialFails
  BY <1>2, DialInv
<1>3. CASE Teardown
  BY <1>3, TeardownInv
<1>4. ASSUME NEW e \in Ends,
             Send(e) \/ Finish(e) \/ ResetByPeer(e) \/ Receive(e) \/ ReceiveEof(e) \/ Copying(e)
      PROVE  TcpInv'
  BY <1>4, SendInv, PeerEndsInv, ReceiveInv, ReceiveEofInv, CopyReadInv, CopyWriteInv, CopyEndsInv DEF Copying
<1>. QED  BY <1>1, <1>2, <1>3, <1>4 DEF TcpNext

\* spliceTCP, for streams of any length and any room for what is on its way:
\* what a peer has read is the beginning of what the other wrote, and the end
\* of a stream is read only after all of it.
THEOREM StreamsStayWhole == TcpSpec => []StreamsWhole
<1>1. TcpInv => StreamsWhole
  <2>. SUFFICES ASSUME TcpInv, NEW e \in Ends
                PROVE  /\ got[e] = [i \in 1 .. Len(got[e]) |-> i] /\ Len(got[e]) <= sent[Other(e)]
                       /\ eof[e] /\ stage # "refused" /\ NoReset =>
                            peer[Other(e)] = "finished" /\ Len(got[e]) = sent[Other(e)]
    BY DEF StreamsWhole
  <2>1. Way(e) /\ TcpTypeOK
    BY DEF TcpInv
  <2>2. \A g, l \in Seq(Nat), n \in Nat : Ordered(g, l, n) => g = [i \in 1 .. Len(g) |-> i] /\ Len(g) <= n
    <3>. TAKE g, l \in Seq(Nat), n \in Nat
    <3>1. Len(g) \in Nat /\ Len(l) \in Nat
      OBVIOUS
    <3>. SUFFICES ASSUME Ordered(g, l, n) PROVE g = [i \in 1 .. Len(g) |-> i] /\ Len(g) <= n
      OBVIOUS
    <3>2. DOMAIN g = 1 .. Len(g) /\ g = [i \in DOMAIN g |-> g[i]]
      OBVIOUS
    <3>3. \A i \in 1 .. Len(g) : g[i] = i
      BY <3>2 DEF Ordered, Follow
    <3>4. Len(g) <= n
      BY <3>1 DEF Ordered
    <3>. QED  BY <3>2, <3>3, <3>4, Zenon
  <2>3. got[e] \in Seq(Nat) /\ leaving[e] \in Seq(Nat) /\ sent[Other(e)] \in Nat
    BY <2>1, WayTypes
  <2>. QED  BY <2>1, <2>2, <2>3, Zenon DEF Way, Delivered, EofLast
<1>. QED  BY <1>1, TcpInitInv, TcpNextInv, PTL DEF TcpSpec
=============================================================================
