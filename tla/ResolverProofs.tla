-------------------------- MODULE ResolverProofs ---------------------------
(* Proofs about Resolver, for every value of its constants: any number of  *)
(* connections, devices and commands that run at once.                     *)
EXTENDS Resolver, TLAPS

Connected == [dev : Devices, ready : BOOLEAN]
Reads == [conn : Conns, dev : Devices, ready : BOOLEAN]

\* A plan says one thing of a device.
Plans == {P \in SUBSET Entries : \A e, f \in P : e.dev = f.dev => e = f}

Underway ==
  [at : {"idle", "plan", "entries", "first", "second"}, left : SUBSET (Reads \cup Entries),
   plan : Plans, entry : Entries \cup {Absent}, remove : BOOLEAN]
Agreed == [plan : Plans \cup {Absent}, ok : BOOLEAN, fresh : BOOLEAN]

ResTypeOK ==
  /\ conn \in [Conns -> Connected \cup {Absent}]
  /\ table \in [Conns -> 0 .. MaxTable]
  /\ link \in [Devices -> Settings \cup {Absent}]
  /\ unitFile \in [Devices -> Settings \cup {Absent}]
  /\ networkd \in BOOLEAN
  /\ cmd \in [Commands -> Underway]
  /\ agreed \in Agreed

\* No two connections have a device.
DevicesApart ==
  \A c, d \in Conns : conn[c] # Absent /\ conn[d] # Absent /\ conn[c].dev = conn[d].dev => c = d

Applied(k) == cmd[k].at \in {"entries", "first", "second"}

\* How far a command is: what it still has to read, or to apply.
AsFar(k) ==
  /\ cmd[k].at = "plan" =>
       /\ cmd[k].left \subseteq Reads
       /\ \A x, y \in cmd[k].left : x.dev = y.dev => x = y
       /\ \A x \in cmd[k].left, e \in cmd[k].plan : x.dev # e.dev
  /\ Applied(k) => cmd[k].left \subseteq cmd[k].plan
  /\ cmd[k].at \in {"first", "second"} => cmd[k].entry \in cmd[k].plan \ cmd[k].left
  /\ cmd[k].at \notin {"first", "second"} => cmd[k].entry = Absent

\* What the daemon would say now.
Now == {[conn |-> c, dev |-> conn[c].dev, ready |-> conn[c].ready] : c \in {x \in Conns : conn[x] # Absent}}
Meant(x) == DNSEntry(x.conn, x.dev, IF x.ready THEN table[x.conn] ELSE 0)

\* As long as nothing has changed, that is what every command was told.
StillFresh ==
  agreed.fresh =>
    /\ agreed.plan \in {Absent, {Meant(x) : x \in Now}}
    /\ \A k \in Commands :
         /\ cmd[k].at # "idle" => ~cmd[k].remove
         /\ cmd[k].at = "plan" => cmd[k].left \subseteq Now /\ cmd[k].plan = {Meant(x) : x \in Now \ cmd[k].left}
         /\ Applied(k) => cmd[k].plan = {Meant(x) : x \in Now}

\* What an entry leaves behind: a file, then half of what it sets of the link,
\* then the other half.
FileShows(e) == unitFile[e.dev] = IF e.names > 0 THEN Setting(e) ELSE Absent
LinkShows(e) ==
  \/ link[e.dev] \in {Absent, IF e.names > 0 THEN Setting(e) ELSE Unset}
  \/ ~networkd /\ link[e.dev].server \in {e.conn, Absent} /\ link[e.dev].names \in {e.names, 0}
HalfShows(e) ==
  \/ link[e.dev] = Absent
  \/ e.names > 0 /\ link[e.dev].server = e.conn
  \/ e.names > 0 /\ ~networkd /\ link[e.dev].server = Absent
  \/ e.names = 0 /\ link[e.dev].names = 0

\* P is the one plan in force: a command applies it, or the last ones did.
InForce(P) ==
  /\ agreed.ok /\ agreed.plan \in {Absent, P}
  /\ \A k \in Commands : Applied(k) => cmd[k].plan = P
  /\ agreed.plan = P \/ \E k \in Commands : Applied(k)

\* Some command is through with an entry.
ThroughWith(P, e) ==
  agreed.plan = P \/ \E k \in Commands : Applied(k) /\ e \notin cmd[k].left /\ cmd[k].entry # e

AsPlanned(P) ==
  /\ \A d \in Devices : unitFile[d] # Absent => \E e \in P : e.dev = d /\ e.names > 0
  /\ \A e \in P : ThroughWith(P, e) => FileShows(e) /\ LinkShows(e)
  /\ \A k \in Commands : cmd[k].at \in {"first", "second"} => FileShows(cmd[k].entry)
  /\ \A k \in Commands : cmd[k].at = "second" => HalfShows(cmd[k].entry)

PlanHolds == \A P \in Plans : InForce(P) => AsPlanned(P)

ResInv ==
  /\ ResTypeOK /\ DevicesApart /\ (\A k \in Commands : AsFar(k))
  /\ StillFresh /\ PlanHolds
  /\ Quiet /\ agreed.ok => agreed.plan # Absent

LEMMA ResInitInv == ResInit => ResInv
<1>. SUFFICES ASSUME ResInit PROVE ResInv
  OBVIOUS
<1>. DEFINE first == CHOOSE c \in Conns : TRUE
<1>1. PICK dev \in nextDevice(Devices) :
           conn = [c \in Conns |-> IF c = first THEN [dev |-> dev, ready |-> TRUE] ELSE Absent]
  BY Zenon DEF ResInit
<1>2. dev \in Devices
  BY DEF nextDevice
<1>3. /\ table = [c \in Conns |-> MaxTable]
      /\ link = [d \in Devices |-> Absent] /\ unitFile = [d \in Devices |-> Absent]
      /\ networkd \in BOOLEAN
      /\ cmd = [k \in Commands |-> IdleCmd]
      /\ agreed = [plan |-> Absent, ok |-> FALSE, fresh |-> FALSE]
  BY DEF ResInit
<1>. HIDE DEF first
<1>4. {} \in Plans
  BY DEF Plans
<1>5. ResTypeOK
  <2>1. conn \in [Conns -> Connected \cup {Absent}]
    BY <1>1, <1>2 DEF Connected
  <2>2. IdleCmd \in Underway
    BY <1>4 DEF IdleCmd, Underway
  <2>3. table \in [Conns -> 0 .. MaxTable]
    BY <1>3, ResolverAssumption
  <2>4. agreed \in Agreed
    BY <1>3 DEF Agreed
  <2>. QED  BY <1>3, <2>1, <2>2, <2>3, <2>4 DEF ResTypeOK
<1>6. DevicesApart
  BY <1>1 DEF DevicesApart
<1>7. \A k \in Commands : AsFar(k)
  BY <1>3 DEF AsFar, Applied, IdleCmd
<1>8. StillFresh /\ PlanHolds /\ (Quiet /\ agreed.ok => agreed.plan # Absent)
  BY <1>3 DEF StillFresh, PlanHolds, InForce
<1>. QED  BY <1>5, <1>6, <1>7, <1>8 DEF ResInv

\* What there is to say of an entry.
LEMMA EntryFacts ==
  /\ Unset \in Settings /\ Unset.server = Absent /\ Unset.names = 0
  /\ \A e \in Entries : /\ Setting(e) \in Settings /\ Setting(e) # Absent
                        /\ Setting(e).server = e.conn /\ Setting(e).names = e.names
                        /\ e.dev \in Devices /\ e.conn \in Conns /\ e.names \in Nat
                        /\ e # Absent
  /\ \A s \in Settings : s = [server |-> s.server, names |-> s.names]
<1>1. MaxTable \in Nat /\ Absent \notin Settings /\ Absent \notin Entries
  BY ResolverAssumption
<1>. QED  BY <1>1 DEF Unset, Settings, Setting, Entries

\* A link that is gone, or was made anew, is as the entry's file has it.
Afresh(d) == IF networkd /\ unitFile[d] # Absent THEN unitFile[d] ELSE Unset

LEMMA AfreshShows ==
  ASSUME NEW e \in Entries, FileShows(e), UNCHANGED networkd, link'[e.dev] \in {Absent, Afresh(e.dev)}
  PROVE  LinkShows(e)'
<1>1. /\ Setting(e) # Absent /\ Unset.server = Absent /\ Unset.names = 0
  BY EntryFacts
<1>. QED  BY <1>1 DEF FileShows, LinkShows, Afresh

LEMMA WholeShowsHalf == \A e \in Entries : LinkShows(e) => HalfShows(e)
<1>. SUFFICES ASSUME NEW e \in Entries, LinkShows(e) PROVE HalfShows(e)
  OBVIOUS
<1>1. /\ Setting(e).server = e.conn /\ e.names \in Nat /\ Unset.names = 0
  BY EntryFacts
<1>. QED  BY <1>1 DEF LinkShows, HalfShows

LEMMA WholeShowsHalfNext == \A e \in Entries : LinkShows(e)' => HalfShows(e)'
<1>. SUFFICES ASSUME NEW e \in Entries, LinkShows(e)' PROVE HalfShows(e)'
  OBVIOUS
<1>1. /\ Setting(e).server = e.conn /\ e.names \in Nat /\ Unset.names = 0
  BY EntryFacts
<1>. QED  BY <1>1 DEF LinkShows, HalfShows

\* A step that leaves files, links and what is applied alone.
LEMMA PlanStays ==
  ASSUME ResInv, UNCHANGED <<link, unitFile, networkd>>,
         agreed'.ok => agreed.ok, agreed'.ok => agreed'.plan = agreed.plan,
         \A k \in Commands : Applied(k)' <=> Applied(k),
         \A k \in Commands : Applied(k) => cmd'[k] = cmd[k]
  PROVE  PlanHolds'
<1>. SUFFICES ASSUME NEW P \in Plans, InForce(P)' PROVE AsPlanned(P)'
  BY DEF PlanHolds
<1>1. InForce(P) /\ agreed'.plan = agreed.plan
  BY DEF InForce
<1>2. AsPlanned(P)
  BY <1>1 DEF ResInv, PlanHolds
<1>3. \A e : (FileShows(e)' <=> FileShows(e)) /\ (LinkShows(e)' <=> LinkShows(e)) /\ (HalfShows(e)' <=> HalfShows(e))
  BY DEF FileShows, LinkShows, HalfShows
<1>4. \A e : ThroughWith(P, e)' => ThroughWith(P, e)
  BY <1>1 DEF ThroughWith
<1>5. \A k \in Commands : cmd'[k].at \in {"first", "second"} => cmd'[k] = cmd[k]
  BY DEF Applied
<1>. QED  BY <1>2, <1>3, <1>4, <1>5 DEF AsPlanned

\* A step that takes links down and up.
LEMMA LinksMove ==
  ASSUME ResInv, UNCHANGED <<unitFile, networkd, cmd>>,
         agreed'.ok = agreed.ok, agreed'.plan = agreed.plan,
         \A d \in Devices : link'[d] \in {link[d], Absent, Afresh(d)}
  PROVE  PlanHolds'
<1>. SUFFICES ASSUME NEW P \in Plans, InForce(P)' PROVE AsPlanned(P)'
  BY DEF PlanHolds
<1>1. InForce(P)
  BY DEF InForce, Applied
<1>2. AsPlanned(P) /\ ResTypeOK /\ \A k \in Commands : AsFar(k)
  BY <1>1 DEF ResInv, PlanHolds
<1>3. \A e \in Entries : FileShows(e) /\ LinkShows(e) => FileShows(e)' /\ LinkShows(e)'
  <2>. SUFFICES ASSUME NEW e \in Entries, FileShows(e), LinkShows(e) PROVE FileShows(e)' /\ LinkShows(e)'
    OBVIOUS
  <2>1. CASE link'[e.dev] = link[e.dev]
    BY <2>1 DEF FileShows, LinkShows
  <2>2. CASE link'[e.dev] \in {Absent, Afresh(e.dev)}
    BY <2>2, AfreshShows DEF FileShows
  <2>. QED  BY <2>1, <2>2, EntryFacts
<1>4. \A e \in Entries : FileShows(e) /\ HalfShows(e) => HalfShows(e)'
  <2>. SUFFICES ASSUME NEW e \in Entries, FileShows(e), HalfShows(e) PROVE HalfShows(e)'
    OBVIOUS
  <2>1. CASE link'[e.dev] = link[e.dev]
    BY <2>1 DEF HalfShows
  <2>2. CASE link'[e.dev] \in {Absent, Afresh(e.dev)}
    BY <2>2, AfreshShows, WholeShowsHalfNext
  <2>. QED  BY <2>1, <2>2, EntryFacts
<1>5. \A e : (ThroughWith(P, e)' <=> ThroughWith(P, e)) /\ (FileShows(e)' <=> FileShows(e))
  BY DEF ThroughWith, Applied, FileShows
<1>6. P \subseteq Entries
  BY DEF Plans
<1>7. \A k \in Commands : cmd[k].at \in {"first", "second"} => cmd[k].entry \in Entries
  BY <1>2 DEF AsFar, ResTypeOK, Underway, Plans
<1>8. \A d \in Devices : unitFile'[d] # Absent => \E e \in P : e.dev = d /\ e.names > 0
  BY <1>2 DEF AsPlanned
<1>9. \A e \in P : ThroughWith(P, e)' => FileShows(e)' /\ LinkShows(e)'
  BY <1>2, <1>3, <1>5, <1>6 DEF AsPlanned
<1>10. \A k \in Commands : cmd'[k].at \in {"first", "second"} => FileShows(cmd[k].entry)'
  BY <1>2, <1>5 DEF AsPlanned
<1>11. \A k \in Commands : cmd'[k].at = "second" => HalfShows(cmd[k].entry)'
  BY <1>2, <1>4, <1>7 DEF AsPlanned
<1>. QED  BY <1>8, <1>9, <1>10, <1>11 DEF AsPlanned

\* What changes outside the commands.
LEMMA EventStep ==
  ASSUME ResInv, NEW c \in Conns,
         Attach(c) \/ Admitted(c) \/ Detach(c) \/ \E t \in 0 .. MaxTable : TableChanges(c, t)
  PROVE  ResInv'
<1>1. ResTypeOK /\ DevicesApart /\ \A k \in Commands : AsFar(k)
  BY Zenon DEF ResInv
<1>2. /\ agreed' = [agreed EXCEPT !.fresh = FALSE] /\ UNCHANGED <<unitFile, networkd, cmd>>
  BY DEF Attach, Admitted, Detach, TableChanges, Overtaken
<1>3. agreed' \in Agreed /\ agreed'.ok = agreed.ok /\ agreed'.plan = agreed.plan /\ ~agreed'.fresh
  BY <1>1, <1>2, Zenon DEF ResTypeOK, Agreed
<1>4. /\ conn' \in [Conns -> Connected \cup {Absent}] /\ DevicesApart'
      /\ table' \in [Conns -> 0 .. MaxTable]
      /\ link' \in [Devices -> Settings \cup {Absent}]
      /\ \A d \in Devices : link'[d] \in {link[d], Absent}
  <2>1. CASE Attach(c)
    <3>1. PICK d \in FreeDevices : conn' = [conn EXCEPT ![c] = [dev |-> d, ready |-> FALSE]]
      BY <2>1, Zenon DEF Attach, nextDevice
    <3>2. UNCHANGED <<table, link>>
      BY <2>1 DEF Attach
    <3>3. conn' \in [Conns -> Connected \cup {Absent}]
      BY <1>1, <3>1 DEF ResTypeOK, Connected, FreeDevices
    <3>4. DevicesApart'
      BY <1>1, <3>1 DEF DevicesApart, FreeDevices, ResTypeOK
    <3>. QED  BY <1>1, <3>2, <3>3, <3>4 DEF ResTypeOK
  <2>2. CASE Admitted(c)
    <3>1. /\ conn[c] # Absent /\ conn' = [conn EXCEPT ![c].ready = TRUE] /\ UNCHANGED <<table, link>>
      BY <2>2 DEF Admitted
    <3>2. conn[c] \in Connected
      BY <1>1, <3>1 DEF ResTypeOK
    <3>3. /\ conn' \in [Conns -> Connected \cup {Absent}]
          /\ \A x \in Conns : conn'[x] # Absent => conn[x] # Absent /\ conn'[x].dev = conn[x].dev
      BY <1>1, <3>1, <3>2, Zenon DEF ResTypeOK, Connected
    <3>4. DevicesApart'
      BY <1>1, <3>3 DEF DevicesApart
    <3>. QED  BY <1>1, <3>1, <3>3, <3>4 DEF ResTypeOK
  <2>3. CASE Detach(c)
    <3>1. /\ conn[c] # Absent /\ link' = [link EXCEPT ![conn[c].dev] = Absent]
          /\ conn' = [conn EXCEPT ![c] = Absent] /\ UNCHANGED table
      BY <2>3 DEF Detach
    <3>2. conn' \in [Conns -> Connected \cup {Absent}] /\ DevicesApart'
      BY <1>1, <3>1, Zenon DEF ResTypeOK, DevicesApart
    <3>. QED  BY <1>1, <3>1, <3>2, Zenon DEF ResTypeOK
  <2>4. CASE \E t \in 0 .. MaxTable : TableChanges(c, t)
    BY <1>1, <2>4 DEF TableChanges, ResTypeOK, DevicesApart
  <2>. QED  BY <2>1, <2>2, <2>3, <2>4
<1>5. ResTypeOK'
  BY <1>1, <1>2, <1>3, <1>4 DEF ResTypeOK
<1>6. PlanHolds'
  BY <1>2, <1>3, <1>4, LinksMove
<1>7. (\A k \in Commands : AsFar(k))' /\ StillFresh'
  BY <1>1, <1>2, <1>3 DEF AsFar, Applied, StillFresh
<1>8. (Quiet /\ agreed.ok => agreed.plan # Absent)'
  BY <1>2, <1>3 DEF ResInv, Quiet
<1>. QED  BY <1>4, <1>5, <1>6, <1>7, <1>8 DEF ResInv

\* Links come and go.
LEMMA LinkStep ==
  ASSUME ResInv, (\E c \in Conns : LinkUp(c)) \/ (\E d \in Devices : LinkDown(d))
  PROVE  ResInv'
<1>1. ResTypeOK /\ DevicesApart /\ (\A k \in Commands : AsFar(k)) /\ StillFresh
  BY Zenon DEF ResInv
<1>2. UNCHANGED <<conn, table, unitFile, networkd, cmd, agreed>>
  BY DEF LinkUp, LinkDown
<1>3. /\ link' \in [Devices -> Settings \cup {Absent}]
      /\ \A d \in Devices : link'[d] \in {link[d], Absent, Afresh(d)}
  <2>1. ASSUME NEW c \in Conns, LinkUp(c)
        PROVE  /\ link' \in [Devices -> Settings \cup {Absent}]
               /\ \A d \in Devices : link'[d] \in {link[d], Absent, Afresh(d)}
    <3>1. conn[c].dev \in Devices
      BY <1>1, <2>1, Zenon DEF LinkUp, ResTypeOK, Connected
    <3>2. link' = [link EXCEPT ![conn[c].dev] = Afresh(conn[c].dev)]
      BY <2>1 DEF LinkUp, Afresh
    <3>3. Afresh(conn[c].dev) \in Settings
      BY <1>1, <3>1, EntryFacts DEF Afresh, ResTypeOK
    <3>. QED  BY <1>1, <3>1, <3>2, <3>3, Zenon DEF ResTypeOK
  <2>2. ASSUME NEW d \in Devices, LinkDown(d)
        PROVE  /\ link' \in [Devices -> Settings \cup {Absent}]
               /\ \A x \in Devices : link'[x] \in {link[x], Absent}
    BY <1>1, <2>2, Zenon DEF LinkDown, ResTypeOK
  <2>. QED  BY <2>1, <2>2
<1>4. ResTypeOK' /\ DevicesApart' /\ (\A k \in Commands : AsFar(k))'
  BY <1>1, <1>2, <1>3, Zenon DEF ResTypeOK, DevicesApart, AsFar, Applied
<1>5. StillFresh'
  BY <1>1, <1>2 DEF StillFresh, Applied, Now, Meant
<1>6. PlanHolds'
  BY <1>2, <1>3, LinksMove
<1>7. (Quiet /\ agreed.ok => agreed.plan # Absent)'
  BY <1>2 DEF ResInv, Quiet
<1>. QED  BY <1>4, <1>5, <1>6, <1>7 DEF ResInv

\* A command moves, and whatever it does not say stays.
LEMMA CommandMoves ==
  ASSUME ResInv, NEW k \in Commands, cmd'[k] \in Underway, cmd' = [cmd EXCEPT ![k] = cmd'[k]], AsFar(k)',
         agreed' \in Agreed, UNCHANGED <<conn, table, networkd>>,
         link' \in [Devices -> Settings \cup {Absent}], unitFile' \in [Devices -> Settings \cup {Absent}]
  PROVE  /\ ResTypeOK' /\ DevicesApart' /\ (\A x \in Commands : AsFar(x))'
         /\ \A x \in Commands \ {k} : cmd'[x] = cmd[x] /\ (Applied(x)' <=> Applied(x))
<1>1. ResTypeOK /\ DevicesApart /\ \A x \in Commands : AsFar(x)
  BY Zenon DEF ResInv
<1>2. \A x \in Commands \ {k} : cmd'[x] = cmd[x]
  BY <1>1 DEF ResTypeOK
<1>3. cmd' \in [Commands -> Underway]
  BY <1>1 DEF ResTypeOK
<1>4. ResTypeOK' /\ DevicesApart'
  BY <1>1, <1>3, Zenon DEF ResTypeOK, DevicesApart
<1>5. \A x \in Commands \ {k} : AsFar(x)' /\ (Applied(x)' <=> Applied(x))
  BY <1>1, <1>2 DEF AsFar, Applied
<1>. QED  BY <1>2, <1>4, <1>5

LEMMA IdleFacts ==
  IdleCmd \in Underway /\ IdleCmd.at = "idle" /\ IdleCmd.left = {} /\ IdleCmd.plan = {} /\ IdleCmd.entry = Absent
<1>1. {} \in Plans
  BY DEF Plans
<1>. QED  BY <1>1, Zenon DEF IdleCmd, Underway

\* What the daemon reads of the connections says one thing of a device.
LEMMA NowFacts ==
  ASSUME ResTypeOK, DevicesApart
  PROVE  /\ Now \in SUBSET Reads
         /\ \A x, y \in Now : x.dev = y.dev => x = y
<1>1. \A c \in Conns : conn[c] # Absent => conn[c].dev \in Devices /\ conn[c].ready \in BOOLEAN
  BY DEF ResTypeOK, Connected
<1>2. Now \in SUBSET Reads
  BY <1>1 DEF Now, Reads
<1>3. \A x \in Now : x.conn \in Conns /\ conn[x.conn] # Absent
        /\ x = [conn |-> x.conn, dev |-> conn[x.conn].dev, ready |-> conn[x.conn].ready]
  BY DEF Now
<1>4. \A x \in Now : x.dev = conn[x.conn].dev
  BY <1>3
<1>5. ASSUME NEW x \in Now, NEW y \in Now, x.dev = y.dev PROVE x = y
  <2>1. x.conn = y.conn
    BY <1>3, <1>4, <1>5 DEF DevicesApart
  <2>. QED  BY <1>3, <2>1
<1>. QED  BY <1>2, <1>5

LEMMA AskStep ==
  ASSUME ResInv, NEW k \in Commands, NEW remove \in BOOLEAN, Ask(k, remove)
  PROVE  ResInv'
<1>1. ResTypeOK /\ DevicesApart /\ (\A x \in Commands : AsFar(x)) /\ StillFresh
  BY Zenon DEF ResInv
<1>. DEFINE new == [IdleCmd EXCEPT !.at = "plan", !.remove = remove, !.left = Now]
<1>2. /\ cmd[k].at = "idle" /\ cmd' = [cmd EXCEPT ![k] = new]
      /\ UNCHANGED <<conn, table, link, unitFile, networkd>>
  BY Zenon DEF Ask, Now
<1>4. /\ new \in Underway /\ new.at = "plan" /\ new.left = Now /\ new.plan = {} /\ new.entry = Absent
      /\ new.remove = remove
  BY <1>1, IdleFacts, NowFacts, Zenon DEF Underway
<1>. HIDE DEF new
<1>5. cmd'[k] = new
  BY <1>1, <1>2 DEF ResTypeOK
<1>6. AsFar(k)'
  BY <1>1, <1>4, <1>5, NowFacts DEF AsFar, Applied
<1>7. agreed \in Agreed
  BY <1>1 DEF ResTypeOK
<1>8. agreed' = IF Quiet THEN [plan |-> Absent, ok |-> TRUE, fresh |-> ~remove] ELSE [agreed EXCEPT !.fresh = @ /\ ~remove]
  BY DEF Ask
<1>9. agreed' \in Agreed
  BY <1>7, <1>8, Zenon DEF Agreed
<1>10. /\ ResTypeOK' /\ DevicesApart' /\ (\A x \in Commands : AsFar(x))'
       /\ \A x \in Commands \ {k} : cmd'[x] = cmd[x] /\ (Applied(x)' <=> Applied(x))
  BY <1>1, <1>2, <1>4, <1>5, <1>6, <1>9, CommandMoves, Zenon DEF ResTypeOK
<1>11. ~Applied(k) /\ ~Applied(k)' /\ ~Quiet' /\ Now' = Now /\ cmd'[k].at = "plan" /\ cmd'[k].left = Now
       /\ cmd'[k].plan = {} /\ cmd'[k].remove = remove
  BY <1>2, <1>4, <1>5 DEF Applied, Quiet, Now
<1>12. \A x : Meant(x)' = Meant(x)
  BY <1>2 DEF Meant
<1>13. CASE Quiet
  <2>1. \A x \in Commands : ~Applied(x)' /\ (x # k => cmd'[x].at = "idle")
    BY <1>10, <1>11, <1>13 DEF Quiet, Applied
  <2>2. agreed'.plan = Absent /\ agreed'.fresh = ~remove
    BY <1>8, <1>13
  <2>3. PlanHolds'
    <3>1. Absent \notin Plans
      BY ResolverAssumption, Zenon DEF Plans
    <3>. QED  BY <2>1, <2>2, <3>1 DEF PlanHolds, InForce
  <2>4. StillFresh'
    BY <1>11, <2>1, <2>2, Zenon DEF StillFresh
  <2>. QED  BY <1>10, <1>11, <2>3, <2>4 DEF ResInv
<1>14. CASE ~Quiet
  <2>1. agreed'.ok = agreed.ok /\ agreed'.plan = agreed.plan /\ agreed'.fresh = (agreed.fresh /\ ~remove)
    BY <1>7, <1>8, <1>14 DEF Agreed
  <2>2. PlanHolds'
    BY <1>2, <1>10, <1>11, <2>1, PlanStays
  <2>3. StillFresh'
    <3>. SUFFICES ASSUME agreed'.fresh
                  PROVE  /\ agreed'.plan \in {Absent, {Meant(x) : x \in Now}}
                         /\ \A y \in Commands :
                              /\ cmd'[y].at # "idle" => ~cmd'[y].remove
                              /\ cmd'[y].at = "plan" => cmd'[y].left \subseteq Now /\ cmd'[y].plan = {Meant(x) : x \in Now \ cmd'[y].left}
                              /\ Applied(y)' => cmd'[y].plan = {Meant(x) : x \in Now}
      BY <1>11, <1>12 DEF StillFresh
    <3>1. agreed.fresh /\ ~remove
      BY <2>1, Zenon
    <3>2. {Meant(x) : x \in Now \ Now} = {}
      OBVIOUS
    <3>3. agreed'.plan \in {Absent, {Meant(x) : x \in Now}}
      BY <1>1, <2>1, <3>1, Zenon DEF StillFresh
    <3>4. ASSUME NEW y \in Commands, y # k
          PROVE  /\ cmd'[y].at # "idle" => ~cmd'[y].remove
                 /\ cmd'[y].at = "plan" => cmd'[y].left \subseteq Now /\ cmd'[y].plan = {Meant(x) : x \in Now \ cmd'[y].left}
                 /\ Applied(y)' => cmd'[y].plan = {Meant(x) : x \in Now}
      BY <1>1, <1>10, <3>1, <3>4, Zenon DEF StillFresh
    <3>. QED  BY <1>11, <3>1, <3>2, <3>3, <3>4, Zenon
  <2>. QED  BY <1>10, <1>11, <2>2, <2>3 DEF ResInv
<1>. QED  BY <1>13, <1>14

LEMMA DNSPlanStep ==
  ASSUME ResInv, NEW k \in Commands, NEW c \in cmd[k].left, NEW read \in BOOLEAN, DNSPlan(k, c, read)
  PROVE  ResInv'
<1>1. ResTypeOK /\ DevicesApart /\ (\A x \in Commands : AsFar(x)) /\ StillFresh
  BY Zenon DEF ResInv
<1>2. cmd[k].at = "plan" /\ cmd[k] \in Underway /\ cmd[k].left \subseteq Reads /\ c \in Reads
  BY <1>1 DEF DNSPlan, AsFar, ResTypeOK
<1>. DEFINE asked == ~cmd[k].remove /\ c.ready
            n == IF asked /\ read THEN table[c.conn] ELSE 0
            e == DNSEntry(c.conn, c.dev, n)
            new == [cmd[k] EXCEPT !.left = @ \ {c}, !.plan = @ \cup {e}]
<1>3. /\ read \/ asked
      /\ cmd' = [cmd EXCEPT ![k].left = @ \ {c}, ![k].plan = @ \cup {e}]
      /\ agreed' = IF read THEN agreed ELSE [agreed EXCEPT !.fresh = FALSE]
      /\ UNCHANGED <<conn, table, link, unitFile, networkd>>
  BY DEF DNSPlan
<1>4. e \in Entries /\ e.dev = c.dev
  <2>1. c.conn \in Conns /\ c.dev \in Devices
    BY <1>2, Zenon DEF Reads
  <2>2. n \in 0 .. MaxTable
    BY <1>1, <2>1, ResolverAssumption DEF ResTypeOK
  <2>. QED  BY <2>1, <2>2 DEF DNSEntry, Entries
<1>5. cmd[k].plan \in Plans /\ \A f \in cmd[k].plan : f.dev # c.dev
  BY <1>1, <1>2, Zenon DEF AsFar, Underway
<1>6. cmd[k].plan \cup {e} \in Plans
  BY <1>4, <1>5 DEF Plans
<1>. HIDE DEF e
<1>7. /\ new \in Underway /\ new.at = "plan" /\ new.left = cmd[k].left \ {c} /\ new.plan = cmd[k].plan \cup {e}
      /\ new.entry = cmd[k].entry /\ new.remove = cmd[k].remove
  BY <1>2, <1>6, Zenon DEF Underway
<1>8. cmd' = [cmd EXCEPT ![k] = new]
  BY <1>3, Zenon
<1>. HIDE DEF new
<1>9. cmd'[k] = new
  BY <1>1, <1>8, Zenon DEF ResTypeOK
<1>10. AsFar(k)'
  <2>1. \A x \in new.left : x # c /\ x \in cmd[k].left /\ x.dev # c.dev
    BY <1>1, <1>2, <1>7, Zenon DEF AsFar
  <2>. QED  BY <1>1, <1>2, <1>4, <1>7, <1>9, <2>1 DEF AsFar, Applied
<1>11. agreed \in Agreed
  BY <1>1 DEF ResTypeOK
<1>12. agreed' \in Agreed /\ agreed'.ok = agreed.ok /\ agreed'.plan = agreed.plan
       /\ (agreed'.fresh => read /\ agreed.fresh)
  BY <1>3, <1>11, Zenon DEF Agreed
<1>13. /\ ResTypeOK' /\ DevicesApart' /\ (\A x \in Commands : AsFar(x))'
       /\ \A x \in Commands \ {k} : cmd'[x] = cmd[x] /\ (Applied(x)' <=> Applied(x))
  BY <1>1, <1>3, <1>7, <1>8, <1>9, <1>10, <1>12, CommandMoves, Zenon DEF ResTypeOK
<1>14. ~Applied(k) /\ ~Applied(k)' /\ ~Quiet' /\ Now' = Now
  BY <1>2, <1>3, <1>7, <1>9, Zenon DEF Applied, Quiet, Now
<1>15. PlanHolds'
  BY <1>3, <1>12, <1>13, <1>14, PlanStays, Zenon
<1>16. \A x : Meant(x)' = Meant(x)
  BY <1>3, Zenon DEF Meant
<1>17. StillFresh'
  <2>. SUFFICES ASSUME agreed'.fresh
                PROVE  /\ agreed'.plan \in {Absent, {Meant(x) : x \in Now}}
                       /\ \A y \in Commands :
                            /\ cmd'[y].at # "idle" => ~cmd'[y].remove
                            /\ cmd'[y].at = "plan" => cmd'[y].left \subseteq Now /\ cmd'[y].plan = {Meant(x) : x \in Now \ cmd'[y].left}
                            /\ Applied(y)' => cmd'[y].plan = {Meant(x) : x \in Now}
    BY <1>14, <1>16, Zenon DEF StillFresh
  <2>1. read /\ agreed.fresh /\ ~cmd[k].remove /\ cmd[k].left \subseteq Now
        /\ cmd[k].plan = {Meant(x) : x \in Now \ cmd[k].left}
    BY <1>1, <1>2, <1>12, Zenon DEF StillFresh
  <2>2. e = Meant(c)
    BY <2>1 DEF e, Meant
  <2>3. new.plan = {Meant(x) : x \in Now \ new.left}
    BY <1>7, <2>1, <2>2
  <2>. QED  BY <1>1, <1>7, <1>9, <1>12, <1>13, <1>14, <2>1, <2>3 DEF StillFresh
<1>. QED  BY <1>13, <1>14, <1>15, <1>17 DEF ResInv

\* A command ends where it is.
LEMMA FailsStep ==
  ASSUME ResInv, NEW k \in Commands, Fails(k)
  PROVE  ResInv'
<1>1. ResTypeOK
  BY Zenon DEF ResInv
<1>2. /\ cmd' = [cmd EXCEPT ![k] = IdleCmd] /\ agreed' = [plan |-> Absent, ok |-> FALSE, fresh |-> FALSE]
      /\ UNCHANGED <<conn, table, link, unitFile, networkd>>
  BY DEF Fails, Settled
<1>3. cmd'[k] = IdleCmd
  BY <1>1, <1>2 DEF ResTypeOK
<1>4. agreed' \in Agreed /\ ~agreed'.ok /\ ~agreed'.fresh
  BY <1>2 DEF Agreed
<1>5. AsFar(k)'
  BY <1>3, IdleFacts, Zenon DEF AsFar, Applied
<1>6. ResTypeOK' /\ DevicesApart' /\ (\A x \in Commands : AsFar(x))'
  BY <1>1, <1>2, <1>3, <1>4, <1>5, IdleFacts, CommandMoves, Zenon DEF ResTypeOK
<1>7. PlanHolds' /\ StillFresh' /\ (Quiet /\ agreed.ok => agreed.plan # Absent)'
  BY <1>4, Zenon DEF PlanHolds, InForce, StillFresh
<1>. QED  BY <1>6, <1>7 DEF ResInv

\* A command is through with its plan.
LEMMA DoneStep ==
  ASSUME ResInv, NEW k \in Commands, Done(k)
  PROVE  ResInv'
<1>1. ResTypeOK /\ (\A x \in Commands : AsFar(x)) /\ StillFresh /\ PlanHolds
  BY Zenon DEF ResInv
<1>. DEFINE Q == cmd[k].plan
<1>2. /\ cmd[k].at = "entries" /\ cmd[k].left = {} /\ cmd' = [cmd EXCEPT ![k] = IdleCmd] /\ agreed' = Settled(TRUE, Q)
      /\ UNCHANGED <<conn, table, link, unitFile, networkd>>
  BY DEF Done
<1>3. cmd'[k] = IdleCmd
  BY <1>1, <1>2, Zenon DEF ResTypeOK
<1>4. agreed \in Agreed /\ Q \in Plans /\ Q # Absent /\ cmd[k].entry = Absent
  <2>1. Q \in Plans /\ Q \in SUBSET Entries
    BY <1>1 DEF ResTypeOK, Underway, Plans
  <2>. QED  BY <1>1, <1>2, <2>1, ResolverAssumption DEF ResTypeOK, AsFar
<1>5. /\ agreed' \in Agreed
      /\ agreed'.ok => agreed.ok /\ agreed.plan \in {Absent, Q} /\ agreed'.plan = Q
      /\ agreed'.fresh => agreed.fresh /\ agreed'.plan = Q
  BY <1>2, <1>4 DEF Settled, Agreed
<1>6. AsFar(k)'
  BY <1>3, IdleFacts DEF AsFar, Applied
<1>7. /\ ResTypeOK' /\ DevicesApart' /\ (\A x \in Commands : AsFar(x))'
      /\ \A x \in Commands \ {k} : cmd'[x] = cmd[x] /\ (Applied(x)' <=> Applied(x))
  BY <1>1, <1>2, <1>3, <1>5, <1>6, IdleFacts, CommandMoves, Zenon DEF ResTypeOK
<1>8. Applied(k) /\ ~Applied(k)'
  BY <1>2, <1>3, IdleFacts DEF Applied
<1>. HIDE DEF Q
<1>9. PlanHolds'
  <2>. SUFFICES ASSUME NEW P \in Plans, InForce(P)' PROVE AsPlanned(P)'
    BY DEF PlanHolds
  <2>1. P = Q /\ agreed'.ok /\ agreed.ok /\ agreed.plan \in {Absent, Q}
    BY <1>4, <1>5 DEF InForce
  <2>2. InForce(P)
    BY <1>7, <1>8, <2>1 DEF InForce, Q
  <2>3. AsPlanned(P)
    BY <1>1, <2>2 DEF PlanHolds
  <2>4. \A e \in P : ThroughWith(P, e)
    BY <1>2, <1>4, <1>8, EntryFacts, Zenon DEF ThroughWith, Plans
  <2>5. \A e : (FileShows(e)' <=> FileShows(e)) /\ (LinkShows(e)' <=> LinkShows(e)) /\ (HalfShows(e)' <=> HalfShows(e))
    BY <1>2, Zenon DEF FileShows, LinkShows, HalfShows
  <2>6. \A x \in Commands : cmd'[x].at \in {"first", "second"} => cmd'[x] = cmd[x]
    BY <1>3, <1>7, IdleFacts, Zenon
  <2>. QED  BY <1>2, <2>3, <2>4, <2>5, <2>6, Zenon DEF AsPlanned
<1>10. StillFresh'
  <2>. SUFFICES ASSUME agreed'.fresh PROVE StillFresh'
    BY DEF StillFresh
  <2>1. Now' = Now /\ \A x : Meant(x)' = Meant(x)
    BY <1>2, Zenon DEF Now, Meant
  <2>2. agreed.fresh /\ agreed'.plan = Q /\ Q = {Meant(x) : x \in Now}
    BY <1>1, <1>5, <1>8, Zenon DEF StillFresh, Q
  <2>3. \A y \in Commands :
          /\ cmd'[y].at # "idle" => ~cmd'[y].remove
          /\ cmd'[y].at = "plan" => cmd'[y].left \subseteq Now /\ cmd'[y].plan = {Meant(x) : x \in Now \ cmd'[y].left}
          /\ Applied(y)' => cmd'[y].plan = {Meant(x) : x \in Now}
    BY <1>1, <1>3, <1>7, <1>8, <2>2, IdleFacts DEF StillFresh
  <2>. QED  BY <2>1, <2>2, <2>3 DEF StillFresh
<1>11. (Quiet /\ agreed.ok => agreed.plan # Absent)'
  BY <1>4, <1>5
<1>. QED  BY <1>7, <1>9, <1>10, <1>11 DEF ResInv

\* What sweep does to a device.
LEMMA SweepFacts ==
  ASSUME ResTypeOK
  PROVE  \A keep : sweep(keep) =>
           /\ unitFile' \in [Devices -> Settings \cup {Absent}] /\ link' \in [Devices -> Settings \cup {Absent}]
           /\ \A d \in Devices : d \in keep \/ unitFile[d] = Absent => unitFile'[d] = unitFile[d] /\ link'[d] = link[d]
           /\ \A d \in Devices : d \notin keep => unitFile'[d] = Absent
<1>. SUFFICES ASSUME NEW keep, sweep(keep)
              PROVE  /\ unitFile' \in [Devices -> Settings \cup {Absent}] /\ link' \in [Devices -> Settings \cup {Absent}]
                     /\ \A d \in Devices : d \in keep \/ unitFile[d] = Absent => unitFile'[d] = unitFile[d] /\ link'[d] = link[d]
                     /\ \A d \in Devices : d \notin keep => unitFile'[d] = Absent
  OBVIOUS
<1>. DEFINE swept == {d \in Devices \ keep : unitFile[d] # Absent}
<1>1. unitFile' = [d \in Devices |-> IF d \in swept THEN Absent ELSE unitFile[d]]
  BY DEF sweep
<1>2. PICK undone \in SUBSET swept : link' = [d \in Devices |-> IF d \in undone THEN Unset ELSE link[d]]
  BY DEF sweep
<1>3. unitFile' \in [Devices -> Settings \cup {Absent}]
  BY <1>1 DEF ResTypeOK
<1>4. link' \in [Devices -> Settings \cup {Absent}]
  BY <1>2, EntryFacts, Zenon DEF ResTypeOK
<1>5. \A d \in Devices : d \in keep \/ unitFile[d] = Absent => unitFile'[d] = unitFile[d] /\ link'[d] = link[d]
  BY <1>1, <1>2
<1>6. \A d \in Devices : d \notin keep => unitFile'[d] = Absent
  BY <1>1, Zenon
<1>. QED  BY <1>3, <1>4, <1>5, <1>6

LEMMA ApplyStep ==
  ASSUME ResInv, NEW k \in Commands, Apply(k)
  PROVE  ResInv'
<1>1. ResTypeOK /\ (\A x \in Commands : AsFar(x)) /\ StillFresh /\ PlanHolds
  BY Zenon DEF ResInv
<1>. DEFINE Q == cmd[k].plan
            keep == {e.dev : e \in {x \in Q : x.names > 0}}
            new == [cmd[k] EXCEPT !.at = "entries", !.left = Q]
<1>2. /\ cmd[k].at = "plan" /\ cmd[k].left = {} /\ sweep(keep)
      /\ cmd' = [cmd EXCEPT ![k] = new] /\ UNCHANGED <<conn, table, networkd, agreed>>
  BY Zenon DEF Apply
<1>3. cmd[k] \in Underway /\ Q \in Plans /\ Q \in SUBSET Entries /\ cmd[k].entry = Absent
  BY <1>1, <1>2 DEF ResTypeOK, Underway, Plans, AsFar
<1>4. /\ new \in Underway /\ new.at = "entries" /\ new.left = Q /\ new.plan = Q /\ new.entry = Absent
      /\ new.remove = cmd[k].remove
  BY <1>3, Zenon DEF Underway
<1>5. cmd'[k] = new
  BY <1>1, <1>2 DEF ResTypeOK
<1>. HIDE DEF new
<1>6. AsFar(k)'
  BY <1>4, <1>5 DEF AsFar, Applied
<1>7. /\ unitFile' \in [Devices -> Settings \cup {Absent}] /\ link' \in [Devices -> Settings \cup {Absent}]
      /\ \A d \in Devices : d \in keep \/ unitFile[d] = Absent => unitFile'[d] = unitFile[d] /\ link'[d] = link[d]
      /\ \A d \in Devices : d \notin keep => unitFile'[d] = Absent
  <2>. HIDE DEF keep
  <2>. QED  BY <1>1, <1>2, SweepFacts, Zenon
<1>8. /\ ResTypeOK' /\ DevicesApart' /\ (\A x \in Commands : AsFar(x))'
      /\ \A x \in Commands \ {k} : cmd'[x] = cmd[x] /\ (Applied(x)' <=> Applied(x))
  BY <1>1, <1>2, <1>4, <1>5, <1>6, <1>7, CommandMoves, Zenon DEF ResTypeOK
<1>9. ~Applied(k) /\ Applied(k)' /\ ~Quiet'
  BY <1>2, <1>4, <1>5, Zenon DEF Applied, Quiet
<1>10. PlanHolds'
  <2>. SUFFICES ASSUME NEW P \in Plans, InForce(P)' PROVE AsPlanned(P)'
    BY DEF PlanHolds
  <2>1. P = Q /\ agreed.ok /\ agreed.plan \in {Absent, P}
    BY <1>2, <1>4, <1>5, <1>9, Zenon DEF InForce
  <2>2. agreed.plan = P \/ (\E x \in Commands : Applied(x)) => AsPlanned(P)
    BY <1>1, <1>8, <1>9, <2>1, Zenon DEF PlanHolds, InForce
  <2>3. \A e \in P : FileShows(e) => FileShows(e)' /\ (LinkShows(e) => LinkShows(e)') /\ (HalfShows(e) => HalfShows(e)')
    <3>. SUFFICES ASSUME NEW e \in P, FileShows(e)
                  PROVE  FileShows(e)' /\ (LinkShows(e) => LinkShows(e)') /\ (HalfShows(e) => HalfShows(e)')
      OBVIOUS
    <3>1. e.dev \in Devices /\ (e.dev \in keep \/ unitFile[e.dev] = Absent)
      BY <1>3, <2>1, EntryFacts, Zenon DEF FileShows
    <3>2. unitFile'[e.dev] = unitFile[e.dev] /\ link'[e.dev] = link[e.dev]
      BY <1>7, <3>1, Zenon
    <3>. QED  BY <1>2, <3>2 DEF FileShows, LinkShows, HalfShows
  <2>4. \A d \in Devices : unitFile'[d] # Absent => \E e \in P : e.dev = d /\ e.names > 0
    BY <1>7, <2>1, Zenon
  <2>5. \A e \in P : ThroughWith(P, e)' => FileShows(e)' /\ LinkShows(e)'
    <3>. SUFFICES ASSUME NEW e \in P, ThroughWith(P, e)' PROVE FileShows(e)' /\ LinkShows(e)'
      BY Zenon
    <3>1. ThroughWith(P, e)
      <4>1. ASSUME NEW x \in Commands, Applied(x)', e \notin cmd'[x].left, cmd'[x].entry # e
            PROVE  Applied(x) /\ e \notin cmd[x].left /\ cmd[x].entry # e
        <5>1. x # k
          BY <1>4, <1>5, <2>1, <4>1, Zenon
        <5>. QED  BY <1>8, <4>1, <5>1, Zenon
      <4>. QED  BY <1>2, <4>1, Zenon DEF ThroughWith
    <3>2. AsPlanned(P)
      BY <2>2, <3>1, Zenon DEF ThroughWith
    <3>. QED  BY <2>3, <3>1, <3>2, Zenon DEF AsPlanned
  <2>6. ASSUME NEW x \in Commands, cmd'[x].at \in {"first", "second"}
        PROVE  (FileShows(cmd[x].entry) /\ (cmd[x].at = "second" => HalfShows(cmd[x].entry)))'
    <3>1. x # k /\ cmd'[x] = cmd[x] /\ Applied(x)
      BY <1>4, <1>5, <1>8, <2>6 DEF Applied
    <3>2. AsPlanned(P) /\ cmd[x].plan = P
      BY <1>8, <2>2, <3>1, Zenon DEF InForce
    <3>3. cmd[x].entry \in P
      BY <1>1, <2>6, <3>1, <3>2, Zenon DEF AsFar
    <3>. QED  BY <2>3, <2>6, <3>1, <3>2, <3>3, Zenon DEF AsPlanned
  <2>. QED  BY <2>4, <2>5, <2>6 DEF AsPlanned
<1>11. StillFresh'
  <2>. SUFFICES ASSUME agreed.fresh PROVE StillFresh'
    BY <1>2, Zenon DEF StillFresh
  <2>1. Now' = Now /\ \A x : Meant(x)' = Meant(x)
    BY <1>2 DEF Now, Meant
  <2>2. Q = {Meant(x) : x \in Now} /\ ~cmd[k].remove
    BY <1>1, <1>2, Zenon DEF StillFresh
  <2>3. ASSUME NEW y \in Commands
        PROVE  /\ cmd'[y].at # "idle" => ~cmd'[y].remove
               /\ cmd'[y].at = "plan" => cmd'[y].left \subseteq Now /\ cmd'[y].plan = {Meant(x) : x \in Now \ cmd'[y].left}
               /\ Applied(y)' => cmd'[y].plan = {Meant(x) : x \in Now}
    <3>. HIDE DEF Q
    <3>1. CASE y = k
      BY <1>4, <1>5, <2>2, <3>1, Zenon
    <3>2. CASE y # k
      BY <1>1, <1>8, <3>2, Zenon DEF StillFresh
    <3>. QED  BY <3>1, <3>2, Zenon
  <2>4. agreed'.plan \in {Absent, {Meant(x) : x \in Now}}
    BY <1>1, <1>2, Zenon DEF StillFresh
  <2>. QED  BY <2>1, <2>3, <2>4, Zenon DEF StillFresh
<1>. QED  BY <1>8, <1>9, <1>10, <1>11 DEF ResInv

\* A file or a link that is as it was shows what it did.
LEMMA ShowsStays ==
  ASSUME NEW e, UNCHANGED networkd
  PROVE  /\ unitFile'[e.dev] = unitFile[e.dev] => (FileShows(e) => FileShows(e)')
         /\ link'[e.dev] = link[e.dev] => (LinkShows(e) => LinkShows(e)') /\ (HalfShows(e) => HalfShows(e)')
BY SMTT(30) DEF FileShows, LinkShows, HalfShows

LEMMA FreshStays ==
  ASSUME StillFresh, NEW k \in Commands, Applied(k), Applied(k)', UNCHANGED <<conn, table, agreed>>,
         cmd'[k].plan = cmd[k].plan, cmd'[k].remove = cmd[k].remove,
         \A x \in Commands \ {k} : cmd'[x] = cmd[x] /\ (Applied(x)' <=> Applied(x))
  PROVE  StillFresh'
<1>. SUFFICES ASSUME agreed.fresh PROVE StillFresh'
  BY DEF StillFresh
<1>1. Now' = Now /\ \A x : Meant(x)' = Meant(x)
  BY DEF Now, Meant
<1>2. ASSUME NEW y \in Commands
      PROVE  /\ cmd'[y].at # "idle" => ~cmd'[y].remove
             /\ cmd'[y].at = "plan" => cmd'[y].left \subseteq Now /\ cmd'[y].plan = {Meant(x) : x \in Now \ cmd'[y].left}
             /\ Applied(y)' => cmd'[y].plan = {Meant(x) : x \in Now}
  <2>1. CASE y = k
    BY <2>1, Zenon DEF StillFresh, Applied
  <2>2. CASE y # k
    BY <2>2, Zenon DEF StillFresh
  <2>. QED  BY <2>1, <2>2, Zenon
<1>. QED  BY <1>1, <1>2, SMTT(30) DEF StillFresh

LEMMA WriteFileStep ==
  ASSUME ResInv, NEW k \in Commands, NEW e \in cmd[k].left, WriteFile(k, e)
  PROVE  ResInv'
<1>1. ResTypeOK /\ (\A x \in Commands : AsFar(x)) /\ StillFresh /\ PlanHolds
  BY Zenon DEF ResInv
<1>. DEFINE Q == cmd[k].plan
            set == IF e.names > 0 THEN Setting(e) ELSE Unset
            new == [cmd[k] EXCEPT !.at = "first", !.entry = e, !.left = @ \ {e}]
<1>2. /\ cmd[k].at = "entries" /\ cmd' = [cmd EXCEPT ![k] = new] /\ UNCHANGED <<conn, table, networkd, agreed>>
      /\ unitFile' = [unitFile EXCEPT ![e.dev] = IF e.names > 0 THEN Setting(e) ELSE Absent]
      /\ link' = link \/ (networkd /\ link[e.dev] # Absent /\ link' = [link EXCEPT ![e.dev] = set])
  BY Zenon DEF WriteFile, Reloaded
<1>3. /\ cmd[k] \in Underway /\ Q \in Plans /\ cmd[k].entry = Absent
      /\ cmd[k].left \subseteq Q /\ e \in Q /\ e \in Entries
  BY <1>1, <1>2 DEF ResTypeOK, Underway, Plans, AsFar, Applied
<1>4. /\ new \in Underway /\ new.at = "first" /\ new.left = cmd[k].left \ {e} /\ new.plan = Q /\ new.entry = e
      /\ new.remove = cmd[k].remove
  BY <1>3, Zenon DEF Underway
<1>5. cmd'[k] = new
  BY <1>1, <1>2 DEF ResTypeOK
<1>. HIDE DEF new
<1>6. AsFar(k)'
  BY <1>3, <1>4, <1>5, Zenon DEF AsFar, Applied
<1>7. /\ e.dev \in Devices /\ e.conn \in Conns /\ e.names \in Nat
      /\ Setting(e) \in Settings /\ Unset \in Settings /\ Setting(e) # Absent
  BY <1>3, EntryFacts, Zenon
<1>8. unitFile' \in [Devices -> Settings \cup {Absent}] /\ link' \in [Devices -> Settings \cup {Absent}]
  BY <1>1, <1>2, <1>7, ZenonT(30) DEF ResTypeOK
<1>9. /\ unitFile'[e.dev] = (IF e.names > 0 THEN Setting(e) ELSE Absent)
      /\ link'[e.dev] = link[e.dev] \/ link'[e.dev] = set
      /\ \A d \in Devices \ {e.dev} : unitFile'[d] = unitFile[d] /\ link'[d] = link[d]
  BY <1>1, <1>2, <1>7, Zenon DEF ResTypeOK
<1>10. /\ ResTypeOK' /\ DevicesApart' /\ (\A x \in Commands : AsFar(x))'
       /\ \A x \in Commands \ {k} : cmd'[x] = cmd[x] /\ (Applied(x)' <=> Applied(x))
  BY <1>1, <1>2, <1>4, <1>5, <1>6, <1>8, CommandMoves, Zenon DEF ResTypeOK
<1>11. Applied(k) /\ Applied(k)' /\ ~Quiet'
  BY <1>2, <1>4, <1>5, Zenon DEF Applied, Quiet
<1>12. FileShows(e)' /\ (LinkShows(e) => LinkShows(e)') /\ (HalfShows(e) => HalfShows(e)')
  <2>1. FileShows(e)'
    BY <1>9, Zenon DEF FileShows
  <2>2. CASE link'[e.dev] = link[e.dev]
    BY <1>2, <2>1, <2>2, ShowsStays, Zenon
  <2>3. CASE link'[e.dev] = set
    <3>1. LinkShows(e)'
      BY <2>3, Zenon DEF LinkShows
    <3>2. HalfShows(e)'
      BY <1>7, <2>3 DEF HalfShows, Setting, Unset
    <3>. QED  BY <2>1, <3>1, <3>2
  <2>. QED  BY <1>9, <2>2, <2>3
<1>13. PlanHolds'
  <2>. SUFFICES ASSUME NEW P \in Plans, InForce(P)' PROVE AsPlanned(P)'
    BY DEF PlanHolds
  <2>1. P = Q /\ AsPlanned(P)
    <3>1. P = Q
      BY <1>4, <1>5, <1>11, Zenon DEF InForce
    <3>2. InForce(P)
      BY <1>2, <1>10, <1>11, <3>1 DEF InForce
    <3>. QED  BY <1>1, <3>1, <3>2, Zenon DEF PlanHolds
  <2>2. \A f \in P \ {e} :
          (FileShows(f) => FileShows(f)') /\ (LinkShows(f) => LinkShows(f)') /\ (HalfShows(f) => HalfShows(f)')
    <3>1. \A f \in P : f # e => f.dev \in Devices \ {e.dev}
      BY <1>3, <2>1, EntryFacts DEF Plans
    <3>. QED  BY <1>2, <1>9, <3>1, ShowsStays, Zenon
  <2>3. \A d \in Devices : unitFile'[d] # Absent => \E f \in P : f.dev = d /\ f.names > 0
    BY <1>3, <1>9, <2>1, Zenon DEF AsPlanned
  <2>4. \A f \in P : ThroughWith(P, f)' => FileShows(f)' /\ LinkShows(f)'
    <3>. SUFFICES ASSUME NEW f \in P, ThroughWith(P, f)' PROVE FileShows(f)' /\ LinkShows(f)'
      OBVIOUS
    <3>1. ThroughWith(P, f)
      <4>1. f # Absent
        BY EntryFacts, Zenon DEF Plans
      <4>2. ASSUME NEW x \in Commands, Applied(x)', f \notin cmd'[x].left, cmd'[x].entry # f
            PROVE  Applied(x) /\ f \notin cmd[x].left /\ cmd[x].entry # f
        <5>1. CASE x = k
          BY <1>3, <1>4, <1>5, <1>11, <4>1, <4>2, <5>1, Zenon
        <5>2. CASE x # k
          BY <1>10, <4>2, <5>2, Zenon
        <5>. QED  BY <5>1, <5>2, Zenon
      <4>. QED  BY <1>2, <4>2 DEF ThroughWith
    <3>. QED  BY <1>12, <2>1, <2>2, <3>1 DEF AsPlanned
  <2>5. ASSUME NEW x \in Commands, cmd'[x].at \in {"first", "second"}
        PROVE  (FileShows(cmd[x].entry) /\ (cmd[x].at = "second" => HalfShows(cmd[x].entry)))'
    <3>1. CASE x = k
      BY <1>4, <1>5, <1>12, <3>1, Zenon
    <3>2. CASE x # k
      <4>1. cmd'[x] = cmd[x] /\ Applied(x)
        BY <1>10, <2>5, <3>2, Zenon DEF Applied
      <4>2. cmd[x].entry \in P
        <5>1. cmd[x].entry \in cmd[x].plan
          BY <1>1, <2>5, <4>1, Zenon DEF AsFar
        <5>. QED  BY <1>10, <2>5, <3>2, <4>1, <5>1, Zenon DEF InForce
      <4>3. FileShows(cmd[x].entry) /\ (cmd[x].at = "second" => HalfShows(cmd[x].entry))
        BY <2>1, <2>5, <4>1, Zenon DEF AsPlanned
      <4>4. CASE cmd[x].entry = e
        BY <1>12, <4>1, <4>3, <4>4
      <4>5. CASE cmd[x].entry # e
        BY <2>2, <4>1, <4>2, <4>3, <4>5, Zenon
      <4>. QED  BY <4>4, <4>5, Zenon
    <3>. QED  BY <3>1, <3>2, Zenon
  <2>. QED  BY <2>3, <2>4, <2>5 DEF AsPlanned
<1>14. StillFresh'
  BY <1>1, <1>2, <1>4, <1>5, <1>10, <1>11, FreshStays, Zenon
<1>. QED  BY <1>10, <1>11, <1>13, <1>14 DEF ResInv

LEMMA ResolvectlStep ==
  ASSUME ResInv, NEW k \in Commands, resolvectl(k)
  PROVE  ResInv'
<1>1. ResTypeOK /\ (\A x \in Commands : AsFar(x)) /\ StillFresh /\ PlanHolds
  BY Zenon DEF ResInv
<1>0. PICK e \in Entries : e = cmd[k].entry
  BY <1>1 DEF resolvectl, ResTypeOK, Underway, Plans, AsFar
<1>. DEFINE Q == cmd[k].plan
            new == [cmd[k] EXCEPT !.at = IF @ = "first" THEN "second" ELSE "entries",
                                  !.entry = IF cmd[k].at = "first" THEN @ ELSE Absent]
            server == [link[e.dev] EXCEPT !.server = IF e.names > 0 THEN e.conn ELSE Absent]
            names == [link[e.dev] EXCEPT !.names = e.names]
            set == IF (e.names > 0) = (cmd[k].at = "first") THEN server ELSE names
<1>2. /\ cmd[k].at \in {"first", "second"} /\ link[e.dev] # Absent
      /\ cmd' = [cmd EXCEPT ![k] = new] /\ UNCHANGED <<conn, table, networkd, agreed, unitFile>>
      /\ link' = [link EXCEPT ![e.dev] = set]
  BY <1>0, Zenon DEF resolvectl, Entry
<1>3. /\ cmd[k] \in Underway /\ Q \in Plans /\ cmd[k].left \subseteq Q /\ e \in Q \ cmd[k].left
  BY <1>0, <1>1, <1>2, Zenon DEF ResTypeOK, Underway, Plans, AsFar, Applied
<1>4. /\ new \in Underway /\ new.left = cmd[k].left /\ new.plan = Q /\ new.remove = cmd[k].remove
      /\ cmd[k].at = "first" => new.at = "second" /\ new.entry = e
      /\ cmd[k].at = "second" => new.at = "entries" /\ new.entry = Absent
  BY <1>0, <1>2, <1>3, Zenon DEF Underway
<1>5. cmd'[k] = new
  BY <1>1, <1>2 DEF ResTypeOK
<1>. HIDE DEF new
<1>6. AsFar(k)'
  BY <1>2, <1>3, <1>4, <1>5 DEF AsFar, Applied
<1>7. /\ e.dev \in Devices /\ e.conn \in Conns /\ e.names \in 0 .. MaxTable /\ e.names \in Nat /\ e # Absent
  BY <1>3, EntryFacts DEF Entries
<1>8. /\ link[e.dev] \in Settings
      /\ server \in Settings /\ server.names = link[e.dev].names
      /\ server.server = IF e.names > 0 THEN e.conn ELSE Absent
      /\ names \in Settings /\ names.names = e.names /\ names.server = link[e.dev].server
  BY <1>1, <1>2, <1>7 DEF ResTypeOK, Settings
<1>. HIDE DEF server, names
<1>9. /\ link' \in [Devices -> Settings \cup {Absent}] /\ link'[e.dev] = set
      /\ \A d \in Devices \ {e.dev} : link'[d] = link[d]
  BY <1>1, <1>2, <1>7, <1>8, Zenon DEF ResTypeOK
<1>10. /\ ResTypeOK' /\ DevicesApart' /\ (\A x \in Commands : AsFar(x))'
       /\ \A x \in Commands \ {k} : cmd'[x] = cmd[x] /\ (Applied(x)' <=> Applied(x))
  BY <1>1, <1>2, <1>4, <1>5, <1>6, <1>9, CommandMoves, Zenon DEF ResTypeOK
<1>11. Applied(k) /\ Applied(k)' /\ ~Quiet'
  BY <1>2, <1>4, <1>5 DEF Applied, Quiet
<1>12. /\ LinkShows(e) => LinkShows(e)'
       /\ HalfShows(e) => HalfShows(e)'
       /\ cmd[k].at = "first" => HalfShows(e)'
       /\ cmd[k].at = "second" /\ HalfShows(e) => LinkShows(e)'
  <2>. DEFINE was == link[e.dev]
              then == link'[e.dev]
  <2>1. /\ was \in Settings /\ then \in Settings /\ was # Absent
        /\ was = [server |-> was.server, names |-> was.names] /\ then = [server |-> then.server, names |-> then.names]
    BY <1>2, <1>8, <1>9, EntryFacts, Zenon
  <2>2. /\ e.names > 0 => Setting(e) = [server |-> e.conn, names |-> e.names]
        /\ Unset = [server |-> Absent, names |-> 0]
    BY DEF Setting, Unset
  <2>3. /\ (e.names > 0) = (cmd[k].at = "first") =>
             then.names = was.names /\ then.server = IF e.names > 0 THEN e.conn ELSE Absent
        /\ (e.names > 0) # (cmd[k].at = "first") => then.names = e.names /\ then.server = was.server
    BY <1>8, <1>9, Zenon
  <2>. DEFINE Whole(v) == \/ v = IF e.names > 0 THEN Setting(e) ELSE Unset
                          \/ ~networkd /\ v.server \in {e.conn, Absent} /\ v.names \in {e.names, 0}
              Half(v) == \/ e.names > 0 /\ v.server = e.conn
                         \/ e.names > 0 /\ ~networkd /\ v.server = Absent
                         \/ e.names = 0 /\ v.names = 0
  <2>4. (LinkShows(e) <=> Whole(was)) /\ (HalfShows(e) <=> Half(was))
    BY <2>1, Zenon DEF LinkShows, HalfShows
  <2>5. (Whole(then) => LinkShows(e)') /\ (Half(then) => HalfShows(e)')
    BY <1>2, Zenon DEF LinkShows, HalfShows
  <2>. HIDE DEF was, then
  <2>6. LinkShows(e) => LinkShows(e)'
    BY <1>7, <2>1, <2>2, <2>3, <2>4, <2>5
  <2>7. HalfShows(e) => HalfShows(e)'
    BY <1>7, <2>3, <2>4, <2>5, Zenon
  <2>8. cmd[k].at = "first" => HalfShows(e)'
    BY <1>7, <2>3, <2>5
  <2>9. cmd[k].at = "second" /\ HalfShows(e) => LinkShows(e)'
    BY <1>7, <2>1, <2>2, <2>3, <2>4, <2>5
  <2>. QED  BY <2>6, <2>7, <2>8, <2>9, Zenon
<1>13. PlanHolds'
  <2>. SUFFICES ASSUME NEW P \in Plans, InForce(P)' PROVE AsPlanned(P)'
    BY DEF PlanHolds
  <2>1. P = Q /\ AsPlanned(P)
    <3>1. P = Q
      BY <1>4, <1>5, <1>11, Zenon DEF InForce
    <3>2. InForce(P)
      BY <1>2, <1>10, <1>11, <3>1, Zenon DEF InForce
    <3>. QED  BY <1>1, <3>1, <3>2, Zenon DEF PlanHolds
  <2>2. FileShows(e) /\ (cmd[k].at = "second" => HalfShows(e))
    BY <1>0, <1>2, <2>1, Zenon DEF AsPlanned
  <2>3. \A f : FileShows(f) => FileShows(f)'
    BY <1>2 DEF FileShows
  <2>4. \A f \in P \ {e} : (LinkShows(f) => LinkShows(f)') /\ (HalfShows(f) => HalfShows(f)')
    <3>1. \A f \in P \ {e} : f.dev \in Devices \ {e.dev}
      BY <1>3, <2>1, EntryFacts DEF Plans
    <3>. QED  BY <1>2, <1>9, <3>1, ShowsStays, Zenon
  <2>5. \A f \in P : ThroughWith(P, f)' => FileShows(f)' /\ LinkShows(f)'
    <3>. SUFFICES ASSUME NEW f \in P, ThroughWith(P, f)' PROVE FileShows(f)' /\ LinkShows(f)'
      OBVIOUS
    <3>1. ThroughWith(P, f) \/ (f = e /\ cmd[k].at = "second")
      <4>1. ASSUME NEW x \in Commands, Applied(x)', f \notin cmd'[x].left, cmd'[x].entry # f,
                   ~(f = e /\ cmd[k].at = "second")
            PROVE  Applied(x) /\ f \notin cmd[x].left /\ cmd[x].entry # f
        <5>1. CASE x = k
          BY <1>0, <1>2, <1>3, <1>4, <1>5, <1>11, <4>1, <5>1, Zenon
        <5>2. CASE x # k
          BY <1>10, <4>1, <5>2, Zenon
        <5>. QED  BY <5>1, <5>2, Zenon
      <4>. QED  BY <1>2, <4>1, Zenon DEF ThroughWith
    <3>2. CASE f = e /\ cmd[k].at = "second"
      BY <1>12, <2>2, <2>3, <3>2, Zenon
    <3>3. CASE ThroughWith(P, f)
      BY <1>12, <2>1, <2>3, <2>4, <3>3, Zenon DEF AsPlanned
    <3>. QED  BY <3>1, <3>2, <3>3, Zenon
  <2>6. ASSUME NEW x \in Commands, cmd'[x].at \in {"first", "second"}
        PROVE  (FileShows(cmd[x].entry) /\ (cmd[x].at = "second" => HalfShows(cmd[x].entry)))'
    <3>1. CASE x = k
      BY <1>2, <1>4, <1>5, <1>12, <2>2, <2>3, <2>6, <3>1, Zenon
    <3>2. CASE x # k
      <4>1. cmd'[x] = cmd[x] /\ Applied(x)
        BY <1>10, <2>6, <3>2, Zenon DEF Applied
      <4>2. cmd[x].entry \in P
        <5>1. cmd'[x].plan = P
          BY <1>10, <3>2, <4>1, Zenon DEF InForce
        <5>2. cmd[x].entry \in cmd[x].plan \ cmd[x].left
          BY <1>1, <2>6, <4>1, Zenon DEF AsFar
        <5>. QED  BY <4>1, <5>1, <5>2, Zenon
      <4>3. PICK f \in P : f = cmd[x].entry
        BY <4>2
      <4>4. FileShows(f) /\ (cmd[x].at = "second" => HalfShows(f))
        BY <2>1, <2>6, <4>1, <4>3, Zenon DEF AsPlanned
      <4>5. FileShows(f)' /\ (HalfShows(f) => HalfShows(f)')
        BY <1>12, <2>3, <2>4, <4>4, Zenon
      <4>6. cmd'[x].entry = f /\ cmd'[x].at = cmd[x].at
        BY <4>1, <4>3
      <4>. QED  BY <4>4, <4>5, <4>6, Zenon
    <3>. QED  BY <3>1, <3>2, Zenon
  <2>7. \A d \in Devices : unitFile'[d] # Absent => \E f \in P : f.dev = d /\ f.names > 0
    BY <1>2, <2>1, Zenon DEF AsPlanned
  <2>. QED  BY <2>5, <2>6, <2>7 DEF AsPlanned
<1>14. StillFresh'
  BY <1>1, <1>2, <1>4, <1>5, <1>10, <1>11, FreshStays, Zenon
<1>. QED  BY <1>10, <1>11, <1>13, <1>14 DEF ResInv

LEMMA RemoveAllStep ==
  ASSUME ResInv, RemoveAll
  PROVE  ResInv'
<1>1. ResTypeOK /\ DevicesApart /\ (\A x \in Commands : AsFar(x))
  BY Zenon DEF ResInv
<1>2. /\ sweep({}) /\ UNCHANGED <<conn, table, networkd, cmd>>
      /\ agreed' = IF Quiet THEN [plan |-> {}, ok |-> TRUE, fresh |-> FALSE] ELSE Settled(FALSE, {})
  BY DEF RemoveAll
<1>3. /\ unitFile' \in [Devices -> Settings \cup {Absent}] /\ link' \in [Devices -> Settings \cup {Absent}]
      /\ \A d \in Devices : unitFile'[d] = Absent
  BY <1>1, <1>2, SweepFacts
<1>4. (Quiet' <=> Quiet) /\ {} \in Plans /\ {} # Absent
  BY <1>2, ResolverAssumption, Zenon DEF Quiet, Plans
<1>5. CASE Quiet
  <2>1. agreed'.plan = {} /\ ~agreed'.fresh /\ agreed' \in Agreed
    BY <1>2, <1>4, <1>5, Zenon DEF Agreed
  <2>2. PlanHolds'
    <3>. SUFFICES ASSUME NEW P \in Plans, InForce(P)' PROVE AsPlanned(P)'
      BY DEF PlanHolds
    <3>1. P = {}
      BY <1>4, <2>1, Zenon DEF InForce
    <3>2. \A k \in Commands : cmd'[k].at = "idle"
      BY <1>2, <1>5 DEF Quiet
    <3>. QED  BY <1>3, <3>1, <3>2, Zenon DEF AsPlanned
  <2>3. ResTypeOK' /\ DevicesApart' /\ (\A x \in Commands : AsFar(x))'
    BY <1>1, <1>2, <1>3, <2>1, Zenon DEF ResTypeOK, DevicesApart, AsFar, Applied
  <2>. QED  BY <1>4, <2>1, <2>2, <2>3, Zenon DEF ResInv, StillFresh
<1>6. CASE ~Quiet
  <2>1. ~agreed'.ok /\ ~agreed'.fresh /\ agreed' \in Agreed
    BY <1>2, <1>6 DEF Settled, Agreed
  <2>2. ResTypeOK' /\ DevicesApart' /\ (\A x \in Commands : AsFar(x))'
    BY <1>1, <1>2, <1>3, <2>1, Zenon DEF ResTypeOK, DevicesApart, AsFar, Applied
  <2>3. PlanHolds'
    BY <2>1 DEF PlanHolds, InForce
  <2>. QED  BY <2>1, <2>2, <2>3, Zenon DEF ResInv, StillFresh
<1>. QED  BY <1>5, <1>6

LEMMA ResNextInv == ResInv /\ [ResNext]_resVars => ResInv'
<1>. SUFFICES ASSUME ResInv, [ResNext]_resVars PROVE ResInv'
  OBVIOUS
<1>1. ASSUME NEW c \in Conns, Attach(c) \/ Admitted(c) \/ Detach(c) \/ \E t \in 0 .. MaxTable : TableChanges(c, t)
      PROVE  ResInv'
  BY <1>1, EventStep
<1>2. CASE (\E c \in Conns : LinkUp(c)) \/ (\E d \in Devices : LinkDown(d))
  BY <1>2, LinkStep
<1>3. ASSUME NEW k \in Commands, NEW remove \in BOOLEAN, Ask(k, remove) PROVE ResInv'
  BY <1>3, AskStep
<1>4. ASSUME NEW k \in Commands, NEW c \in cmd[k].left, cmd[k].at = "plan", NEW read \in BOOLEAN, DNSPlan(k, c, read)
      PROVE  ResInv'
  BY <1>4, DNSPlanStep
<1>5. ASSUME NEW k \in Commands, NEW e \in cmd[k].left, WriteFile(k, e) PROVE ResInv'
  BY <1>5, WriteFileStep
<1>6. ASSUME NEW k \in Commands, Apply(k) \/ Done(k) \/ resolvectl(k) \/ Fails(k) PROVE ResInv'
  BY <1>6, ApplyStep, DoneStep, ResolvectlStep, FailsStep
<1>7. CASE RemoveAll
  BY <1>7, RemoveAllStep
<1>8. CASE UNCHANGED resVars
  <2>1. /\ conn' = conn /\ table' = table /\ link' = link /\ unitFile' = unitFile
        /\ networkd' = networkd /\ cmd' = cmd /\ agreed' = agreed
    BY <1>8 DEF resVars
  <2>2. ResTypeOK' /\ DevicesApart' /\ (\A k \in Commands : AsFar(k))' /\ (Quiet' <=> Quiet)
    BY <2>1, Zenon DEF ResInv, ResTypeOK, DevicesApart, AsFar, Applied, Quiet
  <2>3. StillFresh'
    <3>1. StillFresh /\ Now' = Now /\ \A x : Meant(x)' = Meant(x)
      BY <2>1, Zenon DEF ResInv, Now, Meant
    <3>. QED  BY <2>1, <3>1, Zenon DEF StillFresh, Applied
  <2>4. PlanHolds'
    <3>. SUFFICES ASSUME NEW P \in Plans, InForce(P)' PROVE AsPlanned(P)'
      BY DEF PlanHolds
    <3>1. AsPlanned(P)
      BY <2>1, Zenon DEF ResInv, PlanHolds, InForce, Applied
    <3>2. \A e : (FileShows(e) => FileShows(e)') /\ (LinkShows(e) => LinkShows(e)') /\ (HalfShows(e) => HalfShows(e)')
      BY <2>1, ShowsStays, Zenon
    <3>3. \A e : ThroughWith(P, e)' => ThroughWith(P, e)
      BY <2>1, Zenon DEF ThroughWith, Applied
    <3>. QED  BY <2>1, <3>1, <3>2, <3>3, Zenon DEF AsPlanned
  <2>. QED  BY <2>1, <2>2, <2>3, <2>4 DEF ResInv
<1>. QED  BY <1>1, <1>2, <1>3, <1>4, <1>5, <1>6, <1>7, <1>8, Zenon DEF ResNext

THEOREM ResInvariance == ResSpec => []ResInv
BY ResInitInv, ResNextInv, PTL DEF ResSpec

\* Installing twice is installing once, whatever the commands' steps are
\* interleaved with (setup/systemd.go, cmd/robinet/setup.go): once commands that
\* had one plan are through and none failed, the files and the links are those
\* of the plan, and no file is left over; and when nothing has changed since, the
\* plan is what the daemon says.
THEOREM SetupSettles == ResSpec => []SettledAsPlanned
<1>1. ASSUME ResInv PROVE SettledAsPlanned
  <2>. SUFFICES ASSUME Quiet, agreed.ok
                PROVE  /\ \A e \in agreed.plan : Shows(e.dev, Setting(e))
                       /\ \A d \in Devices : unitFile[d] # Absent => \E e \in agreed.plan : e.dev = d
                       /\ agreed.fresh => \A c \in Conns : conn[c] # Absent =>
                            Shows(conn[c].dev, [server |-> c, names |-> IF conn[c].ready THEN table[c] ELSE 0])
    BY Zenon DEF SettledAsPlanned
  <2>. DEFINE P == agreed.plan
  <2>1. P \in Plans /\ P # Absent
    BY <1>1, Zenon DEF ResInv, ResTypeOK, Agreed
  <2>2. InForce(P)
    BY DEF InForce, Quiet, Applied
  <2>3. AsPlanned(P) /\ \A e \in P : ThroughWith(P, e)
    BY <1>1, <2>1, <2>2 DEF ResInv, PlanHolds, ThroughWith
  <2>4. \A e \in P : e \in Entries
    BY <2>1, Zenon DEF Plans
  <2>5. \A e \in P : Shows(e.dev, Setting(e))
    BY <2>3, <2>4, EntryFacts, Zenon DEF AsPlanned, FileShows, LinkShows, Shows
  <2>6. \A d \in Devices : unitFile[d] # Absent => \E e \in P : e.dev = d
    BY <2>3, Zenon DEF AsPlanned
  <2>7. ASSUME agreed.fresh, NEW c \in Conns, conn[c] # Absent
        PROVE  Shows(conn[c].dev, [server |-> c, names |-> IF conn[c].ready THEN table[c] ELSE 0])
    <3>. DEFINE x == [conn |-> c, dev |-> conn[c].dev, ready |-> conn[c].ready]
    <3>1. P = {Meant(y) : y \in Now}
      BY <1>1, <2>1, <2>7, Zenon DEF ResInv, StillFresh
    <3>2. x \in Now /\ Meant(x) \in P
      BY <2>7, <3>1, Zenon DEF Now
    <3>3. Meant(x).dev = conn[c].dev /\ Setting(Meant(x)) = [server |-> c, names |-> IF conn[c].ready THEN table[c] ELSE 0]
      BY Zenon DEF Meant, DNSEntry, Setting
    <3>. QED  BY <2>5, <3>2, <3>3, Zenon
  <2>. QED  BY <2>5, <2>6, <2>7, Zenon
<1>. QED  BY <1>1, ResInvariance, PTL
=============================================================================
