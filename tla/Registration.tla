---------------------------- MODULE Registration ----------------------------
(***************************************************************************)
(* Machines registering with a hub: the configuration the hub is started   *)
(* with, the ssh keys a machine tries one after the other, the limit on    *)
(* attempts, and the state both sides keep.  Signatures are external: one  *)
(* made with a key over a token verifies against that key and that token.  *)
(***************************************************************************)
EXTENDS Integers, Sequences, Functions

CONSTANTS
  Machines,
  KeysOf,        \* for each machine, the keys its agent holds, in order
  Tokens,        \* what an operator may type for security.token
  Fragments,     \* sequences of configuration files the hub may be started with
  Limit, Period, \* rateLimiter: attempts per period from one source
  MaxTime, MaxIdentities, MaxRuns,   \* bounds
  None

Identities == 1 .. MaxIdentities

\* What agents hold; one without a key is an error before anything is asked.
HeldKeys == UNION {Range(KeysOf[m]) : m \in Machines}

VARIABLES
  cfg,      \* the running hub's configuration, or None when it does not run
  run,      \* how often the hub has been started, which only tells runs apart
  regs,     \* the hub's registrations in memory, for each identity
  regsFile, \* and in its state file
  lost,     \* identities whose registration went with a state file that was lost
  clock,    \* time, in ticks
  buckets,  \* rateLimiter.buckets, for each source
  allowed,  \* for each source, when it was let through, since the hub was started
  machine,  \* for each machine its state file: the identity it registered, or None
  joining,  \* for each machine the join command under way
  made      \* identities made so far

regVars == <<cfg, run, regs, regsFile, lost, clock, buckets, allowed, machine, joining, made>>

Idle == [at |-> "idle", identity |-> None, key |-> 0, token |-> None, run |-> 0]

RegInit ==
  /\ cfg = None /\ run = 0
  /\ regs = [i \in Identities |-> None] /\ regsFile = regs /\ lost = {}
  /\ clock = 0
  /\ buckets = [m \in Machines |-> None]
  /\ allowed = [m \in Machines |-> <<>>]
  /\ machine = [m \in Machines |-> None]
  /\ joining = [m \in Machines |-> Idle]
  /\ made = 0
-----------------------------------------------------------------------------
(***************************************************************************)
(* The configuration.  A file says a token, or none, and binders.          *)
(***************************************************************************)
\* What is said later wins; binders add up.
merge(f, other) ==
  [token |-> IF other.token # None THEN other.token ELSE f.token, binders |-> f.binders \o other.binders]

LoadFile(files) ==
  LET read[n \in DOMAIN files] == IF n = 1 THEN files[1] ELSE merge(read[n - 1], files[n])
  IN  read[Len(files)]

validate(f) == f.token # None /\ f.binders # <<>>

\* A binder is declared once and has keys, and no key is there twice.
BindersApart(bs) ==
  \A i, j \in DOMAIN bs :
    /\ bs[i].keys # <<>> /\ (i # j => bs[i].name # bs[j].name)
    /\ \A a \in DOMAIN bs[i].keys, b \in DOMAIN bs[j].keys :
         <<i, a>> # <<j, b>> => bs[i].keys[a] # bs[j].keys[b]

Config(f) ==
  IF validate(f) /\ BindersApart(f.binders) THEN [token |-> f.token, binders |-> Range(f.binders)] ELSE None

\* Every name a binder has in a configuration the hub takes.
BinderNames == UNION {{b.name : b \in c.binders} : c \in {Config(LoadFile(f)) : f \in Fragments} \ {None}}

ASSUME RegistrationAssumption ==
  /\ {Limit, Period} \subseteq Nat \ {0} /\ {MaxTime, MaxIdentities, MaxRuns} \subseteq Nat
  /\ \A m \in Machines : KeysOf[m] \in Seq(HeldKeys) \ {<<>>}
  /\ None \notin [count : Nat, reset : Nat] \cup [binder : BinderNames, key : HeldKeys]

AllKeys == UNION {Range(b.keys) : b \in cfg.binders}

\* Any binder that has the key, in the order of a map.
Match(k) == {b.name : b \in {x \in cfg.binders : k \in Range(x.keys)}}

\* The hub is started with some files, or refuses to; when it stops, what is
\* left of its memory is what the file has.
HubStart(files) ==
  /\ cfg = None /\ run < MaxRuns /\ Config(LoadFile(files)) # None
  /\ cfg' = Config(LoadFile(files)) /\ run' = run + 1
  /\ UNCHANGED <<regs, regsFile, lost, clock, buckets, allowed, machine, joining, made>>

HubStop ==
  /\ cfg # None /\ cfg' = None
  /\ regs' = regsFile
  /\ buckets' = [m \in Machines |-> None] /\ allowed' = [m \in Machines |-> <<>>]
  /\ UNCHANGED <<run, regsFile, lost, clock, machine, joining, made>>

\* The hub's state is lost and rebuilt empty, while it is down.
HubRebuilt ==
  /\ cfg = None
  /\ lost' = lost \cup {i \in Identities : regsFile[i] # None}
  /\ regsFile' = [i \in Identities |-> None] /\ regs' = regsFile'
  /\ UNCHANGED <<cfg, run, clock, buckets, allowed, machine, joining, made>>

Time ==
  /\ clock < MaxTime /\ clock' = clock + 1
  /\ UNCHANGED <<cfg, run, regs, regsFile, lost, buckets, allowed, machine, joining, made>>
-----------------------------------------------------------------------------
(***************************************************************************)
(* The limiter.                                                            *)
(***************************************************************************)
NewBucket(m) == buckets[m] # None => clock > buckets[m].reset

\* Wrong on purpose: one more is let through in each period.
AllowsOneMore(m) == ~NewBucket(m) => buckets[m].count <= Limit

\* rateLimiter.allow: what it answers, and what it keeps.
Allows(m) == ~NewBucket(m) => buckets[m].count + 1 <= Limit

Counted(m) ==
  [buckets EXCEPT ![m] = IF NewBucket(m) THEN [count |-> 1, reset |-> clock + Period]
                         ELSE [buckets[m] EXCEPT !.count = IF @ > Limit THEN @ ELSE @ + 1]]
-----------------------------------------------------------------------------
(***************************************************************************)
(* Join, on the machine.                                                   *)
(***************************************************************************)
\* An identity the machine has is used again, else one is made.
Identity(m) == IF machine[m] # None THEN machine[m] ELSE made + 1

Join(m, token) ==
  /\ joining[m].at \in {"idle", "rejected"}
  /\ Identity(m) <= MaxIdentities
  /\ made' = IF Identity(m) > made THEN Identity(m) ELSE made
  /\ joining' = [joining EXCEPT ![m] = [at |-> "trying", identity |-> Identity(m), key |-> 1,
                                        token |-> token, run |-> run]]
  /\ UNCHANGED <<cfg, run, regs, regsFile, lost, clock, buckets, allowed, machine>>

\* Wrong on purpose: the first key that is refused ends it.
RefusedFirst(j, m) == [j EXCEPT !.at = "rejected"]

\* A key that is refused makes way for the next; after the last, none is known.
Refused(j, m) == IF j.key < Len(KeysOf[m]) THEN [j EXCEPT !.key = @ + 1] ELSE [j EXCEPT !.at = "rejected"]

Answer(m, j) == joining' = [joining EXCEPT ![m] = j]
Ended(m) == Answer(m, Idle)

\* handleRegister, for the key the machine is at, and register's next step.
\* Wherever the answer is not needed it may be lost as well.
Unreachable(m) ==
  /\ joining[m].at = "trying"
  /\ Ended(m)
  /\ UNCHANGED <<cfg, run, regs, regsFile, lost, clock, buckets, allowed, machine, made>>

SlowDown(m) ==
  /\ joining[m].at = "trying" /\ cfg # None /\ ~Allows(m)
  /\ buckets' = Counted(m)
  /\ Ended(m)
  /\ UNCHANGED <<cfg, run, regs, regsFile, lost, clock, allowed, machine, made>>

Through(m) ==
  /\ joining[m].at = "trying" /\ cfg # None /\ Allows(m)
  /\ buckets' = Counted(m)
  /\ allowed' = [allowed EXCEPT ![m] = Append(@, clock)]

Speaks(m) == joining[m].token = cfg.token /\ KeysOf[m][joining[m].key] \in AllKeys

Unauthorized(m) ==
  /\ Through(m) /\ ~Speaks(m)
  /\ Answer(m, Refused(joining[m], m))
  /\ UNCHANGED <<cfg, run, regs, regsFile, lost, clock, machine, made>>

\* Wrong on purpose: a registration that could not be saved is answered for.
RegisterUnsaved(m) ==
  LET j == joining[m]
      k == KeysOf[m][j.key]
  IN  /\ Through(m) /\ Speaks(m)
      /\ \E b \in Match(k), saved \in BOOLEAN :
           /\ regs' = [regs EXCEPT ![j.identity] = [binder |-> b, key |-> k]]
           /\ regsFile' = IF saved THEN regs' ELSE regsFile
           /\ lost' = IF saved THEN lost \ {j.identity} ELSE lost
           /\ Answer(m, [j EXCEPT !.at = "saving"])
      /\ UNCHANGED <<cfg, run, clock, machine, made>>

Register(m) ==
  LET j == joining[m]
      k == KeysOf[m][j.key]
  IN  /\ Through(m) /\ Speaks(m)
      /\ \E b \in Match(k), saved \in BOOLEAN, heard \in BOOLEAN :
           /\ regs' = [regs EXCEPT ![j.identity] = [binder |-> b, key |-> k]]
           /\ regsFile' = IF saved THEN regs' ELSE regsFile
           /\ lost' = IF saved THEN lost \ {j.identity} ELSE lost
           /\ IF saved /\ heard THEN Answer(m, [j EXCEPT !.at = "saving"]) ELSE Ended(m)
      /\ UNCHANGED <<cfg, run, clock, machine, made>>

\* state.Write, which may fail.
Write(m) ==
  /\ joining[m].at = "saving"
  /\ \/ machine' = [machine EXCEPT ![m] = joining[m].identity]
     \/ UNCHANGED machine
  /\ Ended(m)
  /\ UNCHANGED <<cfg, run, regs, regsFile, lost, clock, buckets, allowed, made>>

RegNext ==
  \/ HubStop \/ HubRebuilt \/ Time
  \/ \E f \in Fragments : HubStart(f)
  \/ \E m \in Machines : \/ \E t \in Tokens : Join(m, t)
                         \/ Unreachable(m) \/ SlowDown(m) \/ Unauthorized(m) \/ Register(m) \/ Write(m)

RegSpec == RegInit /\ [][RegNext]_regVars
-----------------------------------------------------------------------------
\* "Every key the agent holds is tried in turn": a machine is told it was
\* rejected only if the hub it asked knows none of its keys, or not its token.
RejectedIsUnknown ==
  \A m \in Machines : joining[m].at = "rejected" /\ joining[m].run = run /\ cfg # None =>
    joining[m].token # cfg.token \/ Range(KeysOf[m]) \cap AllKeys = {}

\* A machine whose own state says it is registered is in the hub's state file,
\* unless that was lost since, and then it is again once it has joined again.
JoinedIsKnown ==
  \A m \in Machines : machine[m] # None /\ machine[m] \notin lost => regsFile[machine[m]] # None

\* A fixed window lets through less than twice its limit in any period, however
\* the attempts of a source fall: a bucket starts with an attempt, so no two
\* full ones meet.  Of twice as many in a row the last is past the first one's
\* period.
NoFlood ==
  \A m \in Machines : \A n \in DOMAIN allowed[m] : n + 2 * Limit - 1 \in DOMAIN allowed[m] =>
    allowed[m][n + 2 * Limit - 1] > allowed[m][n] + Period
=============================================================================
