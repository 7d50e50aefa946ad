------------------------ MODULE RegistrationProofs -------------------------
(* Proofs about Registration, for every value of its constants: any number *)
(* of machines, keys, configuration files, starts of the hub and requests. *)
EXTENDS Registration, TLAPS

Bucket == [count : Nat, reset : Nat]
Entered == [binder : BinderNames, key : HeldKeys]
Configs == {Config(LoadFile(f)) : f \in Fragments}

Joining == [at : {"idle", "trying", "rejected", "saving"}, identity : Identities \cup {None}, key : Nat,
            token : Tokens \cup {None}, run : Nat]

RegTypeOK ==
  /\ cfg \in Configs \cup {None} /\ run \in Nat
  /\ regs \in [Identities -> Entered \cup {None}]
  /\ regsFile \in [Identities -> Entered \cup {None}]
  /\ clock \in Nat
  /\ buckets \in [Machines -> Bucket \cup {None}]
  /\ allowed \in [Machines -> Seq(Nat)]
  /\ machine \in [Machines -> Identities \cup {None}]
  /\ joining \in [Machines -> Joining]
  /\ made \in Nat

\* A command that is under way, or was told it is rejected, has an identity and
\* is at one of the keys the agent holds.
AtAKey ==
  \A m \in Machines : joining[m].at # "idle" =>
    joining[m].identity \in Identities /\ joining[m].key \in DOMAIN KeysOf[m]

\* How many of its keys have been refused, while the hub it asked still runs.
Tried(m) == IF joining[m].at = "trying" THEN joining[m].key - 1 ELSE Len(KeysOf[m])

RefusedAreUnknown ==
  \A m \in Machines : joining[m].at \in {"trying", "rejected"} =>
    /\ joining[m].run <= run
    /\ joining[m].run = run /\ cfg # None /\ joining[m].token = cfg.token =>
         \A n \in 1 .. Tried(m) : KeysOf[m][n] \notin AllKeys

\* The file has no registration the memory does not have.
FileInMemory == \A i \in Identities : regsFile[i] # None => regs[i] # None

\* What a machine was answered is in the file, or was lost with it.
AnsweredIsSaved ==
  \A m \in Machines : joining[m].at = "saving" =>
    joining[m].identity \in lost \/ regsFile[joining[m].identity] # None

\* What the counter of a source has let through of the current bucket, and
\* where in its history the bucket began.
LetIn(m) == IF buckets[m].count < Limit THEN buckets[m].count ELSE Limit
BucketStart(m) == Len(allowed[m]) - LetIn(m) + 1

\* A bucket began with an attempt, a period before it ends, and what was let
\* through a whole limit before that is more than a period older.
BucketsTell ==
  \A m \in Machines :
    /\ buckets[m] = None => allowed[m] = <<>>
    /\ buckets[m] # None =>
         /\ buckets[m].count > 0 /\ BucketStart(m) > 0
         /\ allowed[m][BucketStart(m)] + Period = buckets[m].reset
         /\ \A n \in 1 .. BucketStart(m) - Limit : allowed[m][n] + Period < allowed[m][BucketStart(m)]

\* The history of a source is in the order of time.
InOrder ==
  \A m \in Machines : \A n \in DOMAIN allowed[m] :
    allowed[m][n] <= clock /\ \A o \in 1 .. n : allowed[m][o] <= allowed[m][n]

RegInv ==
  /\ RegTypeOK /\ AtAKey /\ RefusedAreUnknown
  /\ FileInMemory /\ AnsweredIsSaved /\ JoinedIsKnown
  /\ BucketsTell /\ InOrder /\ NoFlood

LEMMA RegInitInv == RegInit => RegInv
<1>. SUFFICES ASSUME RegInit PROVE RegInv
  OBVIOUS
<1>. USE DEF RegInit
<1>1. RegTypeOK
  BY DEF RegTypeOK, Idle, Joining
<1>2. AtAKey /\ RefusedAreUnknown /\ AnsweredIsSaved
  BY DEF AtAKey, RefusedAreUnknown, AnsweredIsSaved, Idle
<1>3. FileInMemory /\ JoinedIsKnown
  BY DEF FileInMemory, JoinedIsKnown
<1>4. BucketsTell /\ InOrder /\ NoFlood
  BY DEF BucketsTell, InOrder, NoFlood
<1>. QED  BY <1>1, <1>2, <1>3, <1>4 DEF RegInv

\* The limiter's part of it, which the machines and the store do not touch.
Limiter == BucketsTell /\ InOrder /\ NoFlood

LEMMA LimiterStays ==
  ASSUME RegInv, UNCHANGED <<buckets, allowed>>, clock' \in Nat, clock <= clock'
  PROVE  Limiter'
<1>1. RegTypeOK /\ BucketsTell /\ InOrder /\ NoFlood
  BY Zenon DEF RegInv
<1>2. BucketsTell' /\ NoFlood'
  BY <1>1 DEF BucketsTell, NoFlood, BucketStart, LetIn
<1>3. InOrder'
  <2>1. \A m \in Machines : \A n \in DOMAIN allowed[m] : allowed[m][n] \in Nat
    BY <1>1 DEF RegTypeOK
  <2>. QED  BY <1>1, <2>1 DEF InOrder, RegTypeOK
<1>. QED  BY <1>2, <1>3 DEF Limiter

\* An attempt that is let through.
LEMMA LimiterThrough ==
  ASSUME RegInv, NEW m \in Machines, Through(m), UNCHANGED clock
  PROVE  /\ Limiter'
         /\ buckets' \in [Machines -> Bucket \cup {None}]
         /\ allowed' \in [Machines -> Seq(Nat)]
<1>1. RegTypeOK /\ BucketsTell /\ InOrder /\ NoFlood /\ clock \in Nat
  BY DEF RegInv, RegTypeOK
<1>2. Limit \in Nat /\ Limit > 0 /\ Period \in Nat
  BY RegistrationAssumption
<1>. DEFINE a == allowed[m]
            L == Len(allowed[m])
            new == allowed'[m]
<1>3. a \in Seq(Nat) /\ L \in Nat /\ \A n \in 1 .. L : a[n] \in Nat
  BY <1>1 DEF RegTypeOK
<1>4. \A n \in 1 .. L : a[n] <= clock /\ \A o \in 1 .. n : a[o] <= a[n]
  BY <1>1, <1>3 DEF InOrder
<1>5. allowed' = [allowed EXCEPT ![m] = Append(a, clock)] /\ buckets' = Counted(m) /\ Allows(m)
  BY DEF Through
<1>6. new = Append(a, clock) /\ \A o \in Machines \ {m} : allowed'[o] = allowed[o]
  BY <1>1, <1>5 DEF RegTypeOK
<1>7. new \in Seq(Nat) /\ Len(new) = L + 1 /\ new[L + 1] = clock /\ \A n \in 1 .. L : new[n] = a[n]
  BY <1>1, <1>3, <1>6
<1>8. allowed' \in [Machines -> Seq(Nat)]
  BY <1>1, <1>5, <1>6, <1>7 DEF RegTypeOK
<1>. HIDE DEF a, L, new
<1>9. InOrder'
  <2>1. \A n \in 1 .. L + 1 : new[n] <= clock
    <3>. SUFFICES ASSUME NEW n \in 1 .. L + 1 PROVE new[n] <= clock
      OBVIOUS
    <3>. QED  BY <1>1, <1>3, <1>4, <1>7, SMTT(30)
  <2>2. \A n \in 1 .. L + 1 : \A o \in 1 .. n : new[o] <= new[n]
    <3>. SUFFICES ASSUME NEW n \in 1 .. L + 1, NEW o \in 1 .. n PROVE new[o] <= new[n]
      OBVIOUS
    <3>1. CASE n = L + 1
      BY <1>7, <2>1, <3>1, <1>3
    <3>2. CASE n \in 1 .. L
      BY <1>3, <1>4, <1>7, <3>2
    <3>. QED  BY <1>3, <3>1, <3>2
  <2>3. DOMAIN new = 1 .. L + 1
    BY <1>3, <1>7
  <2>4. ASSUME NEW o \in Machines
        PROVE  \A n \in DOMAIN allowed'[o] : allowed'[o][n] <= clock' /\ \A x \in 1 .. n : allowed'[o][x] <= allowed'[o][n]
    <3>1. CASE o = m
      BY <2>1, <2>2, <2>3, <3>1, Zenon DEF new
    <3>2. CASE o # m
      BY <1>1, <1>6, <3>2 DEF InOrder
    <3>. QED  BY <3>1, <3>2
  <2>. QED  BY <2>4 DEF InOrder
<1>10. /\ \A o \in Machines \ {m} : buckets'[o] = buckets[o]
       /\ buckets'[m] = IF NewBucket(m) THEN [count |-> 1, reset |-> clock + Period]
                        ELSE [buckets[m] EXCEPT !.count = IF @ > Limit THEN @ ELSE @ + 1]
  <2>. DEFINE next == IF NewBucket(m) THEN [count |-> 1, reset |-> clock + Period]
                      ELSE [buckets[m] EXCEPT !.count = IF @ > Limit THEN @ ELSE @ + 1]
  <2>1. buckets' = [buckets EXCEPT ![m] = next]
    BY <1>5 DEF Counted
  <2>2. buckets \in [Machines -> Bucket \cup {None}]
    BY <1>1 DEF RegTypeOK
  <2>. HIDE DEF next
  <2>3. buckets'[m] = next /\ \A o \in Machines \ {m} : buckets'[o] = buckets[o]
    BY <2>1, <2>2
  <2>. QED  BY <2>3 DEF next
<1>a. L \in Nat
  BY <1>3
<1>. DEFINE old == BucketStart(m)
            start == BucketStart(m)'
<1>11. ASSUME NewBucket(m)
       PROVE  /\ buckets'[m] \in Bucket /\ buckets'[m].count > 0 /\ start = L + 1
              /\ buckets'[m].reset = clock + Period
              /\ \A n \in 1 .. L + 1 - Limit : a[n] + Period < clock
  <2>1. buckets'[m] = [count |-> 1, reset |-> clock + Period]
    BY <1>10, <1>11
  <2>2. /\ buckets'[m] \in Bucket /\ buckets'[m].count = 1 /\ buckets'[m].reset = clock + Period
    BY <1>1, <1>2, <2>1 DEF Bucket
  <2>3. start = L + 1
    BY <1>2, <1>3, <1>7, <2>2 DEF BucketStart, LetIn, new
  <2>4. CASE buckets[m] = None
    <3>1. L = 0
      BY <1>1, <2>4 DEF BucketsTell, L
    <3>. QED  BY <1>2, <2>2, <2>3, <3>1
  <2>5. CASE buckets[m] # None
    <3>1. buckets[m] \in Bucket /\ buckets[m].count \in Nat /\ clock > buckets[m].reset
      BY <1>1, <1>11, <2>5 DEF RegTypeOK, Bucket, NewBucket
    <3>2. old \in Int /\ old > 0 /\ old <= L /\ old >= L + 1 - Limit /\ a[old] + Period = buckets[m].reset
      <4>1. buckets[m].count > 0 /\ old > 0 /\ a[old] + Period = buckets[m].reset
        BY <1>1, <2>5 DEF BucketsTell, a
      <4>2. LetIn(m) \in 1 .. Limit
        BY <1>2, <3>1, <4>1 DEF LetIn
      <4>3. old = L - LetIn(m) + 1
        BY DEF BucketStart, L
      <4>. HIDE DEF old
      <4>. QED  BY <1>a, <1>2, <4>1, <4>2, <4>3
    <3>3. ASSUME NEW n \in 1 .. L + 1 - Limit PROVE a[n] + Period < clock
      <4>. HIDE DEF old
      <4>1. n \in 1 .. old /\ old \in 1 .. L /\ n \in 1 .. L
        BY <1>2, <1>a, <3>2
      <4>2. a[n] <= a[old] /\ a[n] \in Nat /\ a[old] \in Nat
        BY <1>3, <1>4, <4>1
      <4>3. buckets[m].reset \in Nat
        BY <3>1 DEF Bucket
      <4>. QED  BY <1>1, <1>2, <3>1, <3>2, <4>2, <4>3
    <3>. QED  BY <2>2, <2>3, <3>3
  <2>. QED  BY <2>4, <2>5
<1>12. ASSUME ~NewBucket(m)
       PROVE  /\ buckets'[m] \in Bucket /\ buckets'[m].count > 0 /\ start \in 1 .. L
              /\ buckets'[m].reset = a[start] + Period
              /\ \A n \in 1 .. start - Limit : a[n] + Period < a[start]
              /\ start >= L + 2 - Limit
  <2>1. buckets[m] # None /\ buckets[m] \in Bucket
    BY <1>1, <1>12 DEF NewBucket, RegTypeOK
  <2>2. buckets[m].count \in Nat /\ buckets[m].reset \in Nat /\ buckets[m].count + 1 <= Limit
    BY <1>5, <1>12, <2>1 DEF Allows, Bucket
  <2>3. buckets'[m] = [buckets[m] EXCEPT !.count = buckets[m].count + 1]
    BY <1>2, <1>10, <1>12, <2>2
  <2>4. /\ buckets'[m] \in Bucket /\ buckets'[m].count = buckets[m].count + 1
        /\ buckets'[m].reset = buckets[m].reset
    BY <2>1, <2>2, <2>3 DEF Bucket
  <2>5. start = L - buckets[m].count + 1 /\ old = start
    <3>1. LetIn(m) = buckets[m].count /\ LetIn(m)' = buckets[m].count + 1
      BY <1>2, <2>2, <2>4 DEF LetIn
    <3>2. start = Len(new) - LetIn(m)' + 1 /\ old = L - LetIn(m) + 1
      BY DEF BucketStart, new, L
    <3>. HIDE DEF start, old
    <3>3. Len(new) = L + 1
      BY <1>7
    <3>. QED  BY <1>a, <2>2, <3>1, <3>2, <3>3, SMTT(30)
  <2>6. /\ buckets[m].count > 0 /\ old > 0 /\ a[old] + Period = buckets[m].reset
        /\ \A n \in 1 .. old - Limit : a[n] + Period < a[old]
    BY <1>1, <2>1, Zenon DEF BucketsTell, a
  <2>. HIDE DEF old, start
  <2>7. start \in 1 .. L /\ start >= L + 2 - Limit
    BY <1>2, <1>a, <2>2, <2>5, <2>6
  <2>. QED  BY <2>2, <2>4, <2>5, <2>6, <2>7
<1>13. buckets' \in [Machines -> Bucket \cup {None}]
  <2>1. buckets'[m] \in Bucket
    BY <1>11, <1>12
  <2>. QED  BY <1>1, <1>5, <2>1 DEF RegTypeOK, Counted
<1>. HIDE DEF old, start
<1>14. /\ buckets'[m] # None /\ buckets'[m].count > 0 /\ start \in 1 .. L + 1
       /\ new[start] + Period = buckets'[m].reset
       /\ \A n \in 1 .. start - Limit : new[n] + Period < new[start]
  <2>1. buckets'[m] # None
    BY <1>11, <1>12, RegistrationAssumption DEF Bucket
  <2>2. CASE NewBucket(m)
    <3>1. \A n \in 1 .. start - Limit : n \in 1 .. L
      BY <1>2, <1>3, <1>11, <2>2
    <3>2. start = L + 1 /\ new[start] = clock /\ start \in 1 .. L + 1
      BY <1>a, <1>7, <1>11, <2>2
    <3>3. \A n \in 1 .. start - Limit : new[n] + Period < clock
      <4>1. start - Limit = L + 1 - Limit
        BY <1>a, <1>2, <3>2
      <4>2. \A n \in 1 .. start - Limit : new[n] = a[n]
        BY <1>7, <3>1
      <4>. QED  BY <1>11, <2>2, <4>1, <4>2
    <3>. QED  BY <1>11, <2>1, <2>2, <3>2, <3>3
  <2>3. CASE ~NewBucket(m)
    <3>1. start \in 1 .. L /\ \A n \in 1 .. start - Limit : n \in 1 .. L
      BY <1>2, <1>3, <1>12, <2>3
    <3>2. new[start] = a[start] /\ start \in 1 .. L + 1
      BY <1>a, <1>7, <3>1
    <3>3. \A n \in 1 .. start - Limit : new[n] + Period < new[start]
      BY <1>7, <1>12, <2>3, <3>1, <3>2
    <3>. QED  BY <1>12, <2>1, <2>3, <3>2, <3>3
  <2>. QED  BY <2>2, <2>3
<1>15. BucketsTell'
  <2>1. ASSUME NEW o \in Machines, o # m
        PROVE  BucketStart(o)' = BucketStart(o)
    BY <1>6, <1>10, <2>1 DEF BucketStart, LetIn
  <2>2. ASSUME NEW o \in Machines
        PROVE  /\ buckets'[o] = None => allowed'[o] = <<>>
               /\ buckets'[o] # None =>
                    /\ buckets'[o].count > 0 /\ BucketStart(o)' > 0
                    /\ allowed'[o][BucketStart(o)'] + Period = buckets'[o].reset
                    /\ \A n \in 1 .. BucketStart(o)' - Limit :
                         allowed'[o][n] + Period < allowed'[o][BucketStart(o)']
    <3>1. CASE o = m
      BY <1>3, <1>14, <3>1 DEF start, new
    <3>2. CASE o # m
      BY <1>1, <1>6, <1>10, <2>1, <3>2 DEF BucketsTell
    <3>. QED  BY <3>1, <3>2
  <2>. QED  BY <2>2 DEF BucketsTell
\* What is old enough when this attempt is let through.
<1>16. \A n \in 1 .. L : n + 2 * Limit - 1 = L + 1 => a[n] + Period < clock
  <2>. SUFFICES ASSUME NEW n \in 1 .. L, n + 2 * Limit - 1 = L + 1 PROVE a[n] + Period < clock
    OBVIOUS
  <2>1. CASE NewBucket(m)
    <3>1. n \in 1 .. L + 1 - Limit
      BY <1>2, <1>3
    <3>. QED  BY <1>11, <2>1, <3>1
  <2>2. CASE ~NewBucket(m)
    <3>1. n \in 1 .. start - Limit /\ start \in 1 .. L
      BY <1>2, <1>3, <1>12, <2>2
    <3>2. a[n] + Period < a[start] /\ a[start] <= clock /\ a[n] \in Nat /\ a[start] \in Nat
      BY <1>3, <1>4, <1>12, <2>2, <3>1
    <3>. QED  BY <1>1, <1>2, <3>2
  <2>. QED  BY <2>1, <2>2
<1>17. NoFlood'
  <2>1. DOMAIN new = 1 .. L + 1 /\ DOMAIN a = 1 .. L
    BY <1>3, <1>7 DEF L, a
  <2>2. \A n \in 1 .. L + 1 : n + 2 * Limit - 1 \in 1 .. L + 1 => new[n + 2 * Limit - 1] > new[n] + Period
    <3>. SUFFICES ASSUME NEW n \in 1 .. L + 1, n + 2 * Limit - 1 \in 1 .. L + 1
                  PROVE  new[n + 2 * Limit - 1] > new[n] + Period
      OBVIOUS
    <3>1. n \in 1 .. L
      BY <1>2, <1>3
    <3>2. CASE n + 2 * Limit - 1 = L + 1
      BY <1>1, <1>2, <1>3, <1>7, <1>16, <3>1, <3>2, Zenon
    <3>3. CASE n + 2 * Limit - 1 \in 1 .. L
      <4>1. a[n + 2 * Limit - 1] > a[n] + Period
        BY <1>1, <2>1, <3>1, <3>3, Zenon DEF NoFlood, a
      <4>. QED  BY <1>7, <3>1, <3>3, <4>1
    <3>. QED  BY <1>2, <1>3, <3>2, <3>3
  <2>3. ASSUME NEW o \in Machines
        PROVE  \A n \in DOMAIN allowed'[o] : n + 2 * Limit - 1 \in DOMAIN allowed'[o] =>
                 allowed'[o][n + 2 * Limit - 1] > allowed'[o][n] + Period
    <3>1. CASE o = m
      BY <2>1, <2>2, <3>1, Zenon DEF new
    <3>2. CASE o # m
      BY <1>1, <1>6, <3>2 DEF NoFlood
    <3>. QED  BY <3>1, <3>2
  <2>. QED  BY <2>3 DEF NoFlood
<1>. QED  BY <1>8, <1>9, <1>13, <1>15, <1>17 DEF Limiter

\* An attempt that is not.
LEMMA LimiterRefuses ==
  ASSUME RegInv, NEW m \in Machines, SlowDown(m)
  PROVE  Limiter' /\ buckets' \in [Machines -> Bucket \cup {None}]
<1>1. RegTypeOK /\ BucketsTell /\ InOrder /\ NoFlood
  BY Zenon DEF RegInv
<1>2. Limit \in Nat /\ Limit > 0
  BY RegistrationAssumption
<1>3. UNCHANGED <<allowed, clock>> /\ buckets' = Counted(m) /\ ~Allows(m)
  BY DEF SlowDown
<1>4. ~NewBucket(m) /\ buckets[m] # None /\ buckets[m] \in Bucket
  BY <1>1, <1>3 DEF Allows, NewBucket, RegTypeOK
<1>5. buckets[m].count \in Nat /\ buckets[m].reset \in Nat /\ buckets[m].count >= Limit
  BY <1>2, <1>3, <1>4 DEF Allows, Bucket
<1>6. PICK c \in Nat : c >= Limit /\ buckets' = [buckets EXCEPT ![m] = [buckets[m] EXCEPT !.count = c]]
  <2>. DEFINE c == IF buckets[m].count > Limit THEN buckets[m].count ELSE buckets[m].count + 1
  <2>1. c \in Nat /\ c >= Limit
    BY <1>2, <1>5
  <2>2. buckets' = [buckets EXCEPT ![m] = [buckets[m] EXCEPT !.count = c]]
    BY <1>3, <1>4 DEF Counted
  <2>. HIDE DEF c
  <2>. QED  BY <2>1, <2>2, Zenon
<1>7. /\ [buckets[m] EXCEPT !.count = c] \in Bucket
      /\ [buckets[m] EXCEPT !.count = c].count = c
      /\ [buckets[m] EXCEPT !.count = c].reset = buckets[m].reset
  BY <1>4, <1>6 DEF Bucket
<1>8. /\ buckets' \in [Machines -> Bucket \cup {None}]
      /\ buckets'[m] \in Bucket /\ buckets'[m].count = c /\ buckets'[m].reset = buckets[m].reset
      /\ \A o \in Machines \ {m} : buckets'[o] = buckets[o]
  BY <1>1, <1>6, <1>7 DEF RegTypeOK
<1>9. \A o \in Machines : BucketStart(o)' = BucketStart(o)
  <2>1. LetIn(m)' = Limit /\ LetIn(m) = Limit
    BY <1>2, <1>5, <1>6, <1>8 DEF LetIn
  <2>2. \A o \in Machines : LetIn(o)' = LetIn(o)
    BY <1>8, <2>1 DEF LetIn
  <2>. QED  BY <1>3, <2>2 DEF BucketStart
<1>10. BucketsTell'
  <2>1. ASSUME NEW o \in Machines
        PROVE  /\ buckets'[o] = None => allowed[o] = <<>>
               /\ buckets'[o] # None =>
                    /\ buckets'[o].count > 0 /\ BucketStart(o) > 0
                    /\ allowed[o][BucketStart(o)] + Period = buckets'[o].reset
                    /\ \A n \in 1 .. BucketStart(o) - Limit : allowed[o][n] + Period < allowed[o][BucketStart(o)]
    <3>1. CASE o = m
      <4>1. buckets'[m] # None
        BY <1>8, RegistrationAssumption DEF Bucket
      <4>. QED  BY <1>1, <1>2, <1>4, <1>6, <1>8, <3>1, <4>1 DEF BucketsTell
    <3>2. CASE o # m
      BY <1>1, <1>8, <3>2 DEF BucketsTell
    <3>. QED  BY <3>1, <3>2
  <2>. QED  BY <1>3, <1>9, <2>1 DEF BucketsTell
<1>11. InOrder' /\ NoFlood'
  BY <1>1, <1>3 DEF InOrder, NoFlood
<1>. QED  BY <1>8, <1>10, <1>11 DEF Limiter

\* A hub that stops forgets what it counted.
LEMMA LimiterForgets ==
  ASSUME RegInv, HubStop
  PROVE  Limiter' /\ buckets' \in [Machines -> Bucket \cup {None}] /\ allowed' \in [Machines -> Seq(Nat)]
  BY DEF HubStop, Limiter, BucketsTell, InOrder, NoFlood

-----------------------------------------------------------------------------
(* What the store and the machines keep.                                   *)
Kept ==
  /\ AtAKey /\ RefusedAreUnknown
  /\ FileInMemory /\ AnsweredIsSaved /\ JoinedIsKnown

\* The keys of the agent.
LEMMA AgentKeys ==
  ASSUME NEW m \in Machines
  PROVE  Len(KeysOf[m]) \in Nat \ {0} /\ DOMAIN KeysOf[m] = 1 .. Len(KeysOf[m])
         /\ \A n \in DOMAIN KeysOf[m] : KeysOf[m][n] \in HeldKeys
<1>1. KeysOf[m] \in Seq(HeldKeys) /\ KeysOf[m] # <<>>
  BY RegistrationAssumption
<1>. QED  BY <1>1

\* Where a command goes when one of its keys is refused.
LEMMA RefusedGoesOn ==
  ASSUME NEW m \in Machines, NEW j \in Joining, j.at = "trying", j.key \in DOMAIN KeysOf[m]
  PROVE  /\ Refused(j, m) \in Joining
         /\ Refused(j, m).identity = j.identity /\ Refused(j, m).token = j.token /\ Refused(j, m).run = j.run
         /\ Refused(j, m).key \in DOMAIN KeysOf[m]
         /\ \/ Refused(j, m).at = "trying" /\ Refused(j, m).key = j.key + 1
            \/ Refused(j, m).at = "rejected" /\ j.key = Len(KeysOf[m])
<1>1. Len(KeysOf[m]) \in Nat /\ DOMAIN KeysOf[m] = 1 .. Len(KeysOf[m])
  BY AgentKeys
<1>2. CASE j.key < Len(KeysOf[m])
  BY <1>1, <1>2 DEF Refused, Joining
<1>3. CASE ~(j.key < Len(KeysOf[m]))
  BY <1>1, <1>3 DEF Refused, Joining
<1>. QED  BY <1>2, <1>3, Zenon

\* A binder that has a key is one of the configuration's.
LEMMA MatchIsNamed ==
  ASSUME RegTypeOK, cfg # None
  PROVE  \A k : Match(k) \subseteq BinderNames
<1>. SUFFICES ASSUME NEW k, NEW n \in Match(k) PROVE n \in BinderNames
  OBVIOUS
<1>. DEFINE names(c) == {b.name : b \in c.binders}
<1>1. n \in names(cfg)
  BY DEF Match
<1>2. cfg \in Configs \ {None}
  BY DEF RegTypeOK
<1>3. BinderNames = UNION {names(c) : c \in Configs \ {None}}
  BY DEF BinderNames, Configs
<1>. HIDE DEF names
<1>. QED  BY <1>1, <1>2, <1>3

LEMMA RegTypeStep == ASSUME RegInv, RegNext PROVE RegTypeOK'
<1>. USE DEF RegTypeOK
<1>1. RegTypeOK /\ AtAKey
  BY Zenon DEF RegInv
<1>2. CASE HubStop
  BY <1>1, <1>2 DEF HubStop
<1>3. CASE HubRebuilt
  BY <1>1, <1>3 DEF HubRebuilt
<1>4. CASE Time
  BY <1>1, <1>4 DEF Time
<1>5. ASSUME NEW f \in Fragments, HubStart(f) PROVE RegTypeOK'
  BY <1>1, <1>5 DEF HubStart, Configs
<1>. SUFFICES ASSUME NEW m \in Machines,
                     (\E t \in Tokens : Join(m, t)) \/ Unreachable(m) \/ SlowDown(m) \/ Unauthorized(m) \/ Register(m) \/ Write(m)
              PROVE  RegTypeOK'
  BY <1>2, <1>3, <1>4, <1>5 DEF RegNext
<1>6. Idle \in Joining /\ joining[m] \in Joining
  BY <1>1 DEF Idle, Joining
<1>7. ASSUME NEW j \in Joining, Answer(m, j) PROVE joining' \in [Machines -> Joining]
  BY <1>1, <1>7 DEF Answer
<1>8. Ended(m) => joining' \in [Machines -> Joining]
  BY <1>6, <1>7, Zenon DEF Ended
<1>9. ASSUME NEW t \in Tokens, Join(m, t) PROVE RegTypeOK'
  <2>1. Identity(m) \in Nat /\ Identity(m) \in Identities
    <3>1. made \in Nat /\ machine[m] \in Identities \cup {None}
      BY <1>1, Zenon
    <3>2. Identity(m) <= MaxIdentities /\ MaxIdentities \in Nat
      BY <1>9, RegistrationAssumption, Zenon DEF Join
    <3>. HIDE DEF RegTypeOK
    <3>. QED  BY <3>1, <3>2 DEF Identity, Identities
  <2>2. made' \in Nat
    BY <1>1, <1>9, <2>1 DEF Join
  <2>3. [at |-> "trying", identity |-> Identity(m), key |-> 1, token |-> t, run |-> run] \in Joining
    BY <1>1, <2>1 DEF Joining
  <2>4. joining' \in [Machines -> Joining]
    BY <1>1, <1>9, <2>3 DEF Join
  <2>. QED  BY <1>1, <1>9, <2>2, <2>4, Zenon DEF Join
<1>10. CASE Unreachable(m)
  BY <1>1, <1>8, <1>10, Zenon DEF Unreachable
<1>11. CASE SlowDown(m)
  BY <1>1, <1>8, <1>11, LimiterRefuses DEF SlowDown
<1>12. CASE Unauthorized(m)
  <2>1. Through(m) /\ UNCHANGED clock /\ Answer(m, Refused(joining[m], m)) /\ joining[m].at = "trying"
    BY <1>12, Zenon DEF Unauthorized, Through
  <2>2. Refused(joining[m], m) \in Joining
    BY <1>1, <1>6, <2>1, RefusedGoesOn, Zenon DEF AtAKey
  <2>3. joining' \in [Machines -> Joining]
    BY <1>7, <2>1, <2>2, Zenon
  <2>. QED  BY <1>1, <1>12, <2>1, <2>3, LimiterThrough, Zenon DEF Unauthorized
<1>13. CASE Register(m)
  <2>1. /\ Through(m) /\ Speaks(m) /\ joining[m].at = "trying" /\ cfg # None
        /\ UNCHANGED <<cfg, run, clock, machine, made>>
    BY <1>13, Zenon DEF Register, Through
  <2>2. PICK b \in Match(KeysOf[m][joining[m].key]), saved \in BOOLEAN, heard \in BOOLEAN :
          /\ regs' = [regs EXCEPT ![joining[m].identity] = [binder |-> b, key |-> KeysOf[m][joining[m].key]]]
          /\ regsFile' = IF saved THEN regs' ELSE regsFile
          /\ IF saved /\ heard THEN Answer(m, [joining[m] EXCEPT !.at = "saving"]) ELSE Ended(m)
    BY <1>13, Zenon DEF Register
  <2>3. b \in BinderNames
    BY <1>1, <2>1, MatchIsNamed, Zenon
  <2>4. KeysOf[m][joining[m].key] \in HeldKeys
    BY <1>1, <2>1, AgentKeys, Zenon DEF AtAKey
  <2>5. [binder |-> b, key |-> KeysOf[m][joining[m].key]] \in Entered
    BY <2>3, <2>4, Zenon DEF Entered
  <2>6. regs' \in [Identities -> Entered \cup {None}] /\ regsFile' \in [Identities -> Entered \cup {None}]
    BY <1>1, <2>2, <2>5, Zenon
  <2>7. [joining[m] EXCEPT !.at = "saving"] \in Joining
    BY <1>6 DEF Joining
  <2>8. joining' \in [Machines -> Joining]
    BY <1>7, <1>8, <2>2, <2>7
  <2>. QED  BY <1>1, <2>1, <2>6, <2>8, LimiterThrough, Zenon
<1>14. CASE Write(m)
  <2>1. joining[m].identity \in Identities
    BY <1>1, <1>14, Zenon DEF Write, AtAKey
  <2>2. machine' \in [Machines -> Identities \cup {None}]
    BY <1>1, <1>14, <2>1, Zenon DEF Write
  <2>. QED  BY <1>1, <1>8, <1>14, <2>2, Zenon DEF Write
<1>. QED  BY <1>9, <1>10, <1>11, <1>12, <1>13, <1>14

\* The hub's own steps.
LEMMA HubStep ==
  ASSUME RegInv, HubStop \/ HubRebuilt \/ Time \/ \E f \in Fragments : HubStart(f)
  PROVE  Kept'
<1>1. RegTypeOK /\ AtAKey /\ RefusedAreUnknown /\ FileInMemory /\ AnsweredIsSaved /\ JoinedIsKnown
  BY Zenon DEF RegInv
<1>2. UNCHANGED <<joining, machine>>
  BY DEF HubStop, HubRebuilt, Time, HubStart
<1>3. AtAKey'
  BY <1>1, <1>2 DEF AtAKey
<1>4. RefusedAreUnknown'
  <2>1. \/ cfg' = None /\ run' = run
        \/ UNCHANGED <<cfg, run>>
        \/ run' = run + 1
    BY DEF HubStop, HubRebuilt, Time, HubStart
  <2>2. \A m \in Machines : joining[m].run \in Nat /\ run \in Nat
    BY <1>1, Zenon DEF RegTypeOK, Joining
  <2>3. \A m \in Machines : Tried(m)' = Tried(m)
    BY <1>2 DEF Tried
  <2>4. CASE cfg' = None /\ run' = run
    BY <1>1, <1>2, <2>4, Zenon DEF RefusedAreUnknown
  <2>5. CASE UNCHANGED <<cfg, run>>
    BY <1>1, <1>2, <2>3, <2>5, Zenon DEF RefusedAreUnknown, AllKeys
  <2>6. CASE run' = run + 1
    BY <1>1, <1>2, <2>2, <2>6 DEF RefusedAreUnknown
  <2>. QED  BY <2>1, <2>4, <2>5, <2>6
<1>5. /\ \A i \in Identities : regsFile'[i] # None => regs'[i] # None
      /\ \A i \in Identities : i \in lost \/ regsFile[i] # None => i \in lost' \/ regsFile'[i] # None
  <2>1. CASE HubRebuilt
    BY <2>1 DEF HubRebuilt
  <2>2. CASE HubStop
    BY <2>2, Zenon DEF HubStop
  <2>3. CASE Time \/ \E f \in Fragments : HubStart(f)
    BY <1>1, <2>3 DEF FileInMemory, Time, HubStart
  <2>. QED  BY <2>1, <2>2, <2>3
<1>6. FileInMemory'
  BY <1>5, Zenon DEF FileInMemory
<1>7. AnsweredIsSaved'
  BY <1>1, <1>2, <1>5 DEF AnsweredIsSaved, AtAKey
<1>8. JoinedIsKnown'
  BY <1>1, <1>2, <1>5, Zenon DEF JoinedIsKnown, RegTypeOK
<1>. QED  BY <1>3, <1>4, <1>6, <1>7, <1>8 DEF Kept

\* A machine's own step, as far as its command goes.
LEMMA CommandStep ==
  ASSUME RegInv, NEW m \in Machines, UNCHANGED <<cfg, run>>,
         \A o \in Machines \ {m} : joining'[o] = joining[o],
         joining'[m].at # "idle" => joining'[m].identity \in Identities /\ joining'[m].key \in DOMAIN KeysOf[m],
         joining'[m].at \in {"trying", "rejected"} =>
           /\ joining'[m].run <= run
           /\ joining'[m].run = run /\ cfg # None /\ joining'[m].token = cfg.token =>
                \A n \in 1 .. Tried(m)' : KeysOf[m][n] \notin AllKeys
  PROVE  AtAKey' /\ RefusedAreUnknown'
<1>1. AtAKey /\ RefusedAreUnknown
  BY Zenon DEF RegInv
<1>2. AtAKey'
  BY <1>1 DEF AtAKey
<1>3. \A o \in Machines \ {m} : Tried(o)' = Tried(o)
  BY DEF Tried
<1>4. AllKeys' = AllKeys
  BY DEF AllKeys
<1>5. ASSUME NEW o \in Machines, joining'[o].at \in {"trying", "rejected"}
      PROVE  /\ joining'[o].run <= run
             /\ joining'[o].run = run /\ cfg # None /\ joining'[o].token = cfg.token =>
                  \A n \in 1 .. Tried(o)' : KeysOf[o][n] \notin AllKeys
  BY <1>1, <1>3, <1>5, Zenon DEF RefusedAreUnknown
<1>6. RefusedAreUnknown'
  BY <1>4, <1>5 DEF RefusedAreUnknown
<1>. QED  BY <1>2, <1>6

\* And as far as the store goes, when the step leaves it alone.
LEMMA StoreAlone ==
  ASSUME RegInv, UNCHANGED <<regs, regsFile, lost>>,
         \A o \in Machines : joining'[o].at = "saving" => joining'[o] = joining[o],
         \A o \in Machines : machine'[o] = machine[o]
                             \/ (joining[o].at = "saving" /\ machine'[o] = joining[o].identity)
  PROVE  FileInMemory' /\ AnsweredIsSaved' /\ JoinedIsKnown'
<1>1. FileInMemory /\ AnsweredIsSaved /\ JoinedIsKnown
  BY Zenon DEF RegInv
<1>2. FileInMemory'
  BY <1>1, Zenon DEF FileInMemory
<1>3. AnsweredIsSaved'
  BY <1>1 DEF AnsweredIsSaved
<1>4. JoinedIsKnown'
  BY <1>1 DEF JoinedIsKnown, AnsweredIsSaved
<1>. QED  BY <1>2, <1>3, <1>4

LEMMA MachineStep ==
  ASSUME RegInv, NEW m \in Machines,
         (\E t \in Tokens : Join(m, t)) \/ Unreachable(m) \/ SlowDown(m) \/ Unauthorized(m) \/ Write(m)
  PROVE  Kept'
<1>1. RegTypeOK /\ AtAKey /\ RefusedAreUnknown
  BY Zenon DEF RegInv
<1>2. UNCHANGED <<cfg, run, regs, regsFile, lost>>
  BY DEF Join, Unreachable, SlowDown, Unauthorized, Write
<1>3. joining \in [Machines -> Joining] /\ joining[m] \in Joining
  BY <1>1 DEF RegTypeOK
<1>4. Ended(m) => joining'[m].at = "idle" /\ \A o \in Machines \ {m} : joining'[o] = joining[o]
  BY <1>3 DEF Ended, Answer, Idle
<1>5. ASSUME NEW t \in Tokens, Join(m, t) PROVE Kept'
  <2>1. Identity(m) \in Identities
    <3>1. made \in Nat /\ machine[m] \in Identities \cup {None}
      BY <1>1, Zenon DEF RegTypeOK
    <3>2. Identity(m) <= MaxIdentities /\ MaxIdentities \in Nat
      BY <1>5, RegistrationAssumption, Zenon DEF Join
    <3>. QED  BY <3>1, <3>2 DEF Identity, Identities
  <2>2. /\ joining'[m] = [at |-> "trying", identity |-> Identity(m), key |-> 1, token |-> t, run |-> run]
        /\ \A o \in Machines \ {m} : joining'[o] = joining[o]
    BY <1>3, <1>5, Zenon DEF Join
  <2>3. joining'[m].at = "trying" /\ joining'[m].identity = Identity(m) /\ joining'[m].key = 1 /\ joining'[m].run = run
    BY <2>2
  <2>4. run <= run
    BY <1>1 DEF RegTypeOK
  <2>5. 1 \in DOMAIN KeysOf[m]
    BY AgentKeys
  <2>6. \A n \in 1 .. Tried(m)' : KeysOf[m][n] \notin AllKeys
    BY <2>3 DEF Tried
  <2>7. AtAKey' /\ RefusedAreUnknown'
    <3>1. \A o \in Machines \ {m} : joining'[o] = joining[o]
      BY <2>2
    <3>. QED  BY <1>2, <2>1, <2>3, <2>4, <2>5, <2>6, <3>1, CommandStep
  <2>8. UNCHANGED machine
    BY <1>5, Zenon DEF Join
  <2>. QED  BY <1>2, <2>2, <2>3, <2>7, <2>8, StoreAlone, Zenon DEF Kept
<1>6. CASE Unreachable(m) \/ SlowDown(m)
  <2>1. Ended(m) /\ UNCHANGED machine
    BY <1>6, Zenon DEF Unreachable, SlowDown
  <2>. QED  BY <1>2, <1>4, <2>1, CommandStep, StoreAlone, Zenon DEF Kept
<1>7. CASE Unauthorized(m)
  <2>. DEFINE j == joining[m]
              r == Refused(joining[m], m)
  <2>1. /\ j.at = "trying" /\ ~Speaks(m) /\ cfg # None /\ UNCHANGED machine
        /\ joining' = [joining EXCEPT ![m] = r]
    BY <1>7, Zenon DEF Unauthorized, Through, Answer
  <2>2. /\ r.identity = j.identity /\ r.token = j.token /\ r.run = j.run
        /\ r.key \in DOMAIN KeysOf[m]
        /\ \/ r.at = "trying" /\ r.key = j.key + 1
           \/ r.at = "rejected" /\ j.key = Len(KeysOf[m])
    BY <1>1, <1>3, <2>1, RefusedGoesOn, Zenon DEF AtAKey
  <2>3. joining'[m] = r /\ \A o \in Machines \ {m} : joining'[o] = joining[o]
    BY <1>3, <2>1, Zenon
  <2>4. j.identity \in Identities /\ j.key \in DOMAIN KeysOf[m] /\ j.key \in Nat
    BY <1>1, <1>3, <2>1, Zenon DEF AtAKey, Joining
  <2>5. j.run <= run /\ Tried(m) = j.key - 1
        /\ (j.run = run /\ j.token = cfg.token => \A n \in 1 .. j.key - 1 : KeysOf[m][n] \notin AllKeys)
    BY <1>1, <2>1, Zenon DEF RefusedAreUnknown, Tried
  <2>6. j.token = cfg.token => KeysOf[m][j.key] \notin AllKeys
    BY <2>1, Zenon DEF Speaks
  <2>. HIDE DEF r
  <2>7. Tried(m)' = j.key
    <3>1. CASE r.at = "trying" /\ r.key = j.key + 1
      <4>1. Tried(m)' = r.key - 1
        BY <2>3, <3>1 DEF Tried
      <4>. QED  BY <2>4, <3>1, <4>1
    <3>2. CASE r.at = "rejected" /\ j.key = Len(KeysOf[m])
      BY <2>3, <3>2 DEF Tried
    <3>. QED  BY <2>2, <3>1, <3>2, Zenon
  <2>8. j.run = run /\ j.token = cfg.token => \A n \in 1 .. Tried(m)' : KeysOf[m][n] \notin AllKeys
    BY <2>4, <2>5, <2>6, <2>7
  <2>9. AtAKey' /\ RefusedAreUnknown'
    BY <1>2, <2>2, <2>3, <2>4, <2>5, <2>8, CommandStep, Zenon
  <2>. QED  BY <1>2, <2>1, <2>2, <2>3, <2>9, StoreAlone, Zenon DEF Kept
<1>8. CASE Write(m)
  <2>1. /\ Ended(m) /\ joining[m].at = "saving"
        /\ \A o \in Machines : machine'[o] = machine[o] \/ (o = m /\ machine'[o] = joining[m].identity)
    BY <1>1, <1>8, Zenon DEF Write, RegTypeOK
  <2>2. AtAKey' /\ RefusedAreUnknown'
    BY <1>2, <1>4, <2>1, CommandStep, Zenon
  <2>. QED  BY <1>2, <1>4, <2>1, <2>2, StoreAlone, Zenon DEF Kept
<1>. QED  BY <1>5, <1>6, <1>7, <1>8

\* handleRegister, for a key it knows.
LEMMA RegisterStep ==
  ASSUME RegInv, NEW m \in Machines, Register(m)
  PROVE  Kept'
<1>1. RegTypeOK /\ AtAKey /\ FileInMemory /\ AnsweredIsSaved /\ JoinedIsKnown
  BY Zenon DEF RegInv
<1>. DEFINE j == joining[m]
            k == KeysOf[m][joining[m].key]
<1>2. j.at = "trying" /\ cfg # None /\ UNCHANGED <<cfg, run, machine>>
  BY DEF Register, Through
<1>3. PICK b \in Match(k), saved \in BOOLEAN, heard \in BOOLEAN :
        /\ regs' = [regs EXCEPT ![j.identity] = [binder |-> b, key |-> k]]
        /\ regsFile' = IF saved THEN regs' ELSE regsFile
        /\ lost' = IF saved THEN lost \ {j.identity} ELSE lost
        /\ IF saved /\ heard THEN Answer(m, [j EXCEPT !.at = "saving"]) ELSE Ended(m)
  BY Zenon DEF Register
<1>4. j \in Joining /\ j.identity \in Identities /\ j.key \in DOMAIN KeysOf[m]
  BY <1>1, <1>2, Zenon DEF RegTypeOK, AtAKey
<1>5. [binder |-> b, key |-> k] # None
  <2>1. b \in BinderNames
    BY <1>1, <1>2, MatchIsNamed, Zenon
  <2>2. k \in HeldKeys
    BY <1>4, AgentKeys, Zenon
  <2>. QED  BY <2>1, <2>2, RegistrationAssumption, SMTT(30)
<1>6. /\ \A o \in Machines \ {m} : joining'[o] = joining[o]
      /\ joining'[m].at = "idle" \/ (saved /\ joining'[m].at = "saving")
      /\ joining'[m].at = "saving" => joining'[m].identity = j.identity /\ joining'[m].key = j.key
  <2>1. joining \in [Machines -> Joining]
    BY <1>1, Zenon DEF RegTypeOK
  <2>2. [j EXCEPT !.at = "saving"].at = "saving" /\ [j EXCEPT !.at = "saving"].identity = j.identity
        /\ [j EXCEPT !.at = "saving"].key = j.key
    BY <1>4 DEF Joining
  <2>3. CASE saved /\ heard
    <3>1. joining'[m] = [j EXCEPT !.at = "saving"] /\ \A o \in Machines \ {m} : joining'[o] = joining[o]
      BY <1>3, <2>1, <2>3 DEF Answer
    <3>. QED  BY <2>2, <2>3, <3>1
  <2>4. CASE ~(saved /\ heard)
    BY <1>3, <2>1, <2>4 DEF Answer, Ended, Idle
  <2>. QED  BY <2>3, <2>4, Zenon
<1>7. AtAKey' /\ RefusedAreUnknown'
  BY <1>2, <1>4, <1>6, CommandStep, Zenon
<1>8. /\ regs'[j.identity] # None
      /\ \A i \in Identities : regs[i] # None => regs'[i] # None
  BY <1>1, <1>3, <1>4, <1>5, Zenon DEF RegTypeOK
<1>9. /\ \A i \in Identities : regsFile'[i] # None => regs'[i] # None
      /\ \A i \in Identities : i \in lost \/ regsFile[i] # None => i \in lost' \/ regsFile'[i] # None
      /\ saved => regsFile'[j.identity] # None
      /\ \A i \in Identities : i \notin lost' => i \notin lost \/ regsFile'[i] # None
  BY <1>1, <1>3, <1>8, Zenon DEF FileInMemory
<1>10. FileInMemory' /\ AnsweredIsSaved'
  <2>1. FileInMemory'
    BY <1>9, Zenon DEF FileInMemory
  <2>2. AnsweredIsSaved'
    BY <1>1, <1>4, <1>6, <1>9, ZenonT(30) DEF AnsweredIsSaved, AtAKey
  <2>. QED  BY <2>1, <2>2, Zenon
<1>11. JoinedIsKnown'
  BY <1>1, <1>2, <1>9, Zenon DEF JoinedIsKnown, RegTypeOK
<1>. QED  BY <1>7, <1>10, <1>11 DEF Kept

LEMMA RegNextInv == RegInv /\ [RegNext]_regVars => RegInv'
<1>. SUFFICES ASSUME RegInv, [RegNext]_regVars PROVE RegInv'
  OBVIOUS
<1>1. CASE UNCHANGED regVars
  BY <1>1, Zenon DEF RegInv, regVars, RegTypeOK, AtAKey, RefusedAreUnknown, Tried, AllKeys, FileInMemory, AnsweredIsSaved,
              JoinedIsKnown, BucketsTell, BucketStart, LetIn, InOrder, NoFlood
<1>2. CASE RegNext
  <2>1. RegTypeOK'
    BY <1>2, RegTypeStep
  <2>2. Kept'
    BY <1>2, HubStep, MachineStep, RegisterStep, Zenon DEF RegNext
  <2>3. Limiter'
    <3>1. RegTypeOK
      BY Zenon DEF RegInv
    <3>2. CASE UNCHANGED <<buckets, allowed>> /\ clock' \in {clock, clock + 1}
      BY <3>1, <3>2, LimiterStays DEF RegTypeOK
    <3>3. CASE HubStop
      BY <3>3, LimiterForgets
    <3>4. CASE \E m \in Machines : SlowDown(m)
      BY <3>4, LimiterRefuses
    <3>5. CASE \E m \in Machines : Through(m) /\ UNCHANGED clock
      BY <3>5, LimiterThrough
    <3>. QED  BY <1>2, <3>2, <3>3, <3>4, <3>5, Zenon
              DEF RegNext, HubRebuilt, Time, HubStart, Join, Unreachable, Unauthorized, Register, Write
  <2>. QED  BY <2>1, <2>2, <2>3, Zenon DEF RegInv, Kept, Limiter
<1>. QED  BY <1>1, <1>2

LEMMA RegInvariance == RegSpec => []RegInv
  BY RegInitInv, RegNextInv, PTL DEF RegSpec

\* A machine that is told "either the token is wrong or none of these keys is
\* known to the hub" is told the truth, for any agent and any configuration.
THEOREM RejectionsAreTrue == RegSpec => []RejectedIsUnknown
<1>1. RegInv => RejectedIsUnknown
  <2>. SUFFICES ASSUME RegInv, NEW m \in Machines, joining[m].at = "rejected", joining[m].run = run, cfg # None,
                       joining[m].token = cfg.token
                PROVE  Range(KeysOf[m]) \cap AllKeys = {}
    BY DEF RejectedIsUnknown
  <2>1. \A n \in 1 .. Len(KeysOf[m]) : KeysOf[m][n] \notin AllKeys
    BY DEF RegInv, RefusedAreUnknown, Tried
  <2>. QED  BY <2>1, AgentKeys DEF Range
<1>. QED  BY <1>1, RegInvariance, PTL

\* Whatever is lost or fails in between, a machine that keeps an identity as
\* registered is in the state file of the hub, or was in one that was lost.
THEOREM JoinedMachinesAreKnown == RegSpec => []JoinedIsKnown
  BY RegInvariance, PTL DEF RegInv

\* For every limit and period, a source is let through less than twice the
\* limit in any period, wherever its attempts fall.
THEOREM LimiterHolds == RegSpec => []NoFlood
  BY RegInvariance, PTL DEF RegInv

=============================================================================
