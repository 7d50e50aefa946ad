SPECIFICATION Spec
CONSTANTS
  Machines = {m1, m2}
  KeysOf <- MCKeysOf
  Tokens = {t1}
  Fragments <- MCFragments
  Limit = 2
  Period = 2
  MaxTime = 3
  MaxIdentities = 2
  MaxRuns = 2
  m1 = m1
  m2 = m2
  k1 = k1
  k2 = k2
  t1 = t1
  t2 = t2
  Conns = {c1, c2}
  Devices = {0, 1}
  Commands = {r1, r2}
  MaxTable = 2
  MaxEvents = 4
  None = none
  Absent = absent
CHECK_DEADLOCK FALSE
INVARIANTS RejectedIsUnknown JoinedIsKnown NoFlood 
