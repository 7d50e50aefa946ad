SPECIFICATION Spec
SYMMETRY Interchangeable
CONSTANTS
  k0 = k0
  k1 = k1
  k2 = k2
  i1 = i1
  i2 = i2
  Instances = {i1, i2}
  Keys = {k0, k1, k2}
  OwnerKey = k0
  OwnerName <- MCOwnerName
  Fingerprint <- MCFingerprint
  KindOf <- MCKindOf
  Ids <- MCIds
  Asks <- MCAsks
  Approvals <- MCApprovals
  Refs <- MCRefs
  MayAsk <- MCMayAsk
  FamiliesOf <- MCFamiliesOf
  HasRoom <- MCHasRoom
  MaxName = 2
  Within = {{i1, i2}, {i1}}
  None = None
  Machines = {m1, m2}
  Names = {n1}
  MaxIds = 2
  MaxRequests = 3
  Window = 2
  MaxTime = 4
  MaxBehind = 1
  Nobody = Nobody
CHECK_DEADLOCK FALSE
INVARIANTS  OnlyOwnersAct  ActsAsMeant
