SPECIFICATION Spec
CONSTANTS
  Connectors = {c1, c2}
  Tenants = {}
  Owner = owner
  Names = {net}
  NoName = noname
  InstanceName = net
  EmptyRef = emptyref
  Ids = {id1, id2}
  Serials = {s1, s2}
  Networks = {}
  Tokens = {}
  NoToken = notoken
  Hosts4 = 4
  Hosts6 = 0
  MaxApplying = 1
  Faults = {"lighthouse"}
  None = none
SYMMETRY Symmetry
INVARIANTS AddressesDistinct SignedOnceIsSafe
PROPERTIES UnblockedOnlyIfLetIn
