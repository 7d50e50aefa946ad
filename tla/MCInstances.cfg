SPECIFICATION Spec
CONSTANTS
  InstanceIds = {i1, i2, i3}
  Names = {n1, n2}
  PortMin = 1
  PortMax = 2
  Subnets4 = 3
  Subnets6 = 2
  Handlers = {h1}
  Creators = {h1}
  Faults = {"save", "lighthouse"}
  None = none
SYMMETRY Symmetry
INVARIANTS   ActivatedIsUp
