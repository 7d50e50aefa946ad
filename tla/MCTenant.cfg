SPECIFICATION Spec
CONSTANTS
  Instances = {i1, m1}
  Mine = {m1}
  Prefixes = {}
  Choices = {ping}
  Tokens = {tk1}
  MaxKeys = 3
  LastDevice = 2
  Handlers = {h1}
  Faults = {"save", "hub", "nebula"}
  Moves = {}
  None = none
INVARIANTS DevicesDistinct AuthorityKept
