SPECIFICATION FairSpec
CONSTANTS
  Instances = {i1}
  Mine = {}
  Prefixes = {p1}
  Choices = {ping, open}
  Tokens = {tk1}
  MaxKeys = 1
  LastDevice = 1
  Handlers = {h1}
  Faults = {"hub", "nebula"}
  Moves = {"decide", "ban", "carry"}
  None = none
PROPERTIES TableArrives LetInComesUp
