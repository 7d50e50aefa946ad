SPECIFICATION FairEnrollment
CONSTANTS
  Connectors = {c1}
  Tenants = {}
  Owner = owner
  Names = {net}
  NoName = noname
  InstanceName = net
  EmptyRef = emptyref
  Ids = {id1}
  Serials = {s1}
  Networks = {}
  Tokens = {}
  NoToken = notoken
  Hosts4 = 4
  Hosts6 = 0
  MaxApplying = 1
  Faults = {}
  None = none
  Self = c1
  MaxStops = 1
PROPERTIES RefusedAsksAgain
