SPECIFICATION FairSpec
CONSTANTS
  Connectors = {c1}
  Tenants = {}
  Owner = owner
  Names = {net}
  NoName = noname
  InstanceName = net
  EmptyRef = emptyref
  Ids = {id1}
  Serials = {s1}
  Networks = {n1}
  Tokens = {tk1}
  NoToken = notoken
  Hosts4 = 2
  Hosts6 = 3
  MaxApplying = 2
  Faults = {"save", "lighthouse"}
  None = none
INVARIANTS BurnedKeptOut LighthouseRefusesBlocked
PROPERTIES BanReachesLighthouse
