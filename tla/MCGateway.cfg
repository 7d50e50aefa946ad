SPECIFICATION Spec
CONSTANTS
  Flows = {f1}
  Listeners = {l1, l2}
  Ports = {1, 2}
  DNSPort = 1
  MaxPort = 2
  Absent = Absent
  MaxSent = 3
  Room = 2
  Timeout = 2
  MaxPackets = 3
  Queue = 2
CHECK_DEADLOCK FALSE
INVARIANTS  StreamsWhole
PROPERTIES NoneStranded CloseEndsWait StreamsArrive FlowEnds 
