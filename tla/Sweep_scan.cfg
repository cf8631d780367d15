\* Two hosts, three ports, two connections at a time to a host and one thread.
SPECIFICATION FairSpec
CONSTANTS
  Hosts = {h1, h2}
  Ports = {p1, p2, p3}
  Workers = 1
  Slots = 2
  Snmp = TRUE
INVARIANTS
  TypeOK
  LockIsLocal
  ScanIsAtomic
PROPERTIES
  ScanSettles
  CommandEnds
CHECK_DEADLOCK FALSE
