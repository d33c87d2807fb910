SPECIFICATION FairSpec
CONSTANTS
  r1 = r1 r2 = r2 r3 = r3 none = none
  Requests = {r1, r2}
  LimitOf <- UpdateAndHealth
  NoLimit = none
  StartLimit = 3
  Writes <- TwoWrites
  Requested = 1 Incoming = 1 Outgoing = 1
  SocketDown = 2 SocketUp = 1
  MaxExecs = 2
  MaxWrites = 2
INVARIANTS TypeOK OutputWithinLimit OutputInOrder LimitIsItsOwn
PROPERTIES TrafficFlows
CHECK_DEADLOCK FALSE
