SPECIFICATION Spec
CONSTANTS
  None = None
  Tasks = {1, 2}
  Workloads <- TheWorkloads
  Ephemeral <- EphemeralPorts
  MaxArp = 2
  ArpTries = 2
  DnsTries = 2
  MaxCalls <- CallBounds
  MaxGrams = 1
  MaxWire = 1
  Clients = {50}
  MaxRetransmit = 1
  BufLen = 1
  MaxSends <- SendBounds
  PeerSends <- PeerBounds
  MaxId = 4
  MaxResend = 1
  PeerWindow = 2
INVARIANTS
  PeerStream
  NoGap
  OwnAnswer
PROPERTIES
  CallEnds
  UnackedEnds
CHECK_DEADLOCK FALSE
