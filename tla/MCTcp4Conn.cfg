SPECIFICATION LiveSpec
CONSTANTS
  SeqMod = 16
  ISS = 15
  IRS = 14
  PeerData <- Stream2
  PeerMaxSeg = 2
  Lifetime = 2
  Ahead = 2
  PeerMayReset = TRUE
  MaxBytes = 2
  MaxWrite = 2
  MaxRead = 1
  MSS = 1
  ReassemblyDepth = 1
  MaxRetransmits = 1
INVARIANTS TypeOK AckCoversQueued WriteOkMeansReceived
PROPERTIES ImplementsByteStream StreamCompletes
CHECK_DEADLOCK FALSE
