SPECIFICATION HttpFairSpec
CONSTANTS
  Kinds = {"get", "oras"}
  Pieces = 2
  DialTimeout = 2
  RequestTimeout = 3
  Contexts = {0, 2, 4}
  Horizon = 14
  Attempts = 2
INVARIANTS EofMeansComplete
PROPERTY ConnReleased
CHECK_DEADLOCK FALSE
