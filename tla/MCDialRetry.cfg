SPECIFICATION DialSpec
CONSTANTS
  k1 = k1
  Conn <- MCConn
  Closers = {k1}
  NPorts = 3
  PortProbes = 2
  ConcurrentDials = FALSE
  NoConn = NoConn
  Param = 2
  Default = 2
  Fallback = 3
  Dials = 2
INVARIANT ConnectionsAccounted
PROPERTY DialReturns
CHECK_DEADLOCK FALSE
