SPECIFICATION MCSpec
CONSTANTS
  p1 = p1
  p2 = p2
  Procs = {p1, p2}
  Rx = rx
  Wanted <- MCWanted
  Elsewhere = "elsewhere"
  Queries = 1
  Conn <- MCConn
  Dispatcher <- MCDispatcher
  Port = {0, 1}
  Depth = 1
  MaxDatagrams = 3
  Nobody = Nobody
  Replies <- MCReplies
  Queried <- MCQueried
  PointerByte = 9
  ChainMax = 2
  MaxLabel = 2
  MaxName = 6
  AddrLen = 1
INVARIANTS CallsKeepApart AnswerIsFirstA
PROPERTY EveryCallEnds
CHECK_DEADLOCK FALSE
