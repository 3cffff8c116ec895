SPECIFICATION DhcpSpec
CONSTANTS
  Servers = {"s1", "s2"}
  Addrs = {"a1", "a2"}
  Calls = 2
  Others = {"a3"}
INVARIANT LeasedOrNothing
CHECK_DEADLOCK FALSE
