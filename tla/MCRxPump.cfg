SPECIFICATION FairSpec
CONSTANTS
  p1 = p1
  p2 = p2
  gw = gw
  lost = lost
  Rx = rx
  Pinger = {p1, p2}
  Host = {gw, lost}
  NextHop <- MCNextHop
  Neighbour = {gw}
  NoRoute = NoRoute
  MaxPings = 1
  MaxFrames = 2
  MaxQueue = 1
INVARIANTS WaitersMatch
PROPERTY CallsReturn
CHECK_DEADLOCK FALSE
