SPECIFICATION GetSpec
CONSTANTS
  Responses <- MCResponses
  Buffer = 5
  LineMax = 4
  Rooms = {2, 3}
  Clients = {"ministack", "orasoci", "get"}
  Transports = {"tcp", "tls"}
  ChunkMax = 5
  MaxResponse = 24
INVARIANT BodiesWhole
