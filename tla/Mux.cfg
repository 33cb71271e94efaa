CONSTANTS
  Sessions = {s1}
  Conns = {c1, c2}
  NoConn = NoConn
  MaxBuffer = 2
  PipeSize = 1
  SocketSize = 1
  MaxOutput = 2
  MaxRequests = 4
SPECIFICATION FairSpec
CHECK_DEADLOCK FALSE
INVARIANTS
  ListIsTrue
PROPERTIES
  SeenInOrder
  RequestsAnswered
