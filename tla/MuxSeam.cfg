CONSTANTS
  Sessions = {s1}
  Conns = {c1, c2}
  NoConn = NoConn
  MaxBuffer = 2
  PipeSize = 1
  SocketSize = 1
  MaxOutput = 3
  MaxRequests = 4
SPECIFICATION Spec
CHECK_DEADLOCK FALSE
PROPERTIES
  NothingMissed
