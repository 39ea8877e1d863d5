CONSTANTS
  s1 = s1
  s2 = s2
  s3 = s3
  s4 = s4
  r1 = r1
  r2 = r2
  Sockets = {s1, s2, s3, s4}
  Requests = {r1, r2}
  NoSocket = NoSocket
  MaxStops = 2
  MaxDrops = 2
SPECIFICATION ClientSpec
INVARIANTS OneLiveSocket
PROPERTIES Reconnects KeepsPromises
CHECK_DEADLOCK FALSE
