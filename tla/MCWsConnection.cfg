\* A websocket that lasts beside one that is over before its heartbeat wakes, or beside an HTTP connection.
SPECIFICATION FairSpec
CONSTANTS
  c2 = c2
  h1 = h1
  Conns = {c1, c2}
  HttpConns = {h1}
  Ids = {i1, i2}
  Lasting = {c1}
  Interval = 1
  Ticks = 2
  MaxRequests = 1
  None = None
CHECK_DEADLOCK FALSE
CONSTRAINT OneBeside
INVARIANTS
  TypeOK
  CountsLive
  OneWriter
  RegisteredWhileOpen
PROPERTIES
  NotDroppedEarly
  ClosedEnds
  SilenceIsNoticed
  RepliesLeave
