\* One socket with two accounts: its reader, its heartbeat and a callback clean up.
SPECIFICATION FairSpec
CONSTANTS
  Sockets = {s1}
  Accounts = {a1, a2}
  Callbacks = {u1}
  MaxTime = 1
  MaxUpdates = 2
  None = None
CHECK_DEADLOCK FALSE
INVARIANTS
  MapsAgree
  ForgottenOnClose
PROPERTY
  Settles
