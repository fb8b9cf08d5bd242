\* A request in hand subscribes after the heartbeat has unsubscribed.
SPECIFICATION Spec
CONSTANTS
  Sockets = {s1}
  Accounts = {a1}
  Callbacks = {u1}
  MaxTime = 1
  MaxUpdates = 1
  None = None
CHECK_DEADLOCK FALSE
INVARIANT
  TimeoutUnsubscribes
