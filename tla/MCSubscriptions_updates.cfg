\* Two subscribers of one account, two callbacks, repeated timestamps.
SPECIFICATION Spec
CONSTANTS
  Sockets = {s1, s2}
  Accounts = {a1}
  Callbacks = {u1, u2}
  MaxTime = 1
  MaxUpdates = 2
  None = None
CHECK_DEADLOCK FALSE
SYMMETRY Symmetry
INVARIANT
  Inv
PROPERTIES
  NotifiedOnce
  ImplementsRegistry
