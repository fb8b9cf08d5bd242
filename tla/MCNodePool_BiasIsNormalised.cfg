\* An answer that takes longer than MaxTimeout.
SPECIFICATION Spec
CONSTANTS
  n1 = n1
  n2 = n2
  n3 = n3
  n4 = n4
  Nodes = {n1, n2}
  None = None
  Senders = {s1}
  Lookups = {l1}
  ArchiverLists <- MCLists
  MaxRefreshes = 1
  Filtering <- NoFilter
  MaxTimeout = 2
  RTTs = {1, 3}
  MaxInserts = 1
  Attempts = 1
  IndexCap = 3
INVARIANT
  BiasIsNormalised
