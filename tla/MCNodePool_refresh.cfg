\* One sender, filtered lists, failing and slow calls, a third refresh that clears a race.
SPECIFICATION Spec
CONSTANTS
  n1 = n1
  n2 = n2
  n3 = n3
  n4 = n4
  Nodes = {n1, n2, n3, n4}
  None = None
  Senders = {s1}
  Lookups = {}
  ArchiverLists <- MCJoinLists
  MaxRefreshes = 3
  Filtering <- MCFilter
  MaxTimeout = 2
  RTTs = {1, 2, 5}
  MaxInserts = 1
  Attempts = 2
  IndexCap = 5
INVARIANTS
  Inv
PROPERTIES
  NeverEmptied
