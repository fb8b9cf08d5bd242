\* A pass that ends after the refresh leaves the pool prepared, without weights.
SPECIFICATION Spec
CONSTANTS
  n1 = n1
  n2 = n2
  n3 = n3
  n4 = n4
  Nodes = {n1, n2}
  None = None
  Senders = {s1}
  Lookups = {}
  ArchiverLists <- MCLists
  MaxRefreshes = 2
  Filtering <- NoFilter
  MaxTimeout = 2
  RTTs = {1}
  MaxInserts = 1
  Attempts = 1
  IndexCap = 3
INVARIANT
  PreparedPoolHasWeights
