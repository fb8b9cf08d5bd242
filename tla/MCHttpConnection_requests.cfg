\* Two requests of every kind, however they arrive and whatever fails.
SPECIFICATION FairSpec
CONSTANTS
  Requests <- MCRequests
  Responses <- MCResponses
  MaxRead = 2
  MaxPayload = 3
  Attempts = 3
  Observers = 3
  MaxRequests = 2
  None = None
INVARIANTS
  TypeOK
  BufferBounded
  WholeMessages
PROPERTIES
  ImplementsExchange
  EveryRequestAnswered
  AsksEveryObserver
  BridgeoutsForwarded
  LeftConnectionsClose
