\* A server that hangs up in the middle of the body it declared.
SPECIFICATION Spec
CONSTANTS
  Requests <- MCRequests
  Responses <- MCResponses
  MaxRead = 2
  MaxPayload = 3
  Attempts = 3
  Observers = 2
  MaxRequests = 1
  None = None
PROPERTY
  CollectsDeclaredBody
