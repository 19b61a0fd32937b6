\* One connection with two ICs: the key path against its abstract specification.
SPECIFICATION Spec
CONSTANTS
  Clients = {c1}
  IMRequests = {}
  ICRequests = {"DESTROY_IC"}
  MaxICs = 2
  MaxKeys = 3
  MaxImeEvents = 2
INVARIANTS
  SyncGatesQueue
  AckDue
PROPERTIES
  RelayKeys
CHECK_DEADLOCK FALSE
