\* Two connections, one IC: liveness, while the other client may vanish.
SPECIFICATION FairSpec
CONSTANTS
  Clients = {c1, c2}
  IMRequests = {"CLOSE", "QUERY_EXTENSION"}
  ICRequests = {"RESET_IC"}
  MaxICs = 1
  MaxKeys = 2
  MaxImeEvents = 1
PROPERTIES
  KeysDisposed
  RequestsAnswered
CHECK_DEADLOCK FALSE
