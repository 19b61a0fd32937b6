\* Two connections, two ICs: requests and replies, disconnects and vanishing
\* clients, results committed to either connection.
SPECIFICATION Spec
CONSTANTS
  Clients = {c1, c2}
  IMRequests = {"GET_IM_VALUES"}
  ICRequests = {"SET_IC_VALUES", "GET_IC_VALUES", "DESTROY_IC"}
  MaxICs = 2
  MaxKeys = 1
  MaxImeEvents = 1
SYMMETRY Symmetry
INVARIANTS
  TypeOK
  OneReplyInFlight
  MaskedAreHeld
  HeldICsServed
  DiesOnlyAfterDisconnect
CHECK_DEADLOCK FALSE
