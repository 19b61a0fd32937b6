\* The second key toggles the IME, the first one is an ordinary key.
SPECIFICATION FairSpec
CONSTANTS
  Clients = {c1}
  IMRequests = {}
  ICRequests = {}
  MaxICs = 1
  MaxKeys = 2
  MaxImeEvents = 1
  ToggleKeys = {2}
PROPERTIES
  OnlyToggleKeysKept
CHECK_DEADLOCK FALSE
