\* Two connections, two names, up to four messages of one, two and seven bytes.
SPECIFICATION FairSpec
CONSTANTS
  Connections = {1, 2}
  DataLimit = 1
  LastName = 1
  Lengths = {1, 2, 7}
  MaxMessages = 4
INVARIANTS
  NoneLost
  PropertiesAgree
PROPERTIES
  WholeMessages
  Arrives
CHECK_DEADLOCK FALSE
