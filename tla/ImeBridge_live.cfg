\* One window, one IC: every result is committed, and mixed draws are repaired.
SPECIFICATION FairSpec
CONSTANTS
  Windows = {w1}
  NoWindow = NoWindow
  Styles = {"callbacks"}
  MaxICs = 1
  MaxRequests = 2
  MaxMessages = 4
  MaxLength = 2
INVARIANTS
  DrawsRepaired
PROPERTIES
  ResultsCommitted
CHECK_DEADLOCK FALSE
