\* Requests for up to two attributes or nested lists, set and read back.
SPECIFICATION FairSpec
CONSTANTS
  v1 = v1
  v2 = v2
  Values = {v1, v2}
  NameLength <- MCNameLength
  Zero = Zero
  Null = Null
  Windows = {w1, w2}
  NoWindow = NoWindow
  None = None
  PreeditIds = {"SpotLocation", "Area"}
  StatusIds = {"FontSet"}
  MaxSetItems = 2
  MaxGetItems = 2
  MaxNested = 2
INVARIANTS
  AnswersWhatWasAsked
  RoundTrip
  WindowWhereAsked
PROPERTIES
  GetAnswered
CHECK_DEADLOCK FALSE
