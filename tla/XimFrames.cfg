SPECIFICATION Spec
CONSTANTS
  Lengths <- MCLengths
  Junk <- MCJunk
  MaxList = 3
INVARIANTS
  WrittenAsLaidOut
  InBuffer
  ReadsWhatWasSent
  EveryListEnds
CHECK_DEADLOCK FALSE
