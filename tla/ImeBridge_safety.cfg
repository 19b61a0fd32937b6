\* Two windows, two ICs: association, styles, preedit and results.
SPECIFICATION Spec
CONSTANTS
  Windows = {w1, w2}
  NoWindow = NoWindow
  Styles = {"callbacks", "position"}
  MaxICs = 2
  MaxRequests = 2
  MaxMessages = 4
  MaxLength = 1
SYMMETRY Symmetry
INVARIANTS
  OneAssociation
  DrawnByOne
  LengthAgrees
  NoPreeditLeft
  NewestCommitted
  CallbackNamesIC
PROPERTIES
  ResultsInOrder
CHECK_DEADLOCK FALSE
