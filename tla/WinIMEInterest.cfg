\* Four clients that select events, fail, come and go.
SPECIFICATION Spec
CONSTANTS
  Clients = {c1, c2, c3, c4}
  Addresses = {a1, a2, a3, a4}
  Bits = {notify, other}
  NotifyBit = notify
SYMMETRY Symmetry
INVARIANTS
  ListIsOwned
  NoLeak
  InterestAgrees
PROPERTIES
  ToldWhoWants
  CrashCause
CHECK_DEADLOCK FALSE
