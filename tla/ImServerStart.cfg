\* Three screens and two clients.
SPECIFICATION FairSpec
CONSTANTS
  Threads = {t1, t2, t3}
  Nobody = Nobody
  Clients = {c1, c2}
INVARIANTS
  OwnerServes
  DiesOfTwoServers
PROPERTIES
  StaysEstablished
  SomeoneServes
CHECK_DEADLOCK FALSE
