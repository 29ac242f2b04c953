SPECIFICATION FairSpec
CONSTANTS
  d1 = d1
  d2 = d2
  q1 = q1
  q3 = q3
  Daemons = {d1, d2}
  Requests = {q1, q3}
  Ingests = {q3}
  None = None
INVARIANTS
  Reachable
  AnsweredIsStored
PROPERTIES
  Stops
CHECK_DEADLOCK FALSE
