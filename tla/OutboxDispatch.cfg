SPECIFICATION FairSpec
CONSTANTS
  Locks = {l1, l2}
  Workers = {w1, w2}
  BatchSize = 2
  MaxEvents = 3
INVARIANTS
  TypeOK
  MarkedWasForwarded
  ForwardedInCommitOrder
PROPERTIES
  EveryEventDispatched
CHECK_DEADLOCK FALSE
