SPECIFICATION FairSpec
CONSTANTS
  Tabs = {1, 2}
  None = None
  MaxPairs = 2
  MaxLogouts = 1
INVARIANTS
  TypeOK
  RefusedOnlyIfOver
PROPERTIES
  DiscardsOnlyRefused
  SignedOutUnlessOvertaken
  CallsEnd
CHECK_DEADLOCK FALSE
