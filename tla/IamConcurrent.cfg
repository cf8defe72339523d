SPECIFICATION HistorySpec
CONSTANTS
  UserIds = {u1, u2}
  Emails = {e1, e2}
  Names = {n1}
  Passwords = {p1, p2}
  Workers = {w1, w2}
  None = None
  MaxInFlight = 2
  MaxRequests = 5
  MaxExpired = 1
SYMMETRY Symmetry
INVARIANTS
  TypeOK
  EmailsUnique
  ChildRetiresParent
  OutboxMatchesTokens
  LiveSessionsAreWanted
  DeadlockOnlyOverRaced
PROPERTIES
  RevocationIsFinal
  ImplementsSessions
CHECK_DEADLOCK FALSE
