SPECIFICATION HistorySpec
CONSTANTS
  UserIds = {u1}
  Emails = {e1}
  Names = {n1}
  Passwords = {p1}
  Workers = {w1}
  None = None
  MaxInFlight = 1
  MaxRequests = 4
  MaxExpired = 4
SYMMETRY Symmetry
PROPERTIES
  ReuseEndsFamily
CHECK_DEADLOCK FALSE
