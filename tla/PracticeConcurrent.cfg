SPECIFICATION HistorySpec
CONSTANTS
  Users = {alice, bob}
  SessionIds = {s1}
  Cards = {c1, c2}
  Ratings = {r1, r2}
  Workers = {w1, w2, w3}
  None = None
  MaxInFlight = 3
  MaxRequests = 5
SYMMETRY Symmetry
INVARIANTS
  TypeOK
  RatingsWithinSnapshot
  RatingsAreReplayUnlessOverwritten
PROPERTIES
  AnswersAgreeUnlessOverwritten
  OnlyOwnerWrites
  CompletedUnlessOverwritten
CHECK_DEADLOCK FALSE
