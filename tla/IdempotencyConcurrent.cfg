SPECIFICATION HistorySpec
CONSTANTS
  Keys = {k1, k2}
  Requests = {r1, r2}
  Workers = {w1, w2, w3}
  None = None
  MaxInFlight = 3
  MaxRequests = 5
SYMMETRY Symmetry
INVARIANTS
  TypeOK
  EntriesAreEffects
  AnswersAreOwn
  OneEffectUnlessDisturbed
  AnswersAgreeUnlessDisturbed
CHECK_DEADLOCK FALSE
