SPECIFICATION FairSpec
CONSTANTS
  Decks = {1, 2}
  None = None
  MaxGestures = 3
INVARIANTS
  TypeOK
  CursorWithinDeck
  ResultsCountEveryRating
  NoSessionForgotten
  ToggleMeansSession
PROPERTIES
  RunEndsInResults
CHECK_DEADLOCK FALSE
