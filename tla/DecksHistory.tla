--------------------------- MODULE DecksHistory ----------------------------
(***************************************************************************)
(* Decks with a record of lost updates.  Nothing in the code compares the  *)
(* copy of a deck a request saves with the rows it replaces: a copy loaded *)
(* before another request's commit overwrites what that commit wrote.  The *)
(* two history variables tell the decks this has happened to, so that what *)
(* holds of all the others, although requests overlap, can be stated.      *)
(***************************************************************************)
EXTENDS Decks

VARIABLES
  stale,       \* the workers whose copy a commit has outdated
  overwritten  \* the decks some outdated copy was committed to

historyVars == <<vars, stale, overwritten>>

HistoryInit == Init /\ stale = {} /\ overwritten = {}

\* The step is the commit of w; every commit appends events.
Commits(w) == pc[w] = "saved" /\ pc'[w] = "idle" /\ outbox' # outbox

Reading == {w \in Workers : pc[w] \in {"rowRead", "loaded"}}

Record ==
  /\ stale' = {w \in Workers :
       /\ pc'[w] # "idle"
       /\ \/ w \in stale
          \/ w \in Reading /\ \E v \in Workers : Commits(v) /\ req[v].deck = req[w].deck}
  /\ overwritten' = overwritten \cup {req[w].deck : w \in {v \in stale : Commits(v)}}

HistoryNext == Next /\ Record
HistorySpec == HistoryInit /\ [][HistoryNext]_historyVars

-----------------------------------------------------------------------------

\* As long as no outdated copy was saved, the rows of a deck are what its events
\* add up to, however requests overlap and fail: no update announced in the
\* outbox, and answered to its client, is lost and none is unannounced
\* (Decks.ByID, the mutators, Decks.Save, Publish).
RowsAreReplayUnlessOverwritten ==
  \A d \in DeckIds \ overwritten : deckRow[d] # None => Stored(d) = Replayed(d)

\* As long as no outdated copy was saved, a deleted deck is never written again
\* (Deck.requireAlive is evaluated on rows read earlier).
DeletedUnlessOverwritten ==
  [][\A d \in DeckIds \ overwritten' :
       (deckRow[d] # None /\ deckRow[d].deleted) => ~Touched(d)]_historyVars
=============================================================================
