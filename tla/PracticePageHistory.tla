------------------------ MODULE PracticePageHistory ------------------------
(***************************************************************************)
(* PracticePage with a record of what the user may not expect to survive:  *)
(* calls that fail, and gestures made while an earlier one is still under  *)
(* way.  The page disables nothing while it waits.                         *)
(***************************************************************************)
EXTENDS PracticePage

VARIABLES
  failed,   \* sessions some call about which has failed, or was cut off by a reload
  hurried,  \* sessions the user acted on while a call about them, another's start
            \* or another's rating was under way
  crossed,  \* a rating was under way when another deck was entered last
  ranOut,   \* a session was finished with the toggle on, and left it on
  latest    \* latest[s][i]: the user's last rating of card i in session s, or None

history == <<failed, hurried, crossed, ranOut, latest>>
historyVars == <<vars, history>>

HistoryInit ==
  /\ Init
  /\ failed = {} /\ hurried = {} /\ crossed = FALSE /\ ranOut = FALSE
  /\ latest = rated

UnderWay == {About(c) : c \in Awaited}

HistoryVisit(deck) ==
  /\ Visit(deck)
  /\ crossed' = \E c \in Awaited : c.kind = "rate" /\ c.deck # deck
  /\ UNCHANGED <<failed, hurried, ranOut, latest>>

HistoryReload ==
  /\ Reload
  /\ failed' = failed \cup UnderWay \cup ({active} \ {None})
  /\ ranOut' = FALSE
  /\ UNCHANGED <<hurried, crossed, latest>>

HistoryAct ==
  /\ Act
  /\ hurried' = hurried \cup UnderWay
       \cup {s \in {gestures'} : \E c \in Awaited : c.kind = "start"}
       \cup {s \in {active} \ {None} : \E c \in Awaited : c.kind = "rate"}
  /\ ranOut' = (ranOut /\ track' = track)
  /\ latest' = IF \E c \in calls' \ calls : c.kind = "rate" /\ Accepts(c)
               THEN [latest EXCEPT ![active][idx + 1] = gestures']
               ELSE latest
  /\ UNCHANGED <<failed, crossed>>

HistorySettle(c) ==
  \/ /\ Receive(c)
     /\ ranOut' = (ranOut \/ (c.kind = "finish" /\ track))
     /\ UNCHANGED <<failed, hurried, crossed, latest>>
  \/ /\ Fail(c)
     /\ failed' = failed \cup {About(c)}
     /\ UNCHANGED <<hurried, crossed, ranOut, latest>>

HistoryNext ==
  \/ \E deck \in Decks : HistoryVisit(deck)
  \/ HistoryReload
  \/ HistoryAct
  \/ (Leave \/ Move \/ \E c \in calls : Serve(c)) /\ UNCHANGED history
  \/ \E c \in calls : HistorySettle(c)

HistorySpec == HistoryInit /\ [][HistoryNext]_historyVars

Settle(n, kind) ==
  \E c \in Awaited : c.n = n /\ c.kind = kind /\ ((Serve(c) /\ UNCHANGED history) \/ HistorySettle(c))

\* Every fetch settles, with an answer or by rejecting.
FairSpec ==
  /\ HistorySpec
  /\ \A n \in Gestures, kind \in {"start", "rate", "finish"} :
       WF_historyVars(Settle(n, kind))

-----------------------------------------------------------------------------

\* The cursor is on a card of the deck shown, whatever calls settle late, unless
\* one of them is a rating of another deck's card (advanceCardAction takes the
\* size of the deck it was called for, the cursor as it is).
CursorWithinDeck ==
  (OnDeck /\ ~crossed) => idx < page.deck

\* The results shown for a session count every rating the user gave in it, the
\* latest of each card: the session is finished only after the answer to the
\* last rating (rateAndAdvanceAction, finishNowAction).  Calls that fail and
\* gestures made while the session was busy are the exceptions.
ResultsCountEveryRating ==
  \A s \in Gestures \ (failed \cup hurried) :
    (page.at = "results" /\ page.session = s) => rated[s] = latest[s]

\* No session is left open behind the user's back: one in progress is active or
\* a call about it is under way, unless a call about it has failed or it was
\* toggled while it started (startSessionAction, finishSessionAction).
NoSessionForgotten ==
  \A s \in Gestures \ (failed \cup hurried) :
    (sessions[s] # None /\ sessions[s].open) => s = active \/ s \in UnderWay

\* While the toggle is on there is a session, or one is being started, so that
\* ratings are not dropped; but the toggle stays on, without a session, when
\* the last card of the deck finishes it (toggleTrackingAction).
ToggleMeansSession ==
  (track /\ active = None /\ ~ranOut) => \E c \in Awaited : c.kind = "start"

\* The session's last card has been rated and the cursor waits on it.
LastCardRated(s, deck) ==
  /\ active = s /\ idx + 1 = deck
  /\ \E c \in Awaited : c.kind = "rate" /\ c.session = s /\ c.deck = deck /\ c.card = deck

\* Rating the last card leads to the results, wherever the user goes meanwhile,
\* unless a call fails or the user interferes with the session or the cursor.
RunEndsInResults ==
  \A s \in Gestures, deck \in Decks :
    LastCardRated(s, deck) ~>
      \/ page = [at |-> "results", deck |-> deck, session |-> s]
      \/ s \in failed \cup hurried
      \/ idx + 1 # deck
=============================================================================
