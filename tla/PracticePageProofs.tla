------------------------- MODULE PracticePageProofs -------------------------
(***************************************************************************)
(* Proofs about PracticePageHistory: the cursor is on a card, no session   *)
(* is left open, the toggle means a session and the results count every    *)
(* rating, for any number of decks, cards, gestures and calls under way.   *)
(***************************************************************************)
EXTENDS PracticePageHistory, TLAPS

\* The sessions of which nothing is claimed.
Excepted == failed \cup hurried

Ratings == {c \in Awaited : c.kind = "rate"}
Starts == {c \in Awaited : c.kind = "start"}
Finishes == {c \in Awaited : c.kind = "finish"}

HistoryTypes ==
  /\ failed \subseteq Gestures /\ hurried \subseteq Gestures
  /\ crossed \in BOOLEAN /\ ranOut \in BOOLEAN
  /\ latest \in [Gestures -> [Ordinals -> Gestures \cup {None}]]

\* A start has yet to create its session, any other call is about a stored one; a
\* finish that was answered has closed it, and an orphan comes from a failure.
CallInv(c) ==
  /\ c.n <= gestures
  /\ c.kind = "start" /\ c.stage # "done" => sessions[c.n] = None
  /\ c.kind = "start" /\ c.stage = "done" => c.session = c.n /\ sessions[c.n] # None
  /\ c.kind # "start" => c.session # None /\ sessions[c.session] # None
  /\ c.kind = "rate" => c.card # None
  /\ c.kind = "finish" /\ c.stage = "done" => ~sessions[c.session].open
  /\ c.stage = "orphan" => About(c) \in failed

CallsInv ==
  /\ \A c \in calls : CallInv(c)
  /\ \A c, d \in calls : c.kind = "start" /\ d.kind = "start" /\ c.n = d.n => c = d
  /\ active # None => sessions[active] # None
  /\ \A s \in Gestures : sessions[s] # None => s <= gestures

\* Of two starts under way, and of a start and the session active meanwhile, both
\* are excepted; so is a start whose toggle has been turned off again.
StartsInv ==
  /\ \A c \in Starts : ~track => c.n \in Excepted
  /\ \A c, d \in Starts : c # d => c.n \in Excepted
  /\ Starts # {} /\ active # None => active \in Excepted

\* With the toggle off the active session is being finished.
ToggleInv ==
  /\ ~track /\ active # None => active \in Excepted \/ \E c \in Finishes : c.session = active
  /\ ToggleMeansSession

\* An open session is active, or its start has been done and not yet received.
OpenInv ==
  \A s \in Gestures \ Excepted :
    sessions[s] # None /\ sessions[s].open => s = active \/ \E c \in Starts : c.n = s

\* A rating under way is the only one, and its session is not being finished.
AloneInv ==
  \A c \in Ratings : c.session \notin Excepted =>
    /\ \A d \in Ratings : d = c
    /\ \A d \in Finishes : d.session # c.session

\* The server has the user's latest rating of each card, or will accept it.
Pending(s, i) ==
  \E c \in Ratings : c.stage = "sent" /\ c.session = s /\ c.card = i /\ Accepts(c)

LatestInv ==
  /\ \A c \in Ratings :
       c.stage = "sent" /\ c.session \notin Excepted /\ Accepts(c) =>
         latest[c.session][c.card] = c.n
  /\ \A s \in Gestures \ Excepted, i \in Ordinals :
       latest[s][i] = rated[s][i] \/ Pending(s, i)

\* Nothing is pending about a session whose results are shown.
ResultsInv ==
  \A c \in Ratings :
    page.at = "results" /\ c.session = page.session => c.session \in Excepted

\* Ratings under way are of the deck shown, unless it was entered since.
CursorInv ==
  /\ CursorWithinDeck
  /\ OnDeck /\ ~crossed => \A c \in Ratings : c.deck = page.deck

Types == TypeOK /\ HistoryTypes

IInv ==
  /\ Types /\ CallsInv
  /\ StartsInv /\ ToggleInv /\ OpenInv
  /\ AloneInv /\ LatestInv /\ ResultsInv
  /\ CursorInv

-----------------------------------------------------------------------------

LEMMA DeckFacts ==
  /\ \A n \in Decks : n \in Nat /\ n > 0
  /\ Ordinals \subseteq Nat
  /\ \A n \in Decks, i \in Nat : i < n => i + 1 \in Ordinals
<1> DEFINE max == CHOOSE n \in Decks : \A m \in Decks : m <= n
<1>1. max \in Decks /\ \A m \in Decks : m <= max
  BY DecksAssumption
<1>2. Ordinals = 1..max
  BY DEF Ordinals
<1> HIDE DEF max
<1>3. QED
  BY <1>1, <1>2, DecksAssumption

LEMMA NoneFacts == None \notin Gestures /\ None \notin Ordinals /\ None \notin Session
BY NoneAssumption

LEMMA InitIInv == HistoryInit => IInv
<1> SUFFICES ASSUME HistoryInit PROVE IInv
  OBVIOUS
<1>1. Types
  <2>1. page \in Page /\ idx \in Nat /\ track \in BOOLEAN /\ active \in Gestures \cup {None}
    BY DEF HistoryInit, Init, Page
  <2>2. calls \subseteq Call /\ sessions \in [Gestures -> Session \cup {None}]
    BY DEF HistoryInit, Init
  <2>3. /\ rated \in [Gestures -> [Ordinals -> Gestures \cup {None}]]
        /\ latest = rated
    BY DEF HistoryInit, Init
  <2>4. gestures \in 0..MaxGestures
    BY BoundAssumption DEF HistoryInit, Init
  <2>5. QED
    BY <2>1, <2>2, <2>3, <2>4 DEF HistoryInit, Types, TypeOK, HistoryTypes
<1>2. Awaited = {} /\ calls = {} /\ Ratings = {} /\ Starts = {} /\ Finishes = {}
  BY DEF HistoryInit, Init, Awaited, Ratings, Starts, Finishes
<1>3. CallsInv /\ StartsInv /\ OpenInv /\ AloneInv
  BY <1>2 DEF HistoryInit, Init, CallsInv, StartsInv, OpenInv, AloneInv
<1>4. LatestInv /\ ResultsInv
  BY <1>2 DEF HistoryInit, Init, LatestInv, ResultsInv
<1>5. ToggleInv /\ CursorInv
  BY <1>2 DEF HistoryInit, Init, ToggleInv, ToggleMeansSession, CursorInv, CursorWithinDeck, OnDeck
<1>6. QED
  BY <1>1, <1>3, <1>4, <1>5 DEF IInv

-----------------------------------------------------------------------------
(***************************************************************************)
(* Steps of the user.                                                      *)
(***************************************************************************)

\* Visiting, leaving and turning cards touch neither calls nor sessions.
LEMMA QuietIInv ==
  ASSUME IInv, UNCHANGED <<track, active, calls, server, gestures, failed, hurried, ranOut, latest>>,
         Types', CursorInv', page' = page \/ page'.at # "results"
  PROVE  IInv'
<1>1. UNCHANGED <<Awaited, Ratings, Starts, Finishes, Excepted, sessions, rated>>
  BY DEF Awaited, Ratings, Starts, Finishes, Excepted, server
<1>2. CallsInv' /\ StartsInv'
  BY <1>1 DEF IInv, CallsInv, CallInv, StartsInv
<1>3. ToggleInv' /\ OpenInv'
  BY <1>1 DEF IInv, ToggleInv, ToggleMeansSession, OpenInv
<1>4. AloneInv' /\ LatestInv' /\ ResultsInv'
  BY <1>1 DEF IInv, AloneInv, LatestInv, Pending, Accepts, ResultsInv
<1>5. QED
  BY <1>2, <1>3, <1>4 DEF IInv

LEMMA VisitIInv ==
  ASSUME IInv, NEW deck \in Decks, HistoryVisit(deck)
  PROVE  IInv'
<1>1. Types'
  BY DEF HistoryVisit, Visit, FirstCard, IInv, Types, TypeOK, HistoryTypes, Page, server
<1>2. CursorInv'
  BY DeckFacts DEF HistoryVisit, Visit, FirstCard, CursorInv, CursorWithinDeck, OnDeck, Ratings, Awaited
<1>3. QED
  BY <1>1, <1>2, QuietIInv DEF HistoryVisit, Visit

LEMMA MoveIInv ==
  ASSUME IInv, Leave \/ Move, UNCHANGED history
  PROVE  IInv'
<1>1. Types'
  BY DEF Leave, Move, NextCard, PreviousCard, history, IInv, Types, TypeOK, HistoryTypes, Page, server
<1>2. CursorInv'
  <2>1. page.at = "practice" => page.deck \in Decks
    BY DEF IInv, Types, TypeOK, Page
  <2>2. UNCHANGED <<Ratings, crossed>> /\ idx \in Nat
    BY DEF Leave, Move, NextCard, PreviousCard, history, Ratings, Awaited, IInv, Types, TypeOK
  <2>3. QED
    BY <2>1, <2>2, DeckFacts DEF Leave, Move, NextCard, PreviousCard, IsLast, IInv, CursorInv, CursorWithinDeck, OnDeck
<1>3. QED
  BY <1>1, <1>2, QuietIInv DEF Leave, Move, NextCard, PreviousCard, history

\* After a reload nothing is awaited, and everything that was is excepted.
LEMMA ReloadIInv ==
  ASSUME IInv, HistoryReload
  PROVE  IInv'
<1>1. /\ track' = FALSE /\ active' = None /\ idx' = 0
      /\ failed' = failed \cup UnderWay \cup ({active} \ {None})
      /\ UNCHANGED <<page, sessions, rated, gestures, hurried, crossed, latest>>
  BY DEF HistoryReload, Reload, server
<1>2. \A x \in calls' : \E c \in calls :
        x = [c EXCEPT !.stage = "orphan"] /\ c.stage \in {"sent", "orphan"}
  BY DEF HistoryReload, Reload
<1>3. /\ Types /\ CallsInv
      /\ \A c \in calls : c \in Call /\ About(c) \in Gestures \cup {None}
      /\ \A c \in calls : About(c) \in failed \cup UnderWay
      /\ \A c \in calls : [c EXCEPT !.stage = "orphan"] \in Call
  BY DEF IInv, Types, TypeOK, CallsInv, CallInv, About, UnderWay, Awaited, Call
<1>4. Types'
  <2>1. calls' \subseteq Call
    BY <1>2, <1>3
  <2>2. UnderWay \subseteq Gestures
    BY <1>3 DEF UnderWay, Awaited, CallsInv, CallInv, About, Call
  <2>3. QED
    BY <1>1, <1>3, <2>1, <2>2 DEF Types, TypeOK, HistoryTypes, HistoryReload
<1>5. \A x \in calls' : x.stage = "orphan" /\ \E c \in calls :
        /\ c.n = x.n /\ c.kind = x.kind /\ c.session = x.session /\ c.card = x.card
        /\ About(x) = About(c) /\ x = [c EXCEPT !.stage = "orphan"] /\ c.stage # "done"
  BY <1>2, <1>3 DEF Call, About
<1>6. Awaited' = {} /\ Ratings' = {} /\ Starts' = {} /\ Finishes' = {}
  BY <1>5 DEF Awaited, Ratings, Starts, Finishes
<1>7. CallsInv'
  <2>1. ASSUME NEW x \in calls' PROVE CallInv(x)'
    <3>1. PICK c \in calls : /\ c.n = x.n /\ c.kind = x.kind /\ c.session = x.session
                             /\ c.card = x.card /\ About(x) = About(c) /\ c.stage # "done"
      BY <1>5
    <3>2. CallInv(c) /\ About(c) \in failed' /\ x.stage = "orphan"
      BY <1>1, <1>3, <1>5 DEF CallsInv
    <3>3. QED
      BY <1>1, <3>1, <3>2 DEF CallInv, About
  <2>2. ASSUME NEW x \in calls', NEW y \in calls', x.kind = "start", y.kind = "start", x.n = y.n
        PROVE  x = y
    BY <1>3, <1>5, <2>2 DEF CallsInv
  <2>3. QED
    BY <1>1, <1>3, <2>1, <2>2 DEF CallsInv
<1>8. StartsInv' /\ ToggleInv' /\ AloneInv' /\ ResultsInv'
  BY <1>1, <1>6 DEF StartsInv, ToggleInv, ToggleMeansSession, AloneInv, ResultsInv
<1>9. ASSUME NEW c \in Awaited PROVE About(c) \in Excepted'
  BY <1>1 DEF UnderWay, Excepted
<1>10. OpenInv'
  BY <1>1, <1>9 DEF IInv, OpenInv, Excepted, Starts, About
<1>11. LatestInv'
  <2>1. ASSUME NEW s \in Gestures \ Excepted', NEW i \in Ordinals PROVE ~Pending(s, i)
    BY <1>9 DEF Pending, Ratings, About
  <2>2. QED
    BY <1>1, <1>6, <2>1 DEF IInv, LatestInv, Excepted
<1>12. CursorInv'
  BY <1>1, <1>3, <1>6, DeckFacts DEF CursorInv, CursorWithinDeck, OnDeck, Types, TypeOK, Page
<1>13. QED
  BY <1>4, <1>7, <1>8, <1>10, <1>11, <1>12 DEF IInv

\* What an action of the user excepts.
LEMMA ActExcepts ==
  ASSUME IInv, HistoryAct
  PROVE  /\ \A c \in Awaited : About(c) \in Excepted'
         /\ Starts # {} => gestures' \in Excepted'
         /\ Ratings # {} /\ active # None => active \in Excepted'
         /\ Excepted \subseteq Excepted'
         /\ UNCHANGED <<failed, crossed>>
         /\ failed \subseteq Excepted
BY DEF HistoryAct, Excepted, Starts, Ratings, UnderWay

\* The last assertions say that what an action sends is new.
LEMMA ActFacts ==
  ASSUME IInv, HistoryAct
  PROVE  /\ OnDeck /\ page.deck \in Decks
         /\ gestures \in Nat /\ gestures' = gestures + 1 /\ gestures' \in Gestures
         /\ gestures' \in 0..MaxGestures
         /\ UNCHANGED <<page, active, sessions, rated>>
         /\ \A c \in calls : c \in Call /\ c.n # gestures' /\ c.n <= gestures'
         /\ sessions[gestures'] = None
         /\ hurried' \subseteq Gestures
<1>1. /\ OnDeck /\ gestures < MaxGestures /\ gestures' = gestures + 1
      /\ UNCHANGED <<page, active, sessions, rated>>
  BY DEF HistoryAct, Act, Rate, RateNothing, TurnOn, TurnOff, Gesture, server
<1>2. gestures \in Nat /\ gestures' \in Gestures /\ gestures' \in 0..MaxGestures
  BY <1>1, BoundAssumption DEF IInv, Types, TypeOK, Gestures
<1>3. \A c \in calls : c \in Call /\ c.n \in Nat /\ c.n <= gestures
  BY DEF IInv, Types, TypeOK, CallsInv, CallInv, Call, Gestures
<1>4. sessions[gestures'] = None
  BY <1>1, <1>2 DEF IInv, CallsInv
<1>5. UnderWay \subseteq Gestures /\ active \in Gestures \cup {None}
  BY DEF IInv, Types, TypeOK, CallsInv, CallInv, About, Call, UnderWay, Awaited
<1>6. hurried' \subseteq Gestures
  BY <1>2, <1>5 DEF HistoryAct, IInv, Types, HistoryTypes
<1>7. page.deck \in Decks
  BY <1>1 DEF OnDeck, IInv, Types, TypeOK, Page
<1>8. QED
  BY <1>1, <1>2, <1>3, <1>4, <1>6, <1>7

\* Old calls keep their invariant when the user acts.
LEMMA ActCalls ==
  ASSUME IInv, HistoryAct
  PROVE  /\ \A c \in calls : CallInv(c)'
         /\ active' # None => sessions'[active'] # None
         /\ \A s \in Gestures : sessions'[s] # None => s <= gestures'
BY ActFacts, ActExcepts DEF IInv, CallsInv, CallInv, About, Gestures

\* The new rating is the only one under way, if its session is not excepted.
LEMMA RateIInv ==
  ASSUME IInv, HistoryAct, Rate
  PROVE  IInv'
<1> PICK r : r = Request(gestures', "rate", page.deck, active, idx + 1)
  OBVIOUS
<1>1. /\ idx < page.deck /\ active \in Gestures /\ idx \in Nat /\ idx + 1 \in Ordinals
      /\ calls' = calls \cup {r} /\ UNCHANGED <<idx, track>> /\ track
  BY ActFacts, DeckFacts DEF Rate, CanRate, IInv, Types, TypeOK, Gesture
<1>2. /\ r \in Call /\ r.n = gestures' /\ r.kind = "rate" /\ r.stage = "sent"
      /\ r.session = active /\ r.card = idx + 1 /\ r.deck = page.deck /\ r \notin calls
      /\ About(r) = active
  BY <1>1, ActFacts DEF Request, Call, About
<1>3. Accepts(r)' = Accepts(r) /\ \A c \in calls : Accepts(c)' = Accepts(c)
  BY ActFacts DEF Accepts
<1>4. latest' = IF Accepts(r) THEN [latest EXCEPT ![active][idx + 1] = gestures'] ELSE latest
  BY <1>1, <1>2 DEF HistoryAct
<1>5. /\ Awaited' = Awaited \cup {r} /\ Ratings' = Ratings \cup {r}
      /\ Starts' = Starts /\ Finishes' = Finishes
  BY <1>1, <1>2 DEF Awaited, Ratings, Starts, Finishes
<1>6. Types'
  <2>1. latest' \in [Gestures -> [Ordinals -> Gestures \cup {None}]]
    BY <1>1, <1>4, ActFacts DEF IInv, Types, HistoryTypes
  <2>2. ranOut' \in BOOLEAN
    BY DEF HistoryAct, IInv, Types, HistoryTypes
  <2>3. QED
    BY <1>1, <1>2, <2>1, <2>2, ActFacts, ActExcepts DEF IInv, Types, TypeOK, HistoryTypes
<1>7. CallsInv'
  <2>1. CallInv(r)'
    <3>1. sessions'[r.session] # None
      BY <1>1, <1>2, ActFacts, NoneFacts DEF IInv, CallsInv
    <3>2. QED
      BY <1>1, <1>2, <3>1, ActFacts, NoneFacts DEF CallInv
  <2>2. QED
    BY <1>1, <1>2, <2>1, ActCalls DEF IInv, CallsInv
<1>8. StartsInv' /\ ToggleInv'
  BY <1>1, <1>5, ActFacts, ActExcepts
  DEF IInv, StartsInv, ToggleInv, ToggleMeansSession, HistoryAct, Starts
<1>9. OpenInv'
  BY <1>5, ActFacts, ActExcepts DEF IInv, OpenInv
<1>10. \A c \in Awaited : c.kind # "start" => c.session \in Excepted'
  BY ActExcepts DEF About
<1>11. active \notin Excepted' => Ratings = {} /\ \A d \in Finishes : d.session # active
  BY <1>1, <1>10, ActExcepts, NoneFacts DEF Finishes
<1>12. AloneInv'
  BY <1>2, <1>5, <1>10, <1>11 DEF AloneInv, Ratings
<1>13. LatestInv'
  <2>1. ASSUME NEW c \in Ratings', c.stage = "sent", c.session \notin Excepted', Accepts(c)'
        PROVE  latest'[c.session][c.card] = c.n
    <3>1. c = r
      BY <1>5, <1>10, <2>1 DEF Ratings
    <3>2. QED
      BY <1>1, <1>2, <1>3, <1>4, <2>1, <3>1 DEF IInv, Types, HistoryTypes
  <2>2. ASSUME NEW s \in Gestures \ Excepted', NEW i \in Ordinals
        PROVE  latest'[s][i] = rated'[s][i] \/ Pending(s, i)'
    <3>1. latest[s][i] = rated[s][i]
      BY <1>10, ActExcepts DEF IInv, LatestInv, Pending, Ratings
    <3>2. CASE s = active /\ i = idx + 1 /\ Accepts(r)
      BY <1>2, <1>3, <1>5, <3>2 DEF Pending
    <3>3. CASE ~(s = active /\ i = idx + 1 /\ Accepts(r))
      BY <1>1, <1>4, <3>1, <3>3, ActFacts DEF IInv, Types, HistoryTypes
    <3>4. QED
      BY <3>2, <3>3
  <2>3. QED
    BY <2>1, <2>2 DEF LatestInv
<1>14. ResultsInv'
  BY ActFacts DEF ResultsInv, OnDeck
<1>15. CursorInv'
  BY <1>1, <1>2, <1>5, ActFacts, ActExcepts DEF IInv, CursorInv, CursorWithinDeck, OnDeck
<1>16. QED
  BY <1>6, <1>7, <1>8, <1>9, <1>12, <1>13, <1>14, <1>15 DEF IInv

\* Everything but a rating leaves the ratings as they are.
LEMMA ActRatings ==
  ASSUME IInv, HistoryAct, Ratings' = Ratings, Finishes \subseteq Finishes', latest' = latest,
         \A d \in Finishes' \ Finishes : d.session = active
  PROVE  AloneInv' /\ LatestInv' /\ ResultsInv'
<1>1. \A c \in Ratings : c.session \in Excepted'
  BY ActExcepts DEF Ratings, About
<1>2. AloneInv' /\ ResultsInv'
  BY <1>1 DEF AloneInv, ResultsInv
<1>3. LatestInv'
  <2>1. ASSUME NEW s \in Gestures \ Excepted', NEW i \in Ordinals
        PROVE  latest[s][i] = rated[s][i]
    BY <1>1, ActExcepts DEF IInv, LatestInv, Pending
  <2>2. QED
    BY <1>1, <2>1, ActFacts DEF LatestInv
<1>4. QED
  BY <1>2, <1>3

LEMMA RateNothingIInv ==
  ASSUME IInv, HistoryAct, RateNothing
  PROVE  IInv'
<1>1. /\ idx < page.deck /\ idx' = Advanced(page.deck) /\ UNCHANGED <<track, calls>>
      /\ active = None /\ idx \in Nat /\ page.deck \in Nat
  BY ActFacts, DeckFacts DEF RateNothing, CanRate, IInv, Types, TypeOK
<1>2. idx' \in Nat /\ idx' < page.deck /\ latest' = latest
  BY <1>1 DEF Advanced, IsLast, HistoryAct
<1>3. UNCHANGED <<Awaited, Ratings, Starts, Finishes>>
  BY <1>1 DEF Awaited, Ratings, Starts, Finishes
<1>4. Types'
  <2>1. ranOut' \in BOOLEAN
    BY DEF HistoryAct, IInv, Types, HistoryTypes
  <2>2. QED
    BY <1>1, <1>2, <2>1, ActFacts, ActExcepts DEF IInv, Types, TypeOK, HistoryTypes
<1>5. CallsInv'
  BY <1>1, ActCalls DEF IInv, CallsInv
<1>6. StartsInv' /\ OpenInv'
  BY <1>1, <1>3, ActFacts, ActExcepts DEF IInv, StartsInv, OpenInv
<1>7. ToggleInv'
  BY <1>1, <1>3, ActFacts DEF IInv, ToggleInv, ToggleMeansSession, HistoryAct
<1>8. AloneInv' /\ LatestInv' /\ ResultsInv'
  BY <1>2, <1>3, ActRatings
<1>9. CursorInv'
  BY <1>2, <1>3, ActFacts, ActExcepts DEF IInv, CursorInv, CursorWithinDeck, OnDeck
<1>10. QED
  BY <1>4, <1>5, <1>6, <1>7, <1>8, <1>9 DEF IInv

\* A second start under way excepts both sessions; a session being finished when
\* the toggle is turned on again is excepted too.
LEMMA TurnOnIInv ==
  ASSUME IInv, HistoryAct, TurnOn
  PROVE  IInv'
<1> PICK r : r = Request(gestures', "start", page.deck, None, None)
  OBVIOUS
<1>1. calls' = calls \cup {r} /\ ~track /\ track' = TRUE /\ UNCHANGED idx
  BY DEF TurnOn, Gesture
<1>2. /\ r \in Call /\ r.n = gestures' /\ r.kind = "start" /\ r.stage = "sent" /\ r \notin calls
  BY ActFacts DEF Request, Call
<1>3. /\ Awaited' = Awaited \cup {r} /\ Starts' = Starts \cup {r}
      /\ Ratings' = Ratings /\ Finishes' = Finishes
  BY <1>1, <1>2 DEF Awaited, Ratings, Starts, Finishes
<1>4. latest' = latest
  BY <1>1, <1>2 DEF HistoryAct
<1>5. Types'
  <2>1. ranOut' \in BOOLEAN
    BY DEF HistoryAct, IInv, Types, HistoryTypes
  <2>2. QED
    BY <1>1, <1>2, <1>4, <2>1, ActFacts, ActExcepts DEF IInv, Types, TypeOK, HistoryTypes
<1>6. CallsInv'
  <2>1. CallInv(r)'
    BY <1>2, ActFacts DEF CallInv, IInv, Types, TypeOK
  <2>2. QED
    BY <1>1, <1>2, <2>1, ActCalls, ActFacts DEF IInv, CallsInv
<1>7. \A c \in Starts : c.n \in Excepted'
  BY ActExcepts DEF About, Starts
<1>8. active # None => active \in Excepted'
  <2>1. \A c \in Finishes : c.session \in Excepted'
    BY ActExcepts DEF Finishes, About
  <2>2. QED
    BY <1>1, <2>1, ActExcepts DEF IInv, ToggleInv
<1>9. StartsInv'
  BY <1>1, <1>2, <1>3, <1>7, <1>8, ActFacts, ActExcepts DEF StartsInv
<1>10. ToggleInv'
  BY <1>1, <1>2, <1>3 DEF ToggleInv, ToggleMeansSession, Starts
<1>11. OpenInv'
  BY <1>3, ActFacts, ActExcepts DEF IInv, OpenInv
<1>12. AloneInv' /\ LatestInv' /\ ResultsInv'
  BY <1>3, <1>4, ActRatings
<1>13. CursorInv'
  BY <1>1, <1>3, ActFacts, ActExcepts DEF IInv, CursorInv, CursorWithinDeck, OnDeck
<1>14. QED
  BY <1>5, <1>6, <1>9, <1>10, <1>11, <1>12, <1>13 DEF IInv

\* What FinishActive sends, if anything.
LEMMA FinishFacts ==
  ASSUME IInv, NEW n \in Gestures, n <= gestures', NEW deck \in Decks, NEW r \in FinishActive(n, deck)
  PROVE  /\ active \in Gestures /\ r \in Call /\ r.n = n /\ r.kind = "finish" /\ r.stage = "sent"
         /\ r.session = active /\ r.deck = deck
         /\ sessions[active] # None
BY NoneFacts DEF FinishActive, Request, Call, IInv, Types, TypeOK, CallsInv

LEMMA TurnOffIInv ==
  ASSUME IInv, HistoryAct, TurnOff
  PROVE  IInv'
<1> PICK new : new = FinishActive(gestures', page.deck)
  OBVIOUS
<1>1. calls' = calls \cup new /\ track /\ track' = FALSE /\ UNCHANGED idx
  BY DEF TurnOff, Gesture
<1>2. \A r \in new : /\ r \in Call /\ r.n = gestures' /\ r.kind = "finish" /\ r.stage = "sent"
                     /\ r.session = active /\ sessions[active] # None /\ active \in Gestures
  BY ActFacts, FinishFacts
<1>3. active # None => \E r \in new : r.session = active
  BY DEF FinishActive, Request
<1>4. /\ Awaited' = Awaited \cup new /\ Finishes' = Finishes \cup new
      /\ Ratings' = Ratings /\ Starts' = Starts
  BY <1>1, <1>2 DEF Awaited, Ratings, Starts, Finishes
<1>5. latest' = latest
  BY <1>1, <1>2 DEF HistoryAct
<1>6. Types'
  <2>1. ranOut' \in BOOLEAN
    BY DEF HistoryAct, IInv, Types, HistoryTypes
  <2>2. QED
    BY <1>1, <1>2, <1>5, <2>1, ActFacts, ActExcepts DEF IInv, Types, TypeOK, HistoryTypes
<1>7. CallsInv'
  <2>1. \A r \in new : CallInv(r)'
    BY <1>2, ActFacts, NoneFacts DEF CallInv
  <2>2. QED
    BY <1>1, <1>2, <2>1, ActCalls, ActFacts DEF IInv, CallsInv
<1>8. StartsInv'
  <2>1. \A c \in Starts : c.n \in Excepted'
    BY ActExcepts DEF About, Starts
  <2>2. QED
    BY <1>4, <2>1, ActFacts, ActExcepts DEF IInv, StartsInv
<1>9. ToggleInv'
  BY <1>1, <1>3, <1>4, ActFacts DEF ToggleInv, ToggleMeansSession
<1>10. OpenInv'
  BY <1>4, ActFacts, ActExcepts DEF IInv, OpenInv
<1>11. AloneInv' /\ LatestInv' /\ ResultsInv'
  BY <1>2, <1>4, <1>5, ActRatings
<1>12. CursorInv'
  BY <1>1, <1>4, ActFacts, ActExcepts DEF IInv, CursorInv, CursorWithinDeck, OnDeck
<1>13. QED
  BY <1>6, <1>7, <1>8, <1>9, <1>10, <1>11, <1>12 DEF IInv

LEMMA ActIInv ==
  ASSUME IInv, HistoryAct
  PROVE  IInv'
BY RateIInv, RateNothingIInv, TurnOnIInv, TurnOffIInv DEF HistoryAct, Act

-----------------------------------------------------------------------------
(***************************************************************************)
(* Steps of the server.                                                    *)
(***************************************************************************)

\* The fields of a call are of their types, and every call is of one kind.
LEMMA CallFacts ==
  ASSUME IInv, NEW c \in calls
  PROVE  /\ c \in Call /\ CallInv(c) /\ c.n \in Gestures /\ c.deck \in Decks
         /\ c.session \in Gestures \cup {None} /\ c.card \in Ordinals \cup {None}
         /\ c.kind \in {"start", "rate", "finish"}
         /\ About(c) \in Gestures
         /\ c.kind # "start" => c.session \in Gestures /\ About(c) = c.session
BY DEF IInv, Types, TypeOK, CallsInv, CallInv, Call, About

\* Whoever waits for a call waits for its answer, which differs in its stage only.
LEMMA AnswerFacts ==
  ASSUME IInv, NEW c \in calls, NEW a \in Call, Answer(c, a), c.stage # "orphan",
         a.stage # "orphan", a.kind = c.kind, a.n = c.n
  PROVE  /\ calls' = (calls \ {c}) \cup {a}
         /\ c \in Awaited /\ Awaited' = (Awaited \ {c}) \cup {a}
         /\ c.kind = "rate" => c \in Ratings /\ Ratings' = (Ratings \ {c}) \cup {a}
         /\ c.kind # "rate" => Ratings' = Ratings
         /\ c.kind = "start" => c \in Starts /\ Starts' = (Starts \ {c}) \cup {a}
         /\ c.kind # "start" => Starts' = Starts
         /\ c.kind = "finish" => c \in Finishes /\ Finishes' = (Finishes \ {c}) \cup {a}
         /\ c.kind # "finish" => Finishes' = Finishes
BY DEF Answer, Awaited, Ratings, Starts, Finishes

LEMMA OrphanFacts ==
  ASSUME NEW c \in calls, NEW a, Answer(c, a), c.stage = "orphan"
  PROVE  calls' = calls \ {c} /\ UNCHANGED <<Awaited, Ratings, Starts, Finishes>>
BY DEF Answer, Awaited, Ratings, Starts, Finishes

\* A session that is started is new: no other call is about it, and none waits for
\* it if its start is an orphan.
LEMMA StartIInv ==
  ASSUME IInv, NEW c \in calls, Start(c), UNCHANGED history
  PROVE  IInv'
<1> PICK a : a = [c EXCEPT !.stage = "done", !.session = c.n]
  OBVIOUS
<1>1. /\ c.kind = "start" /\ c.stage \in {"sent", "orphan"} /\ Answer(c, a)
      /\ sessions' = [sessions EXCEPT ![c.n] = [deck |-> c.deck, open |-> TRUE]]
      /\ UNCHANGED <<page, idx, track, active, rated, gestures>>
      /\ UNCHANGED <<failed, hurried, crossed, ranOut, latest, Excepted>>
  BY DEF Start, Arrives, history, Excepted
<1>2. /\ c.n \in Gestures /\ sessions[c.n] = None /\ c.n <= gestures /\ About(c) = c.n
      /\ c \in Call /\ c.deck \in Decks
      /\ c.stage = "orphan" => c.n \in Excepted
  BY <1>1, CallFacts DEF CallInv, About, Excepted
<1>3. /\ a \in Call /\ a.n = c.n /\ a.kind = "start" /\ a.stage = "done" /\ a.session = c.n
      /\ About(a) = c.n
  BY <1>1, <1>2 DEF Call, About
<1>4. /\ sessions' \in [Gestures -> Session \cup {None}] /\ sessions'[c.n] # None
      /\ \A s \in Gestures : s # c.n => sessions'[s] = sessions[s]
      /\ \A s \in Gestures : sessions[s] # None => s # c.n
  <2>1. [deck |-> c.deck, open |-> TRUE] \in Session
    BY <1>2 DEF Session
  <2>2. sessions'[c.n] = [deck |-> c.deck, open |-> TRUE]
    BY <1>1, <1>2 DEF IInv, Types, TypeOK
  <2>3. QED
    BY <1>1, <1>2, <2>1, <2>2, NoneFacts DEF IInv, Types, TypeOK
<1>5. \A d \in calls : d # c => CallInv(d)'
  <2> SUFFICES ASSUME NEW d \in calls, d # c PROVE CallInv(d)'
    OBVIOUS
  <2>1. d.kind = "start" => d.n # c.n
    BY <1>1 DEF IInv, CallsInv
  <2>2. QED
    BY <1>1, <1>4, <2>1, CallFacts DEF CallInv, About
<1>6. calls' \subseteq (calls \ {c}) \cup {a}
  BY DEF Answer, Start
<1>7. Types'
  BY <1>1, <1>2, <1>3, <1>4, <1>6 DEF IInv, Types, TypeOK, HistoryTypes
<1>8. CallsInv'
  <2>1. CallInv(a)'
    BY <1>1, <1>2, <1>3, <1>4 DEF CallInv
  <2>2. \A s \in Gestures : sessions'[s] # None => s <= gestures'
    BY <1>1, <1>2, <1>4 DEF IInv, CallsInv
  <2>3. active' # None => sessions'[active'] # None
    BY <1>1, <1>4 DEF IInv, CallsInv, Types, TypeOK
  <2>4. \A d, e \in calls' : d.kind = "start" /\ e.kind = "start" /\ d.n = e.n => d = e
    <3>1. \A d, e \in calls : d.kind = "start" /\ e.kind = "start" /\ d.n = e.n => d = e
      BY DEF IInv, CallsInv
    <3>2. \A d \in calls \ {c} : d.kind = "start" => d.n # c.n
      BY <1>1, <3>1
    <3>3. QED
      BY <1>3, <1>6, <3>1, <3>2
  <2>5. \A d \in calls' : CallInv(d)'
    BY <1>5, <1>6, <2>1
  <2>6. QED
    BY <2>2, <2>3, <2>4, <2>5 DEF CallsInv
<1>9. UNCHANGED <<Ratings, Finishes>>
  <2>1. CASE c.stage = "orphan"
    BY <1>1, <2>1, OrphanFacts
  <2>2. CASE c.stage # "orphan"
    BY <1>1, <1>3, <2>2, AnswerFacts
  <2>3. QED
    BY <2>1, <2>2
<1>10. \/ c.stage = "orphan" /\ Starts' = Starts
       \/ c.stage # "orphan" /\ c \in Starts /\ Starts' = (Starts \ {c}) \cup {a}
  <2>1. CASE c.stage = "orphan"
    BY <1>1, <2>1, OrphanFacts DEF Starts, Awaited
  <2>2. CASE c.stage # "orphan"
    <3>1. /\ a \in Call /\ a.stage # "orphan" /\ a.kind = c.kind /\ a.n = c.n
          /\ Answer(c, a)
      BY <1>1, <1>3
    <3>2. c.kind = "start"
      BY <1>1, <1>3
    <3>3. QED
      BY <2>2, <3>1, <3>2, AnswerFacts, Zenon
  <2>3. QED
    BY <2>1, <2>2
<1>11. StartsInv' /\ ToggleInv'
  BY <1>1, <1>3, <1>9, <1>10 DEF IInv, StartsInv, ToggleInv, ToggleMeansSession, Starts
<1>12. OpenInv'
  <2> SUFFICES ASSUME NEW s \in Gestures \ Excepted, sessions'[s] # None, sessions'[s].open
               PROVE  s = active \/ \E d \in Starts' : d.n = s
    BY <1>1 DEF OpenInv
  <2>1. CASE s = c.n
    BY <1>2, <1>3, <1>10, <2>1
  <2>2. CASE s # c.n
    BY <1>2, <1>4, <1>10, <2>2 DEF IInv, OpenInv
  <2>3. QED
    BY <2>1, <2>2
<1>13. \A d \in Ratings : Accepts(d)' = Accepts(d)
  <2> SUFFICES ASSUME NEW d \in Ratings PROVE sessions'[d.session] = sessions[d.session]
    BY DEF Accepts
  <2>1. d.session \in Gestures /\ sessions[d.session] # None
    BY CallFacts DEF Ratings, Awaited, CallInv
  <2>2. QED
    BY <1>4, <2>1
<1>14. AloneInv' /\ LatestInv' /\ ResultsInv'
  BY <1>1, <1>9, <1>13 DEF IInv, AloneInv, LatestInv, Pending, ResultsInv
<1>15. CursorInv'
  BY <1>1, <1>9 DEF IInv, CursorInv, CursorWithinDeck, OnDeck
<1>16. QED
  BY <1>7, <1>8, <1>11, <1>12, <1>14, <1>15 DEF IInv

\* A rating that is accepted is the latest of its card: it is the only one under way.
LEMMA StoreRatingIInv ==
  ASSUME IInv, NEW c \in calls, StoreRating(c), UNCHANGED history
  PROVE  IInv'
<1> PICK a : a = [c EXCEPT !.stage = IF Accepts(c) THEN "done" ELSE "refused"]
  OBVIOUS
<1>1. /\ c.kind = "rate" /\ c.stage \in {"sent", "orphan"} /\ Answer(c, a)
      /\ rated' = IF Accepts(c) THEN [rated EXCEPT ![c.session][c.card] = c.n] ELSE rated
      /\ UNCHANGED <<page, idx, track, active, sessions, gestures>>
      /\ UNCHANGED <<failed, hurried, crossed, ranOut, latest, Excepted>>
  BY DEF StoreRating, Arrives, history, Excepted
<1>2. /\ c.session \in Gestures /\ c.card \in Ordinals /\ c.n \in Gestures /\ c \in Call
      /\ c.stage = "orphan" => c.session \in Excepted
      /\ About(c) = c.session /\ c.n <= gestures /\ sessions[c.session] # None
  BY <1>1, CallFacts DEF CallInv, Excepted
<1>3. /\ a \in Call /\ a.n = c.n /\ a.kind = "rate" /\ a.stage \in {"done", "refused"}
      /\ a.session = c.session /\ a.deck = c.deck /\ a.card = c.card
  BY <1>1, <1>2 DEF Call
<1>4. rated' \in [Gestures -> [Ordinals -> Gestures \cup {None}]]
  BY <1>1, <1>2 DEF IInv, Types, TypeOK
<1>5. calls' \subseteq (calls \ {c}) \cup {a}
  BY DEF Answer, StoreRating
<1>6. Types'
  BY <1>1, <1>3, <1>4, <1>5 DEF IInv, Types, TypeOK, HistoryTypes
<1>7. CallsInv'
  <2>1. CallInv(a)'
    BY <1>1, <1>2, <1>3, NoneFacts DEF CallInv
  <2>2. \A d \in calls : CallInv(d)'
    BY <1>1, CallFacts DEF CallInv, About
  <2>3. QED
    BY <1>1, <1>3, <1>5, <2>1, <2>2 DEF IInv, CallsInv
<1>8. UNCHANGED <<Starts, Finishes>>
  <2>1. CASE c.stage = "orphan"
    BY <1>1, <2>1, OrphanFacts
  <2>2. CASE c.stage # "orphan"
    BY <1>1, <1>3, <2>2, AnswerFacts
  <2>3. QED
    BY <2>1, <2>2
<1>9. \/ c.stage = "orphan" /\ Ratings' = Ratings /\ c \notin Ratings
      \/ c.stage # "orphan" /\ c \in Ratings /\ Ratings' = (Ratings \ {c}) \cup {a}
  <2>1. CASE c.stage = "orphan"
    BY <1>1, <2>1, OrphanFacts DEF Ratings, Awaited
  <2>2. CASE c.stage # "orphan"
    <3>1. /\ a \in Call /\ a.stage # "orphan" /\ a.kind = c.kind /\ a.n = c.n
          /\ Answer(c, a)
      BY <1>1, <1>3
    <3>2. c.kind = "rate"
      BY <1>1, <1>3
    <3>3. QED
      BY <2>2, <3>1, <3>2, AnswerFacts, Zenon
  <2>3. QED
    BY <2>1, <2>2
<1>10. StartsInv' /\ ToggleInv' /\ OpenInv'
  BY <1>1, <1>8 DEF IInv, StartsInv, ToggleInv, ToggleMeansSession, OpenInv, Starts
<1>11. AloneInv' /\ ResultsInv'
  <2>1. CASE Ratings' = Ratings
    BY <1>1, <1>8, <2>1 DEF IInv, AloneInv, ResultsInv
  <2>2. CASE c \in Ratings /\ Ratings' = (Ratings \ {c}) \cup {a}
    <3>1. AloneInv'
      <4> SUFFICES ASSUME NEW d \in Ratings', d.session \notin Excepted'
                   PROVE  /\ \A e \in Ratings' : e = d
                          /\ \A e \in Finishes' : e.session # d.session
        BY DEF AloneInv
      <4>1. d = a
        BY <1>1, <2>2 DEF IInv, AloneInv
      <4>2. \A e \in Ratings : e = c
        BY <1>1, <1>3, <2>2, <4>1 DEF IInv, AloneInv
      <4>3. QED
        BY <1>1, <1>3, <1>8, <2>2, <4>1, <4>2 DEF IInv, AloneInv
    <3>2. ResultsInv'
      BY <1>1, <1>3, <2>2 DEF IInv, ResultsInv
    <3>3. QED
      BY <3>1, <3>2
  <2>3. QED
    BY <1>9, <2>1, <2>2
<1>12. \A d \in Ratings : Accepts(d)' = Accepts(d)
  BY <1>1 DEF Accepts
<1>13. LatestInv'
  <2>1. ASSUME NEW d \in Ratings', d.stage = "sent", d.session \notin Excepted', Accepts(d)'
        PROVE  latest'[d.session][d.card] = d.n
    BY <1>1, <1>3, <1>9, <1>12, <2>1 DEF IInv, LatestInv
  <2>2. ASSUME NEW s \in Gestures \ Excepted', NEW i \in Ordinals
        PROVE  latest'[s][i] = rated'[s][i] \/ Pending(s, i)'
    <3>1. s \in Gestures \ Excepted /\ (latest[s][i] = rated[s][i] \/ Pending(s, i))
      BY <1>1 DEF IInv, LatestInv
    <3>2. CASE s = c.session
      <4>1. c \in Ratings /\ c.stage = "sent" /\ \A d \in Ratings : d = c
        BY <1>1, <1>2, <1>9, <3>1, <3>2 DEF IInv, AloneInv
      <4>2. CASE Accepts(c) /\ i = c.card
        <5>1. latest[s][i] = c.n
          BY <3>1, <3>2, <4>1, <4>2 DEF IInv, LatestInv
        <5>2. rated'[s][i] = c.n
          BY <1>1, <1>2, <3>2, <4>2 DEF IInv, Types, TypeOK
        <5>3. QED
          BY <1>1, <5>1, <5>2
      <4>3. CASE ~(Accepts(c) /\ i = c.card)
        <5>1. latest[s][i] = rated[s][i]
          BY <3>1, <3>2, <4>1, <4>3 DEF Pending
        <5>2. rated'[s][i] = rated[s][i]
          BY <1>1, <1>2, <3>2, <4>3 DEF IInv, Types, TypeOK
        <5>3. QED
          BY <1>1, <5>1, <5>2
      <4>4. QED
        BY <4>2, <4>3
    <3>3. CASE s # c.session
      <4>1. rated'[s][i] = rated[s][i]
        BY <1>1, <1>2, <3>3 DEF IInv, Types, TypeOK
      <4>2. Pending(s, i) => Pending(s, i)'
        BY <1>9, <1>12, <3>3 DEF Pending
      <4>3. QED
        BY <1>1, <3>1, <4>1, <4>2
    <3>4. QED
      BY <3>2, <3>3
  <2>3. QED
    BY <2>1, <2>2 DEF LatestInv
<1>14. CursorInv'
  BY <1>1, <1>3, <1>9 DEF IInv, CursorInv, CursorWithinDeck, OnDeck
<1>15. QED
  BY <1>6, <1>7, <1>10, <1>11, <1>13, <1>14 DEF IInv

\* A session is completed with no rating of it under way.
LEMMA CompleteIInv ==
  ASSUME IInv, NEW c \in calls, Complete(c), UNCHANGED history
  PROVE  IInv'
<1> PICK a : a = [c EXCEPT !.stage = "done"]
  OBVIOUS
<1>1. /\ c.kind = "finish" /\ c.stage \in {"sent", "orphan"} /\ Answer(c, a)
      /\ sessions' = [sessions EXCEPT ![c.session].open = FALSE]
      /\ UNCHANGED <<page, idx, track, active, rated, gestures>>
      /\ UNCHANGED <<failed, hurried, crossed, ranOut, latest, Excepted>>
  BY DEF Complete, Arrives, history, Excepted
<1>2. /\ c.session \in Gestures /\ c \in Call /\ sessions[c.session] # None
      /\ c.stage = "orphan" => c.session \in Excepted
      /\ About(c) = c.session /\ c.n <= gestures
  BY <1>1, CallFacts DEF CallInv, Excepted
<1>3. /\ a \in Call /\ a.n = c.n /\ a.kind = "finish" /\ a.stage = "done"
      /\ a.session = c.session /\ a.deck = c.deck
  BY <1>1, <1>2 DEF Call
<1>4. /\ sessions[c.session] \in Session
      /\ sessions' \in [Gestures -> Session \cup {None}]
      /\ sessions'[c.session] # None /\ ~sessions'[c.session].open
      /\ \A s \in Gestures : s # c.session => sessions'[s] = sessions[s]
      /\ \A s \in Gestures : sessions'[s] = None <=> sessions[s] = None
  <2>1. sessions[c.session] \in Session
    BY <1>2 DEF IInv, Types, TypeOK
  <2>2. [sessions[c.session] EXCEPT !.open = FALSE] \in Session
    BY <2>1 DEF Session
  <2>3. sessions'[c.session] = [sessions[c.session] EXCEPT !.open = FALSE]
    BY <1>1, <1>2 DEF IInv, Types, TypeOK
  <2>4. ~sessions'[c.session].open
    BY <2>1, <2>3 DEF Session
  <2>5. QED
    BY <1>1, <1>2, <2>1, <2>2, <2>3, <2>4, NoneFacts DEF IInv, Types, TypeOK
<1>5. calls' \subseteq (calls \ {c}) \cup {a}
  BY DEF Answer, Complete
<1>6. Types'
  BY <1>1, <1>3, <1>4, <1>5 DEF IInv, Types, TypeOK, HistoryTypes
<1>7. CallsInv'
  <2>1. CallInv(a)'
    BY <1>1, <1>2, <1>3, <1>4, NoneFacts DEF CallInv
  <2>2. \A d \in calls : CallInv(d)'
    BY <1>1, <1>4, CallFacts DEF CallInv, About
  <2>3. active' # None => sessions'[active'] # None
    BY <1>1, <1>4 DEF IInv, CallsInv, Types, TypeOK
  <2>4. \A s \in Gestures : sessions'[s] # None => s <= gestures'
    BY <1>1, <1>4 DEF IInv, CallsInv
  <2>5. \A d \in calls' : CallInv(d)' /\ (d.kind = "start" => d \in calls)
    BY <1>3, <1>5, <2>1, <2>2
  <2>6. QED
    BY <2>3, <2>4, <2>5 DEF IInv, CallsInv
<1>8. UNCHANGED <<Starts, Ratings>>
  <2>1. CASE c.stage = "orphan"
    BY <1>1, <2>1, OrphanFacts
  <2>2. CASE c.stage # "orphan"
    BY <1>1, <1>3, <2>2, AnswerFacts
  <2>3. QED
    BY <2>1, <2>2
<1>9. \/ c.stage = "orphan" /\ Finishes' = Finishes /\ c \notin Finishes
      \/ c.stage # "orphan" /\ c \in Finishes /\ Finishes' = (Finishes \ {c}) \cup {a}
  <2>1. CASE c.stage = "orphan"
    BY <1>1, <2>1, OrphanFacts DEF Finishes, Awaited
  <2>2. CASE c.stage # "orphan"
    <3>1. /\ a \in Call /\ a.stage # "orphan" /\ a.kind = c.kind /\ a.n = c.n
          /\ Answer(c, a)
      BY <1>1, <1>3
    <3>2. c.kind = "finish"
      BY <1>1, <1>3
    <3>3. QED
      BY <2>2, <3>1, <3>2, AnswerFacts, Zenon
  <2>3. QED
    BY <2>1, <2>2
<1>10. StartsInv'
  BY <1>1, <1>8 DEF IInv, StartsInv
<1>11. ToggleInv'
  BY <1>1, <1>3, <1>8, <1>9 DEF IInv, ToggleInv, ToggleMeansSession, Starts
<1>12. OpenInv'
  BY <1>1, <1>4, <1>8 DEF IInv, OpenInv
<1>13. AloneInv'
  BY <1>1, <1>3, <1>8, <1>9 DEF IInv, AloneInv
<1>14. LatestInv'
  <2>1. \A d \in Ratings : d.session \in Gestures
    BY CallFacts DEF Ratings, Awaited
  <2>2. ASSUME NEW d \in Ratings, d.session # c.session PROVE Accepts(d)' = Accepts(d)
    BY <1>4, <2>1, <2>2 DEF Accepts
  <2>3. ASSUME NEW d \in Ratings, d.session = c.session PROVE ~Accepts(d)'
    BY <1>4, <2>3 DEF Accepts
  <2>4. ASSUME NEW s \in Gestures \ Excepted, NEW i \in Ordinals, Pending(s, i)
        PROVE  Pending(s, i)'
    <3>1. PICK d \in Ratings : d.stage = "sent" /\ d.session = s /\ d.card = i /\ Accepts(d)
      BY <2>4 DEF Pending
    <3>2. d.session # c.session
      BY <1>2, <1>9, <3>1 DEF IInv, AloneInv
    <3>3. QED
      BY <1>8, <2>2, <3>1, <3>2 DEF Pending
  <2>5. QED
    BY <1>1, <1>8, <2>2, <2>3, <2>4 DEF IInv, LatestInv
<1>15. ResultsInv' /\ CursorInv'
  BY <1>1, <1>8 DEF IInv, ResultsInv, CursorInv, CursorWithinDeck, OnDeck
<1>16. QED
  BY <1>6, <1>7, <1>10, <1>11, <1>12, <1>13, <1>14, <1>15 DEF IInv

-----------------------------------------------------------------------------
(***************************************************************************)
(* What follows the await of a call.                                       *)
(***************************************************************************)

\* A call settles: it is gone, but for an orphan if it failed on its way, and may
\* have sent a finish.
Settling(c, rest, new) ==
  /\ c \in Awaited
  /\ rest \subseteq {[c EXCEPT !.stage = "orphan"]}
  /\ rest # {} => c.stage = "sent"
  /\ c.stage = "sent" => About(c) \in failed'
  /\ new \subseteq FinishActive(c.n, c.deck)
  /\ c.kind # "rate" => new = {}
  /\ Settled(c, rest, new)
  /\ failed' \in {failed, failed \cup {About(c)}}
  /\ UNCHANGED <<sessions, rated, gestures, hurried, crossed, latest>>

LEMMA SettlingCalls ==
  ASSUME IInv, NEW c, NEW rest, NEW new, Settling(c, rest, new)
  PROVE  /\ c \in calls /\ c.stage # "orphan"
         /\ \A x \in rest : /\ x \in Call /\ x.stage = "orphan" /\ About(x) = About(c)
                            /\ x.n = c.n /\ x.kind = c.kind /\ x.session = c.session
                            /\ x.card = c.card
                            /\ x = [c EXCEPT !.stage = "orphan"]
         /\ \A x \in new : /\ x \in Call /\ x.stage = "sent" /\ x.kind = "finish" /\ x.n = c.n
                           /\ x.session = active /\ active \in Gestures /\ sessions[active] # None
<1>1. c \in calls /\ c.stage # "orphan"
  BY DEF Settling, Awaited
<1>2. c \in Call /\ c.n \in Gestures /\ c.deck \in Decks /\ c.n <= gestures /\ gestures' = gestures
  BY <1>1, CallFacts DEF CallInv, Settling
<1>3. \A x \in new : /\ x \in Call /\ x.stage = "sent" /\ x.kind = "finish" /\ x.n = c.n
                     /\ x.session = active /\ active \in Gestures /\ sessions[active] # None
  BY <1>2, FinishFacts DEF Settling
<1>4. \A x \in rest : /\ x \in Call /\ x.stage = "orphan" /\ About(x) = About(c)
                      /\ x.n = c.n /\ x.kind = c.kind /\ x.session = c.session
                      /\ x.card = c.card
                      /\ x = [c EXCEPT !.stage = "orphan"]
  BY <1>2 DEF Settling, Call, About
<1>5. QED
  BY <1>1, <1>3, <1>4

LEMMA SettlingFacts ==
  ASSUME IInv, NEW c, NEW rest, NEW new, Settling(c, rest, new)
  PROVE  /\ calls' \subseteq Call
         /\ Ratings' = Ratings \ {c} /\ Starts' = Starts \ {c}
         /\ Finishes' = (Finishes \ {c}) \cup new
         /\ failed' \subseteq Gestures /\ Excepted \subseteq Excepted'
<1>1. calls' = (calls \ {c}) \cup rest \cup new
  BY DEF Settling, Settled
<1>2. calls' \subseteq Call
  BY <1>1, SettlingCalls DEF IInv, Types, TypeOK
<1>3. Awaited' = (Awaited \ {c}) \cup new
  BY <1>1, SettlingCalls DEF Awaited
<1>4. Ratings' = Ratings \ {c} /\ Starts' = Starts \ {c}
  BY <1>3, SettlingCalls DEF Ratings, Starts
<1>5. Finishes' = (Finishes \ {c}) \cup new
  BY <1>3, SettlingCalls DEF Finishes
<1>6. failed' \subseteq Gestures /\ Excepted \subseteq Excepted'
  BY SettlingCalls, CallFacts DEF Settling, IInv, Types, HistoryTypes, Excepted
<1>7. QED
  BY <1>2, <1>4, <1>5, <1>6

LEMMA SettlingCallsInv ==
  ASSUME IInv, NEW c, NEW rest, NEW new, Settling(c, rest, new),
         active' # None => sessions[active'] # None
  PROVE  CallsInv'
<1>1. calls' = (calls \ {c}) \cup rest \cup new /\ UNCHANGED <<sessions, gestures>>
  BY DEF Settling, Settled
<1>2. CallInv(c) /\ c \in Call /\ c.n <= gestures
  BY SettlingCalls, CallFacts DEF CallInv
<1>3. failed \subseteq failed'
  BY DEF Settling
<1>4. \A x \in calls : CallInv(x)'
  <2> SUFFICES ASSUME NEW x \in calls PROVE CallInv(x)'
    OBVIOUS
  <2>1. CallInv(x)
    BY CallFacts
  <2>2. QED
    BY <1>1, <1>3, <2>1 DEF CallInv, About
<1>5. \A x \in rest : CallInv(x)'
  <2> SUFFICES ASSUME NEW x \in rest PROVE CallInv(x)'
    OBVIOUS
  <2>1. /\ x.n = c.n /\ x.kind = c.kind /\ x.session = c.session /\ x.card = c.card
        /\ x.stage = "orphan" /\ About(x) = About(c) /\ c.stage = "sent"
        /\ About(x) \in failed'
    BY SettlingCalls DEF Settling
  <2>2. QED
    BY <1>1, <1>2, <2>1 DEF CallInv, About
<1>6. \A x \in new : CallInv(x)'
  BY <1>1, <1>2, SettlingCalls, NoneFacts DEF CallInv
<1>7. ASSUME NEW x \in calls', NEW y \in calls', x.kind = "start", y.kind = "start", x.n = y.n
      PROVE  x = y
  <2>1. \A d, e \in calls : d.kind = "start" /\ e.kind = "start" /\ d.n = e.n => d = e
    BY DEF IInv, CallsInv
  <2>2. x \notin new /\ y \notin new
    BY <1>7, SettlingCalls
  <2>3. CASE x \in calls \ {c} /\ y \in calls \ {c}
    BY <1>7, <2>1, <2>3
  <2>4. CASE x \in rest /\ y \in rest
    BY <2>4, SettlingCalls
  <2>5. CASE (x \in rest /\ y \in calls \ {c}) \/ (y \in rest /\ x \in calls \ {c})
    <3>1. c \in calls /\ \A z \in rest : z.kind = c.kind /\ z.n = c.n
      BY SettlingCalls
    <3>2. ASSUME NEW z \in rest, NEW d \in calls, z.kind = "start", d.kind = "start", z.n = d.n
          PROVE  d = c
      BY <2>1, <3>1, <3>2
    <3>3. QED
      BY <1>7, <2>5, <3>2
  <2>6. (x \in calls \ {c} \/ x \in rest) /\ (y \in calls \ {c} \/ y \in rest)
    BY <1>1, <1>7, <2>2
  <2>7. QED
    BY <2>3, <2>4, <2>5, <2>6
<1>8. QED
  BY <1>1, <1>4, <1>5, <1>6, <1>7 DEF IInv, CallsInv

\* The settlement of a rating that sends a finish leaves no other rating under way.
LEMMA SettlingRatings ==
  ASSUME IInv, NEW c, NEW rest, NEW new, Settling(c, rest, new)
  PROVE  AloneInv' /\ LatestInv'
<1>1. AloneInv'
  <2> SUFFICES ASSUME NEW d \in Ratings', d.session \notin Excepted'
               PROVE  /\ \A e \in Ratings' : e = d
                      /\ \A e \in Finishes' : e.session # d.session
    BY DEF AloneInv
  <2>1. d \in Ratings \ {c} /\ d.session \notin Excepted
    BY SettlingFacts
  <2>2. (\A e \in Ratings : e = d) /\ \A e \in Finishes : e.session # d.session
    BY <2>1 DEF IInv, AloneInv
  <2>3. c.kind # "rate"
    BY <2>1, <2>2 DEF Ratings, Settling
  <2>4. new = {}
    BY <2>3 DEF Settling
  <2>5. QED
    BY <2>2, <2>4, SettlingFacts
<1>2. \A d \in Ratings : Accepts(d)' = Accepts(d)
  BY DEF Accepts, Settling
<1>3. LatestInv'
  <2>1. ASSUME NEW s \in Gestures \ Excepted', NEW i \in Ordinals, Pending(s, i)
        PROVE  Pending(s, i)'
    <3>1. PICK d \in Ratings : d.stage = "sent" /\ d.session = s /\ d.card = i /\ Accepts(d)
      BY <2>1 DEF Pending
    <3>2. d # c
      BY <2>1, <3>1 DEF Settling, Excepted, About, Ratings
    <3>3. QED
      BY <1>2, <3>1, <3>2, SettlingFacts DEF Pending
  <2>2. UNCHANGED <<latest, rated>>
    BY DEF Settling
  <2>3. QED
    BY <1>2, <2>1, <2>2, SettlingFacts DEF IInv, LatestInv
<1>4. QED
  BY <1>1, <1>3

\* A session whose call settles stays closed, active or starting if it was and is
\* not excepted by now.
LEMMA SettlingOpen ==
  ASSUME IInv, NEW c, NEW rest, NEW new, Settling(c, rest, new),
         active' # active =>
           /\ active \in Gestures =>
                active \in Excepted' \/ ~sessions[active].open
           /\ c.kind = "start" => active' = c.n,
         active' = active /\ c.kind = "start" => c.n \in Excepted' \/ c.n = active
  PROVE  OpenInv'
<1> SUFFICES ASSUME NEW s \in Gestures \ Excepted', sessions[s] # None, sessions[s].open
             PROVE  s = active' \/ \E d \in Starts' : d.n = s
  BY DEF OpenInv, Settling
<1>1. s \notin Excepted
  BY SettlingFacts
<1>2. s = active \/ \E d \in Starts : d.n = s
  BY <1>1 DEF IInv, OpenInv
<1>3. \A d \in Starts : d = c \/ d \in Starts'
  BY SettlingFacts
<1>4. c \in Starts => c.kind = "start"
  BY DEF Starts
<1>5. QED
  BY <1>2, <1>3, <1>4

\* A rating settles, one way or the other: the cursor moves on, and at the end of
\* the deck a finish is sent.
LEMMA AfterRateIInv ==
  ASSUME IInv, NEW c, NEW rest, AfterRate(c, rest), Settling(c, rest, AtTheEnd(c)),
         UNCHANGED ranOut
  PROVE  IInv'
<1> PICK new : new = AtTheEnd(c)
  OBVIOUS
<1>1. /\ c.kind = "rate" /\ idx' = Advanced(c.deck) /\ UNCHANGED <<page, track, active>>
      /\ UNCHANGED <<sessions, rated, gestures, hurried, crossed, latest>>
  BY DEF AfterRate, Settling
<1>2. idx' \in Nat /\ (idx < c.deck => idx' < c.deck) /\ c.deck \in Decks
  BY <1>1, SettlingCalls, CallFacts, DeckFacts DEF Advanced, IsLast, IInv, Types, TypeOK
<1>3. Types'
  BY <1>1, <1>2, SettlingFacts DEF IInv, Types, TypeOK, HistoryTypes
<1>4. CallsInv'
  BY <1>1, SettlingCallsInv DEF IInv, CallsInv
<1>5. Starts' = Starts
  BY <1>1, SettlingFacts DEF Starts
<1>6. StartsInv'
  BY <1>1, <1>5, SettlingFacts DEF IInv, StartsInv
<1>7. ToggleInv'
  <2>1. \A d \in Finishes : d \in Finishes'
    BY <1>1, SettlingFacts DEF Finishes
  <2>2. QED
    BY <1>1, <1>5, <2>1, SettlingFacts DEF IInv, ToggleInv, ToggleMeansSession, Starts
<1>8. OpenInv'
  BY <1>1, SettlingOpen
<1>9. AloneInv' /\ LatestInv'
  BY SettlingRatings
<1>10. ResultsInv'
  BY <1>1, SettlingFacts DEF IInv, ResultsInv
<1>11. CursorInv'
  <2>1. OnDeck /\ ~crossed => idx < page.deck /\ c.deck = page.deck
    BY <1>1 DEF IInv, CursorInv, CursorWithinDeck, Settling, Ratings
  <2>2. QED
    BY <1>1, <1>2, <2>1, SettlingFacts DEF IInv, CursorInv, CursorWithinDeck, OnDeck
<1>12. QED
  BY <1>3, <1>4, <1>6, <1>7, <1>8, <1>9, <1>10, <1>11 DEF IInv

\* The session started becomes active; the one that was, if any, is excepted.
LEMMA AfterStartIInv ==
  ASSUME IInv, NEW c, AfterStart(c), Settling(c, {}, {}), UNCHANGED <<failed, ranOut>>
  PROVE  IInv'
<1>1. /\ c.kind = "start" /\ c.stage = "done" /\ active' = c.session
      /\ UNCHANGED <<page, idx, track, failed, ranOut>>
      /\ UNCHANGED <<sessions, rated, gestures, hurried, crossed, latest, Excepted>>
  BY DEF AfterStart, Settling, Excepted
<1>2. /\ c.session = c.n /\ c.n \in Gestures /\ sessions[c.n] # None /\ c \in Starts
      /\ active' \in Gestures /\ active' # None
  BY <1>1, SettlingCalls, CallFacts, NoneFacts DEF CallInv, Starts, Settling
<1>3. Types'
  BY <1>1, <1>2, SettlingFacts DEF IInv, Types, TypeOK, HistoryTypes
<1>4. CallsInv'
  BY <1>1, <1>2, SettlingCallsInv
<1>5. Finishes' = Finishes /\ Ratings' = Ratings
  BY <1>1, SettlingFacts DEF Finishes, Ratings
<1>6. StartsInv'
  <2>1. \A d \in Starts' : d \in Starts /\ d # c
    BY SettlingFacts
  <2>2. QED
    BY <1>1, <1>2, <2>1 DEF IInv, StartsInv
<1>7. ToggleInv'
  BY <1>1, <1>2 DEF IInv, ToggleInv, StartsInv, ToggleMeansSession
<1>8. active # None => active \in Excepted
  BY <1>2 DEF IInv, StartsInv
<1>9. OpenInv'
  BY <1>1, <1>2, <1>8, NoneFacts, SettlingOpen
<1>10. AloneInv' /\ LatestInv'
  BY SettlingRatings
<1>11. ResultsInv' /\ CursorInv'
  BY <1>1, <1>5 DEF IInv, ResultsInv, CursorInv, CursorWithinDeck, OnDeck
<1>12. QED
  BY <1>3, <1>4, <1>6, <1>7, <1>9, <1>10, <1>11 DEF IInv

\* The results of a finished session are shown: it is closed, and no rating of it
\* is under way.
LEMMA AfterFinishIInv ==
  ASSUME IInv, NEW c, AfterFinish(c), Settling(c, {}, {}), UNCHANGED failed,
         ranOut' = (ranOut \/ track)
  PROVE  IInv'
<1>1. /\ c.kind = "finish" /\ c.stage = "done" /\ active' = StillActive(c.session)
      /\ page' = [at |-> "results", deck |-> c.deck, session |-> c.session]
      /\ UNCHANGED <<idx, track, failed>>
      /\ UNCHANGED <<sessions, rated, gestures, hurried, crossed, latest, Excepted>>
  BY DEF AfterFinish, Settling, Excepted
<1>2. /\ c.session \in Gestures /\ c.deck \in Decks /\ ~sessions[c.session].open
      /\ c \in Finishes
  BY <1>1, SettlingCalls, CallFacts DEF CallInv, Finishes, Settling
<1>3. /\ active' = IF active = c.session THEN None ELSE active
      /\ active \in Gestures \cup {None}
  BY <1>1 DEF StillActive, IInv, Types, TypeOK
<1>4. Types'
  <2>1. page' \in Page
    BY <1>1, <1>2 DEF Page
  <2>2. ranOut' \in BOOLEAN
    BY DEF IInv, Types, TypeOK, HistoryTypes
  <2>3. active' \in Gestures \cup {None}
    BY <1>3
  <2>4. QED
    BY <1>1, <2>1, <2>2, <2>3, SettlingFacts DEF IInv, Types, TypeOK, HistoryTypes
<1>5. CallsInv'
  BY <1>1, <1>3, SettlingCallsInv DEF IInv, CallsInv
<1>6. Starts' = Starts /\ Ratings' = Ratings /\ \A d \in Finishes : d # c => d \in Finishes'
  BY <1>1, SettlingFacts DEF Starts, Ratings
<1>7. StartsInv'
  BY <1>1, <1>3, <1>6 DEF IInv, StartsInv
<1>8. ToggleInv'
  <2>1. ASSUME ~track, active' # None
        PROVE  active' \in Excepted \/ \E d \in Finishes' : d.session = active'
    BY <1>3, <1>6, <2>1 DEF IInv, ToggleInv
  <2>2. ToggleMeansSession'
    BY <1>1, <1>3, <1>6 DEF IInv, ToggleInv, ToggleMeansSession, Starts
  <2>3. QED
    BY <1>1, <2>1, <2>2 DEF ToggleInv
<1>9. OpenInv'
  BY <1>1, <1>2, <1>3, SettlingOpen
<1>10. AloneInv' /\ LatestInv'
  BY SettlingRatings
<1>11. ResultsInv'
  BY <1>1, <1>2, <1>6 DEF IInv, AloneInv, ResultsInv
<1>12. CursorInv'
  BY <1>1 DEF CursorInv, CursorWithinDeck, OnDeck
<1>13. QED
  BY <1>4, <1>5, <1>7, <1>8, <1>9, <1>10, <1>11, <1>12 DEF IInv

\* A start that fails turns the toggle off; another one under way is excepted.
LEMMA FailStartIInv ==
  ASSUME IInv, NEW c, NEW rest, FailStart(c, rest), Settling(c, rest, {}),
         About(c) \in failed', UNCHANGED ranOut
  PROVE  IInv'
<1>1. /\ c.kind = "start" /\ track' = FALSE /\ UNCHANGED <<page, idx, active, ranOut>>
      /\ UNCHANGED <<sessions, rated, gestures, hurried, crossed, latest>>
  BY DEF FailStart, Reverted, Settling
<1>2. c \in Starts /\ c.n \in Excepted'
  BY <1>1 DEF Starts, Settling, Excepted, About
<1>3. Types'
  BY <1>1, SettlingFacts DEF IInv, Types, TypeOK, HistoryTypes
<1>4. CallsInv'
  BY <1>1, SettlingCallsInv DEF IInv, CallsInv
<1>5. \A d \in Starts' : d \in Starts /\ d # c
  BY SettlingFacts
<1>6. StartsInv'
  BY <1>1, <1>2, <1>5, SettlingFacts DEF IInv, StartsInv
<1>7. ToggleInv'
  BY <1>1, <1>2, SettlingFacts DEF IInv, StartsInv, ToggleInv, ToggleMeansSession
<1>8. OpenInv'
  BY <1>1, <1>2, SettlingOpen
<1>9. AloneInv' /\ LatestInv'
  BY SettlingRatings
<1>10. ResultsInv' /\ CursorInv'
  BY <1>1, SettlingFacts DEF IInv, ResultsInv, CursorInv, CursorWithinDeck, OnDeck
<1>11. QED
  BY <1>3, <1>4, <1>6, <1>7, <1>8, <1>9, <1>10 DEF IInv

LEMMA FailFinishIInv ==
  ASSUME IInv, NEW c, NEW rest, FailFinish(c, rest), Settling(c, rest, {}),
         About(c) \in failed', UNCHANGED ranOut
  PROVE  IInv'
<1>1. /\ c.kind = "finish" /\ UNCHANGED <<page, idx, track, active, ranOut>>
      /\ UNCHANGED <<sessions, rated, gestures, hurried, crossed, latest>>
      /\ c.session \in Excepted'
  BY DEF FailFinish, Settling, Excepted, About
<1>2. Types'
  BY <1>1, SettlingFacts DEF IInv, Types, TypeOK, HistoryTypes
<1>3. CallsInv'
  BY <1>1, SettlingCallsInv DEF IInv, CallsInv
<1>4. Starts' = Starts /\ Ratings' = Ratings /\ \A d \in Finishes : d # c => d \in Finishes'
  BY <1>1, SettlingFacts DEF Starts, Ratings
<1>5. StartsInv'
  BY <1>1, <1>4, SettlingFacts DEF IInv, StartsInv
<1>6. ToggleInv'
  BY <1>1, <1>4, SettlingFacts DEF IInv, ToggleInv, ToggleMeansSession, Starts
<1>7. OpenInv'
  BY <1>1, SettlingOpen
<1>8. AloneInv' /\ LatestInv'
  BY SettlingRatings
<1>9. ResultsInv' /\ CursorInv'
  BY <1>1, <1>4, SettlingFacts DEF IInv, ResultsInv, CursorInv, CursorWithinDeck, OnDeck
<1>10. QED
  BY <1>2, <1>3, <1>5, <1>6, <1>7, <1>8, <1>9 DEF IInv

LEMMA SettleIInv ==
  ASSUME IInv, NEW c \in calls, HistorySettle(c)
  PROVE  IInv'
<1>1. CASE Receive(c) /\ ranOut' = (ranOut \/ (c.kind = "finish" /\ track))
           /\ UNCHANGED <<failed, hurried, crossed, latest>>
  <2>1. CASE c.stage \in {"done", "refused"} /\ AfterRate(c, {})
    <3>1. Settling(c, {}, AtTheEnd(c))
      BY <1>1, <2>1 DEF AfterRate, Settling, Awaited, AtTheEnd, server
    <3>2. c.kind = "rate" /\ ranOut \in BOOLEAN
      BY <2>1 DEF AfterRate, IInv, Types, HistoryTypes
    <3>3. QED
      BY <1>1, <2>1, <3>1, <3>2, AfterRateIInv
  <2>2. CASE AfterStart(c)
    <3>1. Settling(c, {}, {})
      BY <1>1, <2>2 DEF AfterStart, Settling, Awaited, server
    <3>2. c.kind = "start" /\ ranOut \in BOOLEAN
      BY <2>2 DEF AfterStart, IInv, Types, HistoryTypes
    <3>3. QED
      BY <1>1, <2>2, <3>1, <3>2, AfterStartIInv
  <2>3. CASE AfterFinish(c)
    <3>1. Settling(c, {}, {})
      BY <1>1, <2>3 DEF AfterFinish, Settling, Awaited, server
    <3>2. c.kind = "finish"
      BY <2>3 DEF AfterFinish
    <3>3. QED
      BY <1>1, <2>3, <3>1, <3>2, AfterFinishIInv
  <2>4. QED
    BY <1>1, <2>1, <2>2, <2>3 DEF Receive
<1>2. CASE Fail(c) /\ failed' = failed \cup {About(c)}
           /\ UNCHANGED <<hurried, crossed, ranOut, latest>>
  <2>1. PICK rest \in SUBSET (IF c.stage = "sent" THEN {[c EXCEPT !.stage = "orphan"]} ELSE {}) :
          AfterRate(c, rest) \/ FailStart(c, rest) \/ FailFinish(c, rest)
    BY <1>2 DEF Fail
  <2>2. /\ c \in Awaited /\ rest \subseteq {[c EXCEPT !.stage = "orphan"]}
        /\ rest # {} => c.stage = "sent"
        /\ About(c) \in failed'
    BY <1>2, <2>1 DEF Fail
  <2>3. CASE AfterRate(c, rest)
    <3>1. Settling(c, rest, AtTheEnd(c))
      BY <1>2, <2>2, <2>3 DEF AfterRate, Settling, AtTheEnd, server
    <3>2. QED
      BY <1>2, <2>3, <3>1, AfterRateIInv
  <2>4. CASE FailStart(c, rest)
    <3>1. Settling(c, rest, {})
      BY <1>2, <2>2, <2>4 DEF FailStart, Settling, server
    <3>2. QED
      BY <1>2, <2>2, <2>4, <3>1, FailStartIInv
  <2>5. CASE FailFinish(c, rest)
    <3>1. Settling(c, rest, {})
      BY <1>2, <2>2, <2>5 DEF FailFinish, Settling, server
    <3>2. QED
      BY <1>2, <2>2, <2>5, <3>1, FailFinishIInv
  <2>6. QED
    BY <2>1, <2>3, <2>4, <2>5
<1>3. QED
  BY <1>1, <1>2 DEF HistorySettle

-----------------------------------------------------------------------------

\* The invariant behind the theorems below, for any decks and any number of
\* gestures, visits, reloads and calls under way (practiceState.ts,
\* sessionAtom.ts): a session acted on in peace has one call at a time, and what is
\* awaited about it agrees with the server and the atoms.
THEOREM Invariance == HistorySpec => []IInv
<1>1. IInv /\ [HistoryNext]_historyVars => IInv'
  <2> SUFFICES ASSUME IInv, [HistoryNext]_historyVars PROVE IInv'
    OBVIOUS
  <2>1. ASSUME NEW deck \in Decks, HistoryVisit(deck) PROVE IInv'
    BY <2>1, VisitIInv
  <2>2. CASE HistoryReload \/ HistoryAct
    BY <2>2, ReloadIInv, ActIInv
  <2>3. CASE (Leave \/ Move) /\ UNCHANGED history
    BY <2>3, MoveIInv
  <2>4. ASSUME NEW c \in calls, Serve(c), UNCHANGED history PROVE IInv'
    BY <2>4, StartIInv, StoreRatingIInv, CompleteIInv DEF Serve
  <2>5. ASSUME NEW c \in calls, HistorySettle(c) PROVE IInv'
    BY <2>5, SettleIInv
  <2>6. CASE UNCHANGED historyVars
    <3>1. Types'
      BY <2>6 DEF historyVars, vars, server, history, IInv, Types, TypeOK, HistoryTypes
    <3>2. CursorInv'
      BY <2>6 DEF historyVars, vars, history, IInv, CursorInv, CursorWithinDeck, OnDeck, Ratings, Awaited
    <3>3. QED
      BY <2>6, <3>1, <3>2, QuietIInv DEF historyVars, vars, history
  <2>7. QED
    BY <2>1, <2>2, <2>3, <2>4, <2>5, <2>6 DEF HistoryNext
<1>2. QED
  BY <1>1, InitIInv, PTL DEF HistorySpec

\* Atoms, calls, sessions and ratings keep their types.
THEOREM TypeCorrectness == HistorySpec => []TypeOK
<1>1. IInv => TypeOK
  BY DEF IInv, Types
<1>2. QED
  BY <1>1, Invariance, PTL

\* The cursor is on a card of the deck shown unless a rating crosses over from
\* another deck (advanceCardAction, the route loader).
THEOREM Cursor == HistorySpec => []CursorWithinDeck
<1>1. IInv => CursorWithinDeck
  BY DEF IInv, CursorInv
<1>2. QED
  BY <1>1, Invariance, PTL

\* While the toggle is on there is a session, or one is being started, unless the
\* end of a deck has finished it (toggleTrackingAction).
THEOREM Toggle == HistorySpec => []ToggleMeansSession
<1>1. IInv => ToggleMeansSession
  BY DEF IInv, ToggleInv
<1>2. QED
  BY <1>1, Invariance, PTL

\* A session that no failure or hurry touched is not left open: it is active, or a
\* call about it is under way (startSessionAction, finishSessionAction).
THEOREM NotForgotten == HistorySpec => []NoSessionForgotten
<1>1. IInv => NoSessionForgotten
  <2>1. \A c \in Starts : c.n \in UnderWay
    BY DEF Starts, UnderWay, About
  <2>2. QED
    BY <2>1 DEF IInv, OpenInv, NoSessionForgotten, Excepted
<1>2. QED
  BY <1>1, Invariance, PTL

\* The results of such a session count its every rating, the latest of each card
\* (rateAndAdvanceAction, finishNowAction).
THEOREM Results == HistorySpec => []ResultsCountEveryRating
<1>1. IInv => ResultsCountEveryRating
  <2> SUFFICES ASSUME IInv, NEW s \in Gestures \ Excepted,
                      page.at = "results", page.session = s
               PROVE  rated[s] = latest[s]
    BY DEF ResultsCountEveryRating, Excepted
  <2>1. \A i \in Ordinals : ~Pending(s, i)
    BY DEF IInv, ResultsInv, Pending
  <2>2. \A i \in Ordinals : latest[s][i] = rated[s][i]
    BY <2>1 DEF IInv, LatestInv
  <2>3. /\ rated[s] \in [Ordinals -> Gestures \cup {None}]
        /\ latest[s] \in [Ordinals -> Gestures \cup {None}]
    BY DEF IInv, Types, TypeOK, HistoryTypes
  <2>4. QED
    BY <2>2, <2>3
<1>2. QED
  BY <1>1, Invariance, PTL
=============================================================================
