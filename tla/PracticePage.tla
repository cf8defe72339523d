---------------------------- MODULE PracticePage ----------------------------
(***************************************************************************)
(* The practice page of the client: a cursor over the cards of a deck, the *)
(* "track progress" toggle and the practice session behind it.  Cursor,    *)
(* toggle and active session are module-level atoms: they outlive a visit  *)
(* of the page.  Rating a card, starting and finishing a session are       *)
(* calls; what follows the await of a call reads the atoms as they are by  *)
(* then, wherever the user has gone meanwhile.                             *)
(*                                                                         *)
(* The server is the practice context, one step per request (its inside is *)
(* module Practice).  A call may fail before or after the server has done  *)
(* its part; an await that is aborted looks like a failure to the code.    *)
(***************************************************************************)
EXTENDS Integers, FiniteSets

CONSTANTS
  Decks,        \* the user's decks, each told by the number of its cards
  None,
  MaxGestures   \* bound: ratings and toggles in a behaviour

ASSUME DecksAssumption ==
  Decks \subseteq Nat \ {0} /\ \E n \in Decks : \A m \in Decks : m <= n
ASSUME BoundAssumption == MaxGestures \in Nat

\* A call, and the session it starts, is named after the gesture it comes from.
Gestures == 1..MaxGestures
Ordinals == 1..(CHOOSE n \in Decks : \A m \in Decks : m <= n)
Call == [n : Gestures, kind : {"start", "rate", "finish"}, deck : Decks,
         session : Gestures \cup {None}, card : Ordinals \cup {None},
         stage : {"sent", "done", "refused", "orphan"}]
Page == [at : {"elsewhere"}] \cup [at : {"practice"}, deck : Decks]
          \cup [at : {"results"}, deck : Decks, session : Gestures]
Session == [deck : Decks, open : BOOLEAN]

ASSUME NoneAssumption == None \notin Gestures \cup Ordinals \cup Session

VARIABLES
  page,      \* where the browser is
  idx,       \* currentCardIdxAtom
  track,     \* trackProgressAtom
  active,    \* activeSessionAtom: a session, or None
  calls,     \* requests on their way; nobody waits for an orphan
  sessions,  \* practice.sessions: sessions[s] a Session or None
  rated,     \* rated[s][i]: the gesture whose rating of card i is stored, or None
  gestures   \* the number of ratings and toggles so far

server == <<sessions, rated>>
vars == <<page, idx, track, active, calls, server, gestures>>

Init ==
  /\ page = [at |-> "elsewhere"]
  /\ idx = 0
  /\ track = FALSE
  /\ active = None
  /\ calls = {}
  /\ sessions = [s \in Gestures |-> None]
  /\ rated = [s \in Gestures |-> [i \in Ordinals |-> None]]
  /\ gestures = 0

OnDeck == page.at = "practice"
Awaited == {c \in calls : c.stage # "orphan"}

\* The session a call is about, which a start has yet to create.
About(c) == IF c.kind = "start" THEN c.n ELSE c.session

Request(n, kind, deck, session, card) ==
  [n |-> n, kind |-> kind, deck |-> deck, session |-> session, card |-> card,
   stage |-> "sent"]

(***************************************************************************)
(* The cursor.                                                             *)
(***************************************************************************)

\* Mutant: the end of the deck is missed by one.
IsLastMissed(deck) == idx + 1 > deck

IsLast(deck) == idx + 1 >= deck

\* advanceCardAction: at the last card the cursor stays.
Advanced(deck) == IF IsLast(deck) THEN idx ELSE idx + 1

\* finishNowAction, and turning the toggle off: finish the session that is
\* active by now, and show its results under the given deck.
FinishActive(n, deck) ==
  IF active = None THEN {} ELSE {Request(n, "finish", deck, active, None)}

\* Mutant: the callback of the end of the deck is not passed on.
AtTheEndNothing(c) == {}

\* onFinish, called by a rating that finds the cursor on the last card.
AtTheEnd(c) == IF IsLast(c.deck) THEN FinishActive(c.n, c.deck) ELSE {}

(***************************************************************************)
(* What the user does.                                                     *)
(***************************************************************************)

\* Mutant: entering a deck does not reset the cursor.
FirstCardKept == idx

FirstCard == 0

\* The route loader resets the cursor and loads the deck; toggle and active
\* session are left as they are.
Visit(deck) ==
  /\ ~OnDeck
  /\ page' = [at |-> "practice", deck |-> deck]
  /\ idx' = FirstCard
  /\ UNCHANGED <<track, active, calls, server, gestures>>

Leave ==
  /\ page.at # "elsewhere"
  /\ page' = [at |-> "elsewhere"]
  /\ UNCHANGED <<idx, track, active, calls, server, gestures>>

\* The browser reloads the application: the atoms start anew, what was sent may
\* still reach the server.
Reload ==
  /\ idx' = 0
  /\ track' = FALSE
  /\ active' = None
  /\ calls' = {[c EXCEPT !.stage = "orphan"] : c \in {d \in calls : d.stage \in {"sent", "orphan"}}}
  /\ UNCHANGED <<page, server, gestures>>

NextCard ==
  /\ OnDeck
  /\ ~IsLast(page.deck)
  /\ idx' = idx + 1
  /\ UNCHANGED <<page, track, active, calls, server, gestures>>

\* Mutant: the first card is not the end of it.
PreviousUnbounded ==
  /\ OnDeck
  /\ idx' = idx - 1
  /\ UNCHANGED <<page, track, active, calls, server, gestures>>

PreviousCard ==
  /\ OnDeck
  /\ idx > 0
  /\ idx' = idx - 1
  /\ UNCHANGED <<page, track, active, calls, server, gestures>>

Gesture == OnDeck /\ gestures < MaxGestures /\ gestures' = gestures + 1

CanRate == track /\ idx < page.deck

\* Mutant: the cursor does not wait for the answer.
RateUnawaited ==
  /\ Gesture /\ CanRate
  /\ active # None
  /\ idx' = Advanced(page.deck)
  /\ calls' = calls \cup {[Request(gestures + 1, "rate", page.deck, active, idx + 1)
                             EXCEPT !.stage = "orphan"]}
       \cup (IF IsLast(page.deck) THEN FinishActive(gestures + 1, page.deck) ELSE {})
  /\ UNCHANGED <<page, track, active, server>>

\* rateAndAdvanceAction up to its await: the rating is sent, the cursor waits.
Rate ==
  /\ Gesture /\ CanRate
  /\ active # None
  /\ calls' = calls \cup {Request(gestures + 1, "rate", page.deck, active, idx + 1)}
  /\ UNCHANGED <<page, idx, track, active, server>>

\* Without an active session nothing is sent, and nothing says so.
RateNothing ==
  /\ Gesture /\ CanRate
  /\ active = None
  /\ idx' = Advanced(page.deck)
  /\ UNCHANGED <<page, track, active, calls, server>>

\* toggleTrackingAction up to its await.
TurnOn ==
  /\ Gesture /\ ~track
  /\ track' = TRUE
  /\ calls' = calls \cup {Request(gestures + 1, "start", page.deck, None, None)}
  /\ UNCHANGED <<page, idx, active, server>>

TurnOff ==
  /\ Gesture /\ track
  /\ track' = FALSE
  /\ calls' = calls \cup FinishActive(gestures + 1, page.deck)
  /\ UNCHANGED <<page, idx, active, server>>

(***************************************************************************)
(* What the server does with a request.                                    *)
(***************************************************************************)

Arrives(c, kind) == c.kind = kind /\ c.stage \in {"sent", "orphan"}

Answer(c, answer) ==
  calls' = (calls \ {c}) \cup (IF c.stage = "orphan" THEN {} ELSE {answer})

Start(c) ==
  /\ Arrives(c, "start")
  /\ sessions' = [sessions EXCEPT ![c.n] = [deck |-> c.deck, open |-> TRUE]]
  /\ Answer(c, [c EXCEPT !.stage = "done", !.session = c.n])
  /\ UNCHANGED <<page, idx, track, active, rated, gestures>>

\* Session.Rate: the session must be in progress, the card one of its deck's.
Accepts(c) == sessions[c.session].open /\ sessions[c.session].deck = c.deck

StoreRating(c) ==
  /\ Arrives(c, "rate")
  /\ rated' = IF Accepts(c) THEN [rated EXCEPT ![c.session][c.card] = c.n] ELSE rated
  /\ Answer(c, [c EXCEPT !.stage = IF Accepts(c) THEN "done" ELSE "refused"])
  /\ UNCHANGED <<page, idx, track, active, sessions, gestures>>

Complete(c) ==
  /\ Arrives(c, "finish")
  /\ sessions' = [sessions EXCEPT ![c.session].open = FALSE]
  /\ Answer(c, [c EXCEPT !.stage = "done"])
  /\ UNCHANGED <<page, idx, track, active, rated, gestures>>

Serve(c) == Start(c) \/ StoreRating(c) \/ Complete(c)

(***************************************************************************)
(* What follows the await of a call; rest is what becomes of the request.  *)
(***************************************************************************)

Settled(c, rest, new) == calls' = (calls \ {c}) \cup rest \cup new

\* Whether the rating was stored or not, the cursor moves on.
AfterRate(c, rest) ==
  /\ c.kind = "rate"
  /\ idx' = Advanced(c.deck)
  /\ Settled(c, rest, AtTheEnd(c))
  /\ UNCHANGED <<page, track, active, server, gestures>>

AfterStart(c) ==
  /\ c.kind = "start" /\ c.stage = "done"
  /\ active' = c.session
  /\ Settled(c, {}, {})
  /\ UNCHANGED <<page, idx, track, server, gestures>>

\* Mutant: whatever session is active is cleared.
StillActiveNever(s) == None

\* finishSessionAction clears the active session if it is the finished one.
StillActive(s) == IF active = s THEN None ELSE active

AfterFinish(c) ==
  /\ c.kind = "finish" /\ c.stage = "done"
  /\ active' = StillActive(c.session)
  /\ page' = [at |-> "results", deck |-> c.deck, session |-> c.session]
  /\ Settled(c, {}, {})
  /\ UNCHANGED <<idx, track, server, gestures>>

Receive(c) ==
  \/ c.stage \in {"done", "refused"} /\ AfterRate(c, {})
  \/ AfterStart(c)
  \/ AfterFinish(c)

\* Mutant: a start that failed leaves the toggle on.
RevertedNot == track

\* A start that failed turns the toggle off again.
Reverted == FALSE

FailStart(c, rest) ==
  /\ c.kind = "start"
  /\ track' = Reverted
  /\ Settled(c, rest, {})
  /\ UNCHANGED <<page, idx, active, server, gestures>>

FailFinish(c, rest) ==
  /\ c.kind = "finish"
  /\ Settled(c, rest, {})
  /\ UNCHANGED <<page, idx, track, active, server, gestures>>

\* The call fails; a request that has not arrived yet may still do so.
Fail(c) ==
  /\ c \in Awaited
  /\ \E rest \in SUBSET (IF c.stage = "sent" THEN {[c EXCEPT !.stage = "orphan"]} ELSE {}) :
       AfterRate(c, rest) \/ FailStart(c, rest) \/ FailFinish(c, rest)

Browse == (\E deck \in Decks : Visit(deck)) \/ Leave
Move == NextCard \/ PreviousCard
Act == Rate \/ RateNothing \/ TurnOn \/ TurnOff

Next ==
  \/ Browse \/ Reload \/ Move \/ Act
  \/ \E c \in calls : Serve(c) \/ Receive(c) \/ Fail(c)

Spec == Init /\ [][Next]_vars

TypeOK ==
  /\ page \in Page
  /\ idx \in Nat
  /\ track \in BOOLEAN
  /\ active \in Gestures \cup {None}
  /\ calls \subseteq Call
  /\ sessions \in [Gestures -> Session \cup {None}]
  /\ rated \in [Gestures -> [Ordinals -> Gestures \cup {None}]]
  /\ gestures \in 0..MaxGestures
=============================================================================
