------------------------------ MODULE Practice ------------------------------
(***************************************************************************)
(* The practice context: sessions over a snapshot of a deck's cards, their *)
(* ratings and their completion.  As in the decks context a request runs   *)
(* in one READ COMMITTED transaction that reads the session row, then its  *)
(* rating rows, edits the aggregate in memory and writes status and all    *)
(* ratings back, with its events.                                          *)
(*                                                                         *)
(* Time is told in requests: completed_at is the number of the request     *)
(* that stamped it, and whether the clock gave it digits that a timestamp  *)
(* column drops.  The order of the cards in a snapshot is left out.        *)
(* Session.Abandon has no caller, so no session is ever abandoned.         *)
(***************************************************************************)
EXTENDS Integers, FiniteSets, Sequences, SequencesExt

CONSTANTS
  Users, SessionIds, Cards,
  Ratings,      \* values of CardRating
  Workers,      \* request goroutines
  None,
  MaxInFlight,  \* how many requests may overlap; 1 makes them serial
  MaxRequests   \* bound: requests in a behaviour

ASSUME BoundsAssumption == MaxInFlight \in Nat \ {0} /\ MaxRequests \in Nat
\* The cards there will ever be: completions count them.
ASSUME CardsAssumption == IsFiniteSet(Cards)

RatingMap == [Cards -> Ratings \cup {None}]
Statuses == {"in_progress", "completed"}

\* The clock counts nanoseconds, a timestamptz microseconds: fine tells of a time
\* that has digits below the microsecond.
Time == [request : Nat, fine : BOOLEAN]
StoredTime == [request : Nat, fine : {FALSE}]

\* completedAt is None where completed_at is NULL.
Row == [user : Users, tracked : BOOLEAN, cards : SUBSET Cards, status : Statuses,
        completedAt : StoredTime \cup {None}]
Session == [user : Users, tracked : BOOLEAN, cards : SUBSET Cards, status : Statuses,
            completedAt : Time \cup {None}, rated : RatingMap]

ASSUME NoneAssumption ==
  None \notin Row \cup Ratings \cup Workers \cup Session \cup Time
                  \cup [caller : Users, session : SessionIds, number : Nat]

Event ==
  [type : {"PracticeSessionStarted"}, session : SessionIds]
    \cup [type : {"CardRated"}, session : SessionIds, card : Cards, rating : Ratings]
    \cup [type : {"PracticeSessionCompleted"}, session : SessionIds,
          counts : [Ratings -> Nat], rated : RatingMap, completedAt : Time]

VARIABLES
  row,      \* practice.sessions, committed: row[s] a Row or None
  ratings,  \* practice.session_card_ratings, committed, by session and card
  outbox,   \* practice.outbox, committed, in commit order
  lock,     \* lock[s]: the worker holding s's row lock, or None
  pc,       \* where each worker is in its transaction
  req,      \* its request: caller, session and the number of the request
  session,  \* the aggregate it holds in memory
  staged,   \* the event it has appended, uncommitted, as a sequence
  begun     \* the number of requests begun so far

db == <<row, ratings, outbox>>
vars == <<row, ratings, outbox, lock, pc, req, session, staged, begun>>

Unrated == [c \in Cards |-> None]

Init ==
  /\ row = [s \in SessionIds |-> None]
  /\ ratings = [s \in SessionIds |-> Unrated]
  /\ outbox = <<>>
  /\ lock = [s \in SessionIds |-> None]
  /\ pc = [w \in Workers |-> "idle"]
  /\ req = [w \in Workers |-> None]
  /\ session = [w \in Workers |-> None]
  /\ staged = [w \in Workers |-> <<>>]
  /\ begun = 0

InFlight == {w \in Workers : pc[w] # "idle"}

Admit(w, caller, s, stage) ==
  /\ pc[w] = "idle"
  /\ Cardinality(InFlight) < MaxInFlight
  /\ begun < MaxRequests
  /\ begun' = begun + 1
  /\ req' = [req EXCEPT ![w] = [caller |-> caller, session |-> s, number |-> begun + 1]]
  /\ pc' = [pc EXCEPT ![w] = stage]

(***************************************************************************)
(* StartSession.                                                           *)
(***************************************************************************)

\* OwnerAndCards answered with a deck of the caller and these cards; deck and
\* card rows are read by two statements, so any set of cards is possible.
StartSession(w, caller, s, tracked, cards) ==
  /\ row[s] = None /\ \A v \in InFlight : req[v].session # s
  /\ cards # {}
  /\ Admit(w, caller, s, "saved")
  /\ session' = [session EXCEPT ![w] =
       [user |-> caller, tracked |-> tracked, cards |-> cards,
        status |-> "in_progress", completedAt |-> None, rated |-> Unrated]]
  /\ staged' = [staged EXCEPT ![w] =
       <<[type |-> "PracticeSessionStarted", session |-> s]>>]
  /\ lock' = [lock EXCEPT ![s] = w]
  /\ UNCHANGED db

(***************************************************************************)
(* Reading the aggregate: Sessions.ByID, two statements.                   *)
(***************************************************************************)

Begin(w, caller, s) ==
  /\ Admit(w, caller, s, "began")
  /\ UNCHANGED <<db, lock, session, staged>>

ReadSessionRow(w) ==
  /\ pc[w] = "began"
  /\ row[req[w].session] # None
  /\ LET r == row[req[w].session]
     IN  session' = [session EXCEPT ![w] =
           [user |-> r.user, tracked |-> r.tracked, cards |-> r.cards,
            status |-> r.status, completedAt |-> r.completedAt, rated |-> Unrated]]
  /\ pc' = [pc EXCEPT ![w] = "rowRead"]
  /\ UNCHANGED <<db, lock, req, staged, begun>>

ReadRatings(w) ==
  /\ pc[w] = "rowRead"
  /\ session' = [session EXCEPT ![w].rated = ratings[req[w].session]]
  /\ pc' = [pc EXCEPT ![w] = "loaded"]
  /\ UNCHANGED <<db, lock, req, staged, begun>>

(***************************************************************************)
(* RateCard and FinishSession, each followed by Save and Publish.          *)
(***************************************************************************)

\* Mutants: an operation that forgets Authorize, the status or the snapshot.
AuthorizedAnyone(w) == TRUE
InProgressUnchecked(w) == TRUE
CardInAnySnapshot(w, card) == TRUE

Authorized(w) == req[w].caller = session[w].user
InProgress(w) == session[w].status = "in_progress"
CardInSnapshot(w, card) == card \in session[w].cards

\* Sessions.Save: the upsert waits for the transaction that holds the row.
Save(w, saved, event) ==
  /\ lock[req[w].session] = None
  /\ lock' = [lock EXCEPT ![req[w].session] = w]
  /\ session' = [session EXCEPT ![w] = saved]
  /\ staged' = [staged EXCEPT ![w] = <<event>>]
  /\ pc' = [pc EXCEPT ![w] = "saved"]
  /\ UNCHANGED <<db, req, begun>>

Rate(w, card, rating) ==
  /\ pc[w] = "loaded"
  /\ Authorized(w)
  /\ InProgress(w)
  /\ session[w].tracked
  /\ CardInSnapshot(w, card)
  /\ Save(w, [session[w] EXCEPT !.rated[card] = rating],
          [type |-> "CardRated", session |-> req[w].session, card |-> card,
           rating |-> rating])

\* The counts of the ratings of an aggregate.
Summary(rated) == [r \in Ratings |-> Cardinality({c \in Cards : rated[c] = r})]

\* Mutant: each Finish stamps the session anew.
FinishedAnew(s, now) == [s EXCEPT !.status = "completed", !.completedAt = now]

\* The first Finish completes and stamps the session; later ones leave it alone.
Finished(s, now) ==
  IF s.status = "completed" THEN s
  ELSE [s EXCEPT !.status = "completed", !.completedAt = now]

\* Finishing a completed session saves and announces it again.  The event, and
\* the answer, give completed_at as it is in memory.
Finish(w, fine) ==
  LET saved == Finished(session[w], [request |-> req[w].number, fine |-> fine])
  IN  /\ pc[w] = "loaded"
      /\ Authorized(w)
      /\ Save(w, saved,
              [type |-> "PracticeSessionCompleted", session |-> req[w].session,
               counts |-> Summary(saved.rated), rated |-> saved.rated,
               completedAt |-> saved.completedAt])

(***************************************************************************)
(* The end of a transaction, or of a read.                                 *)
(***************************************************************************)

End(w) ==
  /\ pc' = [pc EXCEPT ![w] = "idle"]
  /\ req' = [req EXCEPT ![w] = None]
  /\ session' = [session EXCEPT ![w] = None]
  /\ staged' = [staged EXCEPT ![w] = <<>>]
  /\ lock' = [s \in SessionIds |-> IF lock[s] = w THEN None ELSE lock[s]]
  /\ UNCHANGED begun

\* Mutant: completed_at is not written on insert.
StampForgotten(r, s) ==
  [user |-> s.user, tracked |-> s.tracked, cards |-> s.cards, status |-> s.status]

\* A time as a timestamptz column keeps it.
InMicroseconds(t) == IF t = None THEN None ELSE [t EXCEPT !.fine = FALSE]

\* The row the upsert leaves: an existing one takes status and completed_at.
SavedRow(r, s) ==
  IF r = None
  THEN [user |-> s.user, tracked |-> s.tracked, cards |-> s.cards,
        status |-> s.status, completedAt |-> InMicroseconds(s.completedAt)]
  ELSE [r EXCEPT !.status = s.status, !.completedAt = InMicroseconds(s.completedAt)]

\* Mutant: rows of earlier ratings survive.
MergedRatings(old, s) ==
  [c \in Cards |-> IF old[c] # None THEN old[c] ELSE s.rated[c]]

\* The ratings are deleted and those of the aggregate inserted.
SavedRatings(old, s) == s.rated

Commit(w) ==
  /\ pc[w] = "saved"
  /\ row' = [row EXCEPT ![req[w].session] = SavedRow(@, session[w])]
  /\ ratings' = [ratings EXCEPT ![req[w].session] = SavedRatings(@, session[w])]
  /\ outbox' = outbox \o staged[w]
  /\ End(w)

\* Mutant: results are handed out before the session is completed.
CompletedUnchecked(w) == TRUE

Completed(w) == session[w].status = "completed"

\* GetResults answers with what the two statements of ByID have read, outside of
\* a transaction.
GetResults(w) ==
  /\ pc[w] = "loaded"
  /\ Authorized(w)
  /\ Completed(w)
  /\ UNCHANGED db
  /\ End(w)

\* An error, a cancelled request, a crash.
Rollback(w) ==
  /\ pc[w] # "idle"
  /\ UNCHANGED db
  /\ End(w)

Next ==
  \E w \in Workers :
    \/ \E caller \in Users, s \in SessionIds, tracked \in BOOLEAN,
          cards \in SUBSET Cards : StartSession(w, caller, s, tracked, cards)
    \/ \E caller \in Users, s \in SessionIds : Begin(w, caller, s)
    \/ ReadSessionRow(w)
    \/ ReadRatings(w)
    \/ \E card \in Cards, rating \in Ratings : Rate(w, card, rating)
    \/ \E fine \in BOOLEAN : Finish(w, fine)
    \/ GetResults(w)
    \/ Commit(w)
    \/ Rollback(w)

Spec == Init /\ [][Next]_vars

-----------------------------------------------------------------------------
(***************************************************************************)
(* Properties.                                                             *)
(***************************************************************************)

TypeOK ==
  /\ row \in [SessionIds -> Row \cup {None}]
  /\ ratings \in [SessionIds -> RatingMap]
  /\ outbox \in Seq(Event)
  /\ lock \in [SessionIds -> Workers \cup {None}]
  /\ pc \in [Workers -> {"idle", "began", "rowRead", "loaded", "saved"}]
  /\ req \in [Workers -> [caller : Users, session : SessionIds, number : Nat] \cup {None}]
  /\ session \in [Workers -> Session \cup {None}]
  /\ staged \in [Workers -> Seq(Event)]
  /\ begun \in Nat

\* Ratings are of cards of the snapshot, in tracked sessions only, although
\* the session row and its ratings are read and written by separate statements
\* (Session.Rate, Sessions.ByID, Sessions.Save).
RatingsWithinSnapshot ==
  \A s \in SessionIds, c \in Cards : ratings[s][c] # None =>
    row[s] # None /\ row[s].tracked /\ c \in row[s].cards

Touched(s) == row'[s] # row[s] \/ ratings'[s] # ratings[s]

\* A session changes only by the commit of a request its user sent, and stays
\* the session of the same user, deck snapshot and mode.
OnlyOwnerWrites ==
  [][\A s \in SessionIds : row[s] # None /\ Touched(s) =>
       /\ row'[s] = [row[s] EXCEPT !.status = row'[s].status,
                                   !.completedAt = row'[s].completedAt]
       /\ \E w \in Workers : /\ pc[w] = "saved" /\ pc'[w] = "idle"
                             /\ req[w].caller = row[s].user /\ req[w].session = s]_vars
=============================================================================
