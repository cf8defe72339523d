--------------------------- MODULE PracticeProofs ---------------------------
(***************************************************************************)
(* Proofs about Practice: type correctness, ratings that stay within the   *)
(* snapshot of their session, and the ownership of every write, for any    *)
(* number of users, sessions, cards and overlapping requests; and about    *)
(* PracticeHistory: that no rating is lost, completion is final and all    *)
(* answers about a completed session agree, unless an outdated copy was    *)
(* saved.                                                                  *)
(***************************************************************************)
EXTENDS PracticeHistory, FiniteSetTheorems, TLAPS

Request == [caller : Users, session : SessionIds, number : Nat]

\* A row and an aggregate are of the same session, as far as that never changes.
SameSession(r, a) == r.user = a.user /\ r.tracked = a.tracked /\ r.cards = a.cards

\* Ratings of cards in the snapshot of a row or an aggregate, if it is tracked.
Within(rated, a) == \A c \in Cards : rated[c] # None => a.tracked /\ c \in a.cards

\* A completed row or aggregate has the time of its completion.
Stamped(a) == a.status = "completed" => a.completedAt # None

Reads == {"rowRead", "loaded"}
Holds == {"rowRead", "loaded", "saved"}

\* What a worker holds at each stage.  Its copy is of the session it was asked
\* for, which once stored is never another one; having saved, it has the row's
\* lock and the user as its caller.
WorkerInv(w) ==
  /\ pc[w] # "idle" => req[w] \in Request
  /\ pc[w] \in Holds => /\ session[w] \in Session /\ Stamped(session[w])
                      /\ Within(session[w].rated, session[w])
  /\ pc[w] \in Reads => row[req[w].session] # None
  /\ pc[w] \in Holds /\ row[req[w].session] # None =>
       SameSession(row[req[w].session], session[w])
  /\ pc[w] = "saved" => lock[req[w].session] = w /\ req[w].caller = session[w].user

IInv ==
  /\ TypeOK
  /\ RatingsWithinSnapshot
  /\ \A s \in SessionIds : row[s] # None => Stamped(row[s])
  /\ \A w \in Workers : WorkerInv(w)

-----------------------------------------------------------------------------

LEMMA UnratedType == Unrated \in RatingMap
BY DEF Unrated, RatingMap

LEMMA InitIInv == Init => IInv
BY UnratedType DEF Init, IInv, TypeOK, RatingsWithinSnapshot, WorkerInv, Unrated, Reads, Holds

\* The counts of a completion are numbers.
LEMMA SummaryType ==
  ASSUME NEW rated \in RatingMap
  PROVE  Summary(rated) \in [Ratings -> Nat]
<1>1. ASSUME NEW r \in Ratings PROVE Cardinality({c \in Cards : rated[c] = r}) \in Nat
  <2>1. {c \in Cards : rated[c] = r} \subseteq Cards
    OBVIOUS
  <2>2. IsFiniteSet({c \in Cards : rated[c] = r})
    BY <2>1, CardsAssumption, FS_Subset
  <2> QED
    BY <2>2, FS_CardinalityType
<1> QED
  BY <1>1 DEF Summary

\* A worker that changes only its own stage, request and copy leaves the others'
\* invariants alone, provided locks are kept.
LEMMA OthersUnchanged ==
  ASSUME IInv, NEW w \in Workers, NEW v \in Workers, v # w,
         pc'[v] = pc[v], req'[v] = req[v], session'[v] = session[v], UNCHANGED row,
         pc[v] = "saved" => lock'[req[v].session] = v
  PROVE  WorkerInv(v)'
BY DEF IInv, WorkerInv

\* What admitting a request does.
LEMMA Admitted ==
  ASSUME IInv, NEW w \in Workers, NEW caller \in Users, NEW s \in SessionIds,
         NEW stage \in {"began", "saved"}, Admit(w, caller, s, stage)
  PROVE  /\ pc' \in [Workers -> {"idle", "began", "rowRead", "loaded", "saved"}]
         /\ req' \in [Workers -> Request \cup {None}]
         /\ begun' \in Nat
         /\ pc[w] = "idle" /\ pc'[w] = stage
         /\ req'[w] \in Request /\ req'[w].caller = caller /\ req'[w].session = s
         /\ \A v \in Workers \ {w} : pc'[v] = pc[v] /\ req'[v] = req[v]
<1>1. [caller |-> caller, session |-> s, number |-> begun + 1] \in Request
  BY DEF IInv, TypeOK, Request
<1> QED
  BY <1>1 DEF IInv, TypeOK, Admit, Request

LEMMA StartSessionIInv ==
  ASSUME IInv, NEW w \in Workers, NEW caller \in Users, NEW s \in SessionIds,
         NEW tracked \in BOOLEAN, NEW cards \in SUBSET Cards,
         StartSession(w, caller, s, tracked, cards)
  PROVE  IInv'
<1> DEFINE a == [user |-> caller, tracked |-> tracked, cards |-> cards,
                 status |-> "in_progress", completedAt |-> None, rated |-> Unrated]
           e == [type |-> "PracticeSessionStarted", session |-> s]
<1>1. /\ row[s] = None /\ \A v \in InFlight : req[v].session # s
      /\ Admit(w, caller, s, "saved")
      /\ session' = [session EXCEPT ![w] = a] /\ staged' = [staged EXCEPT ![w] = <<e>>]
      /\ lock' = [lock EXCEPT ![s] = w]
      /\ UNCHANGED <<row, ratings, outbox>>
  BY DEF StartSession, db
<1>2. a \in Session /\ e \in Event
  BY UnratedType DEF Session, Statuses, Event
<1>3. TypeOK'
  BY <1>1, <1>2, Admitted DEF IInv, TypeOK, Request
<1>4. WorkerInv(w)'
  BY <1>1, <1>2, Admitted DEF IInv, TypeOK, WorkerInv, Stamped, Within, Unrated, Reads, Holds
<1>5. ASSUME NEW v \in Workers, v # w PROVE WorkerInv(v)'
  <2>1. pc'[v] = pc[v] /\ req'[v] = req[v] /\ session'[v] = session[v]
    BY <1>1, <1>5, Admitted DEF IInv, TypeOK
  <2>2. pc[v] = "saved" => lock'[req[v].session] = v
    BY <1>1 DEF IInv, TypeOK, WorkerInv, InFlight
  <2> QED
    BY <1>1, <1>5, <2>1, <2>2, OthersUnchanged
<1> QED
  BY <1>1, <1>3, <1>4, <1>5 DEF IInv, RatingsWithinSnapshot

LEMMA BeginIInv ==
  ASSUME IInv, NEW w \in Workers, NEW caller \in Users, NEW s \in SessionIds,
         Begin(w, caller, s)
  PROVE  IInv'
<1>1. Admit(w, caller, s, "began") /\ UNCHANGED <<row, ratings, outbox, lock, session, staged>>
  BY DEF Begin, db
<1>2. TypeOK'
  BY <1>1, Admitted DEF IInv, TypeOK, Request
<1>3. WorkerInv(w)'
  BY <1>1, Admitted DEF WorkerInv, Reads, Holds
<1>4. ASSUME NEW v \in Workers, v # w PROVE WorkerInv(v)'
  <2>1. pc'[v] = pc[v] /\ req'[v] = req[v] /\ session'[v] = session[v]
    BY <1>1, <1>4, Admitted
  <2>2. pc[v] = "saved" => lock'[req[v].session] = v
    BY <1>1 DEF IInv, WorkerInv
  <2> QED
    BY <1>1, <1>4, <2>1, <2>2, OthersUnchanged
<1> QED
  BY <1>1, <1>2, <1>3, <1>4 DEF IInv, RatingsWithinSnapshot

-----------------------------------------------------------------------------
(* Reading. *)

\* A step in which w only moves on to a stage with a copy that fits the row.
LEMMA LoadIInv ==
  ASSUME IInv, NEW w \in Workers, NEW stage \in Reads, pc[w] # "idle",
         pc' = [pc EXCEPT ![w] = stage],
         UNCHANGED <<row, ratings, outbox, lock, req, staged, begun>>,
         row[req[w].session] # None,
         session' = [session EXCEPT ![w] = session'[w]],
         session'[w] \in Session, Stamped(session'[w]), Within(session'[w].rated, session'[w]),
         SameSession(row[req[w].session], session'[w])
  PROVE  IInv'
<1>1. stage \in {"idle", "began", "rowRead", "loaded", "saved"} /\ stage # "saved" /\ stage # "idle"
  BY DEF Reads
<1>2. TypeOK'
  <2>1. session' \in [Workers -> Session \cup {None}] /\ pc' \in [Workers -> {"idle", "began", "rowRead", "loaded", "saved"}]
    BY <1>1 DEF IInv, TypeOK
  <2> QED
    BY <2>1 DEF IInv, TypeOK
<1>3. WorkerInv(w)'
  <2>1. pc'[w] = stage
    BY DEF IInv, TypeOK
  <2> QED
    BY <1>1, <2>1 DEF IInv, WorkerInv, Stamped, Within, SameSession
<1>4. ASSUME NEW v \in Workers, v # w PROVE WorkerInv(v)'
  <2>1. pc'[v] = pc[v] /\ session'[v] = session[v]
    BY <1>4 DEF IInv, TypeOK
  <2>2. pc[v] = "saved" => lock'[req[v].session] = v
    BY DEF IInv, WorkerInv
  <2> QED
    BY <1>4, <2>1, <2>2, OthersUnchanged
<1> QED
  BY <1>2, <1>3, <1>4 DEF IInv, RatingsWithinSnapshot

LEMMA ReadSessionRowIInv ==
  ASSUME IInv, NEW w \in Workers, ReadSessionRow(w)
  PROVE  IInv'
<1> DEFINE r == row[req[w].session]
           a == [user |-> r.user, tracked |-> r.tracked, cards |-> r.cards,
                 status |-> r.status, completedAt |-> r.completedAt, rated |-> Unrated]
<1>1. /\ pc[w] = "began" /\ r # None
      /\ session' = [session EXCEPT ![w] = a] /\ pc' = [pc EXCEPT ![w] = "rowRead"]
      /\ UNCHANGED <<row, ratings, outbox, lock, req, staged, begun>>
  BY DEF ReadSessionRow, db
<1>2. r \in Row /\ Stamped(r)
  BY <1>1 DEF IInv, TypeOK, WorkerInv, Request
<1>3. a \in Session /\ SameSession(r, a) /\ Stamped(a) /\ Within(a.rated, a)
  BY <1>2, UnratedType DEF Row, Session, StoredTime, Time, Stamped, SameSession, Within, Unrated
<1>4. session'[w] = a
  BY <1>1 DEF IInv, TypeOK
<1> QED
  BY <1>1, <1>3, <1>4, LoadIInv DEF Reads

\* The ratings read are those of the row read before, or of a later state of it:
\* either way within the same snapshot.
LEMMA ReadRatingsIInv ==
  ASSUME IInv, NEW w \in Workers, ReadRatings(w)
  PROVE  IInv'
<1> DEFINE s == req[w].session
           a == [session[w] EXCEPT !.rated = ratings[s]]
<1>1. /\ pc[w] = "rowRead"
      /\ session' = [session EXCEPT ![w].rated = ratings[s]] /\ pc' = [pc EXCEPT ![w] = "loaded"]
      /\ UNCHANGED <<row, ratings, outbox, lock, req, staged, begun>>
  BY DEF ReadRatings, db
<1>2. /\ s \in SessionIds /\ session[w] \in Session /\ Stamped(session[w])
      /\ row[s] # None /\ SameSession(row[s], session[w])
  BY <1>1 DEF IInv, WorkerInv, Request, Reads, Holds
<1>3. ratings[s] \in RatingMap /\ Within(ratings[s], row[s])
  BY <1>2 DEF IInv, TypeOK, RatingsWithinSnapshot, Within
<1>4. a \in Session /\ SameSession(row[s], a) /\ Stamped(a) /\ Within(a.rated, a)
  BY <1>2, <1>3 DEF Session, SameSession, Stamped, Within
<1>5. session'[w] = a /\ session' = [session EXCEPT ![w] = a]
  BY <1>1 DEF IInv, TypeOK
<1> QED
  BY <1>1, <1>2, <1>4, <1>5, LoadIInv DEF Reads

-----------------------------------------------------------------------------
(* Rating and finishing. *)

\* Saving a copy of the same session, with ratings within its snapshot, for its
\* user.
LEMMA SaveIInv ==
  ASSUME IInv, NEW w \in Workers, pc[w] = "loaded", Authorized(w),
         NEW a \in Session, NEW e \in Event, Save(w, a, e),
         SameSession(session[w], a), Stamped(a), Within(a.rated, a)
  PROVE  IInv'
<1> DEFINE s == req[w].session
<1>1. /\ lock[s] = None /\ lock' = [lock EXCEPT ![s] = w]
      /\ session' = [session EXCEPT ![w] = a] /\ staged' = [staged EXCEPT ![w] = <<e>>]
      /\ pc' = [pc EXCEPT ![w] = "saved"]
      /\ UNCHANGED <<row, ratings, outbox, req, begun>>
  BY DEF Save, db
<1>2. /\ s \in SessionIds /\ row[s] # None /\ SameSession(row[s], session[w])
      /\ req[w] \in Request
  BY DEF IInv, WorkerInv, Request, Reads, Holds
<1>3. TypeOK'
  BY <1>1, <1>2 DEF IInv, TypeOK
<1>4. WorkerInv(w)'
  <2>1. pc'[w] = "saved" /\ session'[w] = a /\ lock'[s] = w
    BY <1>1, <1>2 DEF IInv, TypeOK
  <2>2. req[w].caller = a.user /\ SameSession(row[s], a)
    BY <1>2 DEF Authorized, SameSession
  <2> QED
    BY <1>1, <1>2, <2>1, <2>2 DEF WorkerInv, Stamped, Within, SameSession, Reads
<1>5. ASSUME NEW v \in Workers, v # w PROVE WorkerInv(v)'
  <2>1. pc'[v] = pc[v] /\ session'[v] = session[v]
    BY <1>1, <1>5 DEF IInv, TypeOK
  <2>2. pc[v] = "saved" => lock'[req[v].session] = v
    <3>1. pc[v] = "saved" => lock[req[v].session] = v /\ req[v].session \in SessionIds
      BY DEF IInv, WorkerInv, Request
    <3> QED
      BY <1>1, <1>2, <3>1, NoneAssumption DEF IInv, TypeOK
  <2> QED
    BY <1>1, <1>5, <2>1, <2>2, OthersUnchanged
<1> QED
  BY <1>1, <1>3, <1>4, <1>5 DEF IInv, RatingsWithinSnapshot

\* What a worker that has loaded has in hand.
LEMMA LoadedSession ==
  ASSUME IInv, NEW w \in Workers, pc[w] = "loaded"
  PROVE  /\ session[w] \in Session /\ Stamped(session[w]) /\ Within(session[w].rated, session[w])
         /\ req[w] \in Request
BY DEF IInv, WorkerInv, Holds

LEMMA RateIInv ==
  ASSUME IInv, NEW w \in Workers, NEW card \in Cards, NEW rating \in Ratings,
         Rate(w, card, rating)
  PROVE  IInv'
<1> DEFINE a == [session[w] EXCEPT !.rated[card] = rating]
           rated == [session[w].rated EXCEPT ![card] = rating]
           e == [type |-> "CardRated", session |-> req[w].session, card |-> card,
                 rating |-> rating]
<1>1. /\ pc[w] = "loaded" /\ Authorized(w) /\ session[w].tracked
      /\ card \in session[w].cards /\ Save(w, a, e)
  BY DEF Rate, CardInSnapshot
<1>2. session[w] \in Session /\ Within(session[w].rated, session[w]) /\ req[w] \in Request
  BY <1>1, LoadedSession
<1>3. rated \in RatingMap /\ Within(rated, session[w])
  BY <1>1, <1>2 DEF Session, RatingMap, Within
<1>4. a \in Session /\ a.rated = rated /\ SameSession(session[w], a)
  BY <1>2, <1>3 DEF Session, SameSession
<1>5. Stamped(a) /\ Within(a.rated, a)
  <2>1. a.status = session[w].status /\ a.completedAt = session[w].completedAt /\ Stamped(session[w])
    BY <1>1, <1>2, LoadedSession DEF Session
  <2> QED
    BY <1>3, <1>4, <2>1 DEF Stamped, Within, SameSession
<1>6. e \in Event
  BY <1>2 DEF Event, Request
<1> QED
  BY <1>1, <1>4, <1>5, <1>6, SaveIInv

LEMMA FinishIInv ==
  ASSUME IInv, NEW w \in Workers, NEW fine \in BOOLEAN, Finish(w, fine)
  PROVE  IInv'
<1> DEFINE now == [request |-> req[w].number, fine |-> fine]
           a == Finished(session[w], now)
           e == [type |-> "PracticeSessionCompleted", session |-> req[w].session,
                 counts |-> Summary(a.rated), rated |-> a.rated,
                 completedAt |-> a.completedAt]
<1>1. pc[w] = "loaded" /\ Authorized(w) /\ Save(w, a, e)
  BY DEF Finish
<1>2. /\ session[w] \in Session /\ Stamped(session[w]) /\ Within(session[w].rated, session[w])
      /\ req[w] \in Request /\ now \in Time /\ now # None
  <2>1. req[w] \in Request /\ now \in Time
    BY <1>1, LoadedSession DEF Request, Time
  <2> QED
    BY <1>1, <2>1, LoadedSession, NoneAssumption
<1> HIDE DEF now
<1>3. /\ a \in Session /\ SameSession(session[w], a) /\ a.rated = session[w].rated
      /\ a.status = "completed" /\ a.completedAt # None
  BY <1>2 DEF Finished, Session, SameSession, Stamped, Statuses
<1>4. Stamped(a) /\ Within(a.rated, a)
  BY <1>2, <1>3 DEF Stamped, Within, SameSession
<1>5. e \in Event
  <2>1. a.rated \in RatingMap /\ a.completedAt \in Time /\ req[w].session \in SessionIds
    BY <1>2, <1>3 DEF Session, Request
  <2>2. Summary(a.rated) \in [Ratings -> Nat]
    BY <2>1, SummaryType
  <2> QED
    BY <2>1, <2>2 DEF Event
<1> QED
  BY <1>1, <1>3, <1>4, <1>5, SaveIInv

-----------------------------------------------------------------------------
(* The end of a transaction. *)

\* End frees the worker and its locks and keeps the types of what it changes.
LEMMA Ended ==
  ASSUME IInv, NEW w \in Workers, End(w)
  PROVE  /\ lock' \in [SessionIds -> Workers \cup {None}]
         /\ pc' \in [Workers -> {"idle", "began", "rowRead", "loaded", "saved"}]
         /\ req' \in [Workers -> Request \cup {None}]
         /\ session' \in [Workers -> Session \cup {None}]
         /\ staged' \in [Workers -> Seq(Event)]
         /\ begun' \in Nat
         /\ WorkerInv(w)'
         /\ \A v \in Workers \ {w} :
              /\ pc'[v] = pc[v] /\ req'[v] = req[v] /\ session'[v] = session[v]
              /\ pc[v] = "saved" => lock'[req[v].session] = v
<1>1. /\ pc' = [pc EXCEPT ![w] = "idle"] /\ req' = [req EXCEPT ![w] = None]
      /\ session' = [session EXCEPT ![w] = None] /\ staged' = [staged EXCEPT ![w] = <<>>]
      /\ lock' = [s \in SessionIds |-> IF lock[s] = w THEN None ELSE lock[s]]
      /\ begun' = begun
  BY DEF End
<1>2. TypeOK /\ <<>> \in Seq(Event)
  BY DEF IInv
<1>3. /\ lock' \in [SessionIds -> Workers \cup {None}]
      /\ pc' \in [Workers -> {"idle", "began", "rowRead", "loaded", "saved"}]
      /\ req' \in [Workers -> Request \cup {None}]
      /\ session' \in [Workers -> Session \cup {None}]
      /\ staged' \in [Workers -> Seq(Event)]
      /\ begun' \in Nat
  BY <1>1, <1>2 DEF TypeOK, Request
<1>4. WorkerInv(w)'
  BY <1>1, <1>2 DEF TypeOK, WorkerInv, Reads, Holds
<1>5. ASSUME NEW v \in Workers \ {w}
      PROVE  /\ pc'[v] = pc[v] /\ req'[v] = req[v] /\ session'[v] = session[v]
             /\ pc[v] = "saved" => lock'[req[v].session] = v
  <2>1. pc[v] = "saved" => lock[req[v].session] = v /\ req[v].session \in SessionIds
    BY DEF IInv, WorkerInv, Request
  <2> QED
    BY <1>1, <1>2, <2>1 DEF TypeOK
<1> QED
  BY <1>3, <1>4, <1>5

\* Without a commit nothing committed changes.
LEMMA EndIInv ==
  ASSUME IInv, NEW w \in Workers, End(w), UNCHANGED db
  PROVE  IInv'
<1>1. UNCHANGED <<row, ratings, outbox>>
  BY DEF db
<1>2. TypeOK'
  BY <1>1, Ended DEF IInv, TypeOK, Request
<1>3. ASSUME NEW v \in Workers, v # w PROVE WorkerInv(v)'
  BY <1>1, <1>3, Ended, OthersUnchanged
<1> QED
  BY <1>1, <1>2, <1>3, Ended DEF IInv, RatingsWithinSnapshot

\* The digits a column keeps are kept again.
LEMMA Microseconds ==
  ASSUME NEW t \in Time \cup {None}
  PROVE  /\ InMicroseconds(t) \in StoredTime \cup {None}
         /\ InMicroseconds(t) = None <=> t = None
         /\ t \in StoredTime => InMicroseconds(t) = t
<1>1. CASE t = None
  BY <1>1, NoneAssumption DEF InMicroseconds, Time, StoredTime
<1>2. CASE t # None
  <2>1. InMicroseconds(t) = [t EXCEPT !.fine = FALSE] /\ t \in Time
    BY <1>2 DEF InMicroseconds
  <2>2. InMicroseconds(t) \in StoredTime /\ InMicroseconds(t) \in Time
    BY <2>1 DEF Time, StoredTime
  <2>3. t \in StoredTime => InMicroseconds(t) = t
    BY <2>1 DEF StoredTime
  <2> QED
    BY <1>2, <2>2, <2>3, NoneAssumption
<1> QED
  BY <1>1, <1>2

\* A row keeps user, mode and snapshot; a new one takes them from the aggregate.
LEMMA SavedRowSession ==
  ASSUME NEW r \in Row \cup {None}, NEW a \in Session, r # None => SameSession(r, a)
  PROVE  /\ SavedRow(r, a) \in Row /\ SameSession(SavedRow(r, a), a)
         /\ SavedRow(r, a).status = a.status
         /\ SavedRow(r, a).completedAt = InMicroseconds(a.completedAt)
         /\ r # None => SavedRow(r, a) = [r EXCEPT !.status = SavedRow(r, a).status,
                                                   !.completedAt = SavedRow(r, a).completedAt]
<1>1. InMicroseconds(a.completedAt) \in StoredTime \cup {None}
  BY Microseconds DEF Session
<1> QED
  BY <1>1 DEF SavedRow, Row, Session, SameSession

\* What the commit of w writes, and where.
LEMMA Committed ==
  ASSUME IInv, NEW w \in Workers, Commit(w)
  PROVE  LET s == req[w].session
         IN  /\ End(w) /\ s \in SessionIds /\ session[w] \in Session /\ Stamped(session[w])
             /\ Within(session[w].rated, session[w])
             /\ lock[s] = w /\ req[w].caller = session[w].user
             /\ row[s] # None => SameSession(row[s], session[w])
             /\ row' = [row EXCEPT ![s] = SavedRow(row[s], session[w])]
             /\ ratings' = [ratings EXCEPT ![s] = session[w].rated]
             /\ outbox' = outbox \o staged[w]
BY DEF IInv, WorkerInv, Commit, SavedRatings, Request, Holds

LEMMA CommitIInv ==
  ASSUME IInv, NEW w \in Workers, Commit(w)
  PROVE  IInv'
<1> DEFINE s == req[w].session
           a == session[w]
           r == SavedRow(row[s], a)
<1>1. /\ s \in SessionIds /\ a \in Session /\ Stamped(a) /\ Within(a.rated, a) /\ lock[s] = w
      /\ row[s] # None => SameSession(row[s], a)
      /\ row' = [row EXCEPT ![s] = r]
      /\ ratings' = [ratings EXCEPT ![s] = a.rated]
      /\ outbox' = outbox \o staged[w]
      /\ End(w)
  BY Committed
<1>2. r \in Row /\ SameSession(r, a) /\ Stamped(r)
  <2>1. row[s] \in Row \cup {None}
    BY <1>1 DEF IInv, TypeOK
  <2>2. /\ r \in Row /\ SameSession(r, a)
        /\ r.status = a.status /\ r.completedAt = InMicroseconds(a.completedAt)
    BY <1>1, <2>1, SavedRowSession
  <2>3. r.completedAt = None <=> a.completedAt = None
    BY <1>1, <2>2, Microseconds DEF Session
  <2> QED
    BY <1>1, <2>2, <2>3 DEF Stamped
<1>3. /\ row' \in [SessionIds -> Row \cup {None}] /\ row'[s] = r
      /\ ratings' \in [SessionIds -> RatingMap] /\ ratings'[s] = a.rated
      /\ \A t \in SessionIds \ {s} : row'[t] = row[t] /\ ratings'[t] = ratings[t]
  BY <1>1, <1>2 DEF IInv, TypeOK, Session
<1>4. outbox' \in Seq(Event)
  BY <1>1 DEF IInv, TypeOK
<1>5. TypeOK'
  BY <1>1, <1>3, <1>4, Ended DEF TypeOK, Request
<1>6. RatingsWithinSnapshot'
  <2> SUFFICES ASSUME NEW t \in SessionIds, NEW c \in Cards, ratings'[t][c] # None
               PROVE  row'[t] # None /\ row'[t].tracked /\ c \in row'[t].cards
    BY DEF RatingsWithinSnapshot
  <2>1. CASE t = s
    BY <1>1, <1>2, <1>3, <2>1, NoneAssumption DEF Within, SameSession
  <2>2. CASE t # s
    BY <1>3, <2>2 DEF IInv, RatingsWithinSnapshot
  <2> QED
    BY <2>1, <2>2
<1>7. ASSUME NEW v \in Workers, v # w PROVE WorkerInv(v)'
  <2> DEFINE t == req[v].session
  <2>1. /\ pc'[v] = pc[v] /\ req'[v] = req[v] /\ session'[v] = session[v]
        /\ pc[v] = "saved" => lock'[t] = v
    BY <1>1, <1>7, Ended
  <2>2. WorkerInv(v)
    BY DEF IInv
  <2>3. CASE pc[v] \in {"idle", "began"}
    BY <2>1, <2>2, <2>3 DEF WorkerInv, Reads, Holds
  <2>4. CASE pc[v] \in Holds
    <3>1. t \in SessionIds
      BY <2>2, <2>4 DEF WorkerInv, Request, Holds
    <3>2. CASE t # s
      BY <1>3, <2>1, <2>2, <3>1, <3>2 DEF WorkerInv
    <3>3. CASE t = s
      <4>1. pc[v] \in Reads
        BY <1>1, <1>7, <2>2, <2>4, <3>3 DEF WorkerInv, Reads, Holds
      <4>2. row[s] # None /\ SameSession(row[s], session[v]) /\ SameSession(row[s], a)
        BY <1>1, <2>2, <2>4, <3>3, <4>1 DEF WorkerInv
      <4>3. SameSession(r, session[v]) /\ r # None
        BY <1>2, <4>2, NoneAssumption DEF SameSession
      <4> QED
        BY <1>3, <2>1, <2>2, <2>4, <3>3, <4>1, <4>3 DEF WorkerInv, Reads
    <3> QED
      BY <3>2, <3>3
  <2> QED
    BY <2>3, <2>4 DEF IInv, TypeOK, Holds
<1>8. ASSUME NEW t \in SessionIds, row'[t] # None PROVE Stamped(row'[t])
  BY <1>2, <1>3, <1>8 DEF IInv
<1> QED
  BY <1>1, <1>5, <1>6, <1>7, <1>8, Ended DEF IInv, Stamped

-----------------------------------------------------------------------------

LEMMA NextIInv == IInv /\ [Next]_vars => IInv'
<1> SUFFICES ASSUME IInv, [Next]_vars PROVE IInv'
  OBVIOUS
<1>1. CASE UNCHANGED vars
  BY <1>1 DEF IInv, TypeOK, RatingsWithinSnapshot, Stamped, WorkerInv, vars
<1>2. CASE Next
  <2>1. PICK w \in Workers :
          \/ \E caller \in Users, s \in SessionIds, tracked \in BOOLEAN,
                cards \in SUBSET Cards : StartSession(w, caller, s, tracked, cards)
          \/ \E caller \in Users, s \in SessionIds : Begin(w, caller, s)
          \/ ReadSessionRow(w)
          \/ ReadRatings(w)
          \/ \E card \in Cards, rating \in Ratings : Rate(w, card, rating)
          \/ \E fine \in BOOLEAN : Finish(w, fine)
          \/ GetResults(w) \/ Commit(w) \/ Rollback(w)
    BY <1>2 DEF Next
  <2>2. GetResults(w) \/ Rollback(w) => End(w) /\ UNCHANGED db
    BY DEF GetResults, Rollback
  <2> QED
    BY <2>1, <2>2, StartSessionIInv, BeginIInv, ReadSessionRowIInv, ReadRatingsIInv,
       RateIInv, FinishIInv, CommitIInv, EndIInv
<1> QED
  BY <1>1, <1>2

\* The inductive invariant of the practice context: types, committed ratings within
\* their snapshots, and what each stage of a request holds.
THEOREM Invariance == Spec => []IInv
BY InitIInv, NextIInv, PTL DEF Spec

\* Rows, ratings, outbox, aggregates in memory and staged events keep their types.
THEOREM TypeCorrectness == Spec => []TypeOK
<1>1. IInv => TypeOK
  BY DEF IInv
<1> QED
  BY <1>1, Invariance, PTL

\* Ratings are of cards of the snapshot, in tracked sessions only, whatever requests
\* overlap (Session.Rate, Sessions.ByID, Sessions.Save).
THEOREM Snapshots == Spec => []RatingsWithinSnapshot
<1>1. IInv => RatingsWithinSnapshot
  BY DEF IInv
<1> QED
  BY <1>1, Invariance, PTL

\* The action that OnlyOwnerWrites asks of every step.
OwnerCommits ==
  \A s \in SessionIds : row[s] # None /\ Touched(s) =>
    /\ row'[s] = [row[s] EXCEPT !.status = row'[s].status,
                                !.completedAt = row'[s].completedAt]
    /\ \E w \in Workers : /\ pc[w] = "saved" /\ pc'[w] = "idle"
                          /\ req[w].caller = row[s].user /\ req[w].session = s

\* Only commits touch a session, and whoever commits has the user as its caller.
LEMMA NextOwnerCommits == IInv /\ [Next]_vars => [OwnerCommits]_vars
<1> SUFFICES ASSUME IInv, Next PROVE OwnerCommits
  BY DEF vars
<1>1. CASE UNCHANGED db
  BY <1>1 DEF db, OwnerCommits, Touched
<1>2. ASSUME NEW w \in Workers, Commit(w) PROVE OwnerCommits
  <2> SUFFICES ASSUME NEW s \in SessionIds, row[s] # None, Touched(s)
               PROVE  /\ row'[s] = [row[s] EXCEPT !.status = row'[s].status,
                                                  !.completedAt = row'[s].completedAt]
                      /\ pc[w] = "saved" /\ pc'[w] = "idle"
                      /\ req[w].caller = row[s].user /\ req[w].session = s
    BY DEF OwnerCommits
  <2> DEFINE a == session[w]
  <2>1. /\ s = req[w].session /\ a \in Session /\ SameSession(row[s], a)
        /\ row'[s] = SavedRow(row[s], a) /\ req[w].caller = a.user
    BY <1>2, Committed DEF Touched, IInv, TypeOK
  <2>2. row[s] \in Row \cup {None}
    BY DEF IInv, TypeOK
  <2>3. row'[s] = [row[s] EXCEPT !.status = row'[s].status,
                                 !.completedAt = row'[s].completedAt]
    <3> DEFINE q == SavedRow(row[s], a)
    <3>1. q = [row[s] EXCEPT !.status = q.status, !.completedAt = q.completedAt]
      BY <2>1, <2>2, SavedRowSession
    <3> HIDE DEF q
    <3>2. row'[s] = q
      BY <2>1 DEF q
    <3> QED
      BY <3>1, <3>2
  <2>4. pc[w] = "saved" /\ pc'[w] = "idle"
    BY <1>2 DEF Commit, End, IInv, TypeOK
  <2> QED
    BY <2>1, <2>3, <2>4 DEF SameSession
<1> QED
  BY <1>1, <1>2 DEF Next, StartSession, Begin, ReadSessionRow, ReadRatings, Rate, Finish,
                    Save, GetResults, Rollback

\* A session changes only by the commit of a request its user sent, and stays the
\* session of the same user, snapshot and mode (Authorize, Sessions.Save).
THEOREM Ownership == Spec => OnlyOwnerWrites
<1>1. IInv /\ [Next]_vars => [OwnerCommits]_vars
  BY NextOwnerCommits
<1>2. Spec => [][OwnerCommits]_vars
  BY <1>1, Invariance, PTL DEF Spec
<1> QED
  BY <1>2 DEF OnlyOwnerWrites, OwnerCommits

-----------------------------------------------------------------------------
(***************************************************************************)
(* The record of lost updates: what holds unless an outdated copy is saved.*)
(***************************************************************************)

\* A copy that no commit has outdated is the committed session; and so is, until
\* somebody saves an outdated copy, every copy of a completed session.
CopyInv(w) ==
  LET s == req[w].session
      a == session[w]
  IN  pc[w] \in Reads /\ (w \notin stale \/ (s \notin overwritten /\ a.status = "completed")) =>
        /\ a.status = row[s].status /\ a.completedAt = row[s].completedAt
        /\ pc[w] = "loaded" => a.rated = ratings[s]

\* What a worker has saved is what its event announces of the session it has read.
Announces(e, w) ==
  LET s == req[w].session
      a == session[w]
  IN  /\ e.session = s
      /\ e.type = "PracticeSessionStarted" =>
           row[s] = None /\ a.status = "in_progress" /\ a.rated = Unrated
      /\ e.type = "CardRated" =>
           /\ row[s] # None /\ a.status = "in_progress"
           /\ w \notin stale => /\ row[s].status = "in_progress"
                                /\ a.rated = [ratings[s] EXCEPT ![e.card] = e.rating]
      /\ e.type = "PracticeSessionCompleted" =>
           /\ row[s] # None /\ a.status = "completed"
           /\ e.rated = a.rated /\ e.completedAt = a.completedAt /\ e.counts = Summary(a.rated)
           /\ w \notin stale => /\ a.rated = ratings[s]
                                /\ row[s].status = "completed" => a.completedAt = row[s].completedAt

StagedInv(w) == pc[w] = "saved" => \E e \in Event : staged[w] = <<e>> /\ Announces(e, w)

\* The rating of card c in session s is the latest announced.
RatedAsAnnounced(s, c) ==
  \/ ratings[s][c] = None /\ \A e \in Range(outbox) : ~Rates(e, s, c)
  \/ \E i \in DOMAIN outbox : RatedLast(i, s, c) /\ outbox[i].rating = ratings[s][c]

\* A session that no outdated copy was saved to is what its events tell, and once
\* completed what every one of its completions tells, the time to the microsecond.
SessionInv(s) ==
  /\ row[s] = None => \A e \in Range(outbox) : e.session # s
  /\ s \notin overwritten =>
       /\ \A c \in Cards : RatedAsAnnounced(s, c)
       /\ row[s] # None /\ row[s].status = "completed" => CompletionsOf(s) # {}
       /\ \A e \in CompletionsOf(s) :
            /\ row[s] # None /\ row[s].status = "completed"
            /\ e.rated = ratings[s] /\ InMicroseconds(e.completedAt) = row[s].completedAt
            /\ e.counts = Summary(ratings[s])

HInv ==
  /\ IInv
  /\ \A w \in Workers : CopyInv(w) /\ StagedInv(w)
  /\ \A s \in SessionIds : SessionInv(s)

LEMMA InitHInv == HistoryInit => HInv
<1> SUFFICES ASSUME HistoryInit PROVE HInv
  OBVIOUS
<1>1. IInv
  BY InitIInv DEF HistoryInit
<1>2. \A w \in Workers : pc[w] = "idle"
  BY DEF HistoryInit, Init
<1>3. outbox = <<>> /\ DOMAIN outbox = {} /\ Range(outbox) = {}
  BY DEF HistoryInit, Init, Range
<1>4. ASSUME NEW s \in SessionIds PROVE SessionInv(s)
  <2>1. row[s] = None /\ ratings[s] = Unrated
    BY DEF HistoryInit, Init
  <2>2. CompletionsOf(s) = {}
    BY <1>3 DEF CompletionsOf
  <2> QED
    BY <1>3, <2>1, <2>2 DEF SessionInv, RatedAsAnnounced, Unrated
<1> QED
  BY <1>1, <1>2, <1>4 DEF HInv, CopyInv, StagedInv, Reads

\* A step that leaves the tables alone outdates and overwrites nothing.
LEMMA QuietRecord ==
  ASSUME Record, UNCHANGED db
  PROVE  /\ \A v \in Workers : pc'[v] # "idle" => (v \in stale' <=> v \in stale)
         /\ overwritten' = overwritten
<1>1. \A v : ~Commits(v)
  BY DEF Commits, db
<1>2. {v \in stale : Commits(v)} = {}
  BY <1>1
<1>3. overwritten' = overwritten \cup {req[v].session : v \in {u \in stale : Commits(u)}}
  BY DEF Record
<1>4. overwritten' = overwritten
  BY <1>2, <1>3
<1> QED
  BY <1>1, <1>4 DEF Record

\* A worker that does not move in such a step, and the sessions.
LEMMA QuietOther ==
  ASSUME HInv, Record, UNCHANGED db, NEW v \in Workers,
         pc'[v] = pc[v], req'[v] = req[v], session'[v] = session[v], staged'[v] = staged[v]
  PROVE  CopyInv(v)' /\ StagedInv(v)'
<1>1. CopyInv(v) /\ StagedInv(v) /\ row' = row /\ ratings' = ratings
  BY DEF HInv, db
<1>2. overwritten' = overwritten /\ (pc[v] # "idle" => (v \in stale' <=> v \in stale))
  BY QuietRecord
<1>3. CopyInv(v)'
  BY <1>1, <1>2 DEF CopyInv, Reads
<1>4. ASSUME NEW e \in Event, Announces(e, v), pc[v] = "saved" PROVE Announces(e, v)'
  BY <1>1, <1>2, <1>4 DEF Announces
<1>5. StagedInv(v)'
  BY <1>1, <1>4 DEF StagedInv
<1> QED
  BY <1>3, <1>5

LEMMA QuietSession ==
  ASSUME HInv, Record, UNCHANGED db, NEW s \in SessionIds
  PROVE  SessionInv(s)'
<1>1. SessionInv(s) /\ row' = row /\ ratings' = ratings /\ outbox' = outbox
  BY DEF HInv, db
<1>2. overwritten' = overwritten
  BY QuietRecord
<1> QED
  BY <1>1, <1>2 DEF SessionInv, RatedAsAnnounced, RatedLast, CompletionsOf

\* Such a step of w, with the invariants of w itself.
LEMMA QuietHInv ==
  ASSUME HInv, IInv', Record, UNCHANGED db, NEW w \in Workers,
         \A v \in Workers \ {w} : /\ pc'[v] = pc[v] /\ req'[v] = req[v]
                                  /\ session'[v] = session[v] /\ staged'[v] = staged[v],
         CopyInv(w)', StagedInv(w)'
  PROVE  HInv'
<1>1. ASSUME NEW v \in Workers, v # w PROVE CopyInv(v)' /\ StagedInv(v)'
  BY <1>1, QuietOther
<1> QED
  BY <1>1, QuietSession DEF HInv

LEMMA StartSessionHInv ==
  ASSUME HInv, IInv', Record, NEW w \in Workers, NEW caller \in Users, NEW s \in SessionIds,
         NEW tracked \in BOOLEAN, NEW cards \in SUBSET Cards,
         StartSession(w, caller, s, tracked, cards)
  PROVE  HInv'
<1> PICK e : e = [type |-> "PracticeSessionStarted", session |-> s]
  OBVIOUS
<1> PICK a : a = [user |-> caller, tracked |-> tracked, cards |-> cards,
                  status |-> "in_progress", completedAt |-> None, rated |-> Unrated]
  OBVIOUS
<1>1. IInv /\ e \in Event
  BY DEF HInv, Event
<1>2. /\ row[s] = None /\ UNCHANGED db /\ Admit(w, caller, s, "saved")
      /\ session' = [session EXCEPT ![w] = a] /\ staged' = [staged EXCEPT ![w] = <<e>>]
  BY DEF StartSession
<1>3. /\ pc'[w] = "saved" /\ req'[w].session = s /\ session'[w] = a /\ staged'[w] = <<e>>
      /\ \A v \in Workers \ {w} : /\ pc'[v] = pc[v] /\ req'[v] = req[v]
                                  /\ session'[v] = session[v] /\ staged'[v] = staged[v]
  BY <1>1, <1>2, Admitted DEF IInv, TypeOK
<1>4. row' = row
  BY <1>2 DEF db
<1>5. CopyInv(w)'
  BY <1>3 DEF CopyInv, Reads
<1>6. Announces(e, w)'
  BY <1>2, <1>3, <1>4 DEF Announces
<1>7. StagedInv(w)'
  BY <1>1, <1>3, <1>6 DEF StagedInv
<1> QED
  BY <1>2, <1>3, <1>5, <1>7, QuietHInv

LEMMA BeginHInv ==
  ASSUME HInv, IInv', Record, NEW w \in Workers, NEW caller \in Users, NEW s \in SessionIds,
         Begin(w, caller, s)
  PROVE  HInv'
<1>1. IInv /\ UNCHANGED <<db, session, staged>> /\ Admit(w, caller, s, "began")
  BY DEF HInv, Begin
<1>2. /\ pc'[w] = "began"
      /\ \A v \in Workers \ {w} : pc'[v] = pc[v] /\ req'[v] = req[v]
  BY <1>1, Admitted
<1>3. CopyInv(w)' /\ StagedInv(w)'
  BY <1>2 DEF CopyInv, StagedInv, Reads
<1> QED
  BY <1>1, <1>2, <1>3, QuietHInv

LEMMA ReadHInv ==
  ASSUME HInv, IInv', Record, NEW w \in Workers, ReadSessionRow(w) \/ ReadRatings(w)
  PROVE  HInv'
<1>1. /\ IInv /\ WorkerInv(w) /\ CopyInv(w) /\ UNCHANGED <<db, req, staged>>
      /\ row' = row /\ ratings' = ratings
  BY DEF HInv, IInv, ReadSessionRow, ReadRatings, db
<1>2. overwritten' = overwritten /\ (pc'[w] # "idle" => (w \in stale' <=> w \in stale))
  BY <1>1, QuietRecord
<1>3. CASE ReadSessionRow(w)
  <2> PICK s : s = req[w].session
    OBVIOUS
  <2> PICK a : a = [user |-> row[s].user, tracked |-> row[s].tracked, cards |-> row[s].cards,
                    status |-> row[s].status, completedAt |-> row[s].completedAt,
                    rated |-> Unrated]
    OBVIOUS
  <2>1. pc' = [pc EXCEPT ![w] = "rowRead"] /\ session' = [session EXCEPT ![w] = a]
    BY <1>3 DEF ReadSessionRow
  <2>2. /\ pc'[w] = "rowRead" /\ session'[w] = a
        /\ \A v \in Workers \ {w} : pc'[v] = pc[v] /\ session'[v] = session[v]
    BY <1>1, <2>1 DEF IInv, TypeOK
  <2>3. CopyInv(w)' /\ StagedInv(w)'
    BY <1>1, <2>2 DEF CopyInv, StagedInv
  <2> QED
    BY <1>1, <2>2, <2>3, QuietHInv
<1>4. CASE ReadRatings(w)
  <2> PICK s : s = req[w].session
    OBVIOUS
  <2> PICK a : a = [session[w] EXCEPT !.rated = ratings[s]]
    OBVIOUS
  <2>1. /\ pc[w] = "rowRead" /\ pc' = [pc EXCEPT ![w] = "loaded"]
        /\ session' = [session EXCEPT ![w] = a]
    BY <1>4 DEF ReadRatings
  <2>2. /\ pc'[w] = "loaded" /\ session'[w] = a
        /\ \A v \in Workers \ {w} : pc'[v] = pc[v] /\ session'[v] = session[v]
    BY <1>1, <2>1 DEF IInv, TypeOK
  <2>3. /\ a.rated = ratings[s] /\ a.status = session[w].status
        /\ a.completedAt = session[w].completedAt
    BY <1>1, <2>1 DEF WorkerInv, Holds, Session
  <2>4. CopyInv(w)' /\ StagedInv(w)'
    BY <1>1, <1>2, <2>1, <2>2, <2>3 DEF CopyInv, StagedInv, Reads
  <2> QED
    BY <1>1, <2>2, <2>4, QuietHInv
<1> QED
  BY <1>3, <1>4

\* What a save does, and what the saved copy was before it.
LEMMA Saved ==
  ASSUME HInv, Record, NEW w \in Workers, NEW a, NEW e, pc[w] = "loaded", Save(w, a, e)
  PROVE  LET s == req[w].session
         IN  /\ UNCHANGED <<db, req>> /\ row' = row /\ ratings' = ratings
             /\ pc'[w] = "saved" /\ session'[w] = a /\ staged'[w] = <<e>>
             /\ \A v \in Workers \ {w} : /\ pc'[v] = pc[v] /\ req'[v] = req[v]
                                         /\ session'[v] = session[v] /\ staged'[v] = staged[v]
             /\ w \in stale' <=> w \in stale
             /\ s \in SessionIds /\ row[s] # None /\ row[s] \in Row /\ session[w] \in Session
             /\ w \notin stale => /\ session[w].status = row[s].status
                                  /\ session[w].completedAt = row[s].completedAt
                                  /\ session[w].rated = ratings[s]
<1>1. IInv /\ WorkerInv(w) /\ CopyInv(w)
  BY DEF HInv, IInv
<1>2. /\ UNCHANGED <<db, req>> /\ row' = row /\ ratings' = ratings
      /\ session' = [session EXCEPT ![w] = a] /\ staged' = [staged EXCEPT ![w] = <<e>>]
      /\ pc' = [pc EXCEPT ![w] = "saved"]
  BY DEF Save, db
<1>3. /\ pc'[w] = "saved" /\ session'[w] = a /\ staged'[w] = <<e>>
      /\ \A v \in Workers \ {w} : /\ pc'[v] = pc[v] /\ req'[v] = req[v]
                                  /\ session'[v] = session[v] /\ staged'[v] = staged[v]
  BY <1>1, <1>2 DEF IInv, TypeOK
<1>4. w \in stale' <=> w \in stale
  BY <1>2, <1>3, QuietRecord
<1>5. /\ req[w].session \in SessionIds /\ row[req[w].session] # None
      /\ session[w] \in Session
  BY <1>1 DEF WorkerInv, Reads, Holds, Request
<1>6. row[req[w].session] \in Row
  BY <1>1, <1>5 DEF IInv, TypeOK
<1>7. w \notin stale => /\ session[w].status = row[req[w].session].status
                        /\ session[w].completedAt = row[req[w].session].completedAt
                        /\ session[w].rated = ratings[req[w].session]
  BY <1>1 DEF CopyInv, Reads
<1> QED
  BY <1>2, <1>3, <1>4, <1>5, <1>6, <1>7

LEMMA RateHInv ==
  ASSUME HInv, IInv', Record, NEW w \in Workers, NEW card \in Cards, NEW rating \in Ratings,
         Rate(w, card, rating)
  PROVE  HInv'
<1> PICK s, a, e :
      /\ s = req[w].session /\ a = [session[w] EXCEPT !.rated[card] = rating]
      /\ e = [type |-> "CardRated", session |-> req[w].session, card |-> card,
              rating |-> rating]
  OBVIOUS
<1>1. pc[w] = "loaded" /\ session[w].status = "in_progress" /\ Save(w, a, e)
  BY DEF Rate, InProgress
<1>2. /\ UNCHANGED db /\ req' = req /\ row' = row /\ ratings' = ratings
      /\ pc'[w] = "saved" /\ session'[w] = a /\ staged'[w] = <<e>>
      /\ \A v \in Workers \ {w} : /\ pc'[v] = pc[v] /\ req'[v] = req[v]
                                  /\ session'[v] = session[v] /\ staged'[v] = staged[v]
      /\ w \in stale' <=> w \in stale
      /\ s \in SessionIds /\ row[s] # None /\ session[w] \in Session
      /\ w \notin stale => session[w].status = row[s].status /\ session[w].rated = ratings[s]
  BY <1>1, Saved
<1>3. e \in Event /\ e.type = "CardRated" /\ e.session = s /\ e.card = card /\ e.rating = rating
  BY <1>2 DEF Event
<1>4. a.status = "in_progress" /\ a.rated = [session[w].rated EXCEPT ![card] = rating]
  BY <1>1, <1>2 DEF Session
<1>5. Announces(e, w)'
  BY <1>1, <1>2, <1>3, <1>4 DEF Announces
<1>6. CopyInv(w)' /\ StagedInv(w)'
  BY <1>2, <1>3, <1>5 DEF CopyInv, StagedInv, Reads
<1> QED
  BY <1>2, <1>6, QuietHInv

LEMMA FinishHInv ==
  ASSUME HInv, IInv', Record, NEW w \in Workers, NEW fine \in BOOLEAN, Finish(w, fine)
  PROVE  HInv'
<1> PICK now : now = [request |-> req[w].number, fine |-> fine]
  OBVIOUS
<1> PICK s, a : s = req[w].session /\ a = Finished(session[w], now)
  OBVIOUS
<1> PICK e : e = [type |-> "PracticeSessionCompleted", session |-> s,
                  counts |-> Summary(a.rated), rated |-> a.rated, completedAt |-> a.completedAt]
  OBVIOUS
<1>1. pc[w] = "loaded" /\ Save(w, a, e) /\ IInv
  BY DEF Finish, HInv
<1>2. /\ UNCHANGED db /\ req' = req /\ row' = row /\ ratings' = ratings
      /\ pc'[w] = "saved" /\ session'[w] = a /\ staged'[w] = <<e>>
      /\ \A v \in Workers \ {w} : /\ pc'[v] = pc[v] /\ req'[v] = req[v]
                                  /\ session'[v] = session[v] /\ staged'[v] = staged[v]
      /\ w \in stale' <=> w \in stale
      /\ s \in SessionIds /\ row[s] # None /\ session[w] \in Session
      /\ w \notin stale => /\ session[w].status = row[s].status
                           /\ session[w].completedAt = row[s].completedAt
                           /\ session[w].rated = ratings[s]
  BY <1>1, Saved
<1>3. /\ a \in Session /\ a.status = "completed" /\ a.rated = session[w].rated
      /\ session[w].status = "completed" => a = session[w]
      /\ a.completedAt # None
  <2>1. now \in Time /\ now # None /\ Stamped(session[w])
    BY <1>1, LoadedSession, NoneAssumption DEF Request, Time
  <2> QED
    BY <1>2, <2>1 DEF Finished, Session, Stamped, Statuses
<1>4. e \in Event
  <2>1. a.rated \in RatingMap /\ a.completedAt \in Time
    BY <1>3 DEF Session
  <2>2. Summary(a.rated) \in [Ratings -> Nat]
    BY <2>1, SummaryType
  <2> QED
    BY <1>2, <2>1, <2>2 DEF Event
<1>5. Announces(e, w)'
  <2>1. /\ e.type = "PracticeSessionCompleted" /\ e.session = s /\ e.rated = a.rated
        /\ e.completedAt = a.completedAt /\ e.counts = Summary(a.rated)
    OBVIOUS
  <2> QED
    BY <1>2, <1>3, <2>1 DEF Announces, Summary
<1>6. CopyInv(w)' /\ StagedInv(w)'
  BY <1>2, <1>4, <1>5 DEF CopyInv, StagedInv, Reads
<1> QED
  BY <1>2, <1>6, QuietHInv

\* A request that ends without a commit.
LEMMA EndHInv ==
  ASSUME HInv, IInv', Record, NEW w \in Workers, End(w), UNCHANGED db
  PROVE  HInv'
<1>1. /\ pc'[w] = "idle"
      /\ \A v \in Workers \ {w} : /\ pc'[v] = pc[v] /\ req'[v] = req[v]
                                  /\ session'[v] = session[v] /\ staged'[v] = staged[v]
  BY DEF End, HInv, IInv, TypeOK
<1>2. CopyInv(w)' /\ StagedInv(w)'
  BY <1>1 DEF CopyInv, StagedInv, Reads
<1> QED
  BY <1>1, <1>2, QuietHInv

\* What the commit of w does to the tables, the record and the other workers.
LEMMA CommittedStep ==
  ASSUME HInv, Record, NEW w \in Workers, Commit(w)
  PROVE  LET s == req[w].session
         IN  /\ s \in SessionIds /\ pc[w] = "saved" /\ pc'[w] = "idle"
             /\ row'[s] # None /\ row'[s].status = session[w].status
             /\ row'[s].completedAt = InMicroseconds(session[w].completedAt)
             /\ ratings'[s] = session[w].rated
             /\ \A t \in SessionIds \ {s} : row'[t] = row[t] /\ ratings'[t] = ratings[t]
             /\ \E e \in Event : /\ Announces(e, w)
                                 /\ Len(outbox') = Len(outbox) + 1
                                 /\ outbox'[Len(outbox) + 1] = e
                                 /\ \A i \in 1..Len(outbox) : outbox'[i] = outbox[i]
                                 /\ Range(outbox') = Range(outbox) \cup {e}
             /\ overwritten \subseteq overwritten'
             /\ w \in stale => s \in overwritten'
             /\ \A v \in Workers \ {w} :
                  /\ pc'[v] = pc[v] /\ req'[v] = req[v] /\ session'[v] = session[v]
                  /\ staged'[v] = staged[v]
                  /\ pc[v] # "idle" /\ v \in stale => v \in stale'
                  /\ pc[v] \in Reads /\ req[v].session = s => v \in stale'
                  /\ pc[v] = "saved" => req[v].session # s
<1> PICK s, a : s = req[w].session /\ a = session[w]
  OBVIOUS
<1>1. /\ IInv /\ TypeOK /\ StagedInv(w) /\ pc[w] = "saved" /\ End(w)
      /\ s \in SessionIds /\ a \in Session /\ lock[s] = w
      /\ row' = [row EXCEPT ![s] = SavedRow(row[s], a)]
      /\ ratings' = [ratings EXCEPT ![s] = a.rated]
      /\ outbox' = outbox \o staged[w]
  BY Committed DEF HInv, IInv, Commit
<1>2. /\ row'[s] = SavedRow(row[s], a) /\ ratings'[s] = a.rated
      /\ \A t \in SessionIds \ {s} : row'[t] = row[t] /\ ratings'[t] = ratings[t]
  BY <1>1 DEF TypeOK
<1>3. /\ row'[s] # None /\ row'[s].status = a.status
      /\ row'[s].completedAt = InMicroseconds(a.completedAt)
  <2>1. row[s] \in Row \cup {None} /\ (row[s] # None => SameSession(row[s], a))
    BY <1>1, Committed DEF TypeOK
  <2>2. /\ SavedRow(row[s], a) \in Row /\ SavedRow(row[s], a).status = a.status
        /\ SavedRow(row[s], a).completedAt = InMicroseconds(a.completedAt)
    BY ONLY <1>1, <2>1, SavedRowSession
  <2> QED
    BY <1>2, <2>2, NoneAssumption
<1> PICK e \in Event : staged[w] = <<e>> /\ Announces(e, w)
  BY <1>1 DEF StagedInv
<1>4. outbox \in Seq(Event) /\ outbox' = outbox \o <<e>>
  BY <1>1 DEF TypeOK
<1>5. /\ outbox' \in Seq(Event) /\ Len(outbox') = Len(outbox) + 1 /\ Len(outbox) \in Nat
      /\ outbox'[Len(outbox) + 1] = e /\ \A i \in 1..Len(outbox) : outbox'[i] = outbox[i]
  BY <1>4
<1>6. Range(outbox') = Range(outbox) \cup {e}
  <2>1. DOMAIN outbox' = 1..(Len(outbox) + 1) /\ DOMAIN outbox = 1..Len(outbox)
    BY <1>4, <1>5
  <2>2. DOMAIN outbox' = DOMAIN outbox \cup {Len(outbox) + 1}
    BY <1>5, <2>1
  <2> QED
    BY <1>5, <2>1, <2>2 DEF Range
<1>7. outbox' # outbox
  BY <1>4, <1>5
<1>8. /\ pc'[w] = "idle"
      /\ \A v \in Workers \ {w} : /\ pc'[v] = pc[v] /\ req'[v] = req[v]
                                  /\ session'[v] = session[v] /\ staged'[v] = staged[v]
  BY <1>1 DEF End, TypeOK
<1>9. Commits(w)
  BY <1>1, <1>7, <1>8 DEF Commits
<1>10. overwritten \subseteq overwritten' /\ (w \in stale => s \in overwritten')
  BY <1>9 DEF Record
<1>11. ASSUME NEW v \in Workers \ {w}
       PROVE  /\ pc[v] # "idle" /\ v \in stale => v \in stale'
              /\ pc[v] \in Reads /\ req[v].session = s => v \in stale'
  <2>1. pc'[v] = pc[v]
    BY <1>8
  <2>2. pc[v] \in Reads => v \in Reading /\ pc[v] # "idle"
    BY DEF Reads, Reading
  <2> QED
    BY <1>9, <2>1, <2>2 DEF Record
<1>12. ASSUME NEW v \in Workers \ {w}, pc[v] = "saved" PROVE req[v].session # s
  BY <1>1, <1>12 DEF IInv, WorkerInv
<1> QED
  BY <1>1, <1>2, <1>3, <1>5, <1>6, <1>8, <1>10, <1>11, <1>12

\* A commit leaves a session it does not concern alone.
LEMMA CommitOtherSession ==
  ASSUME HInv, Record, NEW w \in Workers, Commit(w), NEW t \in SessionIds, t # req[w].session
  PROVE  SessionInv(t)'
<1> PICK e \in Event :
      /\ Announces(e, w) /\ Len(outbox') = Len(outbox) + 1 /\ outbox'[Len(outbox) + 1] = e
      /\ \A i \in 1..Len(outbox) : outbox'[i] = outbox[i]
      /\ Range(outbox') = Range(outbox) \cup {e}
  BY CommittedStep
<1>1. /\ SessionInv(t) /\ row'[t] = row[t] /\ ratings'[t] = ratings[t] /\ e.session # t
      /\ overwritten \subseteq overwritten'
  BY CommittedStep DEF HInv, Announces
<1>2. CompletionsOf(t)' = CompletionsOf(t)
  BY <1>1 DEF CompletionsOf
<1>3. outbox \in Seq(Event) /\ outbox' \in Seq(Event) /\ Len(outbox) \in Nat
  BY DEF HInv, IInv, TypeOK, Commit, StagedInv
<1>4. ASSUME NEW c \in Cards, RatedAsAnnounced(t, c) PROVE RatedAsAnnounced(t, c)'
  <2>1. ~Rates(e, t, c)
    BY <1>1 DEF Rates
  <2>2. CASE ratings[t][c] = None /\ \A x \in Range(outbox) : ~Rates(x, t, c)
    BY <1>1, <2>1, <2>2 DEF RatedAsAnnounced
  <2>3. CASE \E i \in DOMAIN outbox : RatedLast(i, t, c) /\ outbox[i].rating = ratings[t][c]
    <3> PICK i \in DOMAIN outbox : RatedLast(i, t, c) /\ outbox[i].rating = ratings[t][c]
      BY <2>3
    <3>1. i \in DOMAIN outbox' /\ outbox'[i] = outbox[i] /\ DOMAIN outbox' = 1..(Len(outbox) + 1)
      BY <1>3
    <3>2. \A j \in DOMAIN outbox' : j > i => ~Rates(outbox'[j], t, c)
      BY <1>3, <2>1, <3>1 DEF RatedLast
    <3> QED
      BY <1>1, <3>1, <3>2 DEF RatedAsAnnounced, RatedLast
  <2> QED
    BY <1>4, <2>2, <2>3 DEF RatedAsAnnounced
<1>5. t \notin overwritten' => \A c \in Cards : RatedAsAnnounced(t, c)'
  BY <1>1, <1>4 DEF SessionInv
<1> QED
  BY <1>1, <1>2, <1>5 DEF SessionInv

\* The latest rating of a card is the one just announced, or the one it was.
LEMMA CommitRatings ==
  ASSUME HInv, Record, NEW w \in Workers, Commit(w), NEW s, s = req[w].session,
         s \notin overwritten', NEW c \in Cards
  PROVE  RatedAsAnnounced(s, c)'
<1> PICK e \in Event :
      /\ Announces(e, w) /\ Len(outbox') = Len(outbox) + 1 /\ outbox'[Len(outbox) + 1] = e
      /\ \A i \in 1..Len(outbox) : outbox'[i] = outbox[i]
      /\ Range(outbox') = Range(outbox) \cup {e}
  BY CommittedStep
<1>1. /\ s \in SessionIds /\ SessionInv(s) /\ s \notin overwritten /\ w \notin stale
      /\ ratings'[s] = session[w].rated /\ IInv
  BY CommittedStep DEF HInv
<1>2. outbox \in Seq(Event) /\ Len(outbox) \in Nat /\ DOMAIN outbox = 1..Len(outbox)
  BY <1>1 DEF IInv, TypeOK
<1>3. DOMAIN outbox' = 1..(Len(outbox) + 1)
  <2>1. outbox' = outbox \o staged[w] /\ staged[w] \in Seq(Event)
    BY <1>1 DEF IInv, TypeOK, Commit
  <2> QED
    BY <1>2, <2>1
<1>4. RatedAsAnnounced(s, c)
  BY <1>1 DEF SessionInv
<1>5. CASE Rates(e, s, c)
  <2>1. e.type = "CardRated" /\ e.card = c
    BY <1>5 DEF Rates
  <2>2. session[w].rated = [ratings[s] EXCEPT ![c] = e.rating] /\ ratings[s] \in RatingMap
    BY <1>1, <2>1 DEF Announces, IInv, TypeOK
  <2>3. ratings'[s][c] = e.rating
    BY <1>1, <2>2 DEF RatingMap
  <2> PICK n : n = Len(outbox) + 1
    OBVIOUS
  <2>4. n \in DOMAIN outbox' /\ outbox'[n] = e /\ \A j \in DOMAIN outbox' : ~(j > n)
    BY <1>2, <1>3
  <2>5. RatedLast(n, s, c)'
    BY <1>5, <2>4 DEF RatedLast
  <2> QED
    BY <2>3, <2>4, <2>5 DEF RatedAsAnnounced
<1>6. CASE ~Rates(e, s, c)
  <2>1. ratings'[s][c] = ratings[s][c]
    <3>1. e.type \in {"PracticeSessionStarted", "CardRated", "PracticeSessionCompleted"}
      BY DEF Event
    <3>2. e.type = "CardRated" => e.card # c /\ e.session = s
      BY <1>1, <1>6 DEF Rates, Announces
    <3>3. ratings[s] \in RatingMap
      BY <1>1 DEF IInv, TypeOK
    <3>4. CASE e.type = "CardRated"
      BY <1>1, <3>2, <3>3, <3>4 DEF Announces, RatingMap
    <3>5. CASE e.type = "PracticeSessionCompleted"
      BY <1>1, <3>5 DEF Announces
    <3>6. CASE e.type = "PracticeSessionStarted"
      <4>1. row[s] = None /\ session[w].rated = Unrated
        BY <1>1, <3>6 DEF Announces
      <4>2. ratings[s][c] = None
        BY <1>1, <4>1 DEF IInv, RatingsWithinSnapshot
      <4> QED
        BY <1>1, <4>1, <4>2 DEF Unrated
    <3> QED
      BY <3>1, <3>4, <3>5, <3>6
  <2>2. CASE ratings[s][c] = None /\ \A x \in Range(outbox) : ~Rates(x, s, c)
    BY <1>6, <2>1, <2>2 DEF RatedAsAnnounced
  <2>3. CASE \E i \in DOMAIN outbox : RatedLast(i, s, c) /\ outbox[i].rating = ratings[s][c]
    <3> PICK i \in DOMAIN outbox : RatedLast(i, s, c) /\ outbox[i].rating = ratings[s][c]
      BY <2>3
    <3>1. i \in DOMAIN outbox' /\ outbox'[i] = outbox[i]
      BY <1>2, <1>3
    <3>2. \A j \in DOMAIN outbox' : j > i => ~Rates(outbox'[j], s, c)
      BY <1>2, <1>3, <1>6 DEF RatedLast
    <3> QED
      BY <2>1, <3>1, <3>2 DEF RatedAsAnnounced, RatedLast
  <2> QED
    BY <1>4, <2>2, <2>3 DEF RatedAsAnnounced
<1> QED
  BY <1>5, <1>6

\* What the row has of completed_at it keeps when it is saved again.
LEMMA StoredStays ==
  ASSUME HInv, NEW s \in SessionIds, row[s] # None
  PROVE  InMicroseconds(row[s].completedAt) = row[s].completedAt
<1>1. row[s] \in Row
  BY DEF HInv, IInv, TypeOK
<1>2. row[s].completedAt \in StoredTime \cup {None} /\ StoredTime \subseteq Time
  BY <1>1 DEF Row, StoredTime, Time
<1> QED
  BY <1>2, Microseconds

\* A copy that is not outdated completes a session once: what it announces is what
\* was announced before, if anything was.
LEMMA CommitCompletions ==
  ASSUME HInv, Record, NEW w \in Workers, Commit(w), NEW s, s = req[w].session,
         s \notin overwritten'
  PROVE  /\ session[w].status = "completed" => CompletionsOf(s)' # {}
         /\ \A e \in CompletionsOf(s)' :
              /\ session[w].status = "completed" /\ e.rated = session[w].rated
              /\ InMicroseconds(e.completedAt) = InMicroseconds(session[w].completedAt)
              /\ e.counts = Summary(session[w].rated)
         /\ (row[s] # None /\ row[s].status = "completed") =>
              /\ session[w].status = "completed" /\ session[w].rated = ratings[s]
              /\ session[w].completedAt = row[s].completedAt
<1> PICK e \in Event : Announces(e, w) /\ Range(outbox') = Range(outbox) \cup {e}
  BY CommittedStep
<1>1. s \in SessionIds /\ SessionInv(s) /\ s \notin overwritten /\ w \notin stale /\ e.session = s
  BY CommittedStep DEF HInv, Announces
<1>2. e.type \in {"PracticeSessionStarted", "CardRated", "PracticeSessionCompleted"}
  BY DEF Event
<1>3. ASSUME NEW x \in CompletionsOf(s)', x # e PROVE x \in CompletionsOf(s)
  BY <1>3 DEF CompletionsOf
<1>4. e \in CompletionsOf(s)' <=> e.type = "PracticeSessionCompleted"
  BY <1>1 DEF CompletionsOf
<1>5. CASE e.type = "PracticeSessionStarted"
  <2>1. row[s] = None /\ session[w].status = "in_progress"
    BY <1>1, <1>5 DEF Announces
  <2>2. CompletionsOf(s) = {}
    BY <1>1, <2>1 DEF SessionInv
  <2> QED
    BY <1>3, <1>4, <1>5, <2>1, <2>2
<1>6. CASE e.type = "CardRated"
  <2>1. row[s] # None /\ row[s].status = "in_progress" /\ session[w].status = "in_progress"
    BY <1>1, <1>6 DEF Announces
  <2>2. CompletionsOf(s) = {}
    BY <1>1, <2>1 DEF SessionInv
  <2> QED
    BY <1>3, <1>4, <1>6, <2>1, <2>2
<1>7. CASE e.type = "PracticeSessionCompleted"
  <2>1. /\ row[s] # None /\ session[w].status = "completed"
        /\ e.rated = session[w].rated /\ e.completedAt = session[w].completedAt
        /\ e.counts = Summary(session[w].rated) /\ session[w].rated = ratings[s]
        /\ row[s].status = "completed" => session[w].completedAt = row[s].completedAt
    BY <1>1, <1>7 DEF Announces
  <2>2. ASSUME NEW x \in CompletionsOf(s)
        PROVE  /\ row[s].status = "completed" /\ x.rated = ratings[s]
               /\ InMicroseconds(x.completedAt) = row[s].completedAt
               /\ x.counts = Summary(ratings[s])
    BY <1>1 DEF SessionInv
  <2>3. ASSUME NEW x \in CompletionsOf(s)'
        PROVE  /\ x.rated = session[w].rated
               /\ InMicroseconds(x.completedAt) = InMicroseconds(session[w].completedAt)
               /\ x.counts = Summary(session[w].rated)
    <3>1. CASE x = e
      BY <2>1, <3>1
    <3>2. CASE x # e
      <4>1. session[w].completedAt = row[s].completedAt
        BY <1>3, <2>1, <2>2, <3>2
      <4>2. InMicroseconds(row[s].completedAt) = row[s].completedAt
        BY <1>1, <2>1, StoredStays
      <4> QED
        BY <1>3, <2>1, <2>2, <3>2, <4>1, <4>2
    <3> QED
      BY <3>1, <3>2
  <2> QED
    BY <1>4, <1>7, <2>1, <2>3
<1> QED
  BY <1>2, <1>5, <1>6, <1>7

LEMMA CommitHInv ==
  ASSUME HInv, IInv', Record, NEW w \in Workers, Commit(w)
  PROVE  HInv'
<1> PICK s : s = req[w].session
  OBVIOUS
<1>1. /\ s \in SessionIds /\ pc'[w] = "idle"
      /\ row'[s] # None /\ row'[s].status = session[w].status
      /\ row'[s].completedAt = InMicroseconds(session[w].completedAt)
      /\ ratings'[s] = session[w].rated
      /\ \A t \in SessionIds \ {s} : row'[t] = row[t] /\ ratings'[t] = ratings[t]
      /\ overwritten \subseteq overwritten'
      /\ \A v \in Workers \ {w} :
           /\ pc'[v] = pc[v] /\ req'[v] = req[v] /\ session'[v] = session[v]
           /\ staged'[v] = staged[v]
           /\ pc[v] # "idle" /\ v \in stale => v \in stale'
           /\ pc[v] \in Reads /\ req[v].session = s => v \in stale'
           /\ pc[v] = "saved" => req[v].session # s
  BY CommittedStep
<1>2. ASSUME NEW t \in SessionIds PROVE SessionInv(t)'
  <2>1. CASE t # s
    BY <2>1, CommitOtherSession
  <2>2. CASE t = s
    <3>1. s \notin overwritten' =>
            /\ session[w].status = "completed" => CompletionsOf(s)' # {}
            /\ \A e \in CompletionsOf(s)' :
                 /\ session[w].status = "completed"
                 /\ e.rated = session[w].rated
                 /\ InMicroseconds(e.completedAt) = InMicroseconds(session[w].completedAt)
                 /\ e.counts = Summary(session[w].rated)
      BY CommitCompletions
    <3>2. s \notin overwritten' => \A c \in Cards : RatedAsAnnounced(s, c)'
      BY CommitRatings
    <3>3. Summary(session[w].rated) = Summary(ratings[s])'
      BY <1>1 DEF Summary
    <3> QED
      BY <1>1, <2>2, <3>1, <3>2, <3>3 DEF SessionInv
  <2> QED
    BY <2>1, <2>2
<1>3. ASSUME NEW v \in Workers, v # w PROVE CopyInv(v)' /\ StagedInv(v)'
  <2> PICK t : t = req[v].session
    OBVIOUS
  <2>1. CopyInv(v) /\ StagedInv(v) /\ WorkerInv(v)
    BY DEF HInv, IInv
  <2>2. pc[v] # "idle" => t \in SessionIds
    BY <2>1 DEF WorkerInv, Request
  <2>3. CopyInv(v)'
    <3> SUFFICES ASSUME pc[v] \in Reads,
                        v \notin stale' \/ (t \notin overwritten' /\ session[v].status = "completed")
                 PROVE  /\ session[v].status = row'[t].status
                        /\ session[v].completedAt = row'[t].completedAt
                        /\ pc[v] = "loaded" => session[v].rated = ratings'[t]
      BY <1>1, <1>3 DEF CopyInv
    <3>1. pc[v] # "idle" /\ t \in SessionIds
      BY <2>2 DEF Reads
    <3>2. /\ session[v].status = row[t].status /\ session[v].completedAt = row[t].completedAt
          /\ pc[v] = "loaded" => session[v].rated = ratings[t]
      BY <1>1, <1>3, <2>1, <3>1 DEF CopyInv
    <3>3. CASE t # s
      BY <1>1, <3>1, <3>2, <3>3
    <3>4. CASE t = s
      <4>1. t \notin overwritten' /\ session[v].status = "completed" /\ row[t] # None
        BY <1>1, <1>3, <2>1, <3>4 DEF WorkerInv
      <4>2. /\ session[w].status = "completed" /\ session[w].rated = ratings[s]
            /\ session[w].completedAt = row[s].completedAt
        BY <3>2, <3>4, <4>1, CommitCompletions
      <4>3. row'[s].completedAt = row[s].completedAt
        BY <1>1, <3>4, <4>1, <4>2, StoredStays
      <4> QED
        BY <1>1, <3>2, <3>4, <4>1, <4>2, <4>3
    <3> QED
      BY <3>3, <3>4
  <2>4. StagedInv(v)'
    <3> SUFFICES ASSUME pc[v] = "saved" PROVE \E e \in Event : staged'[v] = <<e>> /\ Announces(e, v)'
      BY <1>1, <1>3 DEF StagedInv
    <3> PICK e \in Event : staged[v] = <<e>> /\ Announces(e, v)
      BY <2>1 DEF StagedInv
    <3>1. row'[t] = row[t] /\ ratings'[t] = ratings[t] /\ (v \in stale => v \in stale')
      BY <1>1, <1>3, <2>2
    <3>2. Announces(e, v)'
      BY <1>1, <1>3, <3>1 DEF Announces
    <3> QED
      BY <1>1, <1>3, <3>2
  <2> QED
    BY <2>3, <2>4
<1>4. CopyInv(w)' /\ StagedInv(w)'
  BY <1>1 DEF CopyInv, StagedInv, Reads
<1> QED
  BY <1>2, <1>3, <1>4 DEF HInv

LEMMA NextHInv == HInv /\ [HistoryNext]_historyVars => HInv'
<1> SUFFICES ASSUME HInv, [HistoryNext]_historyVars PROVE HInv'
  OBVIOUS
<1>1. IInv'
  <2>1. [Next]_vars /\ IInv
    BY DEF HInv, HistoryNext, historyVars
  <2> QED
    BY <2>1, NextIInv
<1>2. CASE UNCHANGED historyVars
  <2>1. UNCHANGED <<row, ratings, outbox, lock, pc, req, session, staged, begun, stale, overwritten>>
    BY <1>2 DEF historyVars, vars
  <2>2. ASSUME NEW w \in Workers PROVE CopyInv(w)' /\ StagedInv(w)'
    BY <2>1 DEF HInv, CopyInv, StagedInv, Announces
  <2>3. ASSUME NEW s \in SessionIds PROVE SessionInv(s)'
    BY <2>1 DEF HInv, SessionInv, RatedAsAnnounced, RatedLast, CompletionsOf
  <2> QED
    BY <1>1, <2>2, <2>3 DEF HInv
<1>3. CASE HistoryNext
  <2>1. Next /\ Record
    BY <1>3 DEF HistoryNext
  <2>2. PICK w \in Workers :
          \/ \E caller \in Users, s \in SessionIds, tracked \in BOOLEAN,
                cards \in SUBSET Cards : StartSession(w, caller, s, tracked, cards)
          \/ \E caller \in Users, s \in SessionIds : Begin(w, caller, s)
          \/ ReadSessionRow(w)
          \/ ReadRatings(w)
          \/ \E card \in Cards, rating \in Ratings : Rate(w, card, rating)
          \/ \E fine \in BOOLEAN : Finish(w, fine)
          \/ GetResults(w) \/ Commit(w) \/ Rollback(w)
    BY <2>1 DEF Next
  <2>3. GetResults(w) \/ Rollback(w) => End(w) /\ UNCHANGED db
    BY DEF GetResults, Rollback
  <2> QED
    BY <1>1, <2>1, <2>2, <2>3, StartSessionHInv, BeginHInv, ReadHInv, RateHInv, FinishHInv,
       CommitHInv, EndHInv
<1> QED
  BY <1>2, <1>3

\* The invariant behind the theorems below, whatever requests overlap and fail
\* (RateCard, FinishSession, GetResults, Sessions.Save): a copy that no commit has
\* outdated is the session as committed, and so is, unless an outdated copy was
\* saved, every copy of a completed one.
THEOREM HistoryInvariance == HistorySpec => []HInv
BY InitHInv, NextHInv, PTL DEF HistorySpec

\* As long as no outdated copy was saved, the rating of each card is the latest one
\* announced: no rating is lost and none is unannounced (Session.Rate, Sessions.Save).
THEOREM RatingsReplay == HistorySpec => []RatingsAreReplayUnlessOverwritten
<1>1. HInv => RatingsAreReplayUnlessOverwritten
  BY DEF HInv, SessionInv, RatedAsAnnounced, RatingsAreReplayUnlessOverwritten
<1> QED
  BY <1>1, HistoryInvariance, PTL

\* Only commits touch the sessions.
LEMMA OnlyCommits ==
  ASSUME Next, \A w \in Workers : ~Commit(w)
  PROVE  UNCHANGED db
BY DEF Next, StartSession, Begin, ReadSessionRow, ReadRatings, Rate, Finish, Save, GetResults,
       Rollback

\* What CompletedUnlessOverwritten asks of every step.
CompletedKept ==
  \A s \in SessionIds \ overwritten' :
    (row[s] # None /\ row[s].status = "completed") => ~Touched(s)

\* As long as no outdated copy was saved, a completed session is never written
\* differently again (Session.Rate, Session.Finish): a commit that is not of an
\* outdated copy can only be a repeated Finish, which writes what is there.
THEOREM CompletionIsFinal == HistorySpec => CompletedUnlessOverwritten
<1>1. HInv /\ [HistoryNext]_historyVars => [CompletedKept]_historyVars
  <2> SUFFICES ASSUME HInv, HistoryNext, NEW s \in SessionIds, s \notin overwritten',
                      row[s] # None, row[s].status = "completed"
               PROVE  row'[s] = row[s] /\ ratings'[s] = ratings[s]
    BY DEF CompletedKept, Touched
  <2>1. Next /\ Record /\ IInv
    BY DEF HistoryNext, HInv
  <2>2. ASSUME NEW w \in Workers, Commit(w) PROVE row'[s] = row[s] /\ ratings'[s] = ratings[s]
    <3>1. CASE s # req[w].session
      BY <2>1, <2>2, <3>1, CommittedStep
    <3>2. CASE s = req[w].session
      <4>1. /\ session[w].status = "completed" /\ session[w].rated = ratings[s]
            /\ session[w].completedAt = row[s].completedAt
        BY <2>1, <2>2, <3>2, CommitCompletions
      <4>2. row'[s] = [row[s] EXCEPT !.status = row'[s].status, !.completedAt = row'[s].completedAt]
        <5>1. row[s] \in Row \cup {None} /\ session[w] \in Session /\ SameSession(row[s], session[w])
          BY <2>1, <2>2, <3>2, Committed DEF IInv, TypeOK
        <5>2. PICK q : q = SavedRow(row[s], session[w])
          OBVIOUS
        <5>3. q = [row[s] EXCEPT !.status = q.status, !.completedAt = q.completedAt]
          BY <5>1, <5>2, SavedRowSession
        <5>4. row'[s] = q
          BY <2>1, <2>2, <3>2, <5>2, Committed DEF IInv, TypeOK
        <5> QED
          BY <5>3, <5>4
      <4>3. /\ row'[s].status = row[s].status /\ row'[s].completedAt = row[s].completedAt
            /\ ratings'[s] = ratings[s]
        BY <2>1, <2>2, <3>2, <4>1, CommittedStep, StoredStays
      <4>4. row[s] \in Row
        BY <2>1 DEF IInv, TypeOK
      <4>5. row'[s] = [row[s] EXCEPT !.status = row[s].status, !.completedAt = row[s].completedAt]
        BY <4>2, <4>3
      <4> QED
        BY <4>3, <4>4, <4>5 DEF Row
    <3> QED
      BY <3>1, <3>2
  <2>3. CASE \A w \in Workers : ~Commit(w)
    BY <2>1, <2>3, OnlyCommits DEF db
  <2> QED
    BY <2>2, <2>3
<1>2. HistorySpec => [][CompletedKept]_historyVars
  BY <1>1, HistoryInvariance, PTL DEF HistorySpec
<1> QED
  BY <1>2 DEF CompletedUnlessOverwritten, CompletedKept

\* What AnswersAgreeUnlessOverwritten asks of every step.
AnswersFirst ==
  \A w \in Workers :
    (AnsweredCompleted(w) /\ req[w].session \notin overwritten') =>
      LET s == req[w].session
          a == session[w]
      IN  /\ GetResults(w) => CompletionsOf(s) # {}
          /\ \A e \in CompletionsOf(s) :
               /\ e.rated = a.rated /\ e.counts = Summary(a.rated)
               /\ InMicroseconds(e.completedAt) = a.completedAt
               /\ a.completedAt = row[s].completedAt

\* As long as no outdated copy was saved, a repeated Finish and the results page
\* answer with the ratings first announced, and with the time of completion as the
\* row has it: the one announced, to the microsecond.  A completed session no longer
\* changes, although GetResults reads it and its ratings by two statements.
THEOREM AnswersAgree == HistorySpec => AnswersAgreeUnlessOverwritten
<1>1. HInv /\ [HistoryNext]_historyVars => [AnswersFirst]_historyVars
  <2> SUFFICES ASSUME HInv, HistoryNext, NEW w \in Workers, AnsweredCompleted(w),
                      NEW s, s = req[w].session, s \notin overwritten'
               PROVE  /\ GetResults(w) => CompletionsOf(s) # {}
                      /\ \A e \in CompletionsOf(s) :
                           /\ e.rated = session[w].rated
                           /\ e.counts = Summary(session[w].rated)
                           /\ InMicroseconds(e.completedAt) = session[w].completedAt
                           /\ session[w].completedAt = row[s].completedAt
    BY DEF AnswersFirst
  <2>1. Next /\ Record /\ IInv /\ CopyInv(w) /\ StagedInv(w) /\ WorkerInv(w)
    BY DEF HistoryNext, HInv, IInv
  <2>2. s \in SessionIds /\ s \notin overwritten /\ SessionInv(s)
    <3>1. pc[w] # "idle" /\ overwritten \subseteq overwritten'
      BY <2>1 DEF AnsweredCompleted, GetResults, Commit, Record
    <3> QED
      BY <2>1, <3>1 DEF WorkerInv, Request, HInv
  <2>3. ASSUME NEW e \in CompletionsOf(s)
        PROVE  /\ row[s] # None /\ row[s].status = "completed"
               /\ e.rated = ratings[s] /\ e.counts = Summary(ratings[s])
               /\ InMicroseconds(e.completedAt) = row[s].completedAt
    BY <2>2 DEF SessionInv
  <2>4. CASE GetResults(w)
    <3>1. pc[w] = "loaded" /\ session[w].status = "completed"
      BY <2>4 DEF GetResults, Completed
    <3>2. row[s] # None
      BY <2>1, <3>1 DEF WorkerInv, Reads
    <3>3. /\ session[w].status = row[s].status /\ session[w].completedAt = row[s].completedAt
          /\ session[w].rated = ratings[s]
      BY <2>1, <2>2, <3>1 DEF CopyInv, Reads
    <3>4. CompletionsOf(s) # {}
      BY <2>2, <3>1, <3>2, <3>3 DEF SessionInv
    <3> QED
      BY <2>3, <3>3, <3>4
  <2>5. CASE Commit(w) /\ \E e \in Range(staged[w]) : e.type = "PracticeSessionCompleted"
    <3>1. ~GetResults(w)
      BY <2>5 DEF GetResults, Commit
    <3>2. (row[s] # None /\ row[s].status = "completed") =>
            session[w].rated = ratings[s] /\ session[w].completedAt = row[s].completedAt
      BY <2>1, <2>5, CommitCompletions
    <3> QED
      BY <2>3, <3>1, <3>2
  <2> QED
    BY <2>4, <2>5 DEF AnsweredCompleted
<1>2. HistorySpec => [][AnswersFirst]_historyVars
  BY <1>1, HistoryInvariance, PTL DEF HistorySpec
<1> QED
  BY <1>2 DEF AnswersAgreeUnlessOverwritten, AnswersFirst
=============================================================================
