-------------------------- MODULE PracticeHistory --------------------------
(***************************************************************************)
(* Practice with a record of lost updates, as DecksHistory is for Decks: a *)
(* copy of a session loaded before another request's commit overwrites, if *)
(* it is saved, what that commit wrote.                                    *)
(***************************************************************************)
EXTENDS Practice

VARIABLES
  stale,       \* the workers whose copy a commit has outdated
  overwritten  \* the sessions some outdated copy was committed to

historyVars == <<vars, stale, overwritten>>

HistoryInit == Init /\ stale = {} /\ overwritten = {}

\* The step is the commit of w; every commit appends an event.
Commits(w) == pc[w] = "saved" /\ pc'[w] = "idle" /\ outbox' # outbox

Reading == {w \in Workers : pc[w] \in {"rowRead", "loaded"}}

Record ==
  /\ stale' = {w \in Workers :
       /\ pc'[w] # "idle"
       /\ \/ w \in stale
          \/ w \in Reading /\ \E v \in Workers : Commits(v) /\ req[v].session = req[w].session}
  /\ overwritten' = overwritten \cup {req[w].session : w \in {v \in stale : Commits(v)}}

HistoryNext == Next /\ Record
HistorySpec == HistoryInit /\ [][HistoryNext]_historyVars

-----------------------------------------------------------------------------

Rates(e, s, c) == e.type = "CardRated" /\ e.session = s /\ e.card = c

\* The i-th event is the latest that rates card c of s.
RatedLast(i, s, c) ==
  /\ Rates(outbox[i], s, c)
  /\ \A j \in DOMAIN outbox : j > i => ~Rates(outbox[j], s, c)

\* As long as no outdated copy was saved, the ratings of a session are what its
\* CardRated events add up to, the latest one of each card counting, however
\* requests overlap and fail (Sessions.ByID, Session.Rate, Sessions.Save).
RatingsAreReplayUnlessOverwritten ==
  \A s \in SessionIds \ overwritten, c \in Cards :
    \/ ratings[s][c] = None /\ \A e \in Range(outbox) : ~Rates(e, s, c)
    \/ \E i \in DOMAIN outbox : RatedLast(i, s, c) /\ outbox[i].rating = ratings[s][c]

CompletionsOf(s) ==
  {e \in Range(outbox) : e.session = s /\ e.type = "PracticeSessionCompleted"}

\* w is answered with a completed session: by FinishSession, or by GetResults.
AnsweredCompleted(w) ==
  \/ GetResults(w)
  \/ Commit(w) /\ \E e \in Range(staged[w]) : e.type = "PracticeSessionCompleted"

\* As long as no outdated copy was saved, all answers about a completed session
\* agree with everything announced of it, in the ratings, their counts and the
\* time of completion to the microsecond; and from the second on they give that
\* time as the row has it.  (The first Finish answers and announces the clock's
\* nanoseconds, which the column drops.)  GetResults reads the session row and
\* its ratings by two statements and outside of a transaction.
AnswersAgreeUnlessOverwritten ==
  [][\A w \in Workers :
       (AnsweredCompleted(w) /\ req[w].session \notin overwritten') =>
         LET s == req[w].session
             a == session[w]
         IN  /\ GetResults(w) => CompletionsOf(s) # {}
             /\ \A e \in CompletionsOf(s) :
                  /\ e.rated = a.rated /\ e.counts = Summary(a.rated)
                  /\ InMicroseconds(e.completedAt) = a.completedAt
                  /\ a.completedAt = row[s].completedAt]_historyVars

\* As long as no outdated copy was saved, a completed session is never written
\* differently again (Session.Rate, Session.Finish).
CompletedUnlessOverwritten ==
  [][\A s \in SessionIds \ overwritten' :
       (row[s] # None /\ row[s].status = "completed") => ~Touched(s)]_historyVars
=============================================================================
