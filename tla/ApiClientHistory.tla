-------------------------- MODULE ApiClientHistory --------------------------
(***************************************************************************)
(* ApiClient with a record of what crosses a refresh.  Tabs share the      *)
(* store but not the flight: what the single flight keeps from happening   *)
(* within a tab may happen between tabs, and nothing else may.  Signing in *)
(* or out is no flight and crosses any.                                    *)
(***************************************************************************)
EXTENDS ApiClient

VARIABLES
  contested,  \* pairs that two tabs presented at once
  overtaken   \* flights during which the user signed in or out, or another tab's settled

history == <<contested, overtaken>>
historyVars == <<vars, history>>

HistoryInit == Init /\ contested = {} /\ overtaken = {}

\* A step settles flight f.
Settles(f) == Outstanding(f) /\ flight'[f].phase = "settled"

Contested ==
  {p \in Pairs : \E f, g \in Calls :
     /\ TabOf(f) # TabOf(g) /\ Outstanding(f) /\ Outstanding(g)
     /\ flight[f].token = p /\ flight[g].token = p}

\* The answer to a sign-in is stored.
SignsIn == ~(granted \subseteq granted')

Overtakes(f) ==
  \/ SignsIn \/ logouts' # logouts
  \/ \E g \in Calls : TabOf(g) # TabOf(f) /\ Settles(g)

HistoryNext ==
  /\ Next
  /\ contested' = contested \cup Contested'
  /\ overtaken' = {f \in Calls : Outstanding(f)' /\ (f \in overtaken \/ (Outstanding(f) /\ Overtakes(f)))}

HistorySpec == HistoryInit /\ [][HistoryNext]_historyVars

\* Every fetch settles in the end, and timers fire.  Users and the server's own
\* doings are free.
Fairness ==
  \A c \in Calls : WF_vars(Answered(c)) /\ WF_vars(FlightStep(c)) /\ WF_vars(EndGrace(c))

FairSpec == HistorySpec /\ Fairness

-----------------------------------------------------------------------------

\* A refresh is refused with 401 only because its session has ended, an answer
\* got lost, or two tabs presented the token at once: a tab never presents a
\* token it has exchanged, however many calls run into a 401 together, nor one
\* that another tab had exchanged before (attemptRefresh, the token store).
RefusedOnlyIfOver ==
  \A f \in Calls : In(f, {"refused"}) => flight[f].token \in ended \cup lost \cup contested

\* The store is emptied by signing out, or by an answer other than 2xx to a
\* refresh of the very pair it holds, never by a network error.  The exception is
\* an answer overtaken by a sign-out, by another tab, or by a sign-in over the
\* pair it was asked with: it empties the store of whatever has come in between
\* (attemptRefresh, the branches that clear).
DiscardsOnlyRefused ==
  [][stored # 0 /\ stored' = 0 =>
       \/ logouts' # logouts
       \/ \E f \in Calls : /\ Settles(f)
                            /\ (f \in overtaken \/ flight[f].token = stored)
                            /\ In(f, {"refused", "unavailable"})]_historyVars

\* An empty store is filled by a login, or by an answer overtaken by what has
\* emptied it, a sign-out or another tab: two answers of one tab never cross
\* (attemptRefresh, the branch that stores).
SignedOutUnlessOvertaken ==
  [][stored = 0 /\ stored' # 0 =>
       stored' \in granted \/ \E f \in overtaken : Settles(f)]_historyVars

\* Every call ends, whichever flight it waits for and however that ends: a call
\* is idle again and again, whenever it has been made (apiFetch).
CallsEnd == \A c \in Calls : []<>(call[c].phase = "idle")
=============================================================================
