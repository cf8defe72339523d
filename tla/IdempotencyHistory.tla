------------------------ MODULE IdempotencyHistory -------------------------
(***************************************************************************)
(* Idempotency with a record of what the middleware is not protected from: *)
(* two handlers at work under one key, since a lookup reserves nothing, and *)
(* a response that could not be cached after its handler had committed.    *)
(***************************************************************************)
EXTENDS Idempotency

VARIABLE disturbed  \* the keys one of the two has happened to

historyVars == <<vars, disturbed>>

HistoryInit == Init /\ disturbed = {}

\* Two requests are at work under key k after the step.
Overlap(k) ==
  \E v, w \in Workers : /\ v # w /\ pc'[v] # "idle" /\ pc'[w] # "idle"
                        /\ call'[v].key = k /\ call'[w].key = k

Uncached(k) ==
  \E w \in Workers : NoPut(w) /\ Cacheable(response[w]) /\ call[w].key = k

HistoryNext ==
  Next /\ disturbed' = disturbed \cup {k \in Keys : Overlap(k) \/ Uncached(k)}

HistorySpec == HistoryInit /\ [][HistoryNext]_historyVars

-----------------------------------------------------------------------------

\* Unless two requests under a key overlapped or a response was not cached, a
\* key takes effect once, however often it is sent, with whatever requests
\* and failing handlers in between (Idempotent: lookup, handler, Put).
OneEffectUnlessDisturbed ==
  \A i, j \in DOMAIN effects :
    effects[i].key = effects[j].key /\ effects[i].key \notin disturbed => i = j

\* Under the same condition all answers to one request under one key are the
\* same: a replay returns the original response.
AnswersAgreeUnlessDisturbed ==
  \A a, b \in answers :
    a.call = b.call /\ a.call.key \notin disturbed => a.response = b.response
=============================================================================
