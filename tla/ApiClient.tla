----------------------------- MODULE ApiClient -----------------------------
(***************************************************************************)
(* The browser's side of sign-in: apiFetch, its silent refresh and the     *)
(* token store.  The access and the refresh token live in localStorage,    *)
(* which all tabs share; the refresh in flight lives in the memory of one  *)
(* tab.  A call that is answered with 401 joins the tab's flight or starts *)
(* one, and if that succeeds is sent once more.                            *)
(*                                                                         *)
(* Tokens come in pairs, numbered as the server mints them, and are stored *)
(* and cleared in pairs; 0 stands for none.  Calls waiting for a flight go *)
(* on in the microtasks of its settlement, before any other event, so they *)
(* are part of it.  Any call may be answered with 401: its access token    *)
(* has expired or is missing, or the current password given to change the  *)
(* password is wrong.                                                      *)
(***************************************************************************)
EXTENDS Integers, FiniteSets

CONSTANTS
  Tabs,         \* each told by the number of calls it has at one time (bound)
  None,
  MaxPairs,     \* bound: token pairs minted in a behaviour
  MaxLogouts    \* bound: times the user signs out

ASSUME ParametersAssumption ==
  Tabs \subseteq Nat \ {0} /\ MaxPairs \in Nat /\ MaxLogouts \in Nat

Pairs == 1..MaxPairs
Calls == UNION {{t} \X (1..t) : t \in Tabs}
TabOf(c) == c[1]

\* A waiting call awaits the flight that call "on" has started.
Call == [phase : {"idle", "sent", "waiting", "retried"}, on : Calls \cup {None}]
\* answer is the new pair, if there is one; ok is what the promise resolves to.
Phases == {"sent", "accepted", "exchanged", "refused", "unavailable", "settled"}
Flight == [phase : Phases, token : Pairs, answer : {0} \cup Pairs, ok : BOOLEAN]

ASSUME NoneAssumption == None \notin Calls \cup Flight

VARIABLES
  stored,    \* localStorage: the pair kept there, 0 if none
  call,      \* what each call is doing
  flight,    \* the refresh each call has started, or None
  slot,      \* refreshFlight of each tab: the call that started it, or None
  minted,    \* server: the number of pairs minted
  rotated,   \* server: pairs whose refresh token was exchanged
  ended,     \* server: pairs whose refresh token was revoked or has expired
  stray,     \* pairs in a refresh the client has given up and the server may yet run
  lost,      \* exchanged pairs whose successor did not reach the client
  granted,   \* pairs minted for a sign-in whose form has yet to store them
  logouts    \* how often the user has signed out

client == <<stored, call, flight, slot, logouts>>
server == <<minted, rotated, ended, stray, lost, granted>>
vars == <<client, server>>

InPhase(phase) == [phase |-> phase, on |-> None]
Idle == InPhase("idle")

Init ==
  /\ stored = 0
  /\ call = [c \in Calls |-> Idle]
  /\ flight = [c \in Calls |-> None]
  /\ slot = [t \in Tabs |-> None]
  /\ minted = 0 /\ rotated = {} /\ ended = {} /\ stray = {} /\ lost = {} /\ granted = {}
  /\ logouts = 0

(***************************************************************************)
(* Signing in and out, and what the server does by itself.                 *)
(***************************************************************************)

\* POST /auth/login or /auth/register.
Grant ==
  /\ minted < MaxPairs
  /\ minted' = minted + 1
  /\ granted' = granted \cup {minted'}
  /\ UNCHANGED <<client, rotated, ended, stray, lost>>

\* The form awaits the answer and persists its pair over whatever is stored: the
\* guard knows of its own tab only, so a tab left on /login or /register may sign
\* in over the pair of another.
Login(p) ==
  /\ p \in granted
  /\ stored' = p
  /\ granted' = granted \ {p}
  /\ UNCHANGED <<call, flight, slot, logouts, minted, rotated, ended, stray, lost>>

\* clearSession; the server is not told.
Logout ==
  /\ stored # 0
  /\ logouts < MaxLogouts
  /\ logouts' = logouts + 1
  /\ stored' = 0
  /\ UNCHANGED <<call, flight, slot, server>>

\* Another device changes the password, or the refresh token's TTL is over.
EndSession(p) ==
  /\ p \in 1..minted \ (rotated \cup ended)
  /\ ended' = ended \cup {p}
  /\ UNCHANGED <<client, minted, rotated, stray, lost, granted>>

(***************************************************************************)
(* apiFetch.                                                               *)
(***************************************************************************)

Send(c) ==
  /\ call[c].phase = "idle"
  /\ call' = [call EXCEPT ![c] = InPhase("sent")]
  /\ UNCHANGED <<stored, flight, slot, logouts, server>>

\* Answered, be it with the 401 that ends a second attempt, or not at all.
Finish(c) ==
  /\ call[c].phase \in {"sent", "retried"}
  /\ call' = [call EXCEPT ![c] = Idle]
  /\ UNCHANGED <<stored, flight, slot, logouts, server>>

\* Mutant: attemptRefresh does not look at refreshFlight.
NeverUnderway(t) == FALSE

Underway(t) == slot[t] # None

\* What a call does once the flight it awaits has resolved.
After(ok) == IF ok THEN InPhase("retried") ELSE Idle

\* 401 while the tab's slot is taken: the call shares the flight, which may have
\* settled already and be in its grace period.
Join(c) ==
  LET f == slot[TabOf(c)]
  IN  /\ call[c].phase = "sent"
      /\ Underway(TabOf(c))
      /\ call' = [call EXCEPT ![c] =
           IF flight[f].phase = "settled" THEN After(flight[f].ok)
           ELSE [@ EXCEPT !.phase = "waiting", !.on = f]]
      /\ UNCHANGED <<stored, flight, slot, logouts, server>>

\* Mutant: a refresh is sent although no token is stored.
PresentAlways(pair) == TRUE

Present(pair) == pair # 0

\* 401 and no flight: POST /auth/refresh with the token stored now.
Start(c) ==
  /\ call[c].phase = "sent"
  /\ ~Underway(TabOf(c)) /\ flight[c] = None
  /\ Present(stored)
  /\ flight' = [flight EXCEPT ![c] =
       [phase |-> "sent", token |-> stored, answer |-> 0, ok |-> FALSE]]
  /\ slot' = [slot EXCEPT ![TabOf(c)] = c]
  /\ call' = [call EXCEPT ![c].phase = "waiting", ![c].on = c]
  /\ UNCHANGED <<stored, logouts, server>>

\* 401 and nothing to refresh with: the call fails.
GiveUp(c) ==
  /\ call[c].phase = "sent"
  /\ ~Underway(TabOf(c))
  /\ ~Present(stored)
  /\ call' = [call EXCEPT ![c] = Idle]
  /\ UNCHANGED <<stored, flight, slot, logouts, server>>

(***************************************************************************)
(* The silent refresh.                                                     *)
(***************************************************************************)

In(f, phases) == flight[f] # None /\ flight[f].phase \in phases
Outstanding(f) == In(f, Phases \ {"settled"})

\* The server reads the token, refuses one it has exchanged or ended, and
\* exchanges one it found active although another request may have exchanged or
\* ended it meanwhile (module Iam).
Usable(p) == p \notin rotated \cup ended

Accept(f) ==
  /\ In(f, {"sent"}) /\ Usable(flight[f].token)
  /\ flight' = [flight EXCEPT ![f].phase = "accepted"]
  /\ UNCHANGED <<stored, call, slot, logouts, server>>

Rotate(p) ==
  /\ minted < MaxPairs
  /\ minted' = minted + 1
  /\ rotated' = rotated \cup {p}

Exchange(f) ==
  /\ In(f, {"accepted"})
  /\ Rotate(flight[f].token)
  /\ flight' = [flight EXCEPT ![f].phase = "exchanged", ![f].answer = minted']
  /\ UNCHANGED <<stored, call, slot, logouts, ended, stray, lost, granted>>

ExchangeStray(p) ==
  /\ p \in stray /\ Usable(p)
  /\ Rotate(p)
  /\ stray' = stray \ {p} /\ lost' = lost \cup {p}
  /\ UNCHANGED <<client, ended, granted>>

Refuse(f) ==
  /\ In(f, {"sent"})
  /\ ~Usable(flight[f].token)
  /\ flight' = [flight EXCEPT ![f].phase = "refused"]
  /\ UNCHANGED <<stored, call, slot, logouts, server>>

\* The answer to a request is not awaited any more.
Abandon(f) ==
  /\ lost' = IF In(f, {"exchanged"}) THEN lost \cup {flight[f].token} ELSE lost
  /\ stray' = IF In(f, {"sent", "accepted"}) THEN stray \cup {flight[f].token} ELSE stray

\* 5xx: the server has rolled back, or a gateway gives up on its answer.
BeUnavailable(f) ==
  /\ In(f, {"sent", "accepted", "exchanged"})
  /\ flight' = [flight EXCEPT ![f].phase = "unavailable", ![f].answer = 0]
  /\ Abandon(f)
  /\ UNCHANGED <<stored, call, slot, logouts, minted, rotated, ended, granted>>

\* Mutant: the promise is not shared, only the call that started it goes on.
OnlyStarter(f) == {c \in {f} : call[c].phase = "waiting"}

Awaiting(f) == {c \in Calls : call[c].phase = "waiting" /\ call[c].on = f}

Settle(f, ok, pair) ==
  /\ stored' = pair
  /\ flight' = [flight EXCEPT ![f].phase = "settled", ![f].ok = ok]
  /\ call' = [c \in Calls |-> IF c \in Awaiting(f) THEN After(ok) ELSE call[c]]
  /\ UNCHANGED <<slot, logouts, minted, rotated, ended, granted>>

\* The new pair is stored, or the store is cleared because the answer was not
\* 2xx, whatever the store holds by now.
Receive(f) ==
  /\ In(f, {"exchanged", "refused", "unavailable"})
  /\ Settle(f, flight[f].phase = "exchanged", flight[f].answer)
  /\ UNCHANGED <<stray, lost>>

\* Mutant: the catch clause clears the store as well.
KeptNothing(pair) == 0

Kept(pair) == pair

\* The fetch rejects: the request did not arrive, or its response is lost.
Fail(f) ==
  /\ Outstanding(f)
  /\ Settle(f, FALSE, Kept(stored))
  /\ Abandon(f)

\* The timer of REFRESH_GRACE_MS gives the slot back.
EndGrace(f) ==
  /\ In(f, {"settled"})
  /\ flight' = [flight EXCEPT ![f] = None]
  /\ slot' = [t \in Tabs |-> IF slot[t] = f THEN None ELSE slot[t]]
  /\ UNCHANGED <<stored, call, logouts, server>>

Answered(c) == Finish(c) \/ Join(c) \/ Start(c) \/ GiveUp(c)
FlightStep(f) == Accept(f) \/ Exchange(f) \/ Refuse(f) \/ BeUnavailable(f) \/ Receive(f) \/ Fail(f)

Next ==
  \/ Grant \/ Logout
  \/ \E p \in Pairs : Login(p) \/ EndSession(p) \/ ExchangeStray(p)
  \/ \E c \in Calls : Send(c) \/ Answered(c) \/ FlightStep(c) \/ EndGrace(c)

Spec == Init /\ [][Next]_vars

-----------------------------------------------------------------------------
(***************************************************************************)
(* Properties.                                                             *)
(***************************************************************************)

TypeOK ==
  /\ stored \in 0..minted /\ minted \in 0..MaxPairs
  /\ rotated \subseteq Pairs /\ ended \subseteq Pairs /\ stray \subseteq Pairs /\ lost \subseteq rotated
  /\ granted \subseteq Pairs
  /\ call \in [Calls -> Call]
  /\ flight \in [Calls -> Flight \cup {None}]
  /\ slot \in [Tabs -> Calls \cup {None}]
  /\ logouts \in 0..MaxLogouts

\* An empty store is filled by a login, never by the late answer to a refresh.
SignedOutStaysOut == [][stored = 0 /\ stored' # 0 => stored' \in granted]_vars
=============================================================================
