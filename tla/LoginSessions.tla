--------------------------- MODULE LoginSessions ---------------------------
(***************************************************************************)
(* What accounts and refresh tokens promise: a login opens a session; a    *)
(* session has one live token, exchanged for a fresh one at each refresh,  *)
(* until it ends; an ended session has none, ever.  The password of an     *)
(* account changes only as all its sessions end.  A session, or the        *)
(* password of an account, may be given up: nothing is promised of it then.*)
(***************************************************************************)
EXTENDS Naturals

CONSTANTS UserIds, Passwords, Tokens, None

VARIABLES
  live,    \* live[f]: the tokens that refresh session f, none or one
  owner,   \* owner[f]: whose session f is, None before it opens
  secret,  \* secret[u]: the password of u, None before there is one
  lost,    \* the sessions given up
  unsure   \* the users whose password is given up

vars == <<live, owner, secret, lost, unsure>>

Init ==
  /\ live = [f \in Tokens |-> {}]
  /\ owner = [f \in Tokens |-> None]
  /\ secret = [u \in UserIds |-> None]
  /\ lost = {}
  /\ unsure = {}

\* A session is named after its first token.
Opens(u, f) ==
  /\ f \notin lost
  /\ owner[f] = None
  /\ owner' = [owner EXCEPT ![f] = u]
  /\ live' = [live EXCEPT ![f] = {f}]

Enrol(u, p, f) ==
  /\ secret[u] = None /\ u \notin unsure
  /\ secret' = [secret EXCEPT ![u] = p]
  /\ Opens(u, f)
  /\ UNCHANGED <<lost, unsure>>

Open(u, f) ==
  /\ secret[u] # None \/ u \in unsure
  /\ Opens(u, f)
  /\ UNCHANGED <<secret, lost, unsure>>

Exchange(f, t) ==
  /\ live[f] # {}
  /\ \A s \in live[f] : s < t
  /\ live' = [live EXCEPT ![f] = {t}]
  /\ UNCHANGED <<owner, secret, lost, unsure>>

End(f) ==
  /\ owner[f] # None
  /\ live' = [live EXCEPT ![f] = {}]
  /\ UNCHANGED <<owner, secret, lost, unsure>>

\* The new password is not known if it is given up.
ChangeSecret(u, p) ==
  /\ u \in unsure <=> p = None
  /\ secret' = [secret EXCEPT ![u] = p]
  /\ live' = [f \in Tokens |-> IF owner[f] = u THEN {} ELSE live[f]]
  /\ UNCHANGED <<owner, lost, unsure>>

GiveUp ==
  /\ lost \subseteq lost' /\ unsure \subseteq unsure'
  /\ live' = [f \in Tokens |-> IF f \in lost' THEN {} ELSE live[f]]
  /\ owner' = [f \in Tokens |-> IF f \in lost' THEN None ELSE owner[f]]
  /\ secret' = [u \in UserIds |-> IF u \in unsure' THEN None ELSE secret[u]]

Next ==
  \/ \E u \in UserIds, f \in Tokens : Open(u, f) \/ \E p \in Passwords : Enrol(u, p, f)
  \/ \E f, t \in Tokens : Exchange(f, t)
  \/ \E f \in Tokens : End(f)
  \/ \E u \in UserIds, p \in Passwords \cup {None} : ChangeSecret(u, p)
  \/ GiveUp

Spec == Init /\ [][Next]_vars
=============================================================================
