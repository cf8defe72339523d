----------------------------- MODULE IamHistory -----------------------------
(***************************************************************************)
(* Iam with a record of the overlaps its row locks do not order.  A Revoke *)
(* statement does not see the token that an overlapping login or refresh   *)
(* inserts, two refreshes of one token both insert a child, and a profile  *)
(* update writes back the password hash it read.  What holds of all other  *)
(* sessions and accounts, although requests overlap, is stated here.       *)
(***************************************************************************)
EXTENDS Iam

VARIABLES
  raced,    \* families a token may have been slipped into past another request
  muddled,  \* users whose profile update overlapped a password change
  ended,    \* families a committed logout or password change has ended
  opener    \* opener[f]: the password the login of family f was given, or None

history == <<raced, muddled, ended, opener>>
historyVars == <<vars, history>>

HistoryInit ==
  /\ Init
  /\ raced = {} /\ muddled = {} /\ ended = {}
  /\ opener = [f \in TokenIds |-> None]

\* The family request w is about: that of the token presented, or a new one.
Family(w) == IF req[w].token = None THEN mint[w].id ELSE tokens[req[w].token].family

\* The token that v inserts may be one that w should have revoked or refused.
SlipsPast(v, w) ==
  /\ v # w /\ req[v].user = req[w].user
  /\ \/ req[v].op \in {"login", "refresh"} /\ req[w].op = "change"
     \/ req[v].op = "refresh" /\ req[w].op \in {"refresh", "logout"} /\ Family(v) = Family(w)

Racing == {Family(v) : v \in {x \in InFlight : \E w \in InFlight : SlipsPast(x, w)}}

Muddling ==
  {u \in UserIds : \E v, w \in InFlight :
     /\ req[v].user = u /\ req[v].op = "profile"
     /\ req[w].user = u /\ req[w].op = "change"}

\* The families the commit of w is to end.
Ends(w) ==
  CASE req[w].op = "logout" -> {Family(w)}
    [] req[w].op = "change" -> {tokens[t].family : t \in {s \in TokenIds :
                                  Stored(s) /\ tokens[s].user = req[w].user}}
    [] OTHER -> {}

\* w has just begun to open family f.
Opening(w, f) ==
  /\ pc[w] = "idle" /\ pc'[w] # "idle"
  /\ req'[w].op \in {"register", "login"} /\ mint'[w].id = f

Given(w) == IF req[w].row # None THEN req[w].row.password ELSE users[req[w].user].password

Record ==
  /\ raced' = raced \cup Racing'
  /\ muddled' = muddled \cup Muddling'
  /\ ended' = ended \cup UNION {Ends(w) : w \in {v \in Workers : Commit(v)}}
  /\ opener' = [f \in TokenIds |->
       IF \E w \in Workers : Opening(w, f)
         THEN (CHOOSE p \in Passwords : \E w \in Workers : Opening(w, f) /\ p = Given(w)')
         ELSE opener[f]]

HistoryNext == Next /\ Record
HistorySpec == HistoryInit /\ [][HistoryNext]_historyVars

-----------------------------------------------------------------------------

\* Every live session is one its user wants: it has not been logged out of, nor
\* ended by a password change, and it was opened with the password the account
\* has now.  The exceptions are sessions another request of the user raced with
\* (LogoutUser, ChangePassword, LoginUser, RefreshAccessToken) and accounts whose
\* profile update wrote back an older password (UpdateProfile).
LiveSessionsAreWanted ==
  \A t \in TokenIds : Active(t) =>
    LET f == tokens[t].family
        u == tokens[t].user
    IN  \/ f \in raced
        \/ /\ f \notin ended
           /\ opener[f] = users[u].password \/ u \in muddled

\* v may have to wait for a row that w has locked.
MayWait(v, w) ==
  \/ todo[v] \cap kill[w] # {}
  \/ pc[v] = "read" /\ req[v].op = "refresh" /\ req[v].token \in kill[w]
  \/ /\ pc[v] = "read" /\ req[v].row # None /\ HasSavedUser(w)
     /\ req[v].user = req[w].user \/ req[v].row.email = req[w].row.email

\* Two requests wait for each other only over the tokens of a session that two
\* refreshes have raced for: elsewhere no two Revoke statements lock the same two
\* rows, because a session has one live token and because the users row orders
\* password changes (RevokeFamily, RevokeAllForUser, Users.Save).
DeadlockOnlyOverRaced ==
  \A v, w \in Workers : (v # w /\ MayWait(v, w) /\ MayWait(w, v)) =>
    \E t \in todo[v] \cap kill[w] : tokens[t].family \in raced

\* What a session is in the tables, if no requests raced for it: its live tokens,
\* its user, and the password of an account that no profile update muddled.
SessionLive == [f \in TokenIds |-> IF f \in raced THEN {} ELSE ActiveInFamily(f)]
SessionOwner ==
  [f \in TokenIds |-> IF f \in raced \/ ~Stored(f) \/ tokens[f].family # f THEN None ELSE tokens[f].user]
SessionSecret ==
  [u \in UserIds |-> IF u \in muddled \/ users[u] = None THEN None ELSE users[u].password]

\* Where no two requests raced, the use cases implement sign-in sessions that
\* rotate one token, never come back once ended, and all end as the password
\* changes, which nothing else does (module LoginSessions; its Spec, written out so
\* that TLC looks at the many stuttering steps first).
Sessions == INSTANCE LoginSessions WITH
  Tokens <- TokenIds, lost <- raced, unsure <- muddled,
  live <- SessionLive, owner <- SessionOwner, secret <- SessionSecret
ImplementsSessions == Sessions!Init /\ [][UNCHANGED Sessions!vars \/ Sessions!Next]_historyVars
=============================================================================
