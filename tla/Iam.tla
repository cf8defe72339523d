-------------------------------- MODULE Iam --------------------------------
(***************************************************************************)
(* The iam context: accounts and rotating refresh tokens.  A login opens a *)
(* family of tokens; a refresh retires the presented token and inserts its *)
(* child; logout and a password change revoke.  Every use case runs in one *)
(* READ COMMITTED transaction: an UPDATE locks the rows it changes, waits  *)
(* for a row another transaction has changed and then looks at its newest  *)
(* version, but never sees rows inserted after the statement began.        *)
(*                                                                         *)
(* Ids are UUIDs: a token is the number of the mint that made it, a family *)
(* is its first token.  A request refused by its first reads leaves no     *)
(* trace and is not a step.                                                *)
(***************************************************************************)
EXTENDS Integers, FiniteSets

CONSTANTS
  UserIds,      \* ids RegisterUser may generate
  Emails, Names, Passwords,
  Workers,      \* request goroutines
  None,         \* no row, nothing to write
  MaxInFlight,  \* how many requests may overlap; 1 makes them serial
  MaxRequests,  \* bound: requests in a behaviour, hence tokens minted
  MaxExpired    \* bound: tokens that pass their TTL

ASSUME BoundsAssumption ==
  /\ MaxInFlight \in Nat \ {0}
  /\ MaxRequests \in Nat
  /\ MaxExpired \in Nat

TokenIds == 1..MaxRequests
UserRow == [email : Emails, name : Names, password : Passwords]
Reasons == {"rotation", "logout", "password-change"}
Token == [user : UserIds, family : TokenIds, parent : TokenIds \cup {None},
          revoked : Reasons \cup {None}]
Mint == [id : TokenIds, user : UserIds, family : TokenIds, parent : TokenIds \cup {None}]
Ops == {"register", "login", "refresh", "reuse", "logout", "change", "profile"}
Request == [op : Ops, user : UserIds, token : TokenIds \cup {None},
            row : UserRow \cup {None}]

ASSUME NoneAssumption ==
  /\ None \notin UserIds \cup Passwords
  /\ None \notin UserRow \cup TokenIds \cup Token \cup Mint \cup Request \cup Reasons

Event ==
  [type : {"UserRegistered", "UserLoggedIn"}, user : UserIds]
    \cup [type : {"RefreshTokenIssued"}, user : UserIds, family : TokenIds,
          token : TokenIds]
    \cup [type : {"RefreshTokenRevoked"}, user : UserIds,
          family : TokenIds \cup {None}, token : TokenIds \cup {None},
          reason : Reasons]

VARIABLES
  users,    \* iam.users, committed: users[u] a UserRow or None
  tokens,   \* iam.refresh_tokens, committed: tokens[t] a Token or None
  outbox,   \* iam.outbox, committed, as a set
  expired,  \* tokens up to this one are past their TTL (they age in order)
  minted,   \* the number of tokens minted, committed or not
  begun,    \* the number of requests begun so far
  pc,       \* where each worker is in its transaction
  req,      \* its request; row is the users row it writes, or None
  todo,     \* the tokens its Revoke statement has matched and not yet locked
  kill,     \* the tokens it has locked and revoked, uncommitted
  mint      \* the token it has inserted, uncommitted, or None

db == <<users, tokens, outbox>>
vars == <<users, tokens, outbox, expired, minted, begun, pc, req, todo, kill, mint>>

Init ==
  /\ users = [u \in UserIds |-> None]
  /\ tokens = [t \in TokenIds |-> None]
  /\ outbox = {}
  /\ expired = 0
  /\ minted = 0
  /\ begun = 0
  /\ pc = [w \in Workers |-> "idle"]
  /\ req = [w \in Workers |-> None]
  /\ todo = [w \in Workers |-> {}]
  /\ kill = [w \in Workers |-> {}]
  /\ mint = [w \in Workers |-> None]

(***************************************************************************)
(* The tables.                                                             *)
(***************************************************************************)

Stored(t) == tokens[t] # None
IsExpired(t) == t <= expired

\* Mutant: IsRevoked always says no, so a retired token rotates again.
IsRevokedNever(t) == FALSE

IsRevoked(t) == tokens[t].revoked # None

\* Mutant: the WHERE clause has lost its "revoked_at IS NULL".
ActiveOrNot(t) == Stored(t)

Active(t) == Stored(t) /\ tokens[t].revoked = None

\* Mutant: only the first token of the family is matched.
ActiveAlone(f) == {t \in {f} : Active(t)}

\* What RevokeFamily and RevokeAllForUser match when they begin.
ActiveInFamily(f) == {t \in TokenIds : Active(t) /\ tokens[t].family = f}
ActiveOfUser(u) == {t \in TokenIds : Active(t) /\ tokens[t].user = u}

InFlight == {w \in Workers : pc[w] # "idle"}

\* A transaction that has upserted a users row holds it to its end.
HasSavedUser(w) == pc[w] \in {"revoking", "saved"} /\ req[w].row # None
UserLocked(u) == \E w \in Workers : HasSavedUser(w) /\ req[w].user = u
TokenLocked(t) == \E w \in Workers : t \in kill[w]

EmailExists(email) == \E u \in UserIds : users[u] # None /\ users[u].email = email

\* Mutant: the email column is not UNIQUE.
EmailNotUnique(u, email) == TRUE

\* The unique index behind Users.Save: it waits for a transaction that is about
\* to give the address to another user, and refuses one that is taken.
EmailFree(u, email) ==
  /\ \A v \in UserIds \ {u} : users[v] # None => users[v].email # email
  /\ \A w \in Workers : HasSavedUser(w) /\ req[w].user # u => req[w].row.email # email

(***************************************************************************)
(* The use cases.                                                          *)
(***************************************************************************)

Begin(w, request, stage) ==
  /\ pc[w] = "idle"
  /\ Cardinality(InFlight) < MaxInFlight
  /\ begun < MaxRequests
  /\ begun' = begun + 1
  /\ pc' = [pc EXCEPT ![w] = stage]
  /\ req' = [req EXCEPT ![w] = request]
  /\ UNCHANGED <<db, expired>>

MintToken(w, user, family, parent) ==
  /\ minted' = minted + 1
  /\ mint' = [mint EXCEPT ![w] =
       [id |-> minted + 1, user |-> user, family |-> family, parent |-> parent]]

\* RegisterUser: the users row and the first token of a new family.
Register(w, u, row) ==
  /\ users[u] = None
  /\ \A v \in InFlight : req[v].user # u
  /\ ~EmailExists(row.email) /\ EmailFree(u, row.email)
  /\ Begin(w, [op |-> "register", user |-> u, token |-> None, row |-> row], "saved")
  /\ MintToken(w, u, minted + 1, None)
  /\ UNCHANGED <<todo, kill>>

\* LoginUser: the password is compared with the row read, and that row is not
\* looked at again; the insert of the new family is visible at the commit.
Login(w, u, password) ==
  /\ users[u] # None
  /\ users[u].password = password
  /\ Begin(w, [op |-> "login", user |-> u, token |-> None, row |-> None], "saved")
  /\ MintToken(w, u, minted + 1, None)
  /\ UNCHANGED <<todo, kill>>

\* RefreshAccessToken, the read of the presented token: expired first, then
\* revoked.
Refresh(w, t) ==
  /\ Stored(t) /\ ~IsExpired(t) /\ ~IsRevoked(t)
  /\ Begin(w, [op |-> "refresh", user |-> tokens[t].user, token |-> t, row |-> None],
           "read")
  /\ UNCHANGED <<minted, mint, todo, kill>>

\* Mutant: the rotation inserts the child and retires nothing.
RetiredNothing(t) == {}

\* What RevokeOne changes: a token retired in the meantime is left as it is.
Retired(t) == {s \in {t} : Active(s)}

\* RevokeOne and the child.  RevokeOne reports no error when it changed nothing.
Rotate(w) ==
  LET t == req[w].token
  IN  /\ pc[w] = "read" /\ req[w].op = "refresh"
      /\ ~TokenLocked(t)
      /\ kill' = [kill EXCEPT ![w] = Retired(t)]
      /\ MintToken(w, tokens[t].user, tokens[t].family, t)
      /\ pc' = [pc EXCEPT ![w] = "saved"]
      /\ UNCHANGED <<db, expired, begun, req, todo>>

\* A revoked token is presented: RevokeFamily begins.
ReplayRefresh(w, t) ==
  /\ Stored(t) /\ ~IsExpired(t) /\ IsRevoked(t)
  /\ Begin(w, [op |-> "reuse", user |-> tokens[t].user, token |-> t, row |-> None],
           "revoking")
  /\ todo' = [todo EXCEPT ![w] = ActiveInFamily(tokens[t].family)]
  /\ UNCHANGED <<minted, mint, kill>>

\* LogoutUser: RevokeFamily begins, whatever the state of the token itself.
Logout(w, t) ==
  /\ Stored(t)
  /\ Begin(w, [op |-> "logout", user |-> tokens[t].user, token |-> t, row |-> None],
           "revoking")
  /\ todo' = [todo EXCEPT ![w] = ActiveInFamily(tokens[t].family)]
  /\ UNCHANGED <<minted, mint, kill>>

\* ChangePassword and UpdateProfile read the whole row and edit their copy.
ChangePassword(w, u, current, new) ==
  /\ users[u] # None
  /\ users[u].password = current
  /\ Begin(w, [op |-> "change", user |-> u, token |-> None,
               row |-> [users[u] EXCEPT !.password = new]], "read")
  /\ UNCHANGED <<minted, mint, todo, kill>>

UpdateProfile(w, u, email, name) ==
  /\ users[u] # None
  /\ email # users[u].email => ~EmailExists(email)
  /\ Begin(w, [op |-> "profile", user |-> u, token |-> None,
               row |-> [users[u] EXCEPT !.email = email, !.name = name]], "read")
  /\ UNCHANGED <<minted, mint, todo, kill>>

\* Mutant: the users row is not held while the tokens are revoked.
SavePasswordUnlocked(w) ==
  /\ pc[w] = "read" /\ req[w].op = "change"
  /\ EmailFree(req[w].user, req[w].row.email)
  /\ todo' = [todo EXCEPT ![w] = ActiveOfUser(req[w].user)]
  /\ pc' = [pc EXCEPT ![w] = "revoking"]
  /\ UNCHANGED <<db, expired, minted, begun, req, kill, mint>>

\* Users.Save writes the whole copy; RevokeAllForUser begins.
SavePassword(w) ==
  /\ pc[w] = "read" /\ req[w].op = "change"
  /\ ~UserLocked(req[w].user)
  /\ EmailFree(req[w].user, req[w].row.email)
  /\ todo' = [todo EXCEPT ![w] = ActiveOfUser(req[w].user)]
  /\ pc' = [pc EXCEPT ![w] = "revoking"]
  /\ UNCHANGED <<db, expired, minted, begun, req, kill, mint>>

SaveProfile(w) ==
  /\ pc[w] = "read" /\ req[w].op = "profile"
  /\ ~UserLocked(req[w].user)
  /\ EmailFree(req[w].user, req[w].row.email)
  /\ pc' = [pc EXCEPT ![w] = "saved"]
  /\ UNCHANGED <<db, expired, minted, begun, req, todo, kill, mint>>

\* A Revoke statement reaches the next row it matched, in any order: it waits
\* for the row's lock, then revokes the row if it still satisfies the WHERE.
RevokeNext(w, t) ==
  /\ pc[w] = "revoking"
  /\ t \in todo[w]
  /\ ~TokenLocked(t)
  /\ todo' = [todo EXCEPT ![w] = @ \ {t}]
  /\ kill' = [kill EXCEPT ![w] = @ \cup {s \in {t} : Active(s)}]
  /\ UNCHANGED <<db, expired, minted, begun, pc, req, mint>>

RevokeDone(w) ==
  /\ pc[w] = "revoking"
  /\ todo[w] = {}
  /\ pc' = [pc EXCEPT ![w] = IF req[w].op = "reuse" THEN "reused" ELSE "saved"]
  /\ UNCHANGED <<db, expired, minted, begun, req, todo, kill, mint>>

(***************************************************************************)
(* The end of a transaction.                                               *)
(***************************************************************************)

End(w) ==
  /\ pc' = [pc EXCEPT ![w] = "idle"]
  /\ req' = [req EXCEPT ![w] = None]
  /\ todo' = [todo EXCEPT ![w] = {}]
  /\ kill' = [kill EXCEPT ![w] = {}]
  /\ mint' = [mint EXCEPT ![w] = None]
  /\ UNCHANGED <<expired, minted, begun>>

\* Mutant: the note is never set.
ReasonLost(op) == ""

Reason(op) ==
  CASE op = "refresh" -> "rotation"
    [] op = "logout" -> "logout"
    [] op = "change" -> "password-change"

Issued(m) ==
  [type |-> "RefreshTokenIssued", user |-> m.user, family |-> m.family, token |-> m.id]

\* Mutant: the two ids are swapped.
RevokedEventSwapped(user, family, token, op) ==
  [type |-> "RefreshTokenRevoked", user |-> user, family |-> token, token |-> family,
   reason |-> Reason(op)]

RevokedEvent(user, family, token, op) ==
  [type |-> "RefreshTokenRevoked", user |-> user, family |-> family, token |-> token,
   reason |-> Reason(op)]

Announced(r, m) ==
  CASE r.op = "register" ->
         {[type |-> "UserRegistered", user |-> r.user], Issued(m)}
    [] r.op = "login" ->
         {[type |-> "UserLoggedIn", user |-> r.user], Issued(m)}
    [] r.op = "refresh" ->
         {RevokedEvent(r.user, tokens[r.token].family, r.token, r.op), Issued(m)}
    [] r.op = "logout" ->
         {RevokedEvent(r.user, tokens[r.token].family, None, r.op)}
    [] r.op = "change" -> {RevokedEvent(r.user, None, None, r.op)}
    [] OTHER -> {}

Inserted(m) == [user |-> m.user, family |-> m.family, parent |-> m.parent,
                revoked |-> None]

Commit(w) ==
  /\ pc[w] = "saved"
  /\ users' = [u \in UserIds |->
       IF u = req[w].user /\ req[w].row # None THEN req[w].row ELSE users[u]]
  /\ tokens' = [t \in TokenIds |->
       CASE mint[w] # None /\ t = mint[w].id -> Inserted(mint[w])
         [] t \in kill[w] -> [tokens[t] EXCEPT !.revoked = Reason(req[w].op)]
         [] OTHER -> tokens[t]]
  /\ outbox' = outbox \cup Announced(req[w], mint[w])
  /\ End(w)

\* The reuse branch returns ErrRefreshTokenReused, and an error makes the unit
\* of work roll back.  (A crash here has the same effect on the tables.)
RefuseReuse(w) ==
  /\ pc[w] = "reused"
  /\ UNCHANGED db
  /\ End(w)

\* Any other error, a cancelled request, a deadlock victim, a crash.
Rollback(w) ==
  /\ pc[w] \in {"read", "revoking", "saved"}
  /\ UNCHANGED db
  /\ End(w)

Expire ==
  /\ expired < minted /\ expired < MaxExpired
  /\ expired' = expired + 1
  /\ UNCHANGED <<db, minted, begun, pc, req, todo, kill, mint>>

Next ==
  \/ \E w \in Workers :
       \/ \E u \in UserIds, row \in UserRow : Register(w, u, row)
       \/ \E u \in UserIds, password \in Passwords : Login(w, u, password)
       \/ \E t \in TokenIds : Refresh(w, t) \/ ReplayRefresh(w, t) \/ Logout(w, t)
       \/ \E u \in UserIds, current, new \in Passwords : ChangePassword(w, u, current, new)
       \/ \E u \in UserIds, email \in Emails, name \in Names : UpdateProfile(w, u, email, name)
       \/ Rotate(w) \/ SavePassword(w) \/ SaveProfile(w)
       \/ \E t \in TokenIds : RevokeNext(w, t)
       \/ RevokeDone(w)
       \/ Commit(w) \/ RefuseReuse(w) \/ Rollback(w)
  \/ Expire

Spec == Init /\ [][Next]_vars

-----------------------------------------------------------------------------
(***************************************************************************)
(* Properties.                                                             *)
(***************************************************************************)

TypeOK ==
  /\ users \in [UserIds -> UserRow \cup {None}]
  /\ tokens \in [TokenIds -> Token \cup {None}]
  /\ outbox \subseteq Event
  /\ minted \in 0..begun /\ begun \in 0..MaxRequests /\ expired \in 0..minted
  /\ pc \in [Workers -> {"idle", "read", "revoking", "saved", "reused"}]
  /\ req \in [Workers -> Request \cup {None}]
  /\ todo \in [Workers -> SUBSET TokenIds]
  /\ kill \in [Workers -> SUBSET TokenIds]
  /\ mint \in [Workers -> Mint \cup {None}]

\* No two accounts have one address, whatever registrations and profile updates
\* overlap (RegisterUser, UpdateProfile, the unique index behind Users.Save).
EmailsUnique ==
  \A u, v \in UserIds :
    (u # v /\ users[u] # None /\ users[v] # None) => users[u].email # users[v].email

\* A token that was exchanged for another is retired, for good, and both belong
\* to one family of one user (RevokeOne may have found it retired by another).
ChildRetiresParent ==
  \A t \in TokenIds : (Stored(t) /\ tokens[t].parent # None) =>
    LET p == tokens[t].parent
    IN  /\ Stored(p) /\ tokens[p].revoked # None
        /\ tokens[p].family = tokens[t].family
        /\ tokens[p].user = tokens[t].user

\* The outbox tells the whole story of the tokens: a token is announced exactly
\* if it is stored, and each revoked one by an event that gives its reason.
OutboxMatchesTokens ==
  /\ \A t \in TokenIds :
       (\E e \in outbox : e.type = "RefreshTokenIssued" /\ e.token = t) <=> Stored(t)
  /\ \A t \in TokenIds : (Stored(t) /\ IsRevoked(t)) =>
       \E e \in outbox :
         /\ e.type = "RefreshTokenRevoked" /\ e.user = tokens[t].user
         /\ e.reason = tokens[t].revoked
         /\ e.family \in {None, tokens[t].family} /\ e.token \in {None, t}

Final(t) ==
  Stored(t) => /\ Stored(t)'
               /\ tokens'[t] = [tokens[t] EXCEPT !.revoked = tokens'[t].revoked]
               /\ IsRevoked(t) => tokens'[t] = tokens[t]

\* A revocation is never undone, nor its reason overwritten by a later one
\* ("AND revoked_at IS NULL" in RevokeOne, RevokeFamily, RevokeAllForUser).
RevocationIsFinal == [][\A t \in TokenIds : Final(t)]_vars

\* A replay that was answered with ErrRefreshTokenReused has ended the family.
ReuseEndsFamily ==
  [][\A w \in Workers : (pc[w] = "reused" /\ pc'[w] = "idle") =>
       \A t \in TokenIds :
         (Stored(t) /\ tokens[t].family = tokens[req[w].token].family)
            => tokens'[t].revoked # None]_vars
=============================================================================
