------------------------------ MODULE IamProofs ------------------------------
(***************************************************************************)
(* Proofs about Iam: types, one account per address, the lineage of the    *)
(* tokens, revocations that last, and an outbox that tells the story of    *)
(* the tokens, for any number of users, requests and tokens.               *)
(***************************************************************************)
EXTENDS Iam, FiniteSetTheorems, TLAPS

Stages == {"idle", "read", "revoking", "saved", "reused"}
Minters == {"register", "login", "refresh"}

\* Every refresh that has read its token mints at most one more.
Refreshing == {w \in Workers : pc[w] = "read" /\ req[w].op = "refresh"}
MintsInv ==
  /\ IsFiniteSet(Refreshing) /\ Cardinality(Refreshing) + minted <= begun

\* Ids of tokens and families are old, and a family is of one user.
TokensInv ==
  /\ \A t \in TokenIds : Stored(t) => t <= minted /\ tokens[t].family <= minted
  /\ \A s, t \in TokenIds :
       Stored(s) /\ Stored(t) /\ tokens[s].family = tokens[t].family
         => tokens[s].user = tokens[t].user

\* What a worker is doing at each stage, and the token it was given.
StageInv(w) ==
  /\ pc[w] = "idle" => todo[w] = {} /\ kill[w] = {} /\ mint[w] = None
  /\ pc[w] # "idle" => req[w] \in Request
  /\ pc[w] = "read" => req[w].op \in {"refresh", "change", "profile"}
  /\ pc[w] = "revoking" => req[w].op \in {"reuse", "logout", "change"}
  /\ pc[w] = "saved" => req[w].op # "reuse"
  /\ pc[w] = "reused" => req[w].op = "reuse"
  /\ pc[w] # "idle" /\ req[w].op \in {"refresh", "reuse", "logout"} =>
       req[w].token \in TokenIds /\ Stored(req[w].token)
         /\ req[w].user = tokens[req[w].token].user /\ req[w].row = None

\* A worker has a token of its own exactly between the insert and the end; it is
\* stored nowhere yet and agrees with its family and its retired parent.
MintInv(w) ==
  /\ mint[w] # None => pc[w] = "saved" /\ req[w].op \in Minters
  /\ pc[w] = "saved" /\ req[w].op \in Minters =>
       LET m == mint[w]
       IN  /\ m \in Mint /\ m.user = req[w].user
           /\ m.id <= minted /\ m.family <= minted /\ ~Stored(m.id)
           /\ \A t \in TokenIds :
                Stored(t) /\ tokens[t].family = m.family => tokens[t].user = m.user
           /\ m.parent # None =>
                /\ Stored(m.parent)
                /\ tokens[m.parent].family = m.family
                /\ tokens[m.parent].user = m.user
                /\ tokens[m.parent].revoked # None \/ m.parent \in kill[w]

\* The tokens a request revokes, or has matched and may revoke.
Concerns(w, t) ==
  \/ req[w].op = "refresh" /\ t = req[w].token
  \/ /\ req[w].op \in {"reuse", "logout"}
     /\ tokens[t].family = tokens[req[w].token].family
  \/ req[w].op = "change" /\ tokens[t].user = req[w].user

\* Locked tokens are still active: nobody else has revoked them.
KillInv(w) ==
  /\ pc[w] = "read" => todo[w] = {} /\ kill[w] = {}
  /\ \A t \in todo[w] : t \in TokenIds /\ Stored(t) /\ Concerns(w, t)
  /\ \A t \in kill[w] : t \in TokenIds /\ Active(t) /\ Concerns(w, t)

\* A saved users row has an address that no other committed row has.
SavedInv(w) ==
  HasSavedUser(w) =>
    \A v \in UserIds \ {req[w].user} : users[v] # None => users[v].email # req[w].row.email

\* Two workers' uncommitted writes do not meet.
Apart(v, w) ==
  /\ kill[v] \cap kill[w] = {}
  /\ mint[v] # None /\ mint[w] # None =>
       /\ mint[v].id # mint[w].id
       /\ mint[v].family = mint[w].family => mint[v].user = mint[w].user
  /\ HasSavedUser(v) /\ HasSavedUser(w) /\ req[v].user # req[w].user =>
       req[v].row.email # req[w].row.email

WorkerInv(w) == StageInv(w) /\ MintInv(w) /\ KillInv(w) /\ SavedInv(w)

Tables == EmailsUnique /\ ChildRetiresParent /\ TokensInv /\ OutboxMatchesTokens

IInv ==
  /\ TypeOK
  /\ MintsInv
  /\ Tables
  /\ \A w \in Workers : WorkerInv(w)
  /\ \A v, w \in Workers : v # w => Apart(v, w)

-----------------------------------------------------------------------------

LEMMA InitIInv == Init => IInv
<1> SUFFICES ASSUME Init PROVE IInv
  OBVIOUS
<1>1. TypeOK
  BY BoundsAssumption DEF Init, TypeOK
<1>2. Refreshing = {} /\ MintsInv
  BY FS_EmptySet DEF Init, MintsInv, Refreshing
<1>3. Tables
  BY DEF Init, Tables, EmailsUnique, ChildRetiresParent, TokensInv, OutboxMatchesTokens, Stored
<1>4. ASSUME NEW w \in Workers PROVE WorkerInv(w)
  BY DEF Init, WorkerInv, StageInv, MintInv, KillInv, SavedInv, HasSavedUser
<1>5. ASSUME NEW v \in Workers, NEW w \in Workers PROVE Apart(v, w)
  BY DEF Init, Apart, HasSavedUser
<1> QED
  BY <1>1, <1>2, <1>3, <1>4, <1>5 DEF IInv

\* Steps that leave the tables alone preserve what is said of them alone.
LEMMA TablesUnchanged ==
  ASSUME IInv, UNCHANGED db, minted' \in Nat, minted <= minted'
  PROVE  Tables'
<1>1. UNCHANGED <<users, tokens, outbox>>
  BY DEF db
<1>2. minted \in Nat
  BY BoundsAssumption DEF IInv, TypeOK
<1>3. TokensInv'
  BY <1>1, <1>2 DEF IInv, Tables, TokensInv, Stored, TypeOK, Token, TokenIds
<1> QED
  BY <1>1, <1>3 DEF IInv, Tables, EmailsUnique, ChildRetiresParent, OutboxMatchesTokens,
     Stored, IsRevoked

\* A worker that a step leaves alone, when the tables do not change either.
LEMMA OthersUnchanged ==
  ASSUME IInv, UNCHANGED db, minted' \in Nat, minted <= minted', NEW v \in Workers,
         pc'[v] = pc[v], req'[v] = req[v], todo'[v] = todo[v], kill'[v] = kill[v],
         mint'[v] = mint[v]
  PROVE  WorkerInv(v)'
<1>1. UNCHANGED <<users, tokens, outbox>> /\ WorkerInv(v)
  BY DEF db, IInv
<1>2. minted \in Nat
  BY BoundsAssumption DEF IInv, TypeOK
<1>3. StageInv(v)'
  BY <1>1 DEF WorkerInv, StageInv, Stored
<1>4. MintInv(v)'
  BY <1>1, <1>2 DEF WorkerInv, MintInv, Stored, Mint, TokenIds
<1>5. KillInv(v)'
  BY <1>1 DEF WorkerInv, KillInv, Stored, Active, Concerns
<1>6. SavedInv(v)'
  BY <1>1 DEF WorkerInv, SavedInv, HasSavedUser
<1> QED
  BY <1>3, <1>4, <1>5, <1>6 DEF WorkerInv

-----------------------------------------------------------------------------
(***************************************************************************)
(* The steps that begin a request.                                         *)
(***************************************************************************)

\* What Begin does.
LEMMA Begun ==
  ASSUME IInv, NEW w \in Workers, NEW r \in Request, NEW stage \in {"read", "revoking", "saved"},
         Begin(w, r, stage)
  PROVE  /\ UNCHANGED <<users, tokens, outbox, expired>> /\ UNCHANGED db
         /\ begun' = begun + 1 /\ begun' \in 0..MaxRequests
         /\ pc' \in [Workers -> Stages] /\ req' \in [Workers -> Request \cup {None}]
         /\ pc[w] = "idle" /\ pc'[w] = stage /\ req'[w] = r
         /\ todo[w] = {} /\ kill[w] = {} /\ mint[w] = None
         /\ \A v \in Workers \ {w} : pc'[v] = pc[v] /\ req'[v] = req[v]
BY BoundsAssumption DEF Begin, db, IInv, TypeOK, WorkerInv, StageInv, Stages

\* A refresh is counted when it begins, and nothing else is added.
LEMMA BegunMints ==
  ASSUME IInv, NEW w \in Workers, NEW r \in Request, NEW stage \in {"read", "revoking", "saved"},
         Begin(w, r, stage),
         \/ minted' = minted
         \/ minted' = minted + 1 /\ stage # "read"
  PROVE  MintsInv' /\ minted' \in 0..begun' /\ minted' \in Nat /\ minted <= minted'
<1> DEFINE R == Refreshing
<1>1. /\ IsFiniteSet(R) /\ Cardinality(R) \in Nat /\ Cardinality(R) + minted <= begun
      /\ minted \in Nat /\ begun \in Nat /\ w \notin R
  BY FS_CardinalityType, Begun, BoundsAssumption DEF IInv, TypeOK, MintsInv, Refreshing
<1>2. Refreshing' = IF stage = "read" /\ r.op = "refresh" THEN R \cup {w} ELSE R
  BY Begun, <1>1 DEF Refreshing
<1>3. IsFiniteSet(R \cup {w}) /\ Cardinality(R \cup {w}) = Cardinality(R) + 1
  BY <1>1, FS_AddElement
<1>4. IsFiniteSet(Refreshing') /\ Cardinality(Refreshing') + minted' <= begun'
  BY <1>1, <1>2, <1>3, Begun
<1>5. Cardinality(Refreshing') \in Nat /\ begun' = begun + 1
  BY <1>4, FS_CardinalityType, Begun
<1> QED
  BY <1>1, <1>4, <1>5 DEF MintsInv

\* A request that begins with a read, or with what its Revoke statement matched.
LEMMA BeginIInv ==
  ASSUME IInv, NEW w \in Workers, NEW r \in Request, NEW stage \in {"read", "revoking"},
         NEW matched \in SUBSET TokenIds,
         Begin(w, r, stage),
         stage = "read" => r.op \in {"refresh", "change", "profile"} /\ matched = {},
         stage = "revoking" => r.op \in {"reuse", "logout"},
         r.op \in {"refresh", "reuse", "logout"} =>
           /\ r.token \in TokenIds /\ Stored(r.token) /\ r.user = tokens[r.token].user
           /\ r.row = None
           /\ \A t \in matched : Stored(t) /\ tokens[t].family = tokens[r.token].family,
         todo' = [todo EXCEPT ![w] = matched],
         UNCHANGED <<minted, mint, kill>>
  PROVE  IInv'
<1>1. MintsInv' /\ minted' \in 0..begun' /\ minted' \in Nat /\ minted <= minted'
  BY BegunMints
<1>2. TypeOK'
  BY <1>1, Begun, BoundsAssumption DEF IInv, TypeOK, Stages
<1>3. Tables'
  BY <1>1, Begun, TablesUnchanged
<1>4. todo'[w] = matched /\ \A v \in Workers \ {w} : todo'[v] = todo[v]
  BY DEF IInv, TypeOK
<1>5. WorkerInv(w)'
  <2>1. StageInv(w)'
    BY Begun DEF StageInv, Stored
  <2>2. MintInv(w)'
    BY Begun DEF MintInv
  <2>3. KillInv(w)'
    BY Begun, <1>4 DEF KillInv, Concerns, Stored
  <2>4. SavedInv(w)'
    BY Begun DEF SavedInv, HasSavedUser
  <2> QED
    BY <2>1, <2>2, <2>3, <2>4 DEF WorkerInv
<1>6. ASSUME NEW v \in Workers, v # w PROVE WorkerInv(v)'
  BY <1>1, <1>4, <1>6, Begun, OthersUnchanged
<1>7. ASSUME NEW v \in Workers, NEW x \in Workers, v # x PROVE Apart(v, x)'
  BY <1>7, Begun DEF IInv, Apart, HasSavedUser
<1> QED
  BY <1>1, <1>2, <1>3, <1>5, <1>6, <1>7 DEF IInv

LEMMA RefreshIInv ==
  ASSUME IInv, NEW w \in Workers, NEW t \in TokenIds, Refresh(w, t)
  PROVE  IInv'
<1> DEFINE r == [op |-> "refresh", user |-> tokens[t].user, token |-> t, row |-> None]
<1>1. r \in Request /\ Stored(t)
  BY DEF Refresh, IInv, TypeOK, Stored, Token, Request, Ops
<1>2. Begin(w, r, "read") /\ UNCHANGED <<minted, mint, kill>>
      /\ todo' = [todo EXCEPT ![w] = {}]
  BY DEF Refresh, Begin, IInv, TypeOK, WorkerInv, StageInv
<1>3. r.op = "refresh" /\ r.token = t /\ r.user = tokens[t].user /\ r.row = None
      /\ {} \in SUBSET TokenIds
  OBVIOUS
<1> HIDE DEF r
<1> QED
  BY <1>1, <1>2, <1>3, BeginIInv

LEMMA RevokeFamilyIInv ==
  ASSUME IInv, NEW w \in Workers, NEW t \in TokenIds, ReplayRefresh(w, t) \/ Logout(w, t)
  PROVE  IInv'
<1> DEFINE r(op) == [op |-> op, user |-> tokens[t].user, token |-> t, row |-> None]
           matched == ActiveInFamily(tokens[t].family)
<1>1. r("reuse") \in Request /\ r("logout") \in Request /\ Stored(t)
  BY DEF ReplayRefresh, Logout, IInv, TypeOK, Stored, Token, Request, Ops
<1>2. matched \in SUBSET TokenIds
      /\ \A s \in matched : Stored(s) /\ tokens[s].family = tokens[t].family
  BY DEF ActiveInFamily, Active
<1>3. /\ Begin(w, r("reuse"), "revoking") \/ Begin(w, r("logout"), "revoking")
      /\ UNCHANGED <<minted, mint, kill>> /\ todo' = [todo EXCEPT ![w] = matched]
  BY DEF ReplayRefresh, Logout
<1>4. CASE Begin(w, r("reuse"), "revoking")
  <2> HIDE DEF matched
  <2> QED BY <1>1, <1>2, <1>3, <1>4, BeginIInv
<1>5. CASE Begin(w, r("logout"), "revoking")
  <2> HIDE DEF matched
  <2> QED BY <1>1, <1>2, <1>3, <1>5, BeginIInv
<1> QED
  BY <1>3, <1>4, <1>5

LEMMA ReadUserIInv ==
  ASSUME IInv, NEW w \in Workers, NEW u \in UserIds,
         \/ \E current, new \in Passwords : ChangePassword(w, u, current, new)
         \/ \E email \in Emails, name \in Names : UpdateProfile(w, u, email, name)
  PROVE  IInv'
<1>1. PICK op \in {"change", "profile"}, row \in UserRow :
        /\ Begin(w, [op |-> op, user |-> u, token |-> None, row |-> row], "read")
        /\ UNCHANGED <<minted, mint, todo, kill>>
  <2>1. users[u] # None => users[u] \in UserRow
    BY DEF IInv, TypeOK
  <2>2. ASSUME NEW current \in Passwords, NEW new \in Passwords, ChangePassword(w, u, current, new)
        PROVE  /\ [users[u] EXCEPT !.password = new] \in UserRow
               /\ Begin(w, [op |-> "change", user |-> u, token |-> None,
                            row |-> [users[u] EXCEPT !.password = new]], "read")
               /\ UNCHANGED <<minted, mint, todo, kill>>
    BY <2>1, <2>2 DEF ChangePassword, UserRow
  <2>3. ASSUME NEW email \in Emails, NEW name \in Names, UpdateProfile(w, u, email, name)
        PROVE  /\ [users[u] EXCEPT !.email = email, !.name = name] \in UserRow
               /\ Begin(w, [op |-> "profile", user |-> u, token |-> None,
                            row |-> [users[u] EXCEPT !.email = email, !.name = name]], "read")
               /\ UNCHANGED <<minted, mint, todo, kill>>
    BY <2>1, <2>3 DEF UpdateProfile, UserRow
  <2> QED
    BY <2>2, <2>3
<1> DEFINE r == [op |-> op, user |-> u, token |-> None, row |-> row]
<1>2. r \in Request /\ r.op = op
  BY DEF Request, Ops
<1>3. todo' = [todo EXCEPT ![w] = {}]
  BY <1>1 DEF Begin, IInv, TypeOK, WorkerInv, StageInv
<1> QED
  BY <1>1, <1>2, <1>3, BeginIInv

\* A request that opens a family: its token is newer than all there are, and the
\* address of a new account is free.
LEMMA OpenFamilyIInv ==
  ASSUME IInv, NEW w \in Workers, NEW r \in Request,
         Begin(w, r, "saved"), r.op \in {"register", "login"},
         r.row # None => EmailFree(r.user, r.row.email),
         MintToken(w, r.user, minted + 1, None),
         UNCHANGED <<todo, kill>>
  PROVE  IInv'
<1> PICK m : m = [id |-> minted + 1, user |-> r.user, family |-> minted + 1, parent |-> None]
  OBVIOUS
<1>1. minted' = minted + 1 /\ mint' = [mint EXCEPT ![w] = m]
  BY DEF MintToken
<1>2. MintsInv' /\ minted' \in 0..begun' /\ minted' \in Nat /\ minted <= minted'
  BY <1>1, BegunMints
<1>3. minted \in Nat /\ minted + 1 \in TokenIds
  BY <1>1, <1>2, Begun, BoundsAssumption DEF TokenIds, IInv, TypeOK
<1>4. m \in Mint
  BY <1>3 DEF Mint, Request
<1>5. TypeOK'
  BY <1>1, <1>2, <1>4, Begun, BoundsAssumption DEF IInv, TypeOK, Stages
<1>6. Tables'
  BY <1>2, Begun, TablesUnchanged
<1>7. mint'[w] = m /\ \A v \in Workers \ {w} : mint'[v] = mint[v]
  BY <1>1 DEF IInv, TypeOK
<1>8. \A t \in TokenIds : Stored(t) => t # m.id /\ tokens[t].family # m.family
  BY <1>3 DEF IInv, Tables, TokensInv, TypeOK, Token, TokenIds
<1>9. WorkerInv(w)'
  <2>1. StageInv(w)'
    BY Begun DEF StageInv
  <2>2. MintInv(w)'
    <3>1. /\ m.user = r.user /\ m.id <= minted' /\ m.family <= minted' /\ m.parent = None
          /\ ~Stored(m.id)'
      BY <1>1, <1>3, <1>4, <1>8, Begun DEF Stored, Mint
    <3> QED
      BY <1>4, <1>7, <1>8, <3>1, Begun DEF MintInv, Minters, Stored
  <2>3. KillInv(w)'
    BY Begun DEF KillInv
  <2>4. SavedInv(w)'
    BY Begun DEF SavedInv, HasSavedUser, EmailFree
  <2> QED
    BY <2>1, <2>2, <2>3, <2>4 DEF WorkerInv
<1>10. ASSUME NEW v \in Workers, v # w PROVE WorkerInv(v)'
  BY <1>2, <1>7, <1>10, Begun, OthersUnchanged
<1>11. ASSUME NEW v \in Workers, v # w PROVE Apart(v, w)' /\ Apart(w, v)'
  <2>1. kill'[w] = {} /\ kill'[v] = kill[v] /\ mint'[v] = mint[v] /\ pc'[v] = pc[v] /\ req'[v] = req[v]
    BY <1>7, <1>11, Begun
  <2>2. mint[v] # None => mint[v].id # m.id /\ mint[v].family # m.family
    BY <1>3 DEF IInv, WorkerInv, MintInv, Mint, TokenIds
  <2>3. HasSavedUser(v)' /\ HasSavedUser(w)' /\ req[v].user # r.user => req[v].row.email # r.row.email
    BY <2>1, Begun DEF HasSavedUser, EmailFree
  <2> QED
    BY <1>7, <2>1, <2>2, <2>3, Begun DEF Apart
<1>12. ASSUME NEW v \in Workers, NEW x \in Workers, v # x, v # w, x # w PROVE Apart(v, x)'
  BY <1>7, <1>12, Begun DEF IInv, Apart, HasSavedUser
<1> QED
  BY <1>2, <1>5, <1>6, <1>9, <1>10, <1>11, <1>12 DEF IInv

LEMMA RegisterIInv ==
  ASSUME IInv, NEW w \in Workers, NEW u \in UserIds, NEW row \in UserRow, Register(w, u, row)
  PROVE  IInv'
<1> DEFINE r == [op |-> "register", user |-> u, token |-> None, row |-> row]
<1>1. r \in Request /\ r.op = "register" /\ r.user = u /\ r.row = row
  BY DEF Request, Ops
<1>2. Begin(w, r, "saved") /\ MintToken(w, u, minted + 1, None) /\ EmailFree(u, row.email)
      /\ UNCHANGED <<todo, kill>>
  BY DEF Register
<1> HIDE DEF r
<1> QED
  BY <1>1, <1>2, OpenFamilyIInv

LEMMA LoginIInv ==
  ASSUME IInv, NEW w \in Workers, NEW u \in UserIds, NEW password \in Passwords,
         Login(w, u, password)
  PROVE  IInv'
<1> DEFINE r == [op |-> "login", user |-> u, token |-> None, row |-> None]
<1>1. r \in Request /\ r.op = "login" /\ r.user = u /\ r.row = None
  BY DEF Request, Ops
<1>2. Begin(w, r, "saved") /\ MintToken(w, u, minted + 1, None) /\ UNCHANGED <<todo, kill>>
  BY DEF Login
<1> HIDE DEF r
<1> QED
  BY <1>1, <1>2, OpenFamilyIInv

-----------------------------------------------------------------------------
(***************************************************************************)
(* The statements of a transaction.                                        *)
(***************************************************************************)

\* A step of one worker that mints nothing and leaves the tables alone; it is
\* refreshing afterwards only if it was before.
LEMMA StatementMints ==
  ASSUME IInv, NEW w \in Workers, UNCHANGED <<minted, begun, req>>,
         NEW stage \in Stages, pc' = [pc EXCEPT ![w] = stage],
         stage = "read" => pc[w] = "read"
  PROVE  MintsInv'
<1>1. Refreshing' \subseteq Refreshing
  BY DEF Refreshing, IInv, TypeOK
<1>2. IsFiniteSet(Refreshing') /\ Cardinality(Refreshing') <= Cardinality(Refreshing)
      /\ Cardinality(Refreshing) \in Nat /\ Cardinality(Refreshing') \in Nat
  BY <1>1, FS_Subset, FS_CardinalityType DEF IInv, MintsInv
<1>3. Cardinality(Refreshing) + minted <= begun /\ minted \in Nat /\ begun \in Nat
  BY BoundsAssumption DEF IInv, MintsInv, TypeOK
<1> QED
  BY <1>2, <1>3 DEF MintsInv

\* The child is of the family and the user of its parent, which the same
\* transaction has just retired unless another one had.
LEMMA RotateIInv ==
  ASSUME IInv, NEW w \in Workers, Rotate(w)
  PROVE  IInv'
<1> PICK t, m :
      /\ t = req[w].token
      /\ m = [id |-> minted + 1, user |-> tokens[t].user, family |-> tokens[t].family,
              parent |-> t]
  OBVIOUS
<1>1. /\ pc[w] = "read" /\ req[w].op = "refresh" /\ ~TokenLocked(t)
      /\ kill' = [kill EXCEPT ![w] = Retired(t)]
      /\ minted' = minted + 1 /\ mint' = [mint EXCEPT ![w] = m]
      /\ pc' = [pc EXCEPT ![w] = "saved"]
      /\ UNCHANGED <<users, tokens, outbox, expired, begun, req, todo>> /\ UNCHANGED db
  BY DEF Rotate, MintToken, db
<1>2. /\ t \in TokenIds /\ Stored(t) /\ req[w].user = tokens[t].user /\ req[w] \in Request
      /\ req[w].row = None /\ tokens[t] \in Token /\ todo[w] = {} /\ kill[w] = {}
  BY <1>1 DEF IInv, TypeOK, WorkerInv, StageInv, KillInv, Stored
<1>3. MintsInv' /\ minted' \in 0..begun' /\ minted' \in Nat /\ minted \in Nat
  <2>1. w \in Refreshing /\ Refreshing' = Refreshing \ {w}
    BY <1>1 DEF Refreshing, IInv, TypeOK
  <2>2. IsFiniteSet(Refreshing) /\ Cardinality(Refreshing) \in Nat
    BY FS_CardinalityType DEF IInv, MintsInv
  <2>3. IsFiniteSet(Refreshing') /\ Cardinality(Refreshing') = Cardinality(Refreshing) - 1
        /\ Cardinality(Refreshing') \in Nat
    BY <2>1, <2>2, FS_RemoveElement, FS_CardinalityType
  <2>4. Cardinality(Refreshing) + minted <= begun /\ minted \in Nat /\ begun \in Nat
    BY BoundsAssumption DEF IInv, MintsInv, TypeOK
  <2> QED
    BY <1>1, <2>2, <2>3, <2>4 DEF MintsInv
<1>4. minted + 1 \in TokenIds
  BY <1>1, <1>3, BoundsAssumption DEF TokenIds, IInv, TypeOK
<1>5. m \in Mint
  BY <1>2, <1>4 DEF Mint, Token
<1>6. Retired(t) = IF tokens[t].revoked = None THEN {t} ELSE {}
  BY <1>2 DEF Retired, Active
<1>7. TypeOK'
  BY <1>1, <1>2, <1>3, <1>5, <1>6, BoundsAssumption DEF IInv, TypeOK
<1>8. Tables'
  BY <1>1, <1>3, TablesUnchanged
<1>9. /\ pc'[w] = "saved" /\ mint'[w] = m /\ kill'[w] = Retired(t)
      /\ \A v \in Workers \ {w} : pc'[v] = pc[v] /\ mint'[v] = mint[v] /\ kill'[v] = kill[v]
  BY <1>1 DEF IInv, TypeOK
<1>10. WorkerInv(w)'
  <2>1. StageInv(w)'
    BY <1>1, <1>2, <1>9 DEF StageInv, Stored
  <2>2. MintInv(w)'
    <3>1. /\ m.user = req[w].user /\ m.id <= minted' /\ m.family <= minted' /\ ~Stored(m.id)'
      BY <1>1, <1>2, <1>3, <1>4 DEF IInv, Tables, TokensInv, Stored, Token, TokenIds
    <3>2. \A s \in TokenIds : Stored(s) /\ tokens[s].family = m.family => tokens[s].user = m.user
      BY <1>2 DEF IInv, Tables, TokensInv
    <3>3. /\ Stored(m.parent) /\ tokens[m.parent].family = m.family
          /\ tokens[m.parent].user = m.user
          /\ tokens[m.parent].revoked # None \/ m.parent \in Retired(t)
      BY <1>2, <1>6
    <3> QED
      BY <1>1, <1>5, <1>9, <3>1, <3>2, <3>3 DEF MintInv, Minters, Stored
  <2>3. KillInv(w)'
    BY <1>1, <1>2, <1>6, <1>9 DEF KillInv, Active, Stored, Concerns
  <2>4. SavedInv(w)'
    BY <1>1, <1>2 DEF SavedInv, HasSavedUser
  <2> QED
    BY <2>1, <2>2, <2>3, <2>4 DEF WorkerInv
<1>11. ASSUME NEW v \in Workers, v # w PROVE WorkerInv(v)'
  BY <1>1, <1>3, <1>9, <1>11, OthersUnchanged
<1>12. ASSUME NEW v \in Workers, v # w PROVE Apart(v, w)' /\ Apart(w, v)'
  <2>1. kill[v] \cap kill'[w] = {}
    BY <1>1, <1>6, <1>9, <1>12 DEF TokenLocked
  <2>2. mint[v] # None =>
          mint[v].id # m.id /\ (mint[v].family = m.family => mint[v].user = m.user)
    BY <1>2, <1>3 DEF IInv, WorkerInv, MintInv, Mint, TokenIds
  <2>3. ~HasSavedUser(w)'
    BY <1>1, <1>2 DEF HasSavedUser
  <2> QED
    BY <1>9, <1>12, <2>1, <2>2, <2>3 DEF Apart
<1>13. ASSUME NEW v \in Workers, NEW x \in Workers, v # x, v # w, x # w PROVE Apart(v, x)'
  BY <1>1, <1>9, <1>13 DEF IInv, Apart, HasSavedUser
<1> QED
  BY <1>3, <1>7, <1>8, <1>10, <1>11, <1>12, <1>13 DEF IInv

\* Users.Save: the address is free, and what is to be revoked is the user's.
LEMMA SaveIInv ==
  ASSUME IInv, NEW w \in Workers, SavePassword(w) \/ SaveProfile(w)
  PROVE  IInv'
<1>1. PICK stage \in {"revoking", "saved"}, matched \in SUBSET TokenIds :
        /\ pc' = [pc EXCEPT ![w] = stage] /\ todo' = [todo EXCEPT ![w] = matched]
        /\ \/ req[w].op = "change" /\ stage = "revoking"
           \/ req[w].op = "profile" /\ stage = "saved" /\ matched = {}
        /\ \A t \in matched : Stored(t) /\ tokens[t].user = req[w].user
  <2>1. CASE SavePassword(w)
    <3>1. /\ pc' = [pc EXCEPT ![w] = "revoking"] /\ req[w].op = "change"
          /\ todo' = [todo EXCEPT ![w] = ActiveOfUser(req[w].user)]
      BY <2>1 DEF SavePassword
    <3>2. /\ ActiveOfUser(req[w].user) \in SUBSET TokenIds
          /\ \A t \in ActiveOfUser(req[w].user) : Stored(t) /\ tokens[t].user = req[w].user
      BY DEF ActiveOfUser, Active
    <3> QED
      BY <3>1, <3>2
  <2>2. CASE SaveProfile(w)
    <3>1. todo' = [todo EXCEPT ![w] = {}]
      BY <2>2 DEF SaveProfile, IInv, TypeOK, WorkerInv, KillInv
    <3>2. /\ pc' = [pc EXCEPT ![w] = "saved"] /\ req[w].op = "profile"
          /\ {} \in SUBSET TokenIds
      BY <2>2 DEF SaveProfile
    <3> QED
      BY <3>1, <3>2
  <2> QED
    BY <2>1, <2>2
<1>2. /\ pc[w] = "read" /\ EmailFree(req[w].user, req[w].row.email)
      /\ UNCHANGED <<users, tokens, outbox, expired, minted, begun, req, kill, mint>>
      /\ UNCHANGED db
  BY DEF SavePassword, SaveProfile, db
<1>3. MintsInv'
  BY <1>1, <1>2, StatementMints DEF Stages
<1>4. minted' \in Nat /\ minted <= minted'
  BY <1>2, BoundsAssumption DEF IInv, TypeOK
<1>5. TypeOK'
  BY <1>1, <1>2, BoundsAssumption DEF IInv, TypeOK
<1>6. Tables'
  BY <1>2, <1>4, TablesUnchanged
<1>7. /\ pc'[w] = stage /\ todo'[w] = matched
      /\ \A v \in Workers \ {w} : pc'[v] = pc[v] /\ todo'[v] = todo[v]
  BY <1>1 DEF IInv, TypeOK
<1>8. WorkerInv(w)'
  <2>1. StageInv(w) /\ MintInv(w) /\ KillInv(w)
    BY DEF IInv, WorkerInv
  <2>2. StageInv(w)'
    BY <1>1, <1>2, <1>7, <2>1 DEF StageInv, Stored
  <2>3. MintInv(w)'
    BY <1>1, <1>2, <1>7, <2>1 DEF MintInv, Minters
  <2>4. KillInv(w)'
    BY <1>1, <1>2, <1>7, <2>1 DEF KillInv, Concerns, Stored
  <2>5. SavedInv(w)'
    BY <1>2 DEF SavedInv, HasSavedUser, EmailFree
  <2> QED
    BY <2>2, <2>3, <2>4, <2>5 DEF WorkerInv
<1>9. ASSUME NEW v \in Workers, v # w PROVE WorkerInv(v)'
  BY <1>2, <1>4, <1>7, <1>9, OthersUnchanged
<1>10. ASSUME NEW v \in Workers, v # w PROVE Apart(v, w)' /\ Apart(w, v)'
  <2>1. HasSavedUser(v)' /\ req[v].user # req[w].user => req[v].row.email # req[w].row.email
    BY <1>2, <1>7, <1>10 DEF HasSavedUser, EmailFree
  <2> QED
    BY <1>2, <1>10, <2>1 DEF IInv, Apart
<1>11. ASSUME NEW v \in Workers, NEW x \in Workers, v # x, v # w, x # w PROVE Apart(v, x)'
  BY <1>2, <1>7, <1>11 DEF IInv, Apart, HasSavedUser
<1> QED
  BY <1>3, <1>5, <1>6, <1>8, <1>9, <1>10, <1>11 DEF IInv

\* A revoked token is active until the commit, and locked by no one else.
LEMMA RevokeNextIInv ==
  ASSUME IInv, NEW w \in Workers, NEW t \in TokenIds, RevokeNext(w, t)
  PROVE  IInv'
<1>1. /\ pc[w] = "revoking" /\ t \in todo[w] /\ ~TokenLocked(t)
      /\ UNCHANGED <<users, tokens, outbox, expired, minted, begun, pc, req, mint>>
      /\ UNCHANGED db
      /\ todo'[w] = todo[w] \ {t}
      /\ kill'[w] = kill[w] \cup {s \in {t} : Active(s)}
      /\ \A v \in Workers \ {w} : todo'[v] = todo[v] /\ kill'[v] = kill[v]
  BY DEF RevokeNext, db, IInv, TypeOK
<1>2. TypeOK'
  BY <1>1, BoundsAssumption DEF RevokeNext, IInv, TypeOK
<1>3. MintsInv' /\ minted' \in Nat /\ minted <= minted'
  BY <1>1, BoundsAssumption DEF IInv, TypeOK, MintsInv, Refreshing
<1>4. Tables'
  BY <1>1, <1>3, TablesUnchanged
<1>5. WorkerInv(w)'
  <2>1. StageInv(w) /\ MintInv(w) /\ KillInv(w) /\ SavedInv(w)
    BY DEF IInv, WorkerInv
  <2>2. StageInv(w)' /\ SavedInv(w)'
    BY <1>1, <2>1 DEF StageInv, SavedInv, HasSavedUser, Stored
  <2>3. MintInv(w)'
    BY <1>1, <2>1 DEF MintInv
  <2>4. KillInv(w)'
    BY <1>1, <2>1 DEF KillInv, Concerns, Stored, Active
  <2> QED
    BY <2>2, <2>3, <2>4 DEF WorkerInv
<1>6. ASSUME NEW v \in Workers, v # w PROVE WorkerInv(v)'
  BY <1>1, <1>3, <1>6, OthersUnchanged
<1>7. ASSUME NEW v \in Workers, v # w PROVE Apart(v, w)' /\ Apart(w, v)'
  BY <1>1, <1>7 DEF IInv, Apart, HasSavedUser, TokenLocked
<1>8. ASSUME NEW v \in Workers, NEW x \in Workers, v # x, v # w, x # w PROVE Apart(v, x)'
  BY <1>1, <1>8 DEF IInv, Apart, HasSavedUser
<1> QED
  BY <1>2, <1>3, <1>4, <1>5, <1>6, <1>7, <1>8 DEF IInv

LEMMA RevokeDoneIInv ==
  ASSUME IInv, NEW w \in Workers, RevokeDone(w)
  PROVE  IInv'
<1>1. PICK stage \in {"reused", "saved"} :
        /\ pc' = [pc EXCEPT ![w] = stage]
        /\ stage = "reused" <=> req[w].op = "reuse"
  BY DEF RevokeDone
<1>2. /\ pc[w] = "revoking"
      /\ UNCHANGED <<users, tokens, outbox, expired, minted, begun, req, todo, kill, mint>>
      /\ UNCHANGED db
      /\ pc'[w] = stage /\ \A v \in Workers \ {w} : pc'[v] = pc[v]
  BY <1>1 DEF RevokeDone, db, IInv, TypeOK
<1>3. MintsInv' /\ minted' \in Nat /\ minted <= minted'
  <2>1. stage \in Stages /\ stage # "read"
    BY DEF Stages
  <2>2. MintsInv'
    BY <1>1, <1>2, <2>1, StatementMints
  <2> QED
    BY <1>2, <2>2, BoundsAssumption DEF IInv, TypeOK
<1>4. TypeOK'
  BY <1>1, <1>2, BoundsAssumption DEF IInv, TypeOK
<1>5. Tables'
  BY <1>2, <1>3, TablesUnchanged
<1>6. WorkerInv(w)'
  <2>1. StageInv(w) /\ MintInv(w) /\ KillInv(w) /\ SavedInv(w)
    BY DEF IInv, WorkerInv
  <2>2. StageInv(w)' /\ SavedInv(w)'
    BY <1>1, <1>2, <2>1 DEF StageInv, SavedInv, HasSavedUser, Stored
  <2>3. MintInv(w)'
    BY <1>1, <1>2, <2>1 DEF MintInv, StageInv, Minters
  <2>4. KillInv(w)'
    BY <1>1, <1>2, <2>1 DEF KillInv, Concerns, Stored, Active
  <2> QED
    BY <2>2, <2>3, <2>4 DEF WorkerInv
<1>7. ASSUME NEW v \in Workers, v # w PROVE WorkerInv(v)'
  BY <1>2, <1>3, <1>7, OthersUnchanged
<1>8. ASSUME NEW v \in Workers, NEW x \in Workers, v # x PROVE Apart(v, x)'
  BY <1>2, <1>8 DEF IInv, Apart, HasSavedUser
<1> QED
  BY <1>3, <1>4, <1>5, <1>6, <1>7, <1>8 DEF IInv

-----------------------------------------------------------------------------
(***************************************************************************)
(* The end of a transaction.                                               *)
(***************************************************************************)

\* What End leaves of the worker and of the others.
LEMMA Ended ==
  ASSUME IInv, NEW w \in Workers, End(w), pc[w] # "idle"
  PROVE  /\ UNCHANGED <<expired, minted, begun>> /\ minted' \in Nat /\ minted <= minted'
         /\ pc' \in [Workers -> Stages] /\ req' \in [Workers -> Request \cup {None}]
         /\ todo' \in [Workers -> SUBSET TokenIds] /\ kill' \in [Workers -> SUBSET TokenIds]
         /\ mint' \in [Workers -> Mint \cup {None}]
         /\ pc'[w] = "idle" /\ todo'[w] = {} /\ kill'[w] = {} /\ mint'[w] = None
         /\ \A v \in Workers \ {w} :
              /\ pc'[v] = pc[v] /\ req'[v] = req[v] /\ todo'[v] = todo[v]
              /\ kill'[v] = kill[v] /\ mint'[v] = mint[v]
BY BoundsAssumption DEF End, IInv, TypeOK, Stages

LEMMA EndMints ==
  ASSUME IInv, NEW w \in Workers, End(w), pc[w] # "idle"
  PROVE  MintsInv'
<1>1. Refreshing' \subseteq Refreshing
  BY Ended DEF Refreshing
<1>2. IsFiniteSet(Refreshing') /\ Cardinality(Refreshing') <= Cardinality(Refreshing)
      /\ Cardinality(Refreshing) \in Nat /\ Cardinality(Refreshing') \in Nat
  BY <1>1, FS_Subset, FS_CardinalityType DEF IInv, MintsInv
<1>3. Cardinality(Refreshing) + minted <= begun /\ minted \in Nat /\ begun \in Nat
      /\ UNCHANGED <<minted, begun>>
  BY Ended, BoundsAssumption DEF IInv, MintsInv, TypeOK
<1> QED
  BY <1>2, <1>3 DEF MintsInv

\* An idle worker has nothing the others could meet.
LEMMA EndedApart ==
  ASSUME IInv, NEW w \in Workers, End(w), pc[w] # "idle"
  PROVE  \A v, x \in Workers : v # x => Apart(v, x)'
<1>1. ASSUME NEW v \in Workers, v # w PROVE Apart(v, w)' /\ Apart(w, v)'
  BY <1>1, Ended DEF Apart, HasSavedUser
<1>2. ASSUME NEW v \in Workers, NEW x \in Workers, v # x, v # w, x # w PROVE Apart(v, x)'
  BY <1>2, Ended DEF IInv, Apart, HasSavedUser
<1> QED
  BY <1>1, <1>2

LEMMA EndedWorker ==
  ASSUME IInv, NEW w \in Workers, End(w), pc[w] # "idle"
  PROVE  WorkerInv(w)'
BY Ended DEF WorkerInv, StageInv, MintInv, KillInv, SavedInv, HasSavedUser

LEMMA GiveUpIInv ==
  ASSUME IInv, NEW w \in Workers, RefuseReuse(w) \/ Rollback(w)
  PROVE  IInv'
<1>1. End(w) /\ pc[w] # "idle" /\ UNCHANGED <<users, tokens, outbox>> /\ UNCHANGED db
  BY DEF RefuseReuse, Rollback, db
<1>2. TypeOK'
  BY <1>1, Ended, BoundsAssumption DEF IInv, TypeOK, Stages
<1>3. Tables'
  BY <1>1, Ended, TablesUnchanged
<1>4. ASSUME NEW v \in Workers, v # w PROVE WorkerInv(v)'
  BY <1>1, <1>4, Ended, OthersUnchanged
<1> QED
  BY <1>1, <1>2, <1>3, <1>4, EndMints, EndedApart, EndedWorker DEF IInv

LEMMA ExpireIInv ==
  ASSUME IInv, Expire
  PROVE  IInv'
<1>1. /\ UNCHANGED <<users, tokens, outbox, minted, begun, pc, req, todo, kill, mint>>
      /\ UNCHANGED db
  BY DEF Expire, db
<1>2. TypeOK'
  BY <1>1, BoundsAssumption DEF Expire, IInv, TypeOK
<1>3. minted' \in Nat /\ minted <= minted'
  BY <1>1, BoundsAssumption DEF IInv, TypeOK
<1>4. MintsInv' /\ Tables'
  BY <1>1, <1>3, TablesUnchanged DEF IInv, MintsInv, Refreshing
<1>5. ASSUME NEW v \in Workers PROVE WorkerInv(v)'
  BY <1>1, <1>3, OthersUnchanged
<1> QED
  BY <1>1, <1>2, <1>4, <1>5 DEF IInv, Apart, HasSavedUser

-----------------------------------------------------------------------------
(***************************************************************************)
(* The commit.                                                             *)
(***************************************************************************)

\* A commit stores the token its request has minted, if it mints one, revokes
\* active ones, and leaves every other token as it is.
LEMMA CommitTokens ==
  ASSUME IInv, NEW w \in Workers, Commit(w)
  PROVE  /\ req[w] \in Request /\ pc[w] = "saved" /\ End(w)
         /\ mint[w] # None <=> req[w].op \in Minters
         /\ mint[w] # None =>
              /\ mint[w] \in Mint /\ mint[w].user = req[w].user
              /\ ~Stored(mint[w].id) /\ tokens'[mint[w].id] = Inserted(mint[w])
         /\ \A t \in TokenIds : Stored(t) =>
              /\ tokens'[t] = IF t \in kill[w]
                              THEN [tokens[t] EXCEPT !.revoked = Reason(req[w].op)]
                              ELSE tokens[t]
              /\ t \in kill[w] =>
                   /\ tokens[t].revoked = None
                   /\ Reason(req[w].op) \in Reasons
                   /\ Concerns(w, t)
         /\ \A t \in TokenIds :
              ~Stored(t) /\ (mint[w] # None => t # mint[w].id) => tokens'[t] = None
<1>1. WorkerInv(w) /\ pc[w] = "saved" /\ End(w) /\ req[w] \in Request /\ req[w].op # "reuse"
  BY DEF Commit, IInv, WorkerInv, StageInv
<1>2. mint[w] # None <=> req[w].op \in Minters
  BY <1>1, NoneAssumption DEF WorkerInv, MintInv
<1>3. mint[w] # None => /\ mint[w] \in Mint /\ mint[w].user = req[w].user
                        /\ ~Stored(mint[w].id) /\ mint[w].id \in TokenIds
  BY <1>1, <1>2 DEF WorkerInv, MintInv, Mint
<1>4. ASSUME NEW t \in TokenIds
      PROVE  tokens'[t] = CASE mint[w] # None /\ t = mint[w].id -> Inserted(mint[w])
                            [] t \in kill[w] -> [tokens[t] EXCEPT !.revoked = Reason(req[w].op)]
                            [] OTHER -> tokens[t]
  BY DEF Commit
<1>5. ASSUME NEW t \in kill[w]
      PROVE  /\ t \in TokenIds /\ Stored(t) /\ tokens[t].revoked = None /\ Concerns(w, t)
             /\ Reason(req[w].op) \in Reasons
  <2>1. t \in TokenIds /\ Stored(t) /\ tokens[t].revoked = None /\ Concerns(w, t)
    BY <1>1, <1>5 DEF WorkerInv, KillInv, Active
  <2>2. req[w].op \in {"refresh", "logout", "change"}
    BY <1>1, <2>1 DEF Concerns
  <2> QED
    BY <2>1, <2>2 DEF Reason, Reasons
<1>6. ASSUME mint[w] # None PROVE tokens'[mint[w].id] = Inserted(mint[w])
  <2>1. mint[w].id \in TokenIds /\ mint[w].id \notin kill[w]
    BY <1>3, <1>5, <1>6
  <2> QED
    BY <1>4, <1>6, <2>1
<1>7. ASSUME NEW t \in TokenIds, Stored(t)
      PROVE  tokens'[t] = IF t \in kill[w]
                          THEN [tokens[t] EXCEPT !.revoked = Reason(req[w].op)]
                          ELSE tokens[t]
  BY <1>3, <1>4, <1>7
<1>8. ASSUME NEW t \in TokenIds, ~Stored(t), mint[w] # None => t # mint[w].id
      PROVE  tokens'[t] = None
  BY <1>4, <1>5, <1>8 DEF Stored
<1> QED
  BY <1>1, <1>2, <1>3, <1>5, <1>6, <1>7, <1>8

\* What a token is never changes, only whether it is revoked.
LEMMA CommitKeeps ==
  ASSUME IInv, NEW w \in Workers, Commit(w)
  PROVE  /\ \A t \in TokenIds : Stored(t) =>
              /\ Stored(t)' /\ tokens'[t] \in Token
              /\ tokens'[t].user = tokens[t].user /\ tokens'[t].family = tokens[t].family
              /\ tokens'[t].parent = tokens[t].parent
              /\ t \notin kill[w] => tokens'[t] = tokens[t]
              /\ t \in kill[w] => tokens'[t].revoked # None
              /\ tokens[t].revoked # None => tokens'[t] = tokens[t]
         /\ mint[w] # None =>
              LET m == mint[w]
              IN  /\ m.id \in TokenIds /\ tokens'[m.id] \in Token
                  /\ tokens'[m.id].user = m.user /\ tokens'[m.id].family = m.family
                  /\ tokens'[m.id].parent = m.parent /\ tokens'[m.id].revoked = None
         /\ \A t \in TokenIds :
              Stored(t)' => Stored(t) \/ (mint[w] # None /\ t = mint[w].id)
<1>1. ASSUME NEW t \in TokenIds, Stored(t)
      PROVE  /\ Stored(t)' /\ tokens'[t] \in Token
             /\ tokens'[t].user = tokens[t].user /\ tokens'[t].family = tokens[t].family
             /\ tokens'[t].parent = tokens[t].parent
             /\ t \notin kill[w] => tokens'[t] = tokens[t]
             /\ t \in kill[w] => tokens'[t].revoked # None
             /\ tokens[t].revoked # None => tokens'[t] = tokens[t]
  <2>1. tokens[t] \in Token
    BY <1>1 DEF IInv, TypeOK, Stored
  <2>2. CASE t \in kill[w]
    <3>1. /\ tokens'[t] = [tokens[t] EXCEPT !.revoked = Reason(req[w].op)]
          /\ tokens[t].revoked = None /\ Reason(req[w].op) \in Reasons
      BY <1>1, <2>2, CommitTokens
    <3>2. tokens'[t] \in Token /\ tokens'[t].revoked \in Reasons
      BY <2>1, <3>1 DEF Token
    <3> QED
      BY <2>1, <2>2, <3>1, <3>2, NoneAssumption DEF Token, Stored
  <2>3. CASE t \notin kill[w]
    BY <1>1, <2>1, <2>3, CommitTokens DEF Stored
  <2> QED
    BY <2>2, <2>3
<1>2. ASSUME mint[w] # None
      PROVE  LET m == mint[w]
             IN  /\ m.id \in TokenIds /\ tokens'[m.id] \in Token
                 /\ tokens'[m.id].user = m.user /\ tokens'[m.id].family = m.family
                 /\ tokens'[m.id].parent = m.parent /\ tokens'[m.id].revoked = None
  <2>1. mint[w] \in Mint /\ tokens'[mint[w].id] = Inserted(mint[w])
    BY <1>2, CommitTokens
  <2>2. Inserted(mint[w]) \in Token
    BY <2>1 DEF Inserted, Mint, Token
  <2> QED
    BY <2>1, <2>2 DEF Inserted, Mint
<1>3. ASSUME NEW t \in TokenIds, Stored(t)'
      PROVE  Stored(t) \/ (mint[w] # None /\ t = mint[w].id)
  BY <1>3, CommitTokens DEF Stored
<1> QED
  BY <1>1, <1>2, <1>3

LEMMA CommitTypes ==
  ASSUME IInv, NEW w \in Workers, Commit(w)
  PROVE  TypeOK'
<1>1. pc[w] # "idle" /\ End(w) /\ req[w] \in Request
  BY CommitTokens
<1>2. users' \in [UserIds -> UserRow \cup {None}]
  BY <1>1 DEF Commit, IInv, TypeOK, Request
<1>3. tokens' \in [TokenIds -> Token \cup {None}]
  <2>1. ASSUME NEW t \in TokenIds PROVE tokens'[t] \in Token \cup {None}
    <3>1. CASE Stored(t)
      BY <3>1, CommitKeeps
    <3>2. CASE ~Stored(t) /\ mint[w] # None /\ t = mint[w].id
      BY <3>2, CommitKeeps
    <3>3. CASE ~Stored(t) /\ (mint[w] # None => t # mint[w].id)
      BY <3>3, CommitTokens
    <3> QED
      BY <3>1, <3>2, <3>3
  <2>2. tokens' = [t \in TokenIds |-> tokens'[t]]
    BY DEF Commit
  <2> QED
    BY <2>1, <2>2
<1>4. Announced(req[w], mint[w]) \subseteq Event
  <2> DEFINE r == req[w]
             m == mint[w]
  <2>1. r.op \in Minters => m \in Mint
    BY CommitTokens
  <2>2. r.op \in {"refresh", "logout"} => r.token \in TokenIds /\ tokens[r.token] \in Token
    BY <1>1 DEF IInv, TypeOK, WorkerInv, StageInv, Stored
  <2>3. m \in Mint => Issued(m) \in Event
    BY DEF Issued, Mint, Event
  <2>4. r.user \in UserIds
    BY <1>1 DEF Request
  <2>5. CASE r.op = "register"
    BY <2>1, <2>3, <2>4, <2>5 DEF Announced, Event, Minters
  <2>6. CASE r.op = "login"
    BY <2>1, <2>3, <2>4, <2>6 DEF Announced, Event, Minters
  <2>7. CASE r.op = "refresh"
    BY <2>1, <2>2, <2>3, <2>4, <2>7 DEF Announced, Event, Minters, RevokedEvent, Reason, Reasons, Token
  <2>8. CASE r.op = "logout"
    BY <2>2, <2>4, <2>8 DEF Announced, Event, RevokedEvent, Reason, Reasons, Token
  <2>9. CASE r.op = "change"
    BY <2>4, <2>9 DEF Announced, Event, RevokedEvent, Reason, Reasons
  <2>10. CASE r.op \notin {"register", "login", "refresh", "logout", "change"}
    BY <2>10 DEF Announced
  <2> QED
    BY <2>5, <2>6, <2>7, <2>8, <2>9, <2>10
<1>5. outbox' \subseteq Event
  BY <1>4 DEF Commit, IInv, TypeOK
<1> QED
  BY <1>1, <1>2, <1>3, <1>5, Ended, BoundsAssumption DEF IInv, TypeOK, Stages

\* The committed row has the address nobody else has; the child joins its
\* parent's family; the events are of what is stored and revoked.
LEMMA CommitTables ==
  ASSUME IInv, NEW w \in Workers, Commit(w)
  PROVE  Tables'
<1>1. /\ WorkerInv(w) /\ pc[w] = "saved" /\ req[w] \in Request
      /\ minted' = minted /\ minted \in Nat
  BY CommitTokens, BoundsAssumption DEF IInv, TypeOK, End
<1>2. mint[w] # None =>
        LET m == mint[w]
        IN  /\ m \in Mint /\ m.id <= minted /\ m.family <= minted /\ m.user = req[w].user
            /\ \A t \in TokenIds :
                 Stored(t) /\ tokens[t].family = m.family => tokens[t].user = m.user
            /\ m.parent # None =>
                 /\ Stored(m.parent)
                 /\ tokens[m.parent].family = m.family
                 /\ tokens[m.parent].user = m.user
                 /\ tokens[m.parent].revoked # None \/ m.parent \in kill[w]
  BY <1>1, CommitTokens DEF WorkerInv, MintInv
<1>3. EmailsUnique'
  <2>1. SavedInv(w) /\ (req[w].row # None => HasSavedUser(w))
    BY <1>1 DEF WorkerInv, HasSavedUser
  <2>2. \A u \in UserIds : users'[u] =
          IF u = req[w].user /\ req[w].row # None THEN req[w].row ELSE users[u]
    BY DEF Commit
  <2> QED
    BY <2>1, <2>2 DEF EmailsUnique, SavedInv, IInv, Tables
<1>4. ChildRetiresParent'
  <2> SUFFICES ASSUME NEW t \in TokenIds, Stored(t)', NEW p, p = tokens'[t].parent, p # None
               PROVE  /\ tokens'[p] # None /\ tokens'[p].revoked # None
                      /\ tokens'[p].family = tokens'[t].family
                      /\ tokens'[p].user = tokens'[t].user
    BY DEF ChildRetiresParent, Stored
  <2>1. CASE Stored(t)
    <3>1. /\ tokens[t].parent = p /\ tokens[t] \in Token
          /\ tokens'[t].family = tokens[t].family /\ tokens'[t].user = tokens[t].user
      BY <2>1, CommitKeeps DEF IInv, TypeOK, Stored
    <3>2. /\ p \in TokenIds /\ Stored(p) /\ tokens[p].revoked # None
          /\ tokens[p].family = tokens[t].family /\ tokens[p].user = tokens[t].user
      BY <2>1, <3>1 DEF IInv, Tables, ChildRetiresParent, Token
    <3> QED
      BY <3>1, <3>2, CommitKeeps DEF Stored
  <2>2. CASE ~Stored(t)
    <3>1. mint[w] # None /\ t = mint[w].id
      BY <2>2, CommitKeeps
    <3>2. mint[w].parent = p /\ tokens'[t].family = mint[w].family
          /\ tokens'[t].user = mint[w].user /\ p \in TokenIds
      BY <1>2, <3>1, CommitKeeps DEF Mint
    <3>3. /\ Stored(p) /\ tokens[p].family = mint[w].family /\ tokens[p].user = mint[w].user
          /\ tokens[p].revoked # None \/ p \in kill[w]
      BY <1>2, <3>1, <3>2
    <3> QED
      BY <3>2, <3>3, CommitKeeps DEF Stored
  <2> QED
    BY <2>1, <2>2
<1>5. TokensInv'
  <2>1. ASSUME NEW t \in TokenIds, Stored(t)'
        PROVE  t <= minted /\ tokens'[t].family <= minted
    <3>1. CASE Stored(t)
      BY <3>1, CommitKeeps DEF IInv, Tables, TokensInv
    <3>2. CASE mint[w] # None /\ t = mint[w].id
      BY <1>2, <3>2, CommitKeeps
    <3> QED
      BY <2>1, <3>1, <3>2, CommitKeeps
  <2>2. ASSUME NEW s \in TokenIds, NEW t \in TokenIds, Stored(s)', Stored(t)',
               tokens'[s].family = tokens'[t].family
        PROVE  tokens'[s].user = tokens'[t].user
    <3>1. CASE Stored(s) /\ Stored(t)
      BY <2>2, <3>1, CommitKeeps DEF IInv, Tables, TokensInv
    <3>2. CASE mint[w] # None /\ (s = mint[w].id \/ t = mint[w].id)
      BY <1>2, <2>2, <3>2, CommitKeeps
    <3> QED
      BY <2>2, <3>1, <3>2, CommitKeeps
  <2> QED
    BY <1>1, <2>1, <2>2 DEF TokensInv
<1>6. OutboxMatchesTokens'
  <2> PICK r, m : r = req[w] /\ m = mint[w]
    OBVIOUS
  <2>1. outbox' = outbox \cup Announced(r, m)
    BY DEF Commit
  <2>2. /\ m # None => Issued(m) \in Announced(r, m)
        /\ \A e \in Announced(r, m) :
             e.type = "RefreshTokenIssued" => m # None /\ e = Issued(m)
    <3>1. m # None <=> r.op \in Minters
      BY CommitTokens
    <3>2. CASE r.op = "register"
      BY <3>1, <3>2 DEF Announced, Minters, Issued
    <3>3. CASE r.op = "login"
      BY <3>1, <3>3 DEF Announced, Minters, Issued
    <3>4. CASE r.op = "refresh"
      BY <3>1, <3>4 DEF Announced, Minters, Issued, RevokedEvent
    <3>5. CASE r.op = "logout"
      BY <3>1, <3>5 DEF Announced, Minters, RevokedEvent
    <3>6. CASE r.op = "change"
      BY <3>1, <3>6 DEF Announced, Minters, RevokedEvent
    <3>7. CASE r.op \notin {"register", "login", "refresh", "logout", "change"}
      BY <3>1, <3>7 DEF Announced, Minters
    <3> QED
      BY <3>2, <3>3, <3>4, <3>5, <3>6, <3>7
  <2>3. ASSUME NEW t \in TokenIds
        PROVE  (\E e \in outbox' : e.type = "RefreshTokenIssued" /\ e.token = t) <=> Stored(t)'
    <3>1. (\E e \in outbox : e.type = "RefreshTokenIssued" /\ e.token = t) <=> Stored(t)
      BY DEF IInv, Tables, OutboxMatchesTokens
    <3>2. m # None => Issued(m).type = "RefreshTokenIssued" /\ Issued(m).token = m.id
                      /\ Stored(m.id)'
      BY CommitKeeps, NoneAssumption DEF Issued, Stored
    <3>3. Stored(t)' <=> Stored(t) \/ (m # None /\ t = m.id)
      BY <3>2, CommitKeeps
    <3> QED
      BY <2>1, <2>2, <3>1, <3>2, <3>3
  <2>4. ASSUME NEW t \in TokenIds, Stored(t)', IsRevoked(t)'
        PROVE  \E e \in outbox' :
                 /\ e.type = "RefreshTokenRevoked" /\ e.user = tokens'[t].user
                 /\ e.reason = tokens'[t].revoked
                 /\ e.family \in {None, tokens'[t].family} /\ e.token \in {None, t}
    <3>1. Stored(t)
      BY <2>4, CommitKeeps DEF IsRevoked
    <3>2. CASE t \notin kill[w]
      <4>1. tokens'[t] = tokens[t] /\ IsRevoked(t)
        BY <2>4, <3>1, <3>2, CommitKeeps DEF IsRevoked
      <4> QED
        BY <2>1, <3>1, <4>1 DEF IInv, Tables, OutboxMatchesTokens
    <3>3. CASE t \in kill[w]
      <4>1. /\ tokens'[t].user = tokens[t].user /\ tokens'[t].family = tokens[t].family
            /\ tokens'[t].revoked = Reason(r.op) /\ Concerns(w, t) /\ tokens[t] \in Token
        <5>1. tokens[t] \in Token
          BY <3>1 DEF IInv, TypeOK, Stored
        <5>2. tokens'[t] = [tokens[t] EXCEPT !.revoked = Reason(r.op)] /\ Concerns(w, t)
          BY <3>1, <3>3, CommitTokens
        <5> QED
          BY <5>1, <5>2 DEF Token
      <4>2. r.op \in {"refresh", "logout"} =>
              r.token \in TokenIds /\ Stored(r.token) /\ r.user = tokens[r.token].user
        BY <1>1 DEF WorkerInv, StageInv
      <4>3. CASE r.op = "refresh"
        <5>1. RevokedEvent(r.user, tokens[r.token].family, r.token, r.op) \in outbox'
          BY <2>1, <4>3 DEF Announced
        <5>2. t = r.token
          BY <4>1, <4>3 DEF Concerns
        <5> QED
          BY <4>1, <4>2, <4>3, <5>1, <5>2 DEF RevokedEvent
      <4>4. CASE r.op = "logout"
        <5>1. RevokedEvent(r.user, tokens[r.token].family, None, r.op) \in outbox'
          BY <2>1, <4>4 DEF Announced
        <5>2. tokens[t].family = tokens[r.token].family
          BY <4>1, <4>4 DEF Concerns
        <5>3. tokens[t].user = r.user
          BY <3>1, <4>2, <4>4, <5>2 DEF IInv, Tables, TokensInv
        <5> QED
          BY <4>1, <4>4, <5>1, <5>2, <5>3 DEF RevokedEvent
      <4>5. CASE r.op = "change"
        <5>1. RevokedEvent(r.user, None, None, r.op) \in outbox'
          BY <2>1, <4>5 DEF Announced
        <5>2. tokens[t].user = r.user
          BY <4>1, <4>5 DEF Concerns
        <5> QED
          BY <4>1, <4>5, <5>1, <5>2 DEF RevokedEvent
      <4>6. r.op # "reuse"
        BY <1>1 DEF WorkerInv, StageInv
      <4> QED
        BY <4>1, <4>3, <4>4, <4>5, <4>6 DEF Concerns
    <3> QED
      BY <3>2, <3>3
  <2> QED
    BY <2>3, <2>4 DEF OutboxMatchesTokens
<1> QED
  BY <1>3, <1>4, <1>5, <1>6 DEF Tables

\* Another worker's uncommitted writes survive a commit it does not meet.
LEMMA CommitOthers ==
  ASSUME IInv, NEW w \in Workers, Commit(w), NEW v \in Workers, v # w
  PROVE  WorkerInv(v)'
<1>1. /\ WorkerInv(v) /\ Apart(v, w) /\ WorkerInv(w) /\ pc[w] = "saved"
      /\ pc'[v] = pc[v] /\ req'[v] = req[v] /\ todo'[v] = todo[v] /\ kill'[v] = kill[v]
      /\ mint'[v] = mint[v] /\ minted' = minted
  BY CommitTokens, Ended DEF IInv
<1>2. StageInv(v)'
  BY <1>1, CommitKeeps DEF WorkerInv, StageInv
<1>3. MintInv(v)'
  <2> SUFFICES ASSUME pc[v] = "saved", req[v].op \in Minters
               PROVE  MintInv(v)'
    BY <1>1 DEF WorkerInv, MintInv
  <2> PICK m : m = mint[v]
    OBVIOUS
  <2>1. /\ m \in Mint /\ m.user = req[v].user /\ m # None
        /\ m.id <= minted /\ m.family <= minted /\ ~Stored(m.id)
        /\ \A t \in TokenIds :
             Stored(t) /\ tokens[t].family = m.family => tokens[t].user = m.user
        /\ m.parent # None =>
             /\ Stored(m.parent)
             /\ tokens[m.parent].family = m.family
             /\ tokens[m.parent].user = m.user
             /\ tokens[m.parent].revoked # None \/ m.parent \in kill[v]
    BY <1>1, NoneAssumption DEF WorkerInv, MintInv
  <2>2. ~Stored(m.id)'
    BY <1>1, <2>1, CommitKeeps DEF Apart, Mint
  <2>3. \A t \in TokenIds :
          Stored(t)' /\ tokens'[t].family = m.family => tokens'[t].user = m.user
    BY <1>1, <2>1, CommitKeeps DEF Apart
  <2>4. m.parent # None =>
          /\ Stored(m.parent)'
          /\ tokens'[m.parent].family = m.family
          /\ tokens'[m.parent].user = m.user
          /\ tokens'[m.parent].revoked # None \/ m.parent \in kill[v]
    BY <2>1, CommitKeeps DEF Mint
  <2> QED
    BY <1>1, <2>1, <2>2, <2>3, <2>4 DEF MintInv, WorkerInv
<1>4. KillInv(v)'
  <2>1. ASSUME NEW t \in todo[v] \cup kill[v]
        PROVE  t \in TokenIds /\ Stored(t)' /\ Concerns(v, t)'
    BY <1>1, CommitKeeps DEF WorkerInv, KillInv, StageInv, Active, Concerns, Stored
  <2>2. ASSUME NEW t \in kill[v] PROVE Active(t)'
    BY <1>1, <2>1, CommitKeeps DEF WorkerInv, KillInv, Active, Apart
  <2> QED
    BY <1>1, <2>1, <2>2 DEF WorkerInv, KillInv
<1>5. SavedInv(v)'
  <2>1. req[w].row # None => HasSavedUser(w)
    BY <1>1 DEF HasSavedUser
  <2>2. \A u \in UserIds : users'[u] =
          IF u = req[w].user /\ req[w].row # None THEN req[w].row ELSE users[u]
    BY DEF Commit
  <2> QED
    BY <1>1, <2>1, <2>2 DEF WorkerInv, SavedInv, Apart, HasSavedUser
<1> QED
  BY <1>2, <1>3, <1>4, <1>5 DEF WorkerInv

LEMMA CommitIInv ==
  ASSUME IInv, NEW w \in Workers, Commit(w)
  PROVE  IInv'
<1>1. End(w) /\ pc[w] # "idle"
  BY CommitTokens
<1> QED
  BY <1>1, CommitTypes, CommitTables, CommitOthers, EndMints, EndedApart, EndedWorker DEF IInv

LEMMA NextIInv == IInv /\ [Next]_vars => IInv'
<1> SUFFICES ASSUME IInv, [Next]_vars PROVE IInv'
  OBVIOUS
<1>1. ASSUME NEW w \in Workers, NEW u \in UserIds, NEW row \in UserRow, Register(w, u, row)
      PROVE  IInv'
  BY <1>1, RegisterIInv
<1>2. ASSUME NEW w \in Workers, NEW u \in UserIds, NEW password \in Passwords,
             Login(w, u, password)
      PROVE  IInv'
  BY <1>2, LoginIInv
<1>3. ASSUME NEW w \in Workers, NEW t \in TokenIds,
             Refresh(w, t) \/ ReplayRefresh(w, t) \/ Logout(w, t)
      PROVE  IInv'
  BY <1>3, RefreshIInv, RevokeFamilyIInv
<1>4. ASSUME NEW w \in Workers, NEW u \in UserIds, NEW current \in Passwords,
             NEW new \in Passwords, ChangePassword(w, u, current, new)
      PROVE  IInv'
  BY <1>4, ReadUserIInv
<1>5. ASSUME NEW w \in Workers, NEW u \in UserIds, NEW email \in Emails,
             NEW name \in Names, UpdateProfile(w, u, email, name)
      PROVE  IInv'
  BY <1>5, ReadUserIInv
<1>6. ASSUME NEW w \in Workers, Rotate(w) \/ SavePassword(w) \/ SaveProfile(w)
      PROVE  IInv'
  BY <1>6, RotateIInv, SaveIInv
<1>7. ASSUME NEW w \in Workers, NEW t \in TokenIds, RevokeNext(w, t)
      PROVE  IInv'
  BY <1>7, RevokeNextIInv
<1>8. ASSUME NEW w \in Workers, RevokeDone(w) \/ Commit(w) \/ RefuseReuse(w) \/ Rollback(w)
      PROVE  IInv'
  BY <1>8, RevokeDoneIInv, CommitIInv, GiveUpIInv
<1>9. CASE Expire
  BY <1>9, ExpireIInv
<1>10. CASE UNCHANGED vars
  <2>1. UNCHANGED <<users, tokens, outbox, expired, minted, begun, pc, req, todo, kill, mint>>
    BY <1>10 DEF vars
  <2>2. TypeOK' /\ MintsInv'
    BY <2>1 DEF IInv, TypeOK, MintsInv, Refreshing
  <2>3. UNCHANGED db /\ minted' \in Nat /\ minted <= minted'
    BY <2>1, BoundsAssumption DEF db, IInv, TypeOK
  <2>4. ASSUME NEW v \in Workers PROVE WorkerInv(v)'
    BY <2>1, <2>3, OthersUnchanged
  <2> QED
    BY <2>1, <2>2, <2>3, <2>4, TablesUnchanged DEF IInv, Apart, HasSavedUser
<1> QED
  BY <1>1, <1>2, <1>3, <1>4, <1>5, <1>6, <1>7, <1>8, <1>9, <1>10 DEF Next

-----------------------------------------------------------------------------
(***************************************************************************)
(* The theorems.                                                           *)
(***************************************************************************)

\* The invariant behind the theorems below, for any number of users, tokens and
\* overlapping requests (the use cases of the iam context): what each worker
\* holds at each stage of its transaction agrees with the tables, and what two
\* workers hold does not meet.
THEOREM Invariance == Spec => []IInv
BY InitIInv, NextIInv, PTL DEF Spec

\* Every row, request and token of the iam context is of its type, and no more
\* tokens are minted than requests begun.
THEOREM TypeCorrectness == Spec => []TypeOK
<1>1. IInv => TypeOK
  BY DEF IInv
<1> QED
  BY <1>1, Invariance, PTL

\* register_user.go, update_profile.go: no two accounts have one address,
\* whatever registrations and profile updates overlap: the unique index refuses
\* an address that another transaction has saved and not yet committed.
THEOREM Addresses == Spec => []EmailsUnique
<1>1. IInv => EmailsUnique
  BY DEF IInv, Tables
<1> QED
  BY <1>1, Invariance, PTL

\* refresh_access_token.go: a token that was exchanged is retired and of the
\* family and the user of its child, in any overlap of refreshes, logouts and
\* password changes.
THEOREM Lineage == Spec => []ChildRetiresParent
<1>1. IInv => ChildRetiresParent
  BY DEF IInv, Tables
<1> QED
  BY <1>1, Invariance, PTL

\* The iam outbox announces exactly the stored tokens, and each revocation with
\* its user and reason: a logout's event names one user because all tokens of a
\* family are of one.
THEOREM Story == Spec => []OutboxMatchesTokens
<1>1. IInv => OutboxMatchesTokens
  BY DEF IInv, Tables
<1> QED
  BY <1>1, Invariance, PTL

\* refresh_tokens.go: a revocation is final, and what a token is never changes:
\* a Revoke statement looks at the newest version of the row it has locked.
THEOREM Finality == Spec => RevocationIsFinal
<1>1. IInv /\ [Next]_vars => [\A t \in TokenIds : Final(t)]_vars
  <2> SUFFICES ASSUME IInv, Next, NEW t \in TokenIds PROVE Final(t)
    OBVIOUS
  <2>1. ASSUME NEW w \in Workers, Commit(w) PROVE Final(t)
    <3>1. Stored(t) => /\ Stored(t)'
                       /\ tokens'[t] = [tokens[t] EXCEPT !.revoked = tokens'[t].revoked]
      <4> SUFFICES ASSUME Stored(t)
                   PROVE  /\ Stored(t)'
                          /\ tokens'[t] = [tokens[t] EXCEPT !.revoked = tokens'[t].revoked]
        OBVIOUS
      <4>1. tokens[t] \in Token /\ Stored(t)'
        BY <2>1, CommitKeeps DEF IInv, TypeOK, Stored
      <4>2. tokens'[t] = tokens[t]
              \/ tokens'[t] = [tokens[t] EXCEPT !.revoked = Reason(req[w].op)]
        BY <2>1, CommitTokens
      <4> QED
        BY <4>1, <4>2 DEF Token
    <3> QED
      BY <2>1, <3>1, CommitKeeps DEF Final, IsRevoked
  <2>2. CASE UNCHANGED tokens
    <3>1. Stored(t) => tokens[t] \in Token
      BY DEF IInv, TypeOK, Stored
    <3> QED
      BY <2>2, <3>1 DEF Final, Stored, Token
  <2>3. UNCHANGED tokens \/ \E w \in Workers : Commit(w)
    <3>1. ASSUME NEW w \in Workers, NEW r, NEW stage, Begin(w, r, stage)
          PROVE  UNCHANGED tokens
      BY <3>1 DEF Begin, db
    <3>2. ASSUME NEW w \in Workers,
                 \/ \E u \in UserIds, row \in UserRow : Register(w, u, row)
                 \/ \E u \in UserIds, password \in Passwords : Login(w, u, password)
                 \/ \E s \in TokenIds : Refresh(w, s) \/ ReplayRefresh(w, s) \/ Logout(w, s)
                 \/ \E u \in UserIds, current, new \in Passwords : ChangePassword(w, u, current, new)
                 \/ \E u \in UserIds, email \in Emails, name \in Names : UpdateProfile(w, u, email, name)
          PROVE  UNCHANGED tokens
      BY <3>1, <3>2 DEF Register, Login, Refresh, ReplayRefresh, Logout, ChangePassword, UpdateProfile
    <3>3. ASSUME NEW w \in Workers,
                 \/ Rotate(w) \/ SavePassword(w) \/ SaveProfile(w)
                 \/ \E s \in TokenIds : RevokeNext(w, s)
                 \/ RevokeDone(w) \/ RefuseReuse(w) \/ Rollback(w)
          PROVE  UNCHANGED tokens
      BY <3>3 DEF db, Rotate, SavePassword, SaveProfile, RevokeNext, RevokeDone, RefuseReuse,
         Rollback
    <3>4. ASSUME Expire PROVE UNCHANGED tokens
      BY <3>4 DEF Expire, db
    <3> QED
      BY <3>2, <3>3, <3>4 DEF Next
  <2> QED
    BY <2>1, <2>2, <2>3
<1> QED
  BY <1>1, Invariance, PTL DEF Spec, RevocationIsFinal
=============================================================================
