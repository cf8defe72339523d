-------------------------- MODULE IamHistoryProofs --------------------------
(***************************************************************************)
(* Proofs about IamHistory: apart from the sessions that requests raced    *)
(* for and the accounts a profile update muddled, every live session is    *)
(* one its user wants, no two requests wait for each other, and the use    *)
(* cases implement LoginSessions; for any users, passwords and requests.   *)
(***************************************************************************)
EXTENDS IamHistory, IamProofs

\* The record covers every overlap there is, and speaks of what exists.
RecordInv ==
  /\ Racing \subseteq raced /\ Muddling \subseteq muddled
  /\ \A f \in raced : f \in TokenIds /\ f <= minted
  /\ \A u \in muddled : u \in UserIds /\ users[u] # None
  /\ \A f \in ended : f \in TokenIds /\ Stored(f)

\* A family has the id of a stored token that opened it, for a stored user.
FamiliesInv ==
  \A t \in TokenIds : Stored(t) =>
    /\ Stored(tokens[t].family) /\ tokens[tokens[t].family].family = tokens[t].family
    /\ users[tokens[t].user] # None

\* Family f of user u has not been ended, and was opened with u's password.
Wanted(f, u) == f \notin ended /\ (u \in muddled \/ opener[f] = users[u].password)

\* A family nobody raced for has one live token.
OneLive ==
  \A s, t \in TokenIds :
    Active(s) /\ Active(t) /\ tokens[s].family = tokens[t].family => s = t \/ tokens[t].family \in raced

LiveWanted ==
  \A t \in TokenIds : Active(t) =>
    tokens[t].family \in raced \/ Wanted(tokens[t].family, tokens[t].user)

\* What a request is given and writes besides tokens.
RequestInv(w) ==
  /\ req[w].op \in {"register", "login", "change", "profile"} => req[w].token = None
  /\ req[w].op \in {"register", "change", "profile"} => req[w].row \in UserRow
  /\ req[w].op = "login" => req[w].row = None
  /\ req[w].op = "register" <=> users[req[w].user] = None
  /\ req[w].op = "profile" =>
       req[w].user \in muddled \/ req[w].row.password = users[req[w].user].password

\* A new family is wanted, by an account that registers or has registered.
OpenInv(w) ==
  req[w].op \in {"register", "login"} =>
    /\ pc[w] = "saved" /\ kill[w] = {} /\ todo[w] = {}
    /\ mint[w].family = mint[w].id /\ mint[w].parent = None
    /\ req[w].op = "register" =>
         mint[w].id \notin raced /\ opener[mint[w].id] = req[w].row.password
    /\ req[w].op = "login" =>
         \/ mint[w].id \in raced \/ req[w].user \in muddled
         \/ opener[mint[w].id] = users[req[w].user].password

\* A refresh holds the live token of a wanted family, unless it is raced for.
RefreshInv(w) ==
  req[w].op = "refresh" =>
    /\ pc[w] = "saved" => /\ mint[w].family = tokens[req[w].token].family
                          /\ mint[w].parent = req[w].token /\ req[w].token < mint[w].id
    /\ \/ tokens[req[w].token].family \in raced
       \/ /\ Active(req[w].token) /\ Wanted(tokens[req[w].token].family, req[w].user)
          /\ pc[w] = "saved" => kill[w] = {req[w].token}

\* The tokens the commit of w is to leave without life.
Covers(w, t) ==
  \/ req[w].op = "logout" /\ tokens[t].family = tokens[req[w].token].family
  \/ req[w].op = "change" /\ pc[w] # "read" /\ tokens[t].user = req[w].user

\* A Revoke statement misses no live token but those that raced with it.
RevokeInv(w) ==
  /\ todo[w] \cap kill[w] = {}
  /\ pc[w] = "saved" => todo[w] = {}
  /\ req[w].op \in {"reuse", "logout", "change"} => mint[w] = None
  /\ req[w].op = "profile" => kill[w] = {}
  /\ \A t \in TokenIds : Active(t) /\ Covers(w, t) =>
       t \in todo[w] \cup kill[w] \/ tokens[t].family \in raced

\* Two requests on one account: only one holds the users row, none registers it.
Meet(v, w) ==
  /\ HasSavedUser(v) /\ HasSavedUser(w) => req[v].user # req[w].user
  /\ pc[v] # "idle" /\ pc[w] # "idle" /\ req[v].op = "register" => req[w].user # req[v].user

SessionInv(w) ==
  pc[w] # "idle" => RequestInv(w) /\ OpenInv(w) /\ RefreshInv(w) /\ RevokeInv(w)

HInv ==
  /\ IInv
  /\ RecordInv /\ FamiliesInv /\ OneLive /\ LiveWanted
  /\ \A w \in Workers : SessionInv(w)
  /\ \A v, w \in Workers : v # w => Meet(v, w)

-----------------------------------------------------------------------------

LEMMA InitHInv == HistoryInit => HInv
<1> SUFFICES ASSUME HistoryInit PROVE HInv
  OBVIOUS
<1>1. IInv
  BY InitIInv DEF HistoryInit
<1>2. \A w \in Workers : pc[w] = "idle"
  BY DEF HistoryInit, Init
<1>3. InFlight = {}
  BY <1>2 DEF InFlight
<1>4. RecordInv
  BY <1>3 DEF HistoryInit, RecordInv, Racing, Muddling
<1>5. FamiliesInv /\ OneLive /\ LiveWanted
  BY DEF HistoryInit, Init, FamiliesInv, OneLive, LiveWanted, Stored, Active
<1> QED
  BY <1>1, <1>2, <1>4, <1>5 DEF HInv, SessionInv, Meet, HasSavedUser

\* What is known of a request in flight that was given a token or minted one.
RequestKnown(w) ==
  /\ req[w] \in Request
  /\ req[w].op \in {"refresh", "reuse", "logout"} =>
       LET t == req[w].token
       IN  /\ t \in TokenIds /\ Stored(t) /\ req[w].user = tokens[t].user /\ req[w].row = None
           /\ tokens[t] \in Token /\ tokens[t].family \in TokenIds
           /\ t <= minted /\ tokens[t].family <= minted /\ t # None
  /\ pc[w] = "saved" /\ req[w].op \in Minters =>
       LET m == mint[w]
       IN  /\ m \in Mint /\ m # None /\ m.id \in TokenIds /\ m.id <= minted /\ ~Stored(m.id)
           /\ m.user = req[w].user /\ m.family \in TokenIds /\ m.family <= minted

LEMMA InFlightKnown == IInv => \A w \in Workers : pc[w] # "idle" => RequestKnown(w)
<1> SUFFICES ASSUME IInv, NEW w \in Workers, pc[w] # "idle" PROVE RequestKnown(w)
  OBVIOUS
<1>1. WorkerInv(w) /\ TokensInv /\ TypeOK
  BY DEF IInv, Tables
<1>2. req[w] \in Request
  BY <1>1 DEF WorkerInv, StageInv
<1>3. ASSUME req[w].op \in {"refresh", "reuse", "logout"}
      PROVE  /\ req[w].token \in TokenIds /\ Stored(req[w].token)
             /\ req[w].user = tokens[req[w].token].user /\ req[w].row = None
             /\ req[w].token # None
  BY <1>1, <1>3, NoneAssumption DEF WorkerInv, StageInv
<1>4. \A t \in TokenIds : Stored(t) =>
        tokens[t] \in Token /\ tokens[t].family \in TokenIds /\ t <= minted
          /\ tokens[t].family <= minted
  BY <1>1 DEF TypeOK, Stored, Token, TokensInv
<1>5. ASSUME pc[w] = "saved", req[w].op \in Minters
      PROVE  /\ mint[w] \in Mint /\ mint[w] # None /\ mint[w].id <= minted /\ ~Stored(mint[w].id)
             /\ mint[w].user = req[w].user /\ mint[w].family <= minted
  BY <1>1, <1>5, NoneAssumption DEF WorkerInv, MintInv
<1>6. mint[w] \in Mint => mint[w].id \in TokenIds /\ mint[w].family \in TokenIds
  BY DEF Mint
<1> QED
  BY <1>2, <1>3, <1>4, <1>5, <1>6 DEF RequestKnown

\* The family a login opens, or of the token a refresh or a logout was given.
FamilyKnown(w) ==
  /\ req[w].op \in {"refresh", "logout"} => Family(w) = tokens[req[w].token].family
  /\ req[w].op = "login" => Family(w) = mint[w].id
  /\ req[w].op \in {"login", "refresh", "logout"} => Family(w) \in TokenIds /\ Family(w) <= minted

LEMMA FamiliesKnown ==
  IInv => \A w \in Workers : pc[w] # "idle" /\ SessionInv(w) => FamilyKnown(w)
<1> SUFFICES ASSUME IInv, NEW w \in Workers, SessionInv(w), pc[w] # "idle"
             PROVE  FamilyKnown(w)
  OBVIOUS
<1>1. CASE req[w].op \in {"refresh", "logout"}
  BY <1>1, InFlightKnown DEF RequestKnown, Family, FamilyKnown
<1>2. CASE req[w].op = "login"
  <2>1. req[w].token = None /\ pc[w] = "saved"
    BY <1>2 DEF SessionInv, RequestInv, OpenInv
  <2> QED
    BY <1>2, <2>1, InFlightKnown DEF RequestKnown, Family, FamilyKnown, Minters
<1> QED
  BY <1>1, <1>2 DEF FamilyKnown

\* The same of the state after a step.
LEMMA InFlightKnownNext ==
  IInv' => \A w \in Workers : pc'[w] # "idle" => RequestKnown(w)'
<1>1. IInv' => (\A w \in Workers : pc[w] # "idle" => RequestKnown(w))'
  BY InFlightKnown, PTL
<1> QED
  BY <1>1

LEMMA FamiliesKnownNext ==
  IInv' => \A w \in Workers : pc'[w] # "idle" /\ SessionInv(w)' => FamilyKnown(w)'
<1>1. IInv' => (\A w \in Workers : pc[w] # "idle" /\ SessionInv(w) => FamilyKnown(w))'
  BY FamiliesKnown, PTL
<1> QED
  BY <1>1

\* Whoever slips a token past another request is on record.
LEMMA SlipsRecorded ==
  ASSUME RecordInv, NEW v \in Workers, NEW w \in Workers, pc[v] # "idle", pc[w] # "idle",
         SlipsPast(v, w)
  PROVE  Family(v) \in raced
BY DEF RecordInv, Racing, InFlight

LEMMA MuddleRecorded ==
  ASSUME RecordInv, NEW v \in Workers, NEW w \in Workers, pc[v] # "idle", pc[w] # "idle",
         req[v] \in Request,
         req[v].op = "profile", req[w].op = "change", req[v].user = req[w].user
  PROVE  req[v].user \in muddled
BY DEF RecordInv, Muddling, InFlight, Request

-----------------------------------------------------------------------------
(***************************************************************************)
(* Steps that commit nothing.                                              *)
(***************************************************************************)

\* The tables stay, the record may grow, and known families were opened as before.
Quiet ==
  /\ UNCHANGED <<users, tokens, outbox, ended>>
  /\ minted \in Nat /\ minted' \in Nat /\ minted <= minted'
  /\ raced' = raced \cup Racing' /\ muddled' = muddled \cup Muddling'
  /\ \A f \in TokenIds : f <= minted => opener'[f] = opener[f]

LEMMA QuietWanted ==
  ASSUME Quiet, NEW f \in TokenIds, f <= minted, NEW u, Wanted(f, u)
  PROVE  Wanted(f, u)'
BY DEF Quiet, Wanted

\* A worker that a quiet step leaves alone.  A registration's new family stays
\* off the record: nobody else's request is about it.
LEMMA QuietOther ==
  ASSUME HInv, Quiet, NEW v \in Workers, pc'[v] = pc[v], req'[v] = req[v], todo'[v] = todo[v],
         kill'[v] = kill[v], mint'[v] = mint[v],
         req[v].op = "register" /\ pc[v] # "idle" => mint[v].id \notin Racing'
  PROVE  SessionInv(v)'
<1> SUFFICES ASSUME pc[v] # "idle"
             PROVE  RequestInv(v)' /\ OpenInv(v)' /\ RefreshInv(v)' /\ RevokeInv(v)'
  BY DEF SessionInv
<1>1. /\ RequestInv(v) /\ OpenInv(v) /\ RefreshInv(v) /\ RevokeInv(v) /\ IInv
      /\ UNCHANGED <<users, tokens>> /\ raced' = raced \cup Racing' /\ muddled' = muddled \cup Muddling'
  BY DEF HInv, SessionInv, Quiet
<1>2. RequestInv(v)'
  BY <1>1 DEF RequestInv
<1>3. OpenInv(v)'
  <2> SUFFICES ASSUME req[v].op \in {"register", "login"} PROVE OpenInv(v)'
    BY DEF OpenInv
  <2>1. mint[v].id \in TokenIds /\ mint[v].id <= minted
    BY <1>1, InFlightKnown DEF RequestKnown, OpenInv, Minters
  <2>2. opener'[mint[v].id] = opener[mint[v].id]
    BY <2>1 DEF Quiet
  <2> QED
    BY <1>1, <2>2 DEF OpenInv
<1>4. RefreshInv(v)'
  <2> SUFFICES ASSUME req[v].op = "refresh" PROVE RefreshInv(v)'
    BY DEF RefreshInv
  <2> PICK f, u : f = tokens[req[v].token].family /\ u = req[v].user
    OBVIOUS
  <2>1. f \in TokenIds /\ f <= minted
    BY <1>1, InFlightKnown DEF RequestKnown
  <2>2. Wanted(f, u) => Wanted(f, u)'
    BY <2>1, QuietWanted
  <2> QED
    BY <1>1, <2>2 DEF RefreshInv, Active, Stored, Wanted
<1>5. RevokeInv(v)'
  BY <1>1 DEF RevokeInv, Covers, Active, Stored
<1> QED
  BY <1>2, <1>3, <1>4, <1>5

LEMMA QuietRest ==
  ASSUME HInv, Quiet, IInv', \A v \in Workers : SessionInv(v)'
  PROVE  RecordInv' /\ FamiliesInv' /\ OneLive' /\ LiveWanted'
<1>1. /\ UNCHANGED <<users, tokens, ended>> /\ minted \in Nat /\ minted' \in Nat /\ minted <= minted'
      /\ raced' = raced \cup Racing' /\ muddled' = muddled \cup Muddling'
  BY DEF Quiet
<1>2. ASSUME NEW f \in Racing' PROVE f \in TokenIds /\ f <= minted'
  <2>1. PICK v \in Workers, x \in Workers :
          /\ pc'[v] # "idle" /\ f = Family(v)' /\ SlipsPast(v, x)'
    BY <1>2 DEF Racing, InFlight
  <2>2. (\A w \in Workers : pc[w] # "idle" /\ SessionInv(w) => FamilyKnown(w))'
    BY FamiliesKnownNext
  <2>3. req'[v].op \in {"login", "refresh"}
    BY <2>1 DEF SlipsPast
  <2> QED
    BY <2>1, <2>2, <2>3 DEF FamilyKnown
<1>3. ASSUME NEW u \in Muddling' PROVE u \in UserIds /\ users'[u] # None
  <2>1. PICK v \in Workers : pc'[v] # "idle" /\ req'[v].user = u /\ req'[v].op = "profile"
    BY <1>3 DEF Muddling, InFlight
  <2>2. RequestInv(v)' /\ u \in UserIds
    BY <1>3, <2>1 DEF SessionInv, Muddling
  <2> QED
    BY <2>1, <2>2 DEF RequestInv
<1>4. RecordInv'
  BY <1>1, <1>2, <1>3 DEF HInv, RecordInv, Stored, TokenIds
<1>5. FamiliesInv' /\ OneLive'
  BY <1>1 DEF HInv, FamiliesInv, OneLive, Stored, Active
<1>6. LiveWanted'
  <2> SUFFICES ASSUME NEW t \in TokenIds, Active(t), NEW f, NEW u,
                      f = tokens[t].family, u = tokens[t].user
               PROVE  f \in raced' \/ Wanted(f, u)'
    BY <1>1 DEF LiveWanted, Active, Stored, Wanted
  <2>1. f \in TokenIds /\ f <= minted
    BY DEF HInv, IInv, Tables, TokensInv, TypeOK, Token, Active, Stored
  <2>2. f \in raced \/ Wanted(f, u)
    BY DEF HInv, LiveWanted
  <2> QED
    BY <1>1, <2>1, <2>2, QuietWanted
<1> QED
  BY <1>4, <1>5, <1>6

\* A step that leaves the tables alone and is no commit is quiet, if what it opens
\* is new.
LEMMA RecordQuiet ==
  ASSUME Record, UNCHANGED <<users, tokens, outbox>>, minted \in Nat, minted' \in Nat,
         minted <= minted', \A v \in Workers : ~Commit(v),
         \A v \in Workers, f \in TokenIds : f <= minted => ~Opening(v, f)
  PROVE  Quiet
<1>1. {v \in Workers : Commit(v)} = {}
  OBVIOUS
<1>2. UNION {Ends(v) : v \in {x \in Workers : Commit(x)}} = {}
  BY <1>1
<1>3. ended' = ended
  BY <1>2 DEF Record
<1>4. \A f \in TokenIds : f <= minted => opener'[f] = opener[f]
  BY DEF Record
<1>5. raced' = raced \cup Racing' /\ muddled' = muddled \cup Muddling'
  BY DEF Record
<1> QED
  BY <1>3, <1>4, <1>5 DEF Quiet

\* Nobody's request is about the family that a registration is about to open.
LEMMA RegistersApart ==
  ASSUME HInv, Quiet, IInv', NEW v \in Workers, pc'[v] = "saved", req'[v].op = "register",
         \A x \in Workers \ {v} : req'[x].op = "login" => SessionInv(x)'
  PROVE  mint'[v].id \notin Racing'
<1> SUFFICES ASSUME NEW x \in Workers, NEW y \in Workers, pc'[x] # "idle", SlipsPast(x, y)',
                    Family(x)' = mint'[v].id
             PROVE  FALSE
  BY DEF Racing, InFlight
<1>1. (\A w \in Workers : pc[w] # "idle" => RequestKnown(w))'
  BY InFlightKnownNext
<1>2. /\ mint'[v] # None /\ ~Stored(mint'[v].id) /\ UNCHANGED tokens
  BY <1>1 DEF RequestKnown, Minters, Quiet, Stored
<1>3. x # v /\ req'[x].op \in {"login", "refresh"}
  BY DEF SlipsPast
<1>4. CASE req'[x].op = "login"
  <2>1. req'[x].token = None /\ pc'[x] = "saved"
    BY <1>3, <1>4 DEF SessionInv, RequestInv, OpenInv
  <2>2. mint'[x] # None /\ mint'[x].id = mint'[v].id
    BY <1>1, <1>4, <2>1 DEF RequestKnown, Minters, Family
  <2> QED
    BY <1>2, <1>3, <2>2 DEF IInv, Apart
<1>5. CASE req'[x].op = "refresh"
  <2>1. req'[x].token \in TokenIds /\ Stored(req'[x].token)
        /\ tokens[req'[x].token].family = mint'[v].id
    BY <1>1, <1>2, <1>5 DEF RequestKnown, Family, Stored
  <2> QED
    BY <1>2, <2>1 DEF HInv, FamiliesInv
<1> QED
  BY <1>3, <1>4, <1>5

\* A quiet step of one worker: what it does itself is left to be shown.
LEMMA QuietHInv ==
  ASSUME HInv, IInv', Quiet, NEW w \in Workers,
         \A v \in Workers \ {w} :
           /\ pc'[v] = pc[v] /\ req'[v] = req[v] /\ todo'[v] = todo[v]
           /\ kill'[v] = kill[v] /\ mint'[v] = mint[v],
         SessionInv(w)',
         \A v \in Workers \ {w} : Meet(v, w)' /\ Meet(w, v)'
  PROVE  HInv'
<1>1. ASSUME NEW v \in Workers PROVE SessionInv(v)'
  <2>1. ASSUME NEW x \in Workers \ {w}, req[x].op # "register" PROVE SessionInv(x)'
    BY <2>1, QuietOther
  <2>2. ASSUME v # w, pc[v] # "idle", req[v].op = "register" PROVE mint[v].id \notin Racing'
    <3>1. pc[v] = "saved"
      BY <2>2 DEF HInv, SessionInv, OpenInv
    <3>2. \A x \in Workers \ {v} : req'[x].op = "login" => SessionInv(x)'
      BY <2>1
    <3>3. mint'[v].id \notin Racing'
      BY <2>2, <3>1, <3>2, RegistersApart
    <3> QED
      BY <2>2, <3>3
  <2>3. CASE v = w
    BY <2>3
  <2>4. CASE v # w
    BY <2>2, <2>4, QuietOther
  <2> QED
    BY <2>3, <2>4
<1>2. ASSUME NEW v \in Workers, NEW x \in Workers, v # x PROVE Meet(v, x)'
  <2>1. CASE v # w /\ x # w
    BY <1>2, <2>1 DEF HInv, Meet, HasSavedUser
  <2>2. CASE v = w \/ x = w
    BY <1>2, <2>2
  <2> QED
    BY <2>1, <2>2
<1> QED
  BY <1>1, <1>2, QuietRest DEF HInv

-----------------------------------------------------------------------------
(***************************************************************************)
(* The steps that begin a request.                                         *)
(***************************************************************************)

\* To begin is not to commit, and opens no family there is.
LEMMA BeginQuiet ==
  ASSUME HInv, Record, NEW w \in Workers, NEW r \in Request,
         NEW stage \in {"read", "revoking", "saved"}, Begin(w, r, stage),
         minted' = minted \/ (minted' = minted + 1 /\ stage = "saved"),
         r.op \in {"register", "login"} => mint'[w].id = minted + 1
  PROVE  Quiet
<1>1. IInv
  BY DEF HInv
<1>2. minted \in Nat /\ minted' \in Nat /\ minted <= minted'
  BY <1>1, BoundsAssumption DEF IInv, TypeOK
<1>3. /\ pc[w] = "idle" /\ pc'[w] = stage /\ req'[w] = r
      /\ \A v \in Workers \ {w} : pc'[v] = pc[v]
      /\ UNCHANGED <<users, tokens, outbox>>
  BY <1>1, Begun
<1>4. ASSUME NEW v \in Workers, Commit(v) PROVE FALSE
  <2>1. pc[v] = "saved" /\ pc'[v] = "idle"
    BY <1>1, <1>4, CommitTokens, Ended
  <2> QED
    BY <1>3, <2>1
<1>5. ASSUME NEW v \in Workers, NEW f \in TokenIds, f <= minted, Opening(v, f) PROVE FALSE
  <2>1. v = w
    BY <1>3, <1>5 DEF Opening
  <2> QED
    BY <1>2, <1>3, <1>5, <2>1 DEF Opening, TokenIds
<1> QED
  BY <1>2, <1>3, <1>4, <1>5, RecordQuiet

\* A request that begins with a read, or with the tokens its Revoke statement
\* matched: for a logout, all live ones of the family.
LEMMA BeginHInv ==
  ASSUME HInv, IInv', Record, NEW w \in Workers, NEW r \in Request,
         NEW stage \in {"read", "revoking"}, NEW matched \in SUBSET TokenIds,
         Begin(w, r, stage), UNCHANGED <<minted, mint, kill>>,
         todo' = [todo EXCEPT ![w] = matched],
         r.op \in {"refresh", "reuse", "logout", "change", "profile"},
         r.op \in {"change", "profile"} => stage = "read" /\ r.token = None /\ r.row \in UserRow,
         r.op \in {"refresh", "reuse", "logout"} =>
           r.token \in TokenIds /\ r.user = tokens[r.token].user,
         users[r.user] # None,
         r.op = "profile" => r.row.password = users[r.user].password,
         r.op = "refresh" => stage = "read" /\ Active(r.token),
         r.op = "logout" => \A t \in TokenIds :
           Active(t) /\ tokens[t].family = tokens[r.token].family => t \in matched
  PROVE  HInv'
<1>1. IInv
  BY DEF HInv
<1>2. Quiet
  BY BeginQuiet
<1>3. /\ UNCHANGED <<users, tokens, ended>> /\ raced' = raced \cup Racing'
      /\ muddled' = muddled \cup Muddling'
  BY <1>2 DEF Quiet
<1>4. /\ pc'[w] = stage /\ req'[w] = r /\ todo'[w] = matched /\ kill'[w] = {} /\ mint'[w] = None
      /\ \A v \in Workers \ {w} :
           /\ pc'[v] = pc[v] /\ req'[v] = req[v] /\ todo'[v] = todo[v]
           /\ kill'[v] = kill[v] /\ mint'[v] = mint[v]
  BY <1>1, Begun DEF IInv, TypeOK
<1>5. SessionInv(w)'
  <2>1. RequestInv(w)'
    BY <1>3, <1>4 DEF RequestInv
  <2>2. OpenInv(w)'
    BY <1>4 DEF OpenInv
  <2>3. RefreshInv(w)'
    <3> SUFFICES ASSUME r.op = "refresh" PROVE RefreshInv(w)'
      BY <1>4 DEF RefreshInv
    <3> PICK t, f, u : t = r.token /\ f = tokens[t].family /\ u = r.user
      OBVIOUS
    <3>1. t \in TokenIds /\ Active(t) /\ u = tokens[t].user
      OBVIOUS
    <3>2. f \in TokenIds /\ f <= minted
      BY <1>1, <3>1 DEF IInv, Tables, TokensInv, TypeOK, Token, Active, Stored
    <3>3. f \in raced \/ Wanted(f, u)
      BY <3>1 DEF HInv, LiveWanted
    <3>4. f \in raced' \/ Wanted(f, u)'
      BY <1>2, <1>3, <3>2, <3>3, QuietWanted
    <3> QED
      BY <1>3, <1>4, <3>1, <3>4 DEF RefreshInv, Active, Stored, Wanted
  <2>4. RevokeInv(w)'
    BY <1>3, <1>4 DEF RevokeInv, Covers, Active, Stored
  <2> QED
    BY <2>1, <2>2, <2>3, <2>4 DEF SessionInv
<1>6. ASSUME NEW v \in Workers \ {w} PROVE Meet(v, w)' /\ Meet(w, v)'
  <2>1. ~HasSavedUser(w)'
    <3>1. CASE stage = "read"
      BY <1>4, <3>1 DEF HasSavedUser
    <3>2. CASE stage = "revoking"
      <4>1. pc'[w] # "idle" => RequestKnown(w)'
        BY InFlightKnownNext
      <4> QED
        BY <1>4, <3>2, <4>1 DEF HasSavedUser, RequestKnown
    <3> QED
      BY <3>1, <3>2
  <2>2. pc[v] # "idle" /\ req[v].op = "register" => req[v].user # r.user
    BY DEF HInv, SessionInv, RequestInv
  <2> QED
    BY <1>4, <2>1, <2>2 DEF Meet
<1> QED
  BY <1>2, <1>4, <1>5, <1>6, QuietHInv

LEMMA RefreshHInv ==
  ASSUME HInv, IInv', Record, NEW w \in Workers, NEW t \in TokenIds, Refresh(w, t)
  PROVE  HInv'
<1> PICK r : r = [op |-> "refresh", user |-> tokens[t].user, token |-> t, row |-> None]
  OBVIOUS
<1>1. IInv
  BY DEF HInv
<1>2. /\ Begin(w, r, "read") /\ UNCHANGED <<minted, mint, kill>>
      /\ todo' = [todo EXCEPT ![w] = {}] /\ Active(t)
  BY <1>1 DEF Refresh, Begin, IInv, TypeOK, WorkerInv, StageInv, Active, IsRevoked
<1>3. r \in Request /\ users[r.user] # None
  BY <1>1, <1>2 DEF HInv, FamiliesInv, IInv, TypeOK, Active, Stored, Token, Request, Ops
<1>4. /\ r.op = "refresh" /\ r.token = t /\ r.user = tokens[t].user
      /\ {} \in SUBSET TokenIds
  OBVIOUS
<1> QED
  BY <1>2, <1>3, <1>4, BeginHInv

LEMMA RevokeFamilyHInv ==
  ASSUME HInv, IInv', Record, NEW w \in Workers, NEW t \in TokenIds,
         ReplayRefresh(w, t) \/ Logout(w, t)
  PROVE  HInv'
<1>1. IInv
  BY DEF HInv
<1>2. PICK op \in {"reuse", "logout"}, matched \in SUBSET TokenIds :
        /\ Begin(w, [op |-> op, user |-> tokens[t].user, token |-> t, row |-> None], "revoking")
        /\ UNCHANGED <<minted, mint, kill>> /\ todo' = [todo EXCEPT ![w] = matched]
        /\ matched = ActiveInFamily(tokens[t].family) /\ Stored(t)
  <2>1. ActiveInFamily(tokens[t].family) \in SUBSET TokenIds
    BY DEF ActiveInFamily
  <2> QED
    BY <2>1 DEF ReplayRefresh, Logout
<1> PICK r : r = [op |-> op, user |-> tokens[t].user, token |-> t, row |-> None]
  OBVIOUS
<1>3. r \in Request /\ users[r.user] # None
  BY <1>1, <1>2 DEF HInv, FamiliesInv, IInv, TypeOK, Stored, Token, Request, Ops
<1>4. \A s \in TokenIds : Active(s) /\ tokens[s].family = tokens[t].family => s \in matched
  BY <1>2 DEF ActiveInFamily
<1> QED
  BY <1>2, <1>3, <1>4, BeginHInv

LEMMA ReadUserHInv ==
  ASSUME HInv, IInv', Record, NEW w \in Workers, NEW u \in UserIds,
         \/ \E current, new \in Passwords : ChangePassword(w, u, current, new)
         \/ \E email \in Emails, name \in Names : UpdateProfile(w, u, email, name)
  PROVE  HInv'
<1>1. IInv
  BY DEF HInv
<1>2. PICK op \in {"change", "profile"}, row \in UserRow :
        /\ Begin(w, [op |-> op, user |-> u, token |-> None, row |-> row], "read")
        /\ UNCHANGED <<minted, mint, todo, kill>> /\ users[u] # None
        /\ op = "profile" => row.password = users[u].password
  <2>1. users[u] # None => users[u] \in UserRow
    BY <1>1 DEF IInv, TypeOK
  <2>2. ASSUME NEW current \in Passwords, NEW new \in Passwords, ChangePassword(w, u, current, new)
        PROVE  /\ [users[u] EXCEPT !.password = new] \in UserRow /\ users[u] # None
               /\ Begin(w, [op |-> "change", user |-> u, token |-> None,
                            row |-> [users[u] EXCEPT !.password = new]], "read")
               /\ UNCHANGED <<minted, mint, todo, kill>>
    BY <2>1, <2>2 DEF ChangePassword, UserRow
  <2>3. ASSUME NEW email \in Emails, NEW name \in Names, UpdateProfile(w, u, email, name)
        PROVE  /\ [users[u] EXCEPT !.email = email, !.name = name] \in UserRow /\ users[u] # None
               /\ [users[u] EXCEPT !.email = email, !.name = name].password = users[u].password
               /\ Begin(w, [op |-> "profile", user |-> u, token |-> None,
                            row |-> [users[u] EXCEPT !.email = email, !.name = name]], "read")
               /\ UNCHANGED <<minted, mint, todo, kill>>
    BY <2>1, <2>3 DEF UpdateProfile, UserRow
  <2>4. (\E current, new \in Passwords : ChangePassword(w, u, current, new)) =>
          \E row \in UserRow :
            /\ Begin(w, [op |-> "change", user |-> u, token |-> None, row |-> row], "read")
            /\ UNCHANGED <<minted, mint, todo, kill>> /\ users[u] # None
    BY <2>2
  <2>5. (\E email \in Emails, name \in Names : UpdateProfile(w, u, email, name)) =>
          \E row \in UserRow :
            /\ Begin(w, [op |-> "profile", user |-> u, token |-> None, row |-> row], "read")
            /\ UNCHANGED <<minted, mint, todo, kill>> /\ users[u] # None
            /\ row.password = users[u].password
    BY <2>3
  <2> QED
    BY <2>4, <2>5
<1> PICK r : r = [op |-> op, user |-> u, token |-> None, row |-> row]
  OBVIOUS
<1>3. r \in Request
  BY DEF Request, Ops
<1>4. todo' = [todo EXCEPT ![w] = {}]
  BY <1>1, <1>2 DEF Begin, IInv, TypeOK, WorkerInv, StageInv
<1> QED
  BY <1>2, <1>3, <1>4, BeginHInv

\* A login is given the password its account has; a registration's is in the row it
\* is about to insert, and nothing else knows of its account or its family.
LEMMA OpenFamilyHInv ==
  ASSUME HInv, IInv', Record, NEW w \in Workers, NEW r \in Request,
         Begin(w, r, "saved"), MintToken(w, r.user, minted + 1, None), UNCHANGED <<todo, kill>>,
         r.token = None,
         \/ /\ r.op = "register" /\ r.row \in UserRow /\ users[r.user] = None
            /\ \A v \in InFlight : req[v].user # r.user
         \/ r.op = "login" /\ r.row = None /\ users[r.user] # None
  PROVE  HInv'
<1> PICK m : m = [id |-> minted + 1, user |-> r.user, family |-> minted + 1, parent |-> None]
  OBVIOUS
<1>1. IInv /\ minted \in Nat
  BY BoundsAssumption DEF HInv, IInv, TypeOK
<1>2. /\ pc[w] = "idle" /\ pc'[w] = "saved" /\ req'[w] = r /\ todo'[w] = {} /\ kill'[w] = {}
      /\ mint'[w] = m /\ minted' = minted + 1
      /\ \A v \in Workers \ {w} :
           /\ pc'[v] = pc[v] /\ req'[v] = req[v] /\ todo'[v] = todo[v]
           /\ kill'[v] = kill[v] /\ mint'[v] = mint[v]
  BY <1>1, Begun DEF MintToken, IInv, TypeOK
<1>3. Quiet
  BY <1>2, BeginQuiet
<1>4. /\ UNCHANGED <<users, tokens, ended>> /\ raced' = raced \cup Racing'
      /\ muddled' = muddled \cup Muddling'
  BY <1>3 DEF Quiet
<1>5. m.id \in TokenIds /\ m.id \notin raced
  <2>1. m.id \in TokenIds
    BY <1>2, InFlightKnownNext DEF RequestKnown, Minters
  <2> QED
    BY <1>1, <2>1 DEF HInv, RecordInv, TokenIds
<1>6. Given(w)' \in Passwords
  BY <1>1, <1>2, <1>4 DEF Given, UserRow, Request, IInv, TypeOK
<1>7. opener'[m.id] = Given(w)'
  <2>1. \A v \in Workers : Opening(v, m.id) <=> v = w
    BY <1>2 DEF Opening
  <2>2. opener'[m.id] = CHOOSE p \in Passwords : \E v \in Workers : Opening(v, m.id) /\ p = Given(v)'
    BY <1>5, <2>1 DEF Record
  <2>3. \A p : (\E v \in Workers : Opening(v, m.id) /\ p = Given(v)') <=> p = Given(w)'
    BY <2>1
  <2> QED
    BY <1>6, <2>2, <2>3
<1>8. \A x \in Workers \ {w} : req'[x].op = "login" => SessionInv(x)'
  BY <1>2, <1>3, QuietOther
<1>9. SessionInv(w)'
  <2>1. RequestInv(w)'
    BY <1>2, <1>4 DEF RequestInv
  <2>2. OpenInv(w)'
    <3>1. r.op = "register" => m.id \notin raced'
      <4>1. r.op = "register" => mint'[w].id \notin Racing'
        BY <1>2, <1>3, <1>8, RegistersApart
      <4> QED
        BY <1>2, <1>4, <1>5, <4>1
    <3>2. r.op = "register" => opener'[m.id] = r.row.password
      BY <1>2, <1>7, NoneAssumption DEF Given
    <3>3. r.op = "login" => opener'[m.id] = users[r.user].password
      BY <1>2, <1>4, <1>7 DEF Given
    <3> QED
      BY <1>2, <1>4, <3>1, <3>2, <3>3 DEF OpenInv
  <2>3. RefreshInv(w)'
    BY <1>2 DEF RefreshInv
  <2>4. RevokeInv(w)'
    BY <1>2 DEF RevokeInv, Covers
  <2> QED
    BY <2>1, <2>2, <2>3, <2>4 DEF SessionInv
<1>10. ASSUME NEW v \in Workers \ {w} PROVE Meet(v, w)' /\ Meet(w, v)'
  <2>1. CASE r.op = "register"
    BY <1>2, <2>1 DEF Meet, HasSavedUser, InFlight
  <2>2. CASE r.op = "login" /\ r.row = None /\ users[r.user] # None
    <3>1. pc[v] # "idle" /\ req[v].op = "register" => req[v].user # r.user
      BY <2>2 DEF HInv, SessionInv, RequestInv
    <3> QED
      BY <1>2, <2>2, <3>1 DEF Meet, HasSavedUser
  <2> QED
    BY <2>1, <2>2
<1> QED
  BY <1>2, <1>3, <1>9, <1>10, QuietHInv

LEMMA RegisterHInv ==
  ASSUME HInv, IInv', Record, NEW w \in Workers, NEW u \in UserIds, NEW row \in UserRow,
         Register(w, u, row)
  PROVE  HInv'
<1> PICK r : r = [op |-> "register", user |-> u, token |-> None, row |-> row]
  OBVIOUS
<1>1. r \in Request /\ r.op = "register" /\ r.user = u /\ r.row = row /\ r.token = None
  BY DEF Request, Ops
<1>2. /\ Begin(w, r, "saved") /\ MintToken(w, u, minted + 1, None) /\ UNCHANGED <<todo, kill>>
      /\ users[u] = None /\ \A v \in InFlight : req[v].user # u
  BY DEF Register
<1> QED
  BY <1>1, <1>2, OpenFamilyHInv

LEMMA LoginHInv ==
  ASSUME HInv, IInv', Record, NEW w \in Workers, NEW u \in UserIds, NEW password \in Passwords,
         Login(w, u, password)
  PROVE  HInv'
<1> PICK r : r = [op |-> "login", user |-> u, token |-> None, row |-> None]
  OBVIOUS
<1>1. r \in Request /\ r.op = "login" /\ r.user = u /\ r.row = None /\ r.token = None
  BY DEF Request, Ops
<1>2. /\ Begin(w, r, "saved") /\ MintToken(w, u, minted + 1, None) /\ UNCHANGED <<todo, kill>>
      /\ users[u] # None
  BY DEF Login
<1> QED
  BY <1>1, <1>2, OpenFamilyHInv

-----------------------------------------------------------------------------
(***************************************************************************)
(* The statements of a transaction, and its end without a commit.          *)
(***************************************************************************)

\* A step of a worker in flight that is no commit is quiet.
LEMMA StepQuiet ==
  ASSUME HInv, Record, UNCHANGED <<users, tokens, outbox>>,
         minted' = minted \/ minted' = minted + 1,
         \A v \in Workers : ~Commit(v),
         \A v \in Workers : pc[v] = "idle" => pc'[v] = "idle"
  PROVE  Quiet
<1>1. minted \in Nat /\ minted' \in Nat /\ minted <= minted'
  BY BoundsAssumption DEF HInv, IInv, TypeOK
<1>2. \A v \in Workers, f \in TokenIds : ~Opening(v, f)
  BY DEF Opening
<1> QED
  BY <1>1, <1>2, RecordQuiet

LEMMA RotateHInv ==
  ASSUME HInv, IInv', Record, NEW w \in Workers, Rotate(w), \A v \in Workers : ~Commit(v)
  PROVE  HInv'
<1> PICK t, m :
      /\ t = req[w].token
      /\ m = [id |-> minted + 1, user |-> tokens[t].user, family |-> tokens[t].family,
              parent |-> t]
  OBVIOUS
<1>1. IInv /\ minted \in Nat
  BY BoundsAssumption DEF HInv, IInv, TypeOK
<1>2. /\ pc[w] = "read" /\ req[w].op = "refresh" /\ kill'[w] = Retired(t) /\ mint'[w] = m
      /\ pc'[w] = "saved" /\ minted' = minted + 1 /\ todo'[w] = {} /\ req'[w] = req[w]
      /\ UNCHANGED <<users, tokens, outbox>>
      /\ \A v \in Workers \ {w} :
           /\ pc'[v] = pc[v] /\ req'[v] = req[v] /\ todo'[v] = todo[v]
           /\ kill'[v] = kill[v] /\ mint'[v] = mint[v]
  BY <1>1 DEF Rotate, MintToken, db, IInv, TypeOK, WorkerInv, KillInv
<1>3. Quiet
  BY <1>2, StepQuiet
<1>4. /\ UNCHANGED ended /\ raced' = raced \cup Racing' /\ muddled' = muddled \cup Muddling'
  BY <1>3 DEF Quiet
<1>5. /\ RequestInv(w) /\ RefreshInv(w) /\ t \in TokenIds /\ Stored(t) /\ req[w].row = None
      /\ tokens[t].family \in TokenIds /\ tokens[t].family <= minted /\ t <= minted
  BY <1>1, <1>2, InFlightKnown DEF HInv, SessionInv, RequestKnown
<1>6. SessionInv(w)'
  <2>1. RequestInv(w)' /\ OpenInv(w)'
    BY <1>2, <1>5 DEF RequestInv, OpenInv
  <2>2. RefreshInv(w)'
    <3> PICK f, u : f = tokens[t].family /\ u = req[w].user
      OBVIOUS
    <3>1. f \in raced \/ (Active(t) /\ Wanted(f, u))
      BY <1>2, <1>5 DEF RefreshInv
    <3>2. f \in raced' \/ (Active(t) /\ Wanted(f, u)')
      BY <1>3, <1>4, <1>5, <3>1, QuietWanted
    <3>3. Active(t) => Retired(t) = {t}
      BY DEF Retired
    <3>4. t < minted + 1 /\ m.id = minted + 1 /\ m.family = f /\ m.parent = t
      BY <1>1, <1>5 DEF TokenIds
    <3> QED
      BY <1>2, <3>2, <3>3, <3>4 DEF RefreshInv, Active, Stored, Wanted
  <2>3. RevokeInv(w)'
    BY <1>2 DEF RevokeInv, Covers
  <2> QED
    BY <2>1, <2>2, <2>3 DEF SessionInv
<1>7. ASSUME NEW v \in Workers \ {w} PROVE Meet(v, w)' /\ Meet(w, v)'
  BY <1>2, <1>5 DEF HInv, Meet, HasSavedUser
<1> QED
  BY <1>2, <1>3, <1>6, <1>7, QuietHInv

\* Users.Save and RevokeAllForUser: all live tokens of the user are matched, and
\* nobody else holds the users row.
LEMMA SaveHInv ==
  ASSUME HInv, IInv', Record, NEW w \in Workers, SavePassword(w) \/ SaveProfile(w),
         \A v \in Workers : ~Commit(v)
  PROVE  HInv'
<1>1. IInv
  BY DEF HInv
<1>2. /\ pc[w] = "read" /\ ~UserLocked(req[w].user) /\ req'[w] = req[w]
      /\ kill'[w] = {} /\ mint'[w] = mint[w] /\ pc'[w] \in {"saved", "revoking"}
      /\ req[w].op \in {"change", "profile"}
      /\ pc'[w] = "saved" => req[w].op = "profile" /\ todo'[w] = {}
      /\ req[w].op = "change" => todo'[w] = ActiveOfUser(req[w].user)
      /\ UNCHANGED <<users, tokens, outbox, minted>>
      /\ \A v \in Workers \ {w} :
           /\ pc'[v] = pc[v] /\ req'[v] = req[v] /\ todo'[v] = todo[v]
           /\ kill'[v] = kill[v] /\ mint'[v] = mint[v]
  <2>1. todo[w] = {} /\ kill[w] = {}
    BY <1>1 DEF SavePassword, SaveProfile, IInv, WorkerInv, KillInv
  <2>2. CASE SavePassword(w)
    <3>1. /\ pc' = [pc EXCEPT ![w] = "revoking"]
          /\ todo' = [todo EXCEPT ![w] = ActiveOfUser(req[w].user)]
          /\ UNCHANGED <<users, tokens, outbox, minted, req, kill, mint>>
          /\ pc[w] = "read" /\ ~UserLocked(req[w].user) /\ req[w].op = "change"
      BY <2>2 DEF SavePassword, db
    <3> QED
      BY <1>1, <2>1, <3>1 DEF IInv, TypeOK
  <2>3. CASE SaveProfile(w)
    <3>1. /\ pc' = [pc EXCEPT ![w] = "saved"]
          /\ UNCHANGED <<users, tokens, outbox, minted, req, todo, kill, mint>>
          /\ pc[w] = "read" /\ ~UserLocked(req[w].user) /\ req[w].op = "profile"
      BY <2>3 DEF SaveProfile, db
    <3> QED
      BY <1>1, <2>1, <3>1 DEF IInv, TypeOK
  <2> QED
    BY <2>2, <2>3
<1>3. Quiet
  BY <1>2, StepQuiet
<1>4. raced' = raced \cup Racing' /\ muddled' = muddled \cup Muddling'
  BY <1>3 DEF Quiet
<1>5. RequestInv(w) /\ RevokeInv(w)
  BY <1>2 DEF HInv, SessionInv
<1>6. SessionInv(w)'
  <2>1. RequestInv(w)' /\ OpenInv(w)' /\ RefreshInv(w)'
    BY <1>2, <1>4, <1>5 DEF RequestInv, OpenInv, RefreshInv
  <2>2. RevokeInv(w)'
    <3>1. req[w].op = "change" =>
            \A t \in TokenIds : Active(t) /\ tokens[t].user = req[w].user => t \in todo'[w]
      BY <1>2 DEF ActiveOfUser
    <3> QED
      BY <1>2, <1>5, <3>1 DEF RevokeInv, Covers, Active, Stored
  <2> QED
    BY <2>1, <2>2 DEF SessionInv
<1>7. ASSUME NEW v \in Workers \ {w} PROVE Meet(v, w)' /\ Meet(w, v)'
  <2>1. HasSavedUser(v)' => HasSavedUser(v) /\ req[v].user # req[w].user
    BY <1>2 DEF HasSavedUser, UserLocked
  <2> QED
    BY <1>2, <2>1 DEF HInv, Meet
<1> QED
  BY <1>2, <1>3, <1>6, <1>7, QuietHInv

\* What a Revoke statement takes from its list it holds, if it is live.
LEMMA RevokeNextHInv ==
  ASSUME HInv, IInv', Record, NEW w \in Workers, NEW t \in TokenIds, RevokeNext(w, t),
         \A v \in Workers : ~Commit(v)
  PROVE  HInv'
<1>1. IInv
  BY DEF HInv
<1>2. /\ pc[w] = "revoking" /\ pc'[w] = pc[w] /\ req'[w] = req[w] /\ mint'[w] = mint[w]
      /\ todo'[w] = todo[w] \ {t} /\ kill'[w] = kill[w] \cup {s \in {t} : Active(s)}
      /\ UNCHANGED <<users, tokens, outbox, minted>>
      /\ \A v \in Workers \ {w} :
           /\ pc'[v] = pc[v] /\ req'[v] = req[v] /\ todo'[v] = todo[v]
           /\ kill'[v] = kill[v] /\ mint'[v] = mint[v]
  BY <1>1 DEF RevokeNext, db, IInv, TypeOK
<1>3. Quiet
  <2>1. \A v \in Workers : pc[v] = "idle" => pc'[v] = "idle"
    BY <1>2
  <2> QED
    BY <1>2, <2>1, StepQuiet
<1>4. raced' = raced \cup Racing' /\ muddled' = muddled \cup Muddling'
  BY <1>3 DEF Quiet
<1>5. RequestInv(w) /\ RevokeInv(w) /\ req[w].op \in {"reuse", "logout", "change"}
  BY <1>1, <1>2 DEF HInv, SessionInv, IInv, WorkerInv, StageInv
<1>6. SessionInv(w)'
  <2>1. RequestInv(w)' /\ OpenInv(w)' /\ RefreshInv(w)'
    BY <1>2, <1>4, <1>5 DEF RequestInv, OpenInv, RefreshInv
  <2>2. RevokeInv(w)'
    BY <1>2, <1>4, <1>5 DEF RevokeInv, Covers, Active, Stored
  <2> QED
    BY <2>1, <2>2 DEF SessionInv
<1>7. ASSUME NEW v \in Workers \ {w} PROVE Meet(v, w)' /\ Meet(w, v)'
  BY <1>2 DEF HInv, Meet, HasSavedUser
<1> QED
  BY <1>2, <1>3, <1>6, <1>7, QuietHInv

LEMMA RevokeDoneHInv ==
  ASSUME HInv, IInv', Record, NEW w \in Workers, RevokeDone(w), \A v \in Workers : ~Commit(v)
  PROVE  HInv'
<1>1. IInv
  BY DEF HInv
<1>2. /\ pc[w] = "revoking" /\ pc'[w] \in {"reused", "saved"} /\ req'[w] = req[w]
      /\ mint'[w] = mint[w] /\ todo[w] = {} /\ todo'[w] = {} /\ kill'[w] = kill[w]
      /\ UNCHANGED <<users, tokens, outbox, minted>>
      /\ \A v \in Workers \ {w} :
           /\ pc'[v] = pc[v] /\ req'[v] = req[v] /\ todo'[v] = todo[v]
           /\ kill'[v] = kill[v] /\ mint'[v] = mint[v]
  <2>1. PICK stage \in {"reused", "saved"} : pc' = [pc EXCEPT ![w] = stage]
    BY DEF RevokeDone
  <2> QED
    BY <1>1, <2>1 DEF RevokeDone, db, IInv, TypeOK
<1>3. Quiet
  BY <1>2, StepQuiet
<1>4. raced' = raced \cup Racing' /\ muddled' = muddled \cup Muddling'
  BY <1>3 DEF Quiet
<1>5. RequestInv(w) /\ RevokeInv(w) /\ req[w].op \in {"reuse", "logout", "change"}
  BY <1>1, <1>2 DEF HInv, SessionInv, IInv, WorkerInv, StageInv
<1>6. SessionInv(w)'
  <2>1. RequestInv(w)' /\ OpenInv(w)' /\ RefreshInv(w)'
    BY <1>2, <1>4, <1>5 DEF RequestInv, OpenInv, RefreshInv
  <2>2. RevokeInv(w)'
    BY <1>2, <1>4, <1>5 DEF RevokeInv, Covers, Active, Stored
  <2> QED
    BY <2>1, <2>2 DEF SessionInv
<1>7. ASSUME NEW v \in Workers \ {w} PROVE Meet(v, w)' /\ Meet(w, v)'
  <2>1. HasSavedUser(w)' => HasSavedUser(w)
    BY <1>2 DEF HasSavedUser
  <2>2. pc[w] # "idle" /\ (HasSavedUser(v)' <=> HasSavedUser(v))
    BY <1>2 DEF HasSavedUser
  <2> QED
    BY <1>2, <2>1, <2>2 DEF HInv, Meet
<1> QED
  BY <1>2, <1>3, <1>6, <1>7, QuietHInv

\* An error, a crash or a refused replay ends the request and leaves no trace.
LEMMA GiveUpHInv ==
  ASSUME HInv, IInv', Record, NEW w \in Workers, RefuseReuse(w) \/ Rollback(w),
         \A v \in Workers : ~Commit(v)
  PROVE  HInv'
<1>1. IInv
  BY DEF HInv
<1>2. End(w) /\ pc[w] # "idle" /\ UNCHANGED <<users, tokens, outbox>>
  BY DEF RefuseReuse, Rollback, db
<1>3. /\ pc'[w] = "idle" /\ minted' = minted
      /\ \A v \in Workers \ {w} :
           /\ pc'[v] = pc[v] /\ req'[v] = req[v] /\ todo'[v] = todo[v]
           /\ kill'[v] = kill[v] /\ mint'[v] = mint[v]
  BY <1>1, <1>2, Ended
<1>4. Quiet
  BY <1>2, <1>3, StepQuiet
<1>5. SessionInv(w)'
  BY <1>3 DEF SessionInv
<1>6. ASSUME NEW v \in Workers \ {w} PROVE Meet(v, w)' /\ Meet(w, v)'
  BY <1>3 DEF Meet, HasSavedUser
<1> QED
  BY <1>3, <1>4, <1>5, <1>6, QuietHInv

\* Tokens age, or nothing happens.
LEMMA IdleHInv ==
  ASSUME HInv, IInv', Record,
         UNCHANGED <<users, tokens, outbox, minted, pc, req, todo, kill, mint>>,
         \A v \in Workers : ~Commit(v)
  PROVE  HInv'
<1>1. Quiet
  BY StepQuiet
<1>2. ASSUME NEW x \in Workers, req[x].op # "register" PROVE SessionInv(x)'
  BY <1>1, <1>2, QuietOther
<1>3. ASSUME NEW v \in Workers PROVE SessionInv(v)'
  <2>1. ASSUME pc[v] # "idle", req[v].op = "register" PROVE mint[v].id \notin Racing'
    <3>1. pc[v] = "saved"
      BY <2>1 DEF HInv, SessionInv, OpenInv
    <3>2. \A x \in Workers \ {v} : req'[x].op = "login" => SessionInv(x)'
      BY <1>2
    <3>3. mint'[v].id \notin Racing'
      BY <1>1, <2>1, <3>1, <3>2, RegistersApart
    <3> QED
      BY <3>3
  <2> QED
    BY <1>1, <2>1, QuietOther
<1>4. ASSUME NEW v \in Workers, NEW x \in Workers, v # x PROVE Meet(v, x)'
  BY <1>4 DEF HInv, Meet, HasSavedUser
<1> QED
  BY <1>1, <1>3, <1>4, QuietRest DEF HInv

-----------------------------------------------------------------------------
(***************************************************************************)
(* The commit.                                                             *)
(***************************************************************************)

\* The committed row, and the other workers.
LEMMA CommitRows ==
  ASSUME HInv, NEW w \in Workers, Commit(w)
  PROVE  /\ pc[w] = "saved" /\ pc'[w] = "idle" /\ minted' = minted
         /\ \A v \in Workers \ {w} :
              /\ pc'[v] = pc[v] /\ req'[v] = req[v] /\ todo'[v] = todo[v]
              /\ kill'[v] = kill[v] /\ mint'[v] = mint[v]
         /\ \A u \in UserIds : users'[u] =
              IF u = req[w].user /\ req[w].row # None THEN req[w].row ELSE users[u]
         /\ \A u \in UserIds : users[u] # None => users'[u] # None
         /\ RequestInv(w) /\ OpenInv(w) /\ RefreshInv(w) /\ RevokeInv(w)
         /\ req[w].op \in {"register", "login", "refresh", "logout", "change", "profile"}
<1>1. IInv /\ SessionInv(w)
  BY DEF HInv
<1>2. /\ pc[w] = "saved" /\ pc'[w] = "idle" /\ minted' = minted
      /\ \A v \in Workers \ {w} :
           /\ pc'[v] = pc[v] /\ req'[v] = req[v] /\ todo'[v] = todo[v]
           /\ kill'[v] = kill[v] /\ mint'[v] = mint[v]
  BY <1>1, CommitTokens, Ended
<1>3. \A u \in UserIds : users'[u] =
        IF u = req[w].user /\ req[w].row # None THEN req[w].row ELSE users[u]
  BY DEF Commit
<1>4. req[w].op \in {"register", "login", "refresh", "logout", "change", "profile"}
  BY <1>1, <1>2, CommitTokens DEF IInv, WorkerInv, StageInv, Request, Ops
<1> QED
  BY <1>1, <1>2, <1>3, <1>4 DEF SessionInv

\* What a request in flight is about does not change.
LEMMA CommitFamily ==
  ASSUME HInv, NEW w \in Workers, Commit(w), NEW v \in Workers, v # w, pc[v] # "idle",
         req[v].op \in {"login", "refresh", "logout"}
  PROVE  Family(v)' = Family(v)
<1>1. IInv /\ SessionInv(v) /\ req'[v] = req[v] /\ mint'[v] = mint[v]
  BY CommitRows DEF HInv
<1>2. CASE req[v].op = "login"
  BY <1>1, <1>2 DEF SessionInv, RequestInv, Family
<1>3. CASE req[v].op \in {"refresh", "logout"}
  <2>1. req[v].token \in TokenIds /\ Stored(req[v].token) /\ req[v].token # None
    BY <1>1, <1>3, InFlightKnown DEF RequestKnown
  <2>2. tokens'[req[v].token].family = tokens[req[v].token].family
    BY <1>1, <2>1, CommitKeeps
  <2> QED
    BY <1>1, <2>1, <2>2 DEF Family
<1> QED
  BY <1>2, <1>3

\* The record of the overlaps does not grow, and what the commit ends is added.
LEMMA CommitRecord ==
  ASSUME HInv, Record, NEW w \in Workers, Commit(w)
  PROVE  /\ raced' = raced /\ muddled' = muddled /\ ended' = ended \cup Ends(w)
         /\ \A f \in TokenIds : opener'[f] = opener[f]
<1>1. RecordInv /\ IInv
  BY DEF HInv
<1>2. Racing' \subseteq Racing
  <2> SUFFICES ASSUME NEW v \in Workers, NEW x \in Workers, pc'[v] # "idle", pc'[x] # "idle",
                      SlipsPast(v, x)'
               PROVE  Family(v)' \in Racing
    BY DEF Racing, InFlight
  <2>1. v # w /\ x # w /\ pc[v] # "idle" /\ pc[x] # "idle" /\ req'[v] = req[v] /\ req'[x] = req[x]
    BY CommitRows
  <2>2. req[v].op \in {"login", "refresh"}
    BY <2>1 DEF SlipsPast
  <2>3. Family(v)' = Family(v)
    BY <2>1, <2>2, CommitFamily
  <2>4. req[x].op \in {"refresh", "logout"} => Family(x)' = Family(x)
    BY <2>1, CommitFamily
  <2>5. SlipsPast(v, x)
    BY <2>1, <2>3, <2>4 DEF SlipsPast
  <2> QED
    BY <2>1, <2>3, <2>5 DEF Racing, InFlight
<1>3. Muddling' \subseteq Muddling
  <2> SUFFICES ASSUME NEW u \in Muddling' PROVE u \in Muddling
    OBVIOUS
  <2> PICK v \in Workers, x \in Workers :
        /\ pc'[v] # "idle" /\ pc'[x] # "idle" /\ u \in UserIds
        /\ req'[v].user = u /\ req'[v].op = "profile"
        /\ req'[x].user = u /\ req'[x].op = "change"
    BY DEF Muddling, InFlight
  <2>1. pc[v] # "idle" /\ pc[x] # "idle" /\ req'[v] = req[v] /\ req'[x] = req[x]
    BY CommitRows
  <2> QED
    BY <2>1 DEF Muddling, InFlight
<1>4. {v \in Workers : Commit(v)} = {w}
  <2>1. ASSUME NEW v \in Workers, Commit(v) PROVE v = w
    <3>1. pc[v] = "saved" /\ pc'[v] = "idle"
      BY <2>1, CommitRows
    <3> QED
      BY <3>1, CommitRows
  <2> QED
    BY <2>1
<1>5. ended' = ended \cup Ends(w)
  <2>1. ended' = ended \cup UNION {Ends(v) : v \in {x \in Workers : Commit(x)}}
    BY DEF Record
  <2>2. UNION {Ends(v) : v \in {w}} = Ends(w)
    OBVIOUS
  <2> QED
    BY <1>4, <2>1, <2>2
<1>6. \A f \in TokenIds : opener'[f] = opener[f]
  <2>1. \A v \in Workers, f \in TokenIds : ~Opening(v, f)
    BY CommitRows DEF Opening
  <2> QED
    BY <2>1 DEF Record
<1>7. raced' = raced \cup Racing' /\ muddled' = muddled \cup Muddling'
  BY DEF Record
<1> QED
  BY <1>1, <1>2, <1>3, <1>5, <1>6, <1>7 DEF RecordInv

\* The families it ends are families, and only a logout and a password change end any.
LEMMA CommitEnds ==
  ASSUME HInv, NEW w \in Workers, Commit(w)
  PROVE  /\ \A f \in Ends(w) : f \in TokenIds /\ Stored(f)
         /\ req[w].op \notin {"logout", "change"} => Ends(w) = {}
         /\ \A t \in TokenIds :
              (Stored(t) /\ tokens[t].family \in Ends(w) /\ req[w].op = "logout") =>
                tokens[t].family = tokens[req[w].token].family /\ tokens[t].user = req[w].user
         /\ \A t \in TokenIds :
              (Stored(t) /\ tokens[t].family \in Ends(w) /\ req[w].op = "change") =>
                tokens[t].user = req[w].user
<1>1. IInv /\ SessionInv(w) /\ FamiliesInv /\ TokensInv /\ pc[w] # "idle"
  BY CommitRows DEF HInv, IInv, Tables
<1>2. req[w].op \notin {"logout", "change"} => Ends(w) = {}
  BY DEF Ends
<1>3. CASE req[w].op = "logout"
  <2> PICK s : s = req[w].token
    OBVIOUS
  <2>1. s \in TokenIds /\ Stored(s) /\ req[w].user = tokens[s].user /\ tokens[s].family \in TokenIds
    BY <1>1, <1>3, InFlightKnown DEF RequestKnown
  <2>2. Family(w) = tokens[s].family
    BY <1>1, <1>3, FamiliesKnown DEF FamilyKnown
  <2>3. Ends(w) = {tokens[s].family}
    BY <1>3, <2>2 DEF Ends
  <2>4. Stored(tokens[s].family)
    BY <1>1, <2>1 DEF FamiliesInv
  <2> QED
    BY <1>1, <1>3, <2>1, <2>3, <2>4 DEF TokensInv
<1>4. CASE req[w].op = "change"
  <2>1. Ends(w) = {tokens[t].family : t \in {s \in TokenIds : Stored(s) /\ tokens[s].user = req[w].user}}
    BY <1>4 DEF Ends
  <2>2. ASSUME NEW s \in TokenIds, Stored(s)
        PROVE  tokens[s].family \in TokenIds /\ Stored(tokens[s].family)
    BY <1>1, <2>2 DEF FamiliesInv, IInv, TypeOK, Token, Stored
  <2> QED
    BY <1>1, <1>4, <2>1, <2>2 DEF TokensInv
<1> QED
  BY <1>2, <1>3, <1>4

\* A token live after the commit was live and not revoked, or is the one it inserts.
LEMMA CommitActive ==
  ASSUME HInv, NEW w \in Workers, Commit(w), NEW t \in TokenIds, Active(t)'
  PROVE  \/ Active(t) /\ Stored(t) /\ t \notin kill[w] /\ tokens'[t] = tokens[t]
         \/ /\ mint[w] # None /\ t = mint[w].id /\ req[w].op \in Minters /\ ~Stored(t)
            /\ tokens'[t].family = mint[w].family /\ tokens'[t].user = req[w].user
<1>1. IInv /\ Stored(t)' /\ tokens'[t].revoked = None
  BY DEF HInv, Active
<1>2. CASE Stored(t)
  BY <1>1, <1>2, CommitKeeps DEF Active
<1>3. CASE ~Stored(t)
  <2>1. mint[w] # None /\ t = mint[w].id
    BY <1>1, <1>3, CommitKeeps
  <2>2. tokens'[t].family = mint[w].family /\ tokens'[t].user = mint[w].user
    BY <1>1, <2>1, CommitKeeps
  <2>3. req[w].op \in Minters /\ mint[w].user = req[w].user
    BY <1>1, <2>1, CommitTokens
  <2> QED
    BY <1>3, <2>1, <2>2, <2>3
<1> QED
  BY <1>2, <1>3

\* What a commit mints: a family of its own, or a child in the family of the token.
LEMMA CommitMint ==
  ASSUME HInv, NEW w \in Workers, Commit(w), req[w].op \in Minters
  PROVE  /\ mint[w] # None /\ mint[w].id \in TokenIds /\ mint[w].family \in TokenIds
         /\ mint[w].family <= minted /\ ~Stored(mint[w].id) /\ mint[w].user = req[w].user
         /\ req[w].op \in {"register", "login"} => mint[w].family = mint[w].id
         /\ req[w].op = "refresh" =>
              /\ req[w].token \in TokenIds /\ Stored(req[w].token)
              /\ tokens[req[w].token].user = req[w].user
              /\ mint[w].family = tokens[req[w].token].family
              /\ Family(w) = mint[w].family
<1>1. IInv /\ pc[w] = "saved" /\ SessionInv(w) /\ OpenInv(w) /\ RefreshInv(w)
  BY CommitRows DEF HInv
<1>2. RequestKnown(w) /\ FamilyKnown(w)
  BY <1>1, InFlightKnown, FamiliesKnown
<1> QED
  BY <1>1, <1>2 DEF RequestKnown, FamilyKnown, OpenInv, RefreshInv, Minters

LEMMA CommitFamilies ==
  ASSUME HInv, IInv', NEW w \in Workers, Commit(w)
  PROVE  FamiliesInv'
<1> SUFFICES ASSUME NEW t \in TokenIds, Stored(t)', NEW f, f = tokens'[t].family
             PROVE  /\ tokens'[f] # None /\ tokens'[f].family = f
                    /\ users'[tokens'[t].user] # None
  BY DEF FamiliesInv, Stored
<1>1. IInv /\ FamiliesInv /\ RequestInv(w) /\ req[w] \in Request
  BY CommitRows, CommitTokens DEF HInv
<1>2. ASSUME NEW s \in TokenIds, Stored(s)
      PROVE  /\ tokens[s].family \in TokenIds /\ Stored(tokens[s].family)
             /\ tokens[tokens[s].family].family = tokens[s].family
             /\ tokens[s].user \in UserIds /\ users[tokens[s].user] # None
  BY <1>1, <1>2 DEF FamiliesInv, IInv, TypeOK, Token, Stored
<1>3. CASE Stored(t)
  <2>1. f = tokens[t].family /\ tokens'[t].user = tokens[t].user
    BY <1>1, <1>3, CommitKeeps
  <2>2. tokens'[f] # None /\ tokens'[f].family = tokens[f].family
    BY <1>1, <1>2, <1>3, <2>1, CommitKeeps DEF Stored
  <2> QED
    BY <1>2, <1>3, <2>1, <2>2, CommitRows
<1>4. CASE ~Stored(t)
  <2>1. mint[w] # None /\ t = mint[w].id
    BY <1>1, <1>4, CommitKeeps
  <2>2. req[w].op \in Minters /\ f = mint[w].family /\ tokens'[t].user = req[w].user
    BY <1>1, <2>1, CommitKeeps, CommitTokens
  <2>3. users'[req[w].user] # None
    <3>1. req[w].user \in UserIds
      BY <1>1 DEF Request
    <3>2. CASE req[w].op = "register"
      BY <1>1, <3>1, <3>2, CommitRows, NoneAssumption DEF RequestInv
    <3>3. CASE req[w].op # "register"
      BY <1>1, <3>1, <3>3, CommitRows DEF RequestInv
    <3> QED
      BY <3>2, <3>3
  <2>4. CASE req[w].op \in {"register", "login"}
    <3>1. f = t
      BY <2>1, <2>2, <2>4, CommitMint
    <3> QED
      BY <2>2, <2>3, <3>1 DEF Stored
  <2>5. CASE req[w].op = "refresh"
    <3> PICK s : s = req[w].token
      OBVIOUS
    <3>1. s \in TokenIds /\ Stored(s) /\ f = tokens[s].family
      BY <2>2, <2>5, CommitMint
    <3>2. tokens'[f] # None /\ tokens'[f].family = tokens[f].family
      BY <1>1, <1>2, <3>1, CommitKeeps DEF Stored
    <3> QED
      BY <1>2, <2>2, <2>3, <3>1, <3>2
  <2> QED
    BY <2>2, <2>4, <2>5 DEF Minters
<1> QED
  BY <1>3, <1>4

\* The child takes the place of the one token that was live.
LEMMA CommitOneLive ==
  ASSUME HInv, Record, NEW w \in Workers, Commit(w)
  PROVE  OneLive'
<1>1. IInv /\ FamiliesInv /\ OneLive /\ raced' = raced /\ RefreshInv(w) /\ pc[w] = "saved"
  BY CommitRecord, CommitRows DEF HInv
<1>2. ASSUME NEW s \in TokenIds, NEW t \in TokenIds, Active(s)', Active(t)', t # s,
             tokens'[s].family = tokens'[t].family, mint[w] # None, s = mint[w].id
      PROVE  tokens'[t].family \in raced
  <2>1. /\ Active(t) /\ Stored(t) /\ t \notin kill[w] /\ tokens'[t] = tokens[t]
        /\ tokens'[s].family = mint[w].family /\ req[w].op \in Minters /\ ~Stored(s)
    <3>1. Active(t) /\ Stored(t) /\ t \notin kill[w] /\ tokens'[t] = tokens[t]
      BY <1>2, CommitActive
    <3>2. ~Stored(s)
      BY <1>1, <1>2, CommitTokens
    <3> QED
      BY <1>2, <3>1, <3>2, CommitActive DEF Active
  <2>2. CASE req[w].op \in {"register", "login"}
    <3>1. tokens[t].family = s
      BY <1>2, <2>1, <2>2, CommitMint
    <3> QED
      BY <1>1, <2>1, <3>1 DEF FamiliesInv
  <2>3. CASE req[w].op = "refresh"
    <3> PICK p : p = req[w].token
      OBVIOUS
    <3>1. p \in TokenIds /\ Stored(p) /\ mint[w].family = tokens[p].family
      BY <2>1, <2>3, CommitMint
    <3>2. tokens[p].family \in raced \/ (Active(p) /\ kill[w] = {p})
      BY <1>1, <2>3 DEF RefreshInv
    <3>3. Active(p) /\ kill[w] = {p} => tokens[t].family \in raced
      BY <1>1, <1>2, <2>1, <3>1 DEF OneLive
    <3> QED
      BY <1>2, <2>1, <3>1, <3>2, <3>3
  <2> QED
    BY <2>1, <2>2, <2>3 DEF Minters
<1>3. ASSUME NEW s \in TokenIds, NEW t \in TokenIds, Active(s)', Active(t)',
             tokens'[s].family = tokens'[t].family, s # t
      PROVE  tokens'[t].family \in raced
  <2>1. CASE mint[w] # None /\ s = mint[w].id
    BY <1>2, <1>3, <2>1
  <2>2. CASE mint[w] # None /\ t = mint[w].id
    BY <1>2, <1>3, <2>2
  <2>3. CASE ~(mint[w] # None /\ (s = mint[w].id \/ t = mint[w].id))
    <3>1. Active(s) /\ tokens'[s] = tokens[s] /\ Active(t) /\ tokens'[t] = tokens[t]
      BY <1>3, <2>3, CommitActive
    <3> QED
      BY <1>1, <1>3, <3>1 DEF OneLive
  <2> QED
    BY <2>1, <2>2, <2>3
<1> QED
  BY <1>1, <1>3 DEF OneLive

\* Only a password change changes a password, unless a profile update that
\* overlapped with one writes an older one back.
LEMMA CommitPassword ==
  ASSUME HInv, NEW w \in Workers, Commit(w), NEW u \in UserIds, users[u] # None
  PROVE  \/ u \in muddled
         \/ users'[u].password = users[u].password
         \/ req[w].op = "change" /\ u = req[w].user
BY CommitRows, CommitTokens, InFlightKnown DEF HInv, RequestInv, RequestKnown

\* A logout or a password change leaves no live token in the families it ends,
\* and what is inserted past it is on record.
LEMMA CommitLiveWanted ==
  ASSUME HInv, IInv', Record, NEW w \in Workers, Commit(w)
  PROVE  LiveWanted'
<1> SUFFICES ASSUME NEW t \in TokenIds, Active(t)', NEW f, f = tokens'[t].family,
                    NEW u, u = tokens'[t].user, f \notin raced
             PROVE  Wanted(f, u)'
  BY CommitRecord DEF LiveWanted, Wanted
<1>1. /\ IInv /\ FamiliesInv /\ LiveWanted /\ RecordInv
      /\ RequestInv(w) /\ OpenInv(w) /\ RefreshInv(w) /\ RevokeInv(w) /\ pc[w] = "saved"
  BY CommitRows DEF HInv
<1>2. /\ muddled' = muddled /\ ended' = ended \cup Ends(w)
      /\ \A g \in TokenIds : opener'[g] = opener[g]
  BY CommitRecord
<1>3. f \in TokenIds /\ u \in UserIds
  BY DEF IInv, TypeOK, Token, Active, Stored
<1>4. ASSUME Active(t), Stored(t), t \notin kill[w], tokens'[t] = tokens[t]
      PROVE  Wanted(f, u)'
  <2>1. Wanted(f, u)
    BY <1>1, <1>4 DEF LiveWanted
  <2>2. ~(req[w].op = "logout" /\ f = tokens[req[w].token].family)
    BY <1>1, <1>4 DEF RevokeInv, Covers
  <2>3. ~(req[w].op = "change" /\ u = req[w].user)
    BY <1>1, <1>4 DEF RevokeInv, Covers
  <2>4. f \notin Ends(w)
    BY <1>4, <2>2, <2>3, CommitEnds
  <2>5. users[u] # None
    BY <1>1, <1>4 DEF FamiliesInv
  <2>6. u \in muddled \/ users'[u].password = users[u].password
    BY <1>3, <2>3, <2>5, CommitPassword
  <2> QED
    BY <1>2, <1>3, <2>1, <2>4, <2>6 DEF Wanted
<1>5. ASSUME mint[w] # None, t = mint[w].id, req[w].op \in Minters, ~Stored(t),
             f = mint[w].family, u = req[w].user
      PROVE  Wanted(f, u)'
  <2>1. Ends(w) = {}
    BY <1>5, CommitEnds DEF Minters
  <2>2. CASE req[w].op = "register"
    <3>1. f = t /\ opener[t] = req[w].row.password /\ users'[u] = req[w].row
      BY <1>1, <1>3, <1>5, <2>2, CommitMint, CommitRows, NoneAssumption DEF OpenInv, RequestInv
    <3>2. f \notin ended
      BY <1>1, <1>5, <3>1 DEF RecordInv
    <3> QED
      BY <1>2, <2>1, <3>1, <3>2 DEF Wanted
  <2>3. CASE req[w].op = "login"
    <3>1. f = t /\ users'[u] = users[u]
      BY <1>1, <1>3, <1>5, <2>3, CommitMint, CommitRows DEF RequestInv
    <3>2. u \in muddled \/ opener[t] = users[u].password
      BY <1>1, <1>5, <2>3, <3>1 DEF OpenInv
    <3>3. f \notin ended
      BY <1>1, <1>5, <3>1 DEF RecordInv
    <3> QED
      BY <1>2, <2>1, <3>1, <3>2, <3>3 DEF Wanted
  <2>4. CASE req[w].op = "refresh"
    <3>1. f = tokens[req[w].token].family /\ Wanted(f, u)
      BY <1>1, <1>5, <2>4, CommitMint DEF RefreshInv
    <3>2. req[w].row = None
      BY <1>1, <2>4, InFlightKnown DEF RequestKnown
    <3>3. users'[u] = users[u]
      BY <1>3, <3>2, CommitRows
    <3> QED
      BY <1>2, <1>3, <2>1, <3>1, <3>3 DEF Wanted
  <2> QED
    BY <1>5, <2>2, <2>3, <2>4 DEF Minters
<1> QED
  BY <1>4, <1>5, CommitActive

LEMMA CommitRecordInv ==
  ASSUME HInv, Record, NEW w \in Workers, Commit(w)
  PROVE  RecordInv'
<1>1. RecordInv /\ IInv /\ minted' = minted
  BY CommitRows DEF HInv
<1>2. /\ raced' = raced /\ muddled' = muddled /\ ended' = ended \cup Ends(w)
      /\ Racing' \subseteq raced' /\ Muddling' \subseteq muddled'
  BY CommitRecord DEF Record
<1>3. \A u \in muddled : u \in UserIds /\ users'[u] # None
  BY <1>1, CommitRows DEF RecordInv
<1>4. \A f \in ended \cup Ends(w) : f \in TokenIds /\ Stored(f)'
  BY <1>1, CommitEnds, CommitKeeps DEF RecordInv
<1> QED
  BY <1>1, <1>2, <1>3, <1>4 DEF RecordInv

\* Whoever the commit could disturb overlapped with it, which is on record.
LEMMA CommitOther ==
  ASSUME HInv, IInv', Record, NEW w \in Workers, Commit(w), NEW v \in Workers, v # w
  PROVE  SessionInv(v)'
<1> SUFFICES ASSUME pc[v] # "idle"
             PROVE  RequestInv(v)' /\ OpenInv(v)' /\ RefreshInv(v)' /\ RevokeInv(v)'
  BY CommitRows DEF SessionInv
<1> PICK r, x : r = req[v] /\ x = req[w]
  OBVIOUS
<1>1. /\ IInv /\ FamiliesInv /\ RecordInv /\ TokensInv /\ pc[w] = "saved"
      /\ RequestInv(v) /\ OpenInv(v) /\ RefreshInv(v) /\ RevokeInv(v)
      /\ RequestInv(w) /\ RefreshInv(w)
      /\ pc'[v] = pc[v] /\ req'[v] = r /\ todo'[v] = todo[v] /\ kill'[v] = kill[v]
      /\ mint'[v] = mint[v] /\ Meet(v, w) /\ Meet(w, v)
  BY CommitRows DEF HInv, SessionInv, IInv, Tables
<1>2. /\ raced' = raced /\ muddled' = muddled /\ ended' = ended \cup Ends(w)
      /\ \A f \in TokenIds : opener'[f] = opener[f]
  BY CommitRecord
<1>3. RequestKnown(v) /\ RequestKnown(w) /\ FamilyKnown(v) /\ FamilyKnown(w)
  <2>1. SessionInv(v) /\ SessionInv(w)
    BY DEF HInv
  <2> QED
    BY <1>1, <2>1, InFlightKnown, FamiliesKnown
<1>4. r \in Request /\ x \in Request /\ r.user \in UserIds
  BY <1>3 DEF RequestKnown, Request
<1>5. x.op = "register" => r.user # x.user
  BY <1>1 DEF Meet
<1>6. SlipsPast(v, w) => Family(v) \in raced
  BY <1>1, SlipsRecorded
<1>7. r.op \in {"login", "refresh"} /\ x.op = "change" /\ x.user = r.user => Family(v) \in raced
  BY <1>6 DEF SlipsPast
<1>8. r.op # "register" => users[r.user] # None
  BY <1>1 DEF RequestInv
<1>9. ASSUME r.op # "register"
      PROVE  \/ r.user \in muddled \/ users'[r.user].password = users[r.user].password
             \/ x.op = "change" /\ r.user = x.user
  BY <1>4, <1>8, <1>9, CommitPassword
<1>10. RequestInv(v)'
  <2>1. r.op = "register" => users'[r.user] = None
    BY <1>1, <1>4, CommitRows DEF RequestInv, Meet
  <2>2. r.op # "register" => users'[r.user] # None
    BY <1>4, <1>8, CommitRows
  <2>3. r.op = "profile" => r.user \in muddled \/ r.row.password = users'[r.user].password
    <3>1. r.op = "profile" /\ x.op = "change" /\ r.user = x.user => r.user \in muddled
      BY <1>1, <1>4, MuddleRecorded
    <3> QED
      BY <1>1, <1>9, <3>1 DEF RequestInv
  <2> QED
    BY <1>1, <1>2, <2>1, <2>2, <2>3 DEF RequestInv
<1>11. OpenInv(v)'
  <2> SUFFICES ASSUME r.op \in {"register", "login"} PROVE OpenInv(v)'
    BY <1>1 DEF OpenInv
  <2>1. mint[v].id \in TokenIds
    BY <1>1, <1>3 DEF OpenInv, RequestKnown, Minters
  <2>2. r.op = "login" => \/ mint[v].id \in raced \/ r.user \in muddled
                          \/ opener[mint[v].id] = users'[r.user].password
    <3>1. r.op = "login" => Family(v) = mint[v].id
      BY <1>3 DEF FamilyKnown
    <3> QED
      BY <1>1, <1>7, <1>9, <3>1 DEF OpenInv
  <2> QED
    BY <1>1, <1>2, <2>1, <2>2 DEF OpenInv
<1>12. RefreshInv(v)'
  <2> SUFFICES ASSUME r.op = "refresh" PROVE RefreshInv(v)'
    BY <1>1 DEF RefreshInv
  <2> PICK t, f : t = r.token /\ f = tokens[t].family
    OBVIOUS
  <2>1. /\ t \in TokenIds /\ Stored(t) /\ r.user = tokens[t].user /\ f \in TokenIds
        /\ Family(v) = f
    BY <1>3 DEF RequestKnown, FamilyKnown
  <2>2. tokens'[t].family = f
    BY <1>1, <2>1, CommitKeeps
  <2>3. ASSUME f \notin raced, x.op \in {"refresh", "logout"} PROVE tokens[x.token].family # f
    <3>1. /\ x.token \in TokenIds /\ Stored(x.token) /\ tokens[x.token].user = x.user
          /\ Family(w) = tokens[x.token].family
      BY <1>3, <2>3 DEF RequestKnown, FamilyKnown
    <3>2. SUFFICES ASSUME tokens[x.token].family = f PROVE FALSE
      OBVIOUS
    <3>3. x.user = r.user
      BY <1>1, <2>1, <3>1, <3>2 DEF TokensInv
    <3>4. SlipsPast(v, w)
      BY <2>1, <2>3, <3>1, <3>2, <3>3 DEF SlipsPast
    <3> QED
      BY <1>6, <2>1, <2>3, <3>4
  <2>4. ASSUME f \notin raced PROVE ~(x.op = "change" /\ x.user = r.user)
    BY <1>7, <2>1, <2>4
  <2>5. ASSUME f \notin raced PROVE t \notin kill[w]
    <3>1. SUFFICES ASSUME t \in kill[w] PROVE FALSE
      OBVIOUS
    <3>2. Concerns(w, t) /\ x.op # "reuse"
      BY <1>1, <2>1, <3>1, CommitTokens, CommitRows
    <3> QED
      BY <2>1, <2>3, <2>4, <2>5, <3>2 DEF Concerns
  <2>6. ASSUME f \notin raced PROVE f \notin Ends(w)
    <3>1. SUFFICES ASSUME f \in Ends(w) PROVE FALSE
      OBVIOUS
    <3>2. x.op \in {"logout", "change"}
      BY <3>1, CommitEnds
    <3> QED
      BY <2>1, <2>3, <2>4, <2>6, <3>1, <3>2, CommitEnds
  <2>7. ASSUME f \notin raced
        PROVE  Active(t)' /\ Wanted(f, r.user)' /\ (pc[v] = "saved" => kill[v] = {t})
    <3>1. Active(t) /\ Wanted(f, r.user) /\ (pc[v] = "saved" => kill[v] = {t})
      BY <1>1, <2>7 DEF RefreshInv
    <3>2. tokens'[t] = tokens[t]
      BY <1>1, <2>1, <2>5, <2>7, CommitKeeps
    <3>3. r.user \in muddled \/ users'[r.user].password = users[r.user].password
      BY <1>9, <2>4, <2>7
    <3> QED
      BY <1>2, <2>1, <2>6, <2>7, <3>1, <3>2, <3>3 DEF Active, Stored, Wanted
  <2> QED
    BY <1>1, <1>2, <2>2, <2>7 DEF RefreshInv, Wanted
<1>13. RevokeInv(v)'
  <2>1. ASSUME NEW t \in TokenIds, Active(t)', Covers(v, t)'
        PROVE  t \in todo[v] \cup kill[v] \/ tokens'[t].family \in raced
    <3>1. r.op \in {"logout", "change"}
      BY <1>1, <2>1 DEF Covers
    <3>2. r.op = "logout" => r.token \in TokenIds /\ Stored(r.token) /\ tokens[r.token].user = r.user
                             /\ tokens'[r.token].family = tokens[r.token].family
      BY <1>1, <1>3, CommitKeeps DEF RequestKnown
    <3>3. CASE Active(t) /\ tokens'[t] = tokens[t]
      <4>1. Covers(v, t)
        BY <1>1, <2>1, <3>2, <3>3 DEF Covers
      <4> QED
        BY <1>1, <2>1, <3>3, <4>1 DEF RevokeInv
    <3>4. CASE /\ mint[w] # None /\ t = mint[w].id /\ x.op \in Minters
               /\ tokens'[t].family = mint[w].family /\ tokens'[t].user = x.user
      <4>1. CASE r.op = "logout"
        <5>1. mint[w].family = tokens[r.token].family
          BY <1>1, <2>1, <3>2, <3>4, <4>1 DEF Covers
        <5>2. x.op = "refresh"
          <6>1. Stored(tokens[r.token].family)
            BY <1>1, <3>2, <4>1 DEF FamiliesInv
          <6> QED
            BY <3>4, <5>1, <6>1, CommitMint DEF Minters
        <5>3. x.user = r.user /\ Family(w) = mint[w].family /\ Family(v) = Family(w)
          <6>1. Stored(x.token) /\ x.token \in TokenIds /\ tokens[x.token].user = x.user
                /\ mint[w].family = tokens[x.token].family /\ Family(w) = mint[w].family
            BY <3>4, <5>2, CommitMint
          <6> QED
            BY <1>1, <1>3, <3>2, <4>1, <5>1, <6>1 DEF TokensInv, FamilyKnown
        <5>4. SlipsPast(w, v)
          BY <4>1, <5>2, <5>3 DEF SlipsPast
        <5> QED
          BY <1>1, <3>4, <5>3, <5>4, SlipsRecorded
      <4>2. CASE r.op = "change"
        <5>1. x.user = r.user
          BY <1>1, <2>1, <3>4, <4>2 DEF Covers
        <5>2. x.op \in {"login", "refresh"}
          BY <1>5, <3>4, <5>1 DEF Minters
        <5>3. SlipsPast(w, v) /\ Family(w) = mint[w].family
          BY <1>3, <4>2, <5>1, <5>2, CommitMint DEF SlipsPast, FamilyKnown, Minters
        <5> QED
          BY <1>1, <3>4, <5>3, SlipsRecorded
      <4> QED
        BY <3>1, <4>1, <4>2
    <3> QED
      BY <2>1, <3>3, <3>4, CommitActive
  <2> QED
    BY <1>1, <1>2, <2>1 DEF RevokeInv
<1> QED
  BY <1>10, <1>11, <1>12, <1>13

LEMMA CommitHInv ==
  ASSUME HInv, IInv', Record, NEW w \in Workers, Commit(w)
  PROVE  HInv'
<1>1. ASSUME NEW v \in Workers PROVE SessionInv(v)'
  <2>1. CASE v = w
    BY <2>1, CommitRows DEF SessionInv
  <2>2. CASE v # w
    BY <2>2, CommitOther
  <2> QED
    BY <2>1, <2>2
<1>2. ASSUME NEW v \in Workers, NEW x \in Workers, v # x PROVE Meet(v, x)'
  <2>1. CASE v = w \/ x = w
    BY <1>2, <2>1, CommitRows DEF Meet, HasSavedUser
  <2>2. CASE v # w /\ x # w
    BY <1>2, <2>2, CommitRows DEF HInv, Meet, HasSavedUser
  <2> QED
    BY <2>1, <2>2
<1> QED
  BY <1>1, <1>2, CommitRecordInv, CommitFamilies, CommitOneLive, CommitLiveWanted DEF HInv

LEMMA NextHInv == HInv /\ [HistoryNext]_historyVars => HInv'
<1> SUFFICES ASSUME HInv, [HistoryNext]_historyVars PROVE HInv'
  OBVIOUS
<1>1. IInv
  BY DEF HInv
<1>2. IInv'
  <2>1. [Next]_vars
    BY DEF HistoryNext, historyVars
  <2> QED
    BY <1>1, <2>1, NextIInv
<1>3. CASE UNCHANGED historyVars
  <2>1. UNCHANGED <<users, tokens, outbox, expired, minted, begun, pc, req, todo, kill, mint,
                    raced, muddled, ended, opener>>
    BY <1>3 DEF historyVars, vars, history
  <2>2. RecordInv' /\ FamiliesInv' /\ OneLive' /\ LiveWanted'
    BY <2>1 DEF HInv, RecordInv, Racing, Muddling, InFlight, SlipsPast, Family, FamiliesInv,
       OneLive, LiveWanted, Wanted, Active, Stored
  <2>3. ASSUME NEW w \in Workers PROVE SessionInv(w)'
    BY <2>1 DEF HInv, SessionInv, RequestInv, OpenInv, RefreshInv, RevokeInv, Covers, Wanted,
       Active, Stored
  <2>4. ASSUME NEW v \in Workers, NEW w \in Workers, v # w PROVE Meet(v, w)'
    BY <2>1, <2>4 DEF HInv, Meet, HasSavedUser
  <2> QED
    BY <1>2, <2>2, <2>3, <2>4 DEF HInv
<1>4. ASSUME HistoryNext, NEW w \in Workers, Commit(w) PROVE HInv'
  BY <1>2, <1>4, CommitHInv DEF HistoryNext
<1>5. ASSUME HistoryNext, \A w \in Workers : ~Commit(w) PROVE HInv'
  <2>1. Next /\ Record
    BY <1>5 DEF HistoryNext
  <2>2. ASSUME NEW w \in Workers, NEW u \in UserIds, NEW row \in UserRow, Register(w, u, row)
        PROVE  HInv'
    BY <1>2, <2>1, <2>2, RegisterHInv
  <2>3. ASSUME NEW w \in Workers, NEW u \in UserIds, NEW password \in Passwords,
               Login(w, u, password)
        PROVE  HInv'
    BY <1>2, <2>1, <2>3, LoginHInv
  <2>4. ASSUME NEW w \in Workers, NEW t \in TokenIds,
               Refresh(w, t) \/ ReplayRefresh(w, t) \/ Logout(w, t)
        PROVE  HInv'
    BY <1>2, <2>1, <2>4, RefreshHInv, RevokeFamilyHInv
  <2>5. ASSUME NEW w \in Workers, NEW u \in UserIds, NEW current \in Passwords,
               NEW new \in Passwords, ChangePassword(w, u, current, new)
        PROVE  HInv'
    BY <1>2, <2>1, <2>5, ReadUserHInv
  <2>6. ASSUME NEW w \in Workers, NEW u \in UserIds, NEW email \in Emails,
               NEW name \in Names, UpdateProfile(w, u, email, name)
        PROVE  HInv'
    BY <1>2, <2>1, <2>6, ReadUserHInv
  <2>7. ASSUME NEW w \in Workers, Rotate(w) \/ SavePassword(w) \/ SaveProfile(w)
        PROVE  HInv'
    BY <1>2, <1>5, <2>1, <2>7, RotateHInv, SaveHInv
  <2>8. ASSUME NEW w \in Workers, NEW t \in TokenIds, RevokeNext(w, t)
        PROVE  HInv'
    BY <1>2, <1>5, <2>1, <2>8, RevokeNextHInv
  <2>9. ASSUME NEW w \in Workers, RevokeDone(w) \/ RefuseReuse(w) \/ Rollback(w)
        PROVE  HInv'
    BY <1>2, <1>5, <2>1, <2>9, RevokeDoneHInv, GiveUpHInv
  <2>10. CASE Expire
    <3>1. UNCHANGED <<users, tokens, outbox, minted, pc, req, todo, kill, mint>>
      BY <2>10 DEF Expire, db
    <3> QED
      BY <1>2, <1>5, <2>1, <3>1, IdleHInv
  <2> QED
    BY <1>5, <2>1, <2>2, <2>3, <2>4, <2>5, <2>6, <2>7, <2>8, <2>9, <2>10 DEF Next
<1> QED
  BY <1>3, <1>4, <1>5

-----------------------------------------------------------------------------
(***************************************************************************)
(* The theorems.                                                           *)
(***************************************************************************)

\* The invariant behind the theorems below, for any number of users, passwords and
\* overlapping requests (LoginUser, RefreshAccessToken, LogoutUser, ChangePassword,
\* UpdateProfile): a request in flight is about a session its user still wants and
\* misses none of the tokens it is to revoke, unless it is on record as raced.
THEOREM HistoryInvariance == HistorySpec => []HInv
BY InitHInv, NextHInv, PTL DEF HistorySpec

\* Every live session was opened with the password its account has now and has
\* neither been logged out of nor ended by a password change, unless another
\* request of the user raced with it or a profile update overlapped a password
\* change (login_user.go, refresh_access_token.go, logout_user.go,
\* change_password.go, update_profile.go).
THEOREM LiveSessions == HistorySpec => []LiveSessionsAreWanted
<1>1. HInv => LiveSessionsAreWanted
  BY DEF HInv, LiveWanted, LiveSessionsAreWanted, Wanted
<1> QED
  BY <1>1, HistoryInvariance, PTL

\* Two transactions wait for each other only over the tokens of a session that two
\* requests have raced for: any other session has one live token, and the users row
\* lets one password change of an account revoke at a time (refresh_tokens.go).
THEOREM Deadlocks == HistorySpec => []DeadlockOnlyOverRaced
<1>1. ASSUME HInv, NEW v \in Workers, NEW w \in Workers, v # w, MayWait(v, w), MayWait(w, v)
      PROVE  \E t \in todo[v] \cap kill[w] : tokens[t].family \in raced
  <2>1. /\ IInv /\ OneLive /\ WorkerInv(v) /\ WorkerInv(w) /\ SessionInv(v) /\ SessionInv(w)
        /\ Meet(v, w) /\ TokensInv
    BY <1>1 DEF HInv, IInv, Tables
  <2>2. ASSUME NEW x \in {v, w}
        PROVE  /\ pc[x] = "read" => todo[x] = {} /\ kill[x] = {} /\ ~HasSavedUser(x)
               /\ pc[x] = "idle" => todo[x] = {} /\ kill[x] = {}
               /\ pc[x] = "saved" => todo[x] = {}
               /\ pc[x] = "revoking" => req[x].op \in {"reuse", "logout", "change"}
               /\ pc[x] = "reused" => req[x].op = "reuse"
               /\ pc[x] \in {"idle", "read", "revoking", "saved", "reused"}
               /\ \A t \in todo[x] \cup kill[x] : t \in TokenIds /\ Stored(t) /\ Concerns(x, t)
               /\ \A t \in kill[x] : Active(t)
               /\ todo[x] \cap kill[x] = {}
    BY <2>1 DEF WorkerInv, StageInv, KillInv, HasSavedUser, Active, SessionInv, RevokeInv,
       IInv, TypeOK
  <2>3. todo[v] \cap kill[w] # {} /\ todo[w] \cap kill[v] # {}
    BY <1>1, <2>2 DEF MayWait
  <2> PICK t \in todo[v] \cap kill[w] : TRUE
    BY <2>3
  <2> PICK s \in todo[w] \cap kill[v] : TRUE
    BY <2>3
  <2>4. s # t /\ Active(s) /\ Active(t) /\ s \in TokenIds /\ t \in TokenIds
        /\ Concerns(v, s) /\ Concerns(v, t) /\ Concerns(w, s) /\ Concerns(w, t)
    BY <2>2
  <2>5. ASSUME NEW x \in {v, w}
        PROVE  /\ req[x].op \in {"reuse", "logout", "change"}
               /\ req[x].op = "change" => HasSavedUser(x)
    <3>1. todo[x] # {}
      BY <2>3, <2>5
    <3>2. pc[x] = "revoking" \/ (pc[x] = "reused" /\ req[x].op = "reuse")
      BY <2>2, <2>5, <3>1
    <3>3. req[x].op = "change" => req[x].row # None
      BY <2>1, <2>5, <3>2, NoneAssumption DEF SessionInv, RequestInv
    <3> QED
      BY <2>2, <2>5, <3>2, <3>3 DEF HasSavedUser
  <2>6. CASE req[v].op = "change" /\ req[w].op = "change"
    <3>1. HasSavedUser(v) /\ HasSavedUser(w)
      BY <2>5, <2>6
    <3>2. req[v].user = req[w].user
      BY <2>4, <2>6 DEF Concerns
    <3> QED
      BY <2>1, <3>1, <3>2 DEF Meet
  <2>7. CASE req[v].op \in {"reuse", "logout"} \/ req[w].op \in {"reuse", "logout"}
    <3>1. tokens[s].family = tokens[t].family
      BY <2>4, <2>7 DEF Concerns
    <3> QED
      BY <2>1, <2>4, <3>1 DEF OneLive
  <2> QED
    BY <2>5, <2>6, <2>7
<1>2. HInv => DeadlockOnlyOverRaced
  BY <1>1 DEF DeadlockOnlyOverRaced
<1> QED
  BY <1>2, HistoryInvariance, PTL

-----------------------------------------------------------------------------
(***************************************************************************)
(* The refinement of LoginSessions.                                        *)
(***************************************************************************)

LEMMA InitSessions == HistoryInit => Sessions!Init
<1> SUFFICES ASSUME HistoryInit PROVE Sessions!Init
  OBVIOUS
<1>1. /\ \A t \in TokenIds : ~Stored(t)
      /\ \A u \in UserIds : users[u] = None
      /\ raced = {} /\ muddled = {}
  BY DEF HistoryInit, Init, Stored
<1>2. \A f \in TokenIds : ActiveInFamily(f) = {}
  BY <1>1 DEF ActiveInFamily, Active
<1>3. SessionLive = [f \in TokenIds |-> {}]
  BY <1>1, <1>2 DEF SessionLive
<1>4. SessionOwner = [f \in TokenIds |-> None]
  BY <1>1 DEF SessionOwner
<1>5. SessionSecret = [u \in UserIds |-> None]
  BY <1>1 DEF SessionSecret
<1> QED
  BY <1>1, <1>3, <1>4, <1>5 DEF Sessions!Init

\* A step that leaves the tables alone can only give sessions up.
LEMMA QuietSessions ==
  ASSUME UNCHANGED <<users, tokens>>, Record
  PROVE  Sessions!GiveUp
<1>1. raced \subseteq raced' /\ muddled \subseteq muddled'
  BY DEF Record
<1>2. \A f : ActiveInFamily(f)' = ActiveInFamily(f) /\ (Stored(f)' <=> Stored(f))
  BY DEF ActiveInFamily, Active, Stored
<1>3. SessionLive' = [f \in TokenIds |-> IF f \in raced' THEN {} ELSE SessionLive[f]]
  BY <1>1, <1>2 DEF SessionLive
<1>4. SessionOwner' = [f \in TokenIds |-> IF f \in raced' THEN None ELSE SessionOwner[f]]
  BY <1>1, <1>2 DEF SessionOwner
<1>5. SessionSecret' = [u \in UserIds |-> IF u \in muddled' THEN None ELSE SessionSecret[u]]
  BY <1>1 DEF SessionSecret
<1> QED
  BY <1>1, <1>3, <1>4, <1>5 DEF Sessions!GiveUp

\* The live tokens of a family after a commit.
LEMMA CommitLive ==
  ASSUME HInv, NEW w \in Workers, Commit(w), NEW f \in TokenIds
  PROVE  ActiveInFamily(f)' =
           (ActiveInFamily(f) \ kill[w])
             \cup {t \in TokenIds : req[w].op \in Minters /\ t = mint[w].id /\ mint[w].family = f}
<1>1. IInv
  BY DEF HInv
<1>2. ASSUME NEW t \in TokenIds, Active(t)', tokens'[t].family = f
      PROVE  \/ Active(t) /\ tokens[t].family = f /\ t \notin kill[w]
             \/ req[w].op \in Minters /\ t = mint[w].id /\ mint[w].family = f
  BY <1>2, CommitActive
<1>3. ASSUME NEW t \in TokenIds, Active(t), tokens[t].family = f, t \notin kill[w]
      PROVE  Active(t)' /\ tokens'[t].family = f
  BY <1>1, <1>3, CommitKeeps DEF Active, Stored
<1>4. ASSUME NEW t \in TokenIds, req[w].op \in Minters, t = mint[w].id, mint[w].family = f
      PROVE  Active(t)' /\ tokens'[t].family = f
  <2>1. mint[w] # None
    BY <1>4, CommitMint
  <2>2. tokens'[t] \in Token /\ tokens'[t].family = f /\ tokens'[t].revoked = None
    BY <1>1, <1>4, <2>1, CommitKeeps
  <2> QED
    BY <2>2, NoneAssumption DEF Active, Stored
<1> QED
  BY <1>2, <1>3, <1>4 DEF ActiveInFamily

\* The sessions after a commit: those there were, and the one it opens.
LEMMA CommitOpened ==
  ASSUME HInv, NEW w \in Workers, Commit(w), NEW f \in TokenIds
  PROVE  /\ (Stored(f) /\ tokens[f].family = f) =>
              Stored(f)' /\ tokens'[f].family = f /\ tokens'[f].user = tokens[f].user
         /\ (req[w].op \in {"register", "login"} /\ f = mint[w].id) =>
              Stored(f)' /\ tokens'[f].family = f /\ tokens'[f].user = req[w].user /\ ~Stored(f)
         /\ (Stored(f)' /\ tokens'[f].family = f) =>
              \/ Stored(f) /\ tokens[f].family = f
              \/ req[w].op \in {"register", "login"} /\ f = mint[w].id
<1>1. IInv /\ FamiliesInv
  BY DEF HInv
<1>2. (Stored(f) /\ tokens[f].family = f) =>
        Stored(f)' /\ tokens'[f].family = f /\ tokens'[f].user = tokens[f].user
  BY <1>1, CommitKeeps
<1>3. ASSUME req[w].op \in {"register", "login"}, f = mint[w].id
      PROVE  Stored(f)' /\ tokens'[f].family = f /\ tokens'[f].user = req[w].user /\ ~Stored(f)
  <2>1. mint[w] # None /\ mint[w].family = f /\ mint[w].user = req[w].user /\ ~Stored(f)
    BY <1>3, CommitMint DEF Minters
  <2>2. tokens'[f] \in Token /\ tokens'[f].family = f /\ tokens'[f].user = req[w].user
    BY <1>1, <1>3, <2>1, CommitKeeps
  <2> QED
    BY <2>1, <2>2, NoneAssumption DEF Stored
<1>4. ASSUME Stored(f)', tokens'[f].family = f, ~Stored(f)
      PROVE  req[w].op \in {"register", "login"} /\ f = mint[w].id
  <2>1. mint[w] # None /\ f = mint[w].id
    BY <1>1, <1>4, CommitKeeps
  <2>2. req[w].op \in Minters /\ mint[w].family = f
    BY <1>1, <1>4, <2>1, CommitKeeps, CommitTokens
  <2>3. req[w].op # "refresh"
    BY <1>1, <1>4, <2>2, CommitMint DEF FamiliesInv
  <2> QED
    BY <2>1, <2>2, <2>3 DEF Minters
<1>5. Stored(f)' /\ tokens'[f].family = f /\ Stored(f) => tokens[f].family = f
  BY <1>1, CommitKeeps
<1> QED
  BY <1>2, <1>3, <1>4, <1>5

\* A commit that opens no session leaves the sessions with their owners.
LEMMA CommitOwners ==
  ASSUME HInv, Record, NEW w \in Workers, Commit(w),
         \/ req[w].op \notin {"register", "login"}
         \/ mint[w].id \in raced
  PROVE  SessionOwner' = SessionOwner
<1>1. raced' = raced
  BY CommitRecord
<1>2. ASSUME NEW f \in TokenIds PROVE SessionOwner'[f] = SessionOwner[f]
  BY <1>1, CommitOpened DEF SessionOwner, Stored
<1>3. DOMAIN SessionOwner' = TokenIds /\ DOMAIN SessionOwner = TokenIds
  BY DEF SessionOwner
<1> QED
  BY <1>2, <1>3 DEF SessionOwner

\* A commit that changes no password, but that of an account given up.
LEMMA CommitSecrets ==
  ASSUME HInv, Record, NEW w \in Workers, Commit(w), req[w].op \notin {"register", "change"}
  PROVE  SessionSecret' = SessionSecret
<1>1. muddled' = muddled
  BY CommitRecord
<1>2. ASSUME NEW u \in UserIds PROVE SessionSecret'[u] = SessionSecret[u]
  <2>1. CASE users[u] # None
    <3>1. users'[u] # None /\ (u \in muddled \/ users'[u].password = users[u].password)
      BY <2>1, CommitRows, CommitPassword
    <3> QED
      BY <1>1, <2>1, <3>1 DEF SessionSecret
  <2>2. CASE users[u] = None
    <3>1. u # req[w].user
      BY <2>2, CommitRows DEF RequestInv
    <3>2. users'[u] = None
      BY <2>2, <3>1, CommitRows
    <3> QED
      BY <1>1, <2>2, <3>2 DEF SessionSecret
  <2> QED
    BY <2>1, <2>2
<1> QED
  BY <1>2 DEF SessionSecret

\* A commit that opens session f has one live token in it, and owns it from then on.
LEMMA OpensSession ==
  ASSUME HInv, Record, NEW w \in Workers, Commit(w), req[w].op \in {"register", "login"},
         NEW f, f = mint[w].id, f \notin raced
  PROVE  Sessions!Opens(req[w].user, f) /\ f \in TokenIds
<1>1. IInv /\ FamiliesInv /\ kill[w] = {} /\ raced' = raced
  BY CommitRows, CommitRecord DEF HInv, OpenInv
<1>2. f \in TokenIds /\ mint[w].family = f /\ ~Stored(f) /\ req[w].op \in Minters
  BY CommitMint DEF Minters
<1>3. ActiveInFamily(f) = {}
  BY <1>1, <1>2 DEF FamiliesInv, ActiveInFamily, Active
<1>4. ASSUME NEW g \in TokenIds
      PROVE  SessionLive'[g] = IF g = f THEN {f} ELSE SessionLive[g]
  <2>1. ActiveInFamily(g)' = ActiveInFamily(g) \cup {t \in TokenIds : t = f /\ f = g}
    BY <1>1, <1>2, CommitLive
  <2>2. CASE g = f
    <3>1. ActiveInFamily(g)' = {f}
      BY <1>2, <1>3, <2>1, <2>2
    <3> QED
      BY <1>1, <2>2, <3>1 DEF SessionLive
  <2>3. CASE g # f
    <3>1. ActiveInFamily(g)' = ActiveInFamily(g)
      BY <2>1, <2>3
    <3> QED
      BY <1>1, <2>3, <3>1 DEF SessionLive
  <2> QED
    BY <2>2, <2>3
<1>5. SessionLive' = [SessionLive EXCEPT ![f] = {f}]
  BY <1>2, <1>4 DEF SessionLive
<1>6. ASSUME NEW g \in TokenIds
      PROVE  SessionOwner'[g] = IF g = f THEN req[w].user ELSE SessionOwner[g]
  BY <1>1, CommitOpened DEF SessionOwner, Stored
<1>7. SessionOwner' = [SessionOwner EXCEPT ![f] = req[w].user]
  BY <1>2, <1>6 DEF SessionOwner
<1>8. SessionOwner[f] = None
  BY <1>2 DEF SessionOwner
<1> QED
  BY <1>2, <1>5, <1>7, <1>8 DEF Sessions!Opens

LEMMA RegisterSessions ==
  ASSUME HInv, Record, NEW w \in Workers, Commit(w), req[w].op = "register"
  PROVE  Sessions!Next
<1> PICK u, p, f : u = req[w].user /\ p = req[w].row.password /\ f = mint[w].id
  OBVIOUS
<1>1. /\ RecordInv /\ req[w] \in Request /\ RequestInv(w) /\ f \notin raced
      /\ raced' = raced /\ muddled' = muddled
  BY CommitRows, CommitRecord, CommitTokens DEF HInv, OpenInv
<1>2. /\ u \in UserIds /\ p \in Passwords /\ users[u] = None /\ u \notin muddled
      /\ users'[u] = req[w].row /\ users'[u] # None
  BY <1>1, CommitRows, NoneAssumption DEF RequestInv, Request, UserRow, RecordInv
<1>3. Sessions!Opens(u, f) /\ f \in TokenIds
  BY <1>1, OpensSession
<1>4. ASSUME NEW v \in UserIds
      PROVE  SessionSecret'[v] = IF v = u THEN p ELSE SessionSecret[v]
  BY <1>1, <1>2, CommitRows DEF SessionSecret
<1>5. SessionSecret' = [SessionSecret EXCEPT ![u] = p] /\ SessionSecret[u] = None
  BY <1>2, <1>4 DEF SessionSecret
<1>6. Sessions!Enrol(u, p, f)
  BY <1>1, <1>2, <1>3, <1>5 DEF Sessions!Enrol
<1> QED
  BY <1>2, <1>3, <1>6 DEF Sessions!Next

\* A commit that changes nothing that is not given up.
LEMMA StutterSessions ==
  ASSUME HInv, Record, NEW w \in Workers, Commit(w),
         req[w].op \notin {"register", "change"},
         \/ req[w].op \in {"login", "refresh", "logout"} /\ Family(w) \in raced
         \/ req[w].op = "profile"
  PROVE  UNCHANGED Sessions!vars
<1>1. IInv /\ TokensInv /\ raced' = raced /\ muddled' = muddled /\ RevokeInv(w) /\ OpenInv(w)
  BY CommitRows, CommitRecord DEF HInv, IInv, Tables
<1>2. /\ req[w].op \in {"login", "refresh"} => Family(w) = mint[w].family
      /\ req[w].op = "login" => mint[w].id = Family(w)
      /\ \A t \in kill[w] : t \in TokenIds /\ Stored(t) /\ tokens[t].family \in raced
  <2>1. pc[w] = "saved" /\ SessionInv(w) /\ RequestKnown(w) /\ FamilyKnown(w)
    BY CommitRows, InFlightKnown, FamiliesKnown DEF HInv
  <2>2. /\ req[w].op \in {"login", "refresh"} => Family(w) = mint[w].family
        /\ req[w].op = "login" => mint[w].id = Family(w)
    BY <2>1, CommitMint DEF FamilyKnown, Minters
  <2>3. \A t \in kill[w] : t \in TokenIds /\ Stored(t) /\ Concerns(w, t)
    BY <1>1 DEF IInv, WorkerInv, KillInv, Active
  <2>4. req[w].op \in {"login", "profile"} => kill[w] = {}
    BY <1>1 DEF RevokeInv, OpenInv
  <2>5. req[w].op \in {"refresh", "logout"} =>
          \A t \in kill[w] : tokens[t].family = Family(w)
    BY <2>1, <2>3 DEF Concerns, FamilyKnown
  <2> QED
    BY <2>2, <2>3, <2>4, <2>5
<1>3. SessionOwner' = SessionOwner
  BY <1>2, CommitOwners
<1>4. SessionSecret' = SessionSecret
  BY CommitSecrets
<1>5. ASSUME NEW f \in TokenIds PROVE SessionLive'[f] = SessionLive[f]
  <2>1. CASE f \in raced
    BY <1>1, <2>1 DEF SessionLive
  <2>2. CASE f \notin raced
    <3>1. ActiveInFamily(f) \cap kill[w] = {}
      BY <1>2, <2>2 DEF ActiveInFamily
    <3>2. ~(req[w].op \in Minters /\ mint[w].family = f)
      BY <1>2, <2>2 DEF Minters
    <3>3. ActiveInFamily(f)' = ActiveInFamily(f)
      BY <3>1, <3>2, CommitLive
    <3> QED
      BY <1>1, <2>2, <3>3 DEF SessionLive
  <2> QED
    BY <2>1, <2>2
<1>6. SessionLive' = SessionLive
  BY <1>5 DEF SessionLive
<1> QED
  BY <1>1, <1>3, <1>4, <1>6 DEF Sessions!vars

LEMMA LoginSessionsStep ==
  ASSUME HInv, Record, NEW w \in Workers, Commit(w), req[w].op = "login"
  PROVE  UNCHANGED Sessions!vars \/ Sessions!Next
<1> PICK u, f : u = req[w].user /\ f = mint[w].id
  OBVIOUS
<1>1. IInv /\ RequestInv(w) /\ RequestKnown(w) /\ FamilyKnown(w) /\ raced' = raced /\ muddled' = muddled
  BY CommitRows, CommitRecord, InFlightKnown, FamiliesKnown DEF HInv
<1>2. Family(w) = f
  BY <1>1 DEF FamilyKnown
<1>3. CASE f \in raced
  BY <1>2, <1>3, StutterSessions
<1>4. CASE f \notin raced
  <2>1. Sessions!Opens(u, f) /\ f \in TokenIds
    BY <1>4, OpensSession
  <2>2. SessionSecret' = SessionSecret
    BY CommitSecrets
  <2>3. u \in UserIds /\ users[u] # None
    BY <1>1 DEF RequestInv, RequestKnown, Request
  <2>4. users[u].password \in Passwords
    BY <1>1, <2>3 DEF IInv, TypeOK, UserRow
  <2>5. SessionSecret[u] # None \/ u \in muddled
    BY <2>3, <2>4, NoneAssumption DEF SessionSecret
  <2>6. Sessions!Open(u, f)
    BY <1>1, <2>1, <2>2, <2>5 DEF Sessions!Open
  <2> QED
    BY <2>1, <2>3, <2>6 DEF Sessions!Next
<1> QED
  BY <1>3, <1>4

\* A refresh that nobody raced with exchanges the one live token of its family.
LEMMA RefreshSessions ==
  ASSUME HInv, Record, NEW w \in Workers, Commit(w), req[w].op = "refresh"
  PROVE  UNCHANGED Sessions!vars \/ Sessions!Next
<1> PICK f, s, n : f = Family(w) /\ s = req[w].token /\ n = mint[w].id
  OBVIOUS
<1>1. /\ IInv /\ OneLive /\ pc[w] = "saved" /\ RefreshInv(w) /\ RequestKnown(w) /\ FamilyKnown(w)
      /\ raced' = raced /\ muddled' = muddled
  BY CommitRows, CommitRecord, InFlightKnown, FamiliesKnown DEF HInv
<1>2. f \in TokenIds /\ tokens[s].family = f /\ mint[w].family = f /\ req[w].op \in Minters
  BY <1>1, CommitMint DEF FamilyKnown, Minters
<1>3. CASE f \in raced
  BY <1>3, StutterSessions
<1>4. CASE f \notin raced
  <2>1. s \in TokenIds /\ n \in TokenIds /\ s < n /\ Active(s) /\ kill[w] = {s}
    BY <1>1, <1>2, <1>4, CommitMint DEF RefreshInv, Minters
  <2>2. ActiveInFamily(f) = {s}
    BY <1>1, <1>2, <1>4, <2>1 DEF OneLive, ActiveInFamily
  <2>3. ASSUME NEW g \in TokenIds
        PROVE  SessionLive'[g] = IF g = f THEN {n} ELSE SessionLive[g]
    <3>1. ActiveInFamily(g)' =
            (ActiveInFamily(g) \ {s}) \cup {t \in TokenIds : t = n /\ f = g}
      BY <1>2, <2>1, CommitLive
    <3>2. CASE g = f
      <4>1. ActiveInFamily(g)' = {n}
        BY <2>1, <2>2, <3>1, <3>2
      <4> QED
        BY <1>1, <1>4, <3>2, <4>1 DEF SessionLive
    <3>3. CASE g # f
      <4>1. s \notin ActiveInFamily(g)
        BY <1>2, <3>3 DEF ActiveInFamily
      <4>2. ActiveInFamily(g)' = ActiveInFamily(g)
        BY <3>1, <3>3, <4>1
      <4> QED
        BY <1>1, <3>3, <4>2 DEF SessionLive
    <3> QED
      BY <3>2, <3>3
  <2>4. SessionLive' = [SessionLive EXCEPT ![f] = {n}]
    BY <1>2, <2>3 DEF SessionLive
  <2>5. SessionLive[f] = {s}
    BY <1>2, <1>4, <2>2 DEF SessionLive
  <2>6. SessionOwner' = SessionOwner /\ SessionSecret' = SessionSecret
    BY CommitOwners, CommitSecrets
  <2>7. Sessions!Exchange(f, n)
    BY <1>1, <2>1, <2>4, <2>5, <2>6 DEF Sessions!Exchange
  <2> QED
    BY <1>2, <2>1, <2>7 DEF Sessions!Next
<1> QED
  BY <1>3, <1>4

\* A logout that nobody raced with leaves its family without a live token.
LEMMA LogoutSessions ==
  ASSUME HInv, Record, NEW w \in Workers, Commit(w), req[w].op = "logout"
  PROVE  UNCHANGED Sessions!vars \/ Sessions!Next
<1> PICK f, s : f = Family(w) /\ s = req[w].token
  OBVIOUS
<1>1. /\ IInv /\ FamiliesInv /\ pc[w] = "saved" /\ RevokeInv(w) /\ RequestKnown(w) /\ FamilyKnown(w)
      /\ raced' = raced /\ muddled' = muddled
  BY CommitRows, CommitRecord, InFlightKnown, FamiliesKnown DEF HInv
<1>2. /\ f \in TokenIds /\ tokens[s].family = f /\ s \in TokenIds /\ Stored(s)
      /\ Stored(f) /\ tokens[f].family = f
  BY <1>1 DEF FamilyKnown, RequestKnown, FamiliesInv
<1>3. CASE f \in raced
  BY <1>3, StutterSessions
<1>4. CASE f \notin raced
  <2>1. \A t \in kill[w] : tokens[t].family = f
    BY <1>1, <1>2 DEF IInv, WorkerInv, KillInv, Concerns
  <2>2. ActiveInFamily(f) \subseteq kill[w]
    BY <1>1, <1>2, <1>4 DEF RevokeInv, Covers, ActiveInFamily
  <2>3. ASSUME NEW g \in TokenIds
        PROVE  SessionLive'[g] = IF g = f THEN {} ELSE SessionLive[g]
    <3>1. ActiveInFamily(g)' = ActiveInFamily(g) \ kill[w]
      BY CommitLive DEF Minters
    <3>2. CASE g = f
      <4>1. ActiveInFamily(g)' = {}
        BY <2>2, <3>1, <3>2
      <4> QED
        BY <3>2, <4>1 DEF SessionLive
    <3>3. CASE g # f
      <4>1. ActiveInFamily(g) \cap kill[w] = {}
        BY <2>1, <3>3 DEF ActiveInFamily
      <4>2. ActiveInFamily(g)' = ActiveInFamily(g)
        BY <3>1, <4>1
      <4> QED
        BY <1>1, <3>3, <4>2 DEF SessionLive
    <3> QED
      BY <3>2, <3>3
  <2>4. SessionLive' = [SessionLive EXCEPT ![f] = {}]
    BY <1>2, <2>3 DEF SessionLive
  <2>5. tokens[f].user \in UserIds
    BY <1>1, <1>2 DEF IInv, TypeOK, Stored, Token
  <2>6. SessionOwner[f] # None
    BY <1>2, <1>4, <2>5, NoneAssumption DEF SessionOwner
  <2>7. SessionOwner' = SessionOwner /\ SessionSecret' = SessionSecret
    BY CommitOwners, CommitSecrets
  <2>8. Sessions!End(f)
    BY <1>1, <2>4, <2>6, <2>7 DEF Sessions!End
  <2> QED
    BY <1>2, <2>8 DEF Sessions!Next
<1> QED
  BY <1>3, <1>4

\* A password change leaves no live token in the sessions of its user.
LEMMA ChangeSessions ==
  ASSUME HInv, Record, NEW w \in Workers, Commit(w), req[w].op = "change"
  PROVE  Sessions!Next
<1> PICK u, p : u = req[w].user /\ p = IF u \in muddled THEN None ELSE req[w].row.password
  OBVIOUS
<1>1. /\ IInv /\ TokensInv /\ FamiliesInv /\ pc[w] = "saved" /\ RequestInv(w) /\ RevokeInv(w)
      /\ RequestKnown(w) /\ raced' = raced /\ muddled' = muddled
  BY CommitRows, CommitRecord, InFlightKnown DEF HInv, IInv, Tables
<1>2. /\ u \in UserIds /\ users[u] # None /\ req[w].row \in UserRow /\ req[w].row # None
      /\ req[w].row.password \in Passwords
  BY <1>1, NoneAssumption DEF RequestInv, RequestKnown, Request, UserRow
<1>3. p \in Passwords \cup {None} /\ (u \in muddled <=> p = None)
  BY <1>2, NoneAssumption
<1>4. ASSUME NEW v \in UserIds
      PROVE  SessionSecret'[v] = IF v = u THEN p ELSE SessionSecret[v]
  <2>1. users'[v] = IF v = u THEN req[w].row ELSE users[v]
    BY <1>2, CommitRows
  <2>2. SessionSecret'[v] = IF v \in muddled \/ users'[v] = None THEN None ELSE users'[v].password
    BY <1>1 DEF SessionSecret
  <2>3. SessionSecret[v] = IF v \in muddled \/ users[v] = None THEN None ELSE users[v].password
    BY DEF SessionSecret
  <2> QED
    BY <1>2, <2>1, <2>2, <2>3
<1>5. SessionSecret' = [SessionSecret EXCEPT ![u] = p]
  BY <1>2, <1>4 DEF SessionSecret
<1>6. \A t \in kill[w] : t \in TokenIds /\ Stored(t) /\ tokens[t].user = u
  BY <1>1 DEF IInv, WorkerInv, KillInv, Concerns, Active
<1>7. ASSUME NEW g \in TokenIds
      PROVE  SessionLive'[g] = IF SessionOwner[g] = u THEN {} ELSE SessionLive[g]
  <2>1. ActiveInFamily(g)' = ActiveInFamily(g) \ kill[w]
    BY CommitLive DEF Minters
  <2>2. CASE g \in raced
    BY <1>1, <2>2 DEF SessionLive
  <2>3. CASE g \notin raced /\ SessionOwner[g] = u
    <3>1. Stored(g) /\ tokens[g].family = g /\ tokens[g].user = u
      BY <1>2, <2>3, NoneAssumption DEF SessionOwner
    <3>2. ASSUME NEW t \in ActiveInFamily(g) PROVE t \in kill[w]
      <4>1. t \in TokenIds /\ Active(t) /\ Stored(t) /\ tokens[t].family = g
        BY DEF ActiveInFamily, Active
      <4>2. tokens[t].user = u
        BY <1>1, <3>1, <4>1 DEF TokensInv
      <4> QED
        BY <1>1, <2>3, <4>1, <4>2 DEF RevokeInv, Covers
    <3>3. ActiveInFamily(g)' = {}
      BY <2>1, <3>2
    <3> QED
      BY <2>3, <3>3 DEF SessionLive
  <2>4. CASE g \notin raced /\ SessionOwner[g] # u
    <3>1. ASSUME NEW t \in ActiveInFamily(g) PROVE t \notin kill[w]
      <4>1. t \in TokenIds /\ Stored(t) /\ tokens[t].family = g
        BY DEF ActiveInFamily, Active
      <4>2. Stored(g) /\ tokens[g].family = g /\ tokens[g].user = tokens[t].user
        BY <1>1, <4>1 DEF FamiliesInv, TokensInv
      <4>3. SessionOwner[g] = tokens[t].user
        BY <2>4, <4>2 DEF SessionOwner
      <4> QED
        BY <1>6, <2>4, <4>3
    <3>2. ActiveInFamily(g)' = ActiveInFamily(g)
      BY <2>1, <3>1
    <3> QED
      BY <1>1, <2>4, <3>2 DEF SessionLive
  <2> QED
    BY <2>2, <2>3, <2>4
<1>8. SessionLive' = [g \in TokenIds |-> IF SessionOwner[g] = u THEN {} ELSE SessionLive[g]]
  BY <1>7 DEF SessionLive
<1>9. SessionOwner' = SessionOwner
  BY CommitOwners
<1>10. Sessions!ChangeSecret(u, p)
  BY <1>1, <1>3, <1>5, <1>8, <1>9 DEF Sessions!ChangeSecret
<1> QED
  BY <1>2, <1>3, <1>10 DEF Sessions!Next

\* Only a commit changes the tables.
LEMMA OnlyCommits ==
  ASSUME Next, \A w \in Workers : ~Commit(w)
  PROVE  UNCHANGED <<users, tokens>>
<1>1. ASSUME NEW w \in Workers, NEW r, NEW stage, Begin(w, r, stage)
      PROVE  UNCHANGED <<users, tokens>>
  BY <1>1 DEF Begin, db
<1>2. ASSUME NEW w \in Workers,
             \/ \E u \in UserIds, row \in UserRow : Register(w, u, row)
             \/ \E u \in UserIds, password \in Passwords : Login(w, u, password)
             \/ \E s \in TokenIds : Refresh(w, s) \/ ReplayRefresh(w, s) \/ Logout(w, s)
             \/ \E u \in UserIds, current, new \in Passwords : ChangePassword(w, u, current, new)
             \/ \E u \in UserIds, email \in Emails, name \in Names : UpdateProfile(w, u, email, name)
      PROVE  UNCHANGED <<users, tokens>>
  BY <1>1, <1>2 DEF Register, Login, Refresh, ReplayRefresh, Logout, ChangePassword, UpdateProfile
<1>3. ASSUME NEW w \in Workers,
             \/ Rotate(w) \/ SavePassword(w) \/ SaveProfile(w)
             \/ \E s \in TokenIds : RevokeNext(w, s)
             \/ RevokeDone(w) \/ RefuseReuse(w) \/ Rollback(w)
      PROVE  UNCHANGED <<users, tokens>>
  BY <1>3 DEF db, Rotate, SavePassword, SaveProfile, RevokeNext, RevokeDone, RefuseReuse, Rollback
<1>4. ASSUME Expire PROVE UNCHANGED <<users, tokens>>
  BY <1>4 DEF Expire, db
<1> QED
  BY <1>2, <1>3, <1>4 DEF Next

\* Where no two requests raced, the use cases of the iam context implement sign-in
\* sessions: a session is opened by a login, has one live token that each refresh
\* exchanges for a later one, and has none once it is ended; a password changes
\* only as all sessions of its account end (internal/application/iam).
THEOREM Refinement == HistorySpec => ImplementsSessions
<1>1. HInv /\ [HistoryNext]_historyVars => [UNCHANGED Sessions!vars \/ Sessions!Next]_historyVars
  <2> SUFFICES ASSUME HInv, HistoryNext PROVE UNCHANGED Sessions!vars \/ Sessions!Next
    OBVIOUS
  <2>1. Next /\ Record
    BY DEF HistoryNext
  <2>2. ASSUME NEW w \in Workers, Commit(w) PROVE UNCHANGED Sessions!vars \/ Sessions!Next
    <3>1. req[w].op = "profile" => UNCHANGED Sessions!vars
      BY <2>1, <2>2, StutterSessions
    <3>2. req[w].op = "register" => Sessions!Next
      BY <2>1, <2>2, RegisterSessions
    <3>3. req[w].op \in {"register", "login", "refresh", "logout", "change", "profile"}
      BY <2>2, CommitRows
    <3> QED
      BY <2>1, <2>2, <3>1, <3>2, <3>3, LoginSessionsStep, RefreshSessions, LogoutSessions,
         ChangeSessions
  <2>3. CASE \A w \in Workers : ~Commit(w)
    <3>1. UNCHANGED <<users, tokens>>
      BY <2>1, <2>3, OnlyCommits
    <3> QED
      BY <2>1, <3>1, QuietSessions DEF Sessions!Next
  <2> QED
    BY <2>2, <2>3
<1> QED
  BY <1>1, InitSessions, HistoryInvariance, PTL DEF HistorySpec, ImplementsSessions

\* The same as an implementation of the abstract specification itself: every
\* behaviour of the use cases, seen through the refinement mapping, is a behaviour
\* of LoginSessions.
THEOREM Implements == HistorySpec => Sessions!Spec
<1>1. [UNCHANGED Sessions!vars \/ Sessions!Next]_historyVars => [Sessions!Next]_(Sessions!vars)
  <2> SUFFICES ASSUME UNCHANGED historyVars PROVE UNCHANGED Sessions!vars
    OBVIOUS
  <2>1. UNCHANGED <<users, tokens, raced, muddled>>
    BY DEF historyVars, vars, history
  <2> QED
    BY <2>1
    DEF Sessions!vars, SessionLive, SessionOwner, SessionSecret, ActiveInFamily, Active, Stored
<1> QED
  BY <1>1, Refinement, PTL DEF ImplementsSessions, Sessions!Spec
=============================================================================
