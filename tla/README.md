# Verification of the flash-card application

TLA+ models of the state-changing core of this repository (a Go backend over
PostgreSQL and a TypeScript single-page client), the TLC runs that check them on
small instances, and TLAPS proofs, for every value of the parameters, about the
three contexts, the idempotency middleware, the outbox, the api client and the
practice page.
`PROJECT.json` indexes components, runs, the source lines behind each definition,
hazards and theorems.

Contents: 1 inventory, 2 modules and code, 3 runs, 4 fairness, 5 proofs,
6 differences between code and documentation, 7 what is not modelled, 8 plan.

## 1. Inventory

| Component | Keeps | Operations | Correct when |
|---|---|---|---|
| decks (`domain/decks`, `application/decks`, `postgres/decksrepo`) | `decks.decks`, `decks.cards` | create, rename, delete deck; add, edit, remove, reorder cards | cards are numbered 1..N within the limit; only the owner writes; deletion is final; rows and events agree |
| iam (`domain/iam`, `application/iam`, `postgres/iamrepo`) | `iam.users`, `iam.refresh_tokens` | register, login, refresh, logout, change password, update profile | addresses are unique; a family has one live token; revocation is final; a session lives only while its user wants it |
| practice (`domain/practice`, `application/practice`, `postgres/practicerepo`) | `practice.sessions`, `practice.session_card_ratings` | start, rate, finish, results | ratings stay within the snapshot and none is lost; completion is final; all answers about a completed session agree |
| idempotency middleware (`http/middleware/idempotency.go`) | `iam.idempotency_keys` | look up, replay, refuse, run, cache | a key takes effect once and has one answer |
| outbox and bus (`postgres/outbox`, `infrastructure/events`, `cmd/api/main.go`) | one outbox table per context | append in the use case's transaction, run subscribers, dispatch | nothing committed is skipped; events written under one row lock arrive in commit order |
| unit of work (`postgres/uow.go`) | a transaction on the context | begin, commit, roll back | every transaction ends and releases its locks |
| api client (`frontend/src/shared/api`, `shared/auth`) | tokens in localStorage, the refresh in flight | call, silent refresh and retry, sign in, sign out | one refresh at a time; a usable pair is not thrown away; signing out lasts; no call hangs |
| practice page (`pages/deck-practice`, `entities/practice`) | atoms: cursor, tracking toggle, active session | visit, leave, reload, turn cards, rate, toggle | the cursor is on a card; results count every rating; no session is left open, no rating dropped; a run leads to its results |
| other UI (`app`, other `pages`, `shared/ui`) | forms | render, one call per form | not modelled (section 7) |
| tokens, hashing, HTTP plumbing, bootstrap | nothing of their own | translation, wiring | not modelled (section 7) |

How they interact. A request passes the middleware chain (authentication, for
the creating POSTs the idempotency middleware) to a handler, which calls one use
case. The use case runs inside `UnitOfWork.Do`: one READ COMMITTED transaction
that the repositories find on the context. It loads an aggregate, applies an
operation of the domain, saves, and publishes events; `Publisher` appends each
to the context's outbox in the same transaction and runs the in-process
subscribers (none is registered) on the spot. A goroutine started by `main.go`
wakes up on a ticker and forwards undispatched rows to the bus. The client keeps
the token pair, calls the API, and on 401 refreshes once and retries. The practice
page sits on top: its atoms are module-level, so they outlive a visit, and what
follows the await of a call reads them as they are by then.

What is hard here: every use case reads without a lock and saves whole
aggregates, so requests overwrite each other; an aggregate is read by two
statements with a snapshot each; the idempotency lookup and its cache write are
outside the handler's transaction; row ids are taken before, and become visible
at, the commit; in the client, several 401s, a refresh, a sign-out, another tab
and lost answers cross; the practice page disables nothing while it waits, so
gestures, failures and late answers cross too. The hazards are listed in `PROJECT.json` line by line.

## 2. Modules and code

| Module | Models |
|---|---|
| `Decks` | the decks context: rows, outbox, row locks, requests in flight |
| `DecksHistory` | `Decks` with a record of lost updates, and what holds apart from them |
| `Iam`, `IamHistory` | the iam context, and its record of racing requests |
| `LoginSessions` | abstract specification of accounts and sign-in sessions, implemented by `IamHistory` |
| `Practice`, `PracticeHistory` | the practice context, and its record of lost updates |
| `Idempotency`, `IdempotencyHistory` | the middleware around a creating handler, and a record of overlap and lost cache writes |
| `Outbox` | publishing transactions against the dispatcher |
| `ApiClient`, `ApiClientHistory` | `apiFetch`, its refresh and the token store in several tabs, against a server; and a record of what crosses a refresh |
| `PracticePage`, `PracticePageHistory` | the practice page, its atoms and calls, against the practice context; and a record of failures and hurry |
| `MCDecks`, `MCIam`, `MCPractice`, `MCIdempotency` | symmetry for TLC |
| `DecksProofs`, `PracticeProofs`, `IdempotencyProofs` | theorems about the module they are named for, then about its history module |
| `IamProofs`, `IamHistoryProofs` | theorems about `Iam`; about `IamHistory` and its refinement of `LoginSessions` |
| `OutboxProofs` | theorems about `Outbox` |
| `ApiClientProofs`, `PracticePageProofs` | theorems about `ApiClientHistory`, `PracticePageHistory` |

**Transactions.** `Decks`, `Iam` and `Practice` have workers, the request
goroutines, each with a stage `pc`. One action is one interaction with the
database: `ReadDeckRow` and `ReadCardRows` are the two SELECTs of `ByID`, each
with the snapshot of its own moment; an operation (`AddCard`, `Rate`, ...) is the
domain call, the upsert that takes the row lock, and the appended events;
`Commit` makes everything visible at once; `Rollback` is any error, cancelled
request or crash. What happens in memory between two statements is part of the
action it ends in. An operation whose guard fails can only roll back, as its
error return does. In `Iam` a Revoke statement is a sequence of steps
(`RevokeNext`), one per matched row, because it waits on row locks: what it
matches is fixed when it begins, a row it waited for is looked at again, and a
row inserted meanwhile is not seen. That is what READ COMMITTED does.

**Data.** Titles, contents, names, passwords and addresses are model values.
Card ids, tokens and token pairs are numbered as they are minted. A token family
is its first token. `completed_at` is the number of the request that stamped it,
and whether the clock gave it digits below the microsecond (`fine`): the upsert
drops them (`InMicroseconds`), the answer and the event of that request keep them.
Deck and session rows keep exactly the columns the properties and guards look
at. Outboxes are sequences in commit order, in `Iam` a set.

**History.** The code has no version check: whoever saves last wins, and section
6 shows what this costs. To say something about requests that overlap without
that happening, the history modules record it. `stale` holds the workers whose
copy some commit has outdated, `overwritten` the decks or sessions such a copy
was committed to. In `IdempotencyHistory`, `disturbed` holds the keys under which
two handlers ran at once or a response was not cached after its commit. In
`IamHistory`, `raced` holds the families a token may have been slipped into past
an overlapping request that revokes or refuses, and `muddled` the users whose
profile update overlapped a password change; `ended` and `opener` remember what
the user wanted: which families were ended, and with which password each was
opened. In `ApiClientHistory`, `contested` holds the pairs two tabs presented at
once and `overtaken` the refreshes crossed by a sign-out, by a sign-in or by the
settlement of another tab's; in `PracticePageHistory`, `failed` holds the sessions a call
about which failed, `hurried` those acted on while a call about them, the start
of another or a rating of another was under way. The
conditional properties demand of everything else what the documentation demands
of all, and each exception is there because the property fails without it. They are about concurrent behaviours: requests
overlap, fail and retry, only not in that one way, and each is shown false when
the code's own protection (`requireAlive`, `ORDER BY`, the status check, ...) is
changed. The history variables never restrict a step.

**The client.** In `ApiClient` the stored pair is one number; the flight that a
call starts is kept under that call, and `slot` is the module-level
`refreshFlight` of a tab. A flight is sent, read and answered by the server
(`Accept`, `Exchange`, `Refuse`, `BeUnavailable`) and settled (`Receive`, or
`Fail` if the fetch rejects); the slot is returned by a timer later
(`EndGrace`), and a 401 in between joins the settled flight. The server may read
one token for two tabs before it exchanges it for either, and may still run a
request that the client has given up (`ExchangeStray`). Any call may be answered
401, since a wrong current password is reported so too. Signing in takes two
steps: the server mints a pair (`Grant`), and the form, which has awaited it, stores
it whatever the store holds by then (`Login`), since a tab left on `/login` is not
told that another tab has signed in; `granted` holds the pairs in between. An
answer nobody stores just stays there. The constant `Tabs` tells each tab by the
number of calls it has at one time.

**The outbox.** In `Outbox` a transaction takes locks as it writes rows (`Save`)
and publishes whenever it likes, and a row of the outbox remembers the locks it was
appended under. For decks and sessions that is the aggregate's row, since every
use case saves before it publishes. The iam use cases may publish about a family
under no lock of it: the UPDATE of a repeated logout matches no row, and a refresh
that another has overtaken locks only the token it inserts.

**The practice page.** In `PracticePage` a deck is told by the number of its
cards and a session by the gesture that started it. A call is sent, then done or
refused by the server (`Start`, `StoreRating`, `Complete`), and `Receive` is all
that follows its await: the active session is set or cleared, the cursor moves,
the end of the deck finishes the session, the browser goes to the results. `Fail`
is the catch branch of each, before or after the server has done its part; a
request that nobody waits for any more is an `orphan`.

## 3. Runs

`tlc -config X.cfg M` with the module given here. All passing runs explore their
state space completely.

| Run | Module | Distinct states | Shows |
|---|---|---|---|
| `DecksConcurrent` | `MCDecks` | 106,459 | `CardListsWellFormed`, `OnlyOwnerWrites` for any overlap of three requests; `RowsAreReplayUnlessOverwritten`, `DeletedUnlessOverwritten` without lost updates |
| `DecksLiveness` | `Decks` | 9,589 | `TransactionsEnd` under `FairSpec` |
| `DecksResurrected` | `MCDecks` | violated | `DeleteIsTerminal` fails (6.1) |
| `IamConcurrent` | `MCIam` | 481,329 | `EmailsUnique`, `ChildRetiresParent`, `OutboxMatchesTokens`, `RevocationIsFinal` for any overlap; `LiveSessionsAreWanted`, `DeadlockOnlyOverRaced` and the refinement `ImplementsSessions` except for raced sessions and muddled accounts |
| `IamReuse` | `MCIam` | violated | `ReuseEndsFamily` fails (6.2) |
| `PracticeConcurrent` | `MCPractice` | 318,215 | `RatingsWithinSnapshot`, `OnlyOwnerWrites` for any overlap of three requests; `RatingsAreReplayUnlessOverwritten`, `AnswersAgreeUnlessOverwritten`, `CompletedUnlessOverwritten` without lost updates |
| `IdempotencyConcurrent` | `MCIdempotency` | 80,434 | `EntriesAreEffects`, `AnswersAreOwn` always; `OneEffectUnlessDisturbed`, `AnswersAgreeUnlessDisturbed` |
| `IdempotencyTwoEffects` | `MCIdempotency` | violated | `OneEffectPerKey` fails (6.3) |
| `OutboxDispatch` | `Outbox` | 168,666 | `MarkedWasForwarded`, `ForwardedInCommitOrder`, and `EveryEventDispatched` under `FairSpec` |
| `ApiClientTwoTabs` | `ApiClientHistory` | 321,332 | `RefusedOnlyIfOver`, `DiscardsOnlyRefused`, `SignedOutUnlessOvertaken`, and `CallsEnd` under `FairSpec` |
| `ApiClientLogout` | `ApiClient` | violated | `SignedOutStaysOut` fails (6.4) |
| `PracticePageVisits` | `PracticePageHistory` | 92,701 | `CursorWithinDeck`, `ResultsCountEveryRating`, `NoSessionForgotten`, `ToggleMeansSession`, and `RunEndsInResults` under `FairSpec` |

Every passing run also checks a type invariant, except `DecksLiveness`, which
shares its module with another run.

**Bounds and why they are enough.** A bound on begun requests (`MaxRequests`) or
minted things (`MaxPairs`, `MaxEvents`) makes the state space finite; all are in
guards.
- *Decks*: three workers, four requests, two users, one deck, at most three cards.
  A lost update takes three requests (create, and two that overlap); the fourth
  adds a request that reads what the loser left. Decks do not interact (each
  request names one deck and locks its row), so one is enough. Three cards are
  the first number at which a removal from the middle and a reordering that is
  not a swap exist, and they reach the card limit. Two titles and contents tell
  an update from its loss. The liveness run has one card and one value of each,
  since waiting depends on neither.
- *Iam*: two users and two addresses (uniqueness is about pairs), two passwords,
  two workers, one expired token, five requests: register, login, refresh and two
  that overlap with each other. Five is also what the one deadlock needs:
  register, two refreshes that race, two logouts over their children.
- *Practice*: one session, two cards, two ratings, three workers, five requests:
  start, two ratings, two finishes or reads of the results.
- *Idempotency*: two keys and two request bodies, three workers, five requests:
  two that overlap, an overwrite of the entry and retries of either.
- *Outbox*: two locks, two transactions, a batch of two and three rows, so that a
  round may leave rows over, ids may commit out of order, and two rows may share a
  lock, have different ones, or none.
- *ApiClient*: two tabs, of which one has two calls at once: one starts the
  refresh, the other joins it, in flight or in its grace period. Two pairs (a
  login and a rotation, or two logins) and one sign-out: every crossing the
  properties name happens, a sign-in over the pair a refresh has presented among
  them, and without its exception each fails in this instance.
  Section 5 proves the invariants and action properties without bounds.
- *PracticePage*: decks of one and of two cards (the first card is the last one,
  or is not), three ratings and toggles: a session started and two ratings, a
  restart, or a toggle on, off and on. Visits, reloads and turned cards are
  unbounded. With one deck of one card the invariants also hold with five gestures
  (1,185,165 states): two sessions and a late rating of the first. Section 5 proves
  them without bounds.

Larger instances, checked once and not kept as runs, gave no error either: *Iam*
with one user and six requests (1,041,557 states), *Decks* with six requests on a
list of two cards (1,876,973), *Practice* with six requests and one card
(1,556,674), *Idempotency* with one key and eight requests (117,922), *Outbox* with four rows
(3,372,183, without the liveness property).

Deadlock checking is off everywhere because behaviours end when a bound is
reached; that requests do not block each other for ever is `TransactionsEnd`.

Symmetry is used in the runs that check invariants and action properties, over
values the specifications never order; the liveness runs use none.

## 4. Fairness

- `Decks`: a goroutine goes on (`WF` of the reads, of the commit and of the error
  returns). An operation waits for the row lock; PostgreSQL queues the waiters,
  so one that waits gets it although others come and go: `SF`. No fairness for
  new requests or for failures that need not happen.
- `Outbox`: `runOutboxDispatcher` loops over a ticker until shutdown, hence
  `WF(Fetch)`. A round may break off at any row; `SF(Forward)` and `SF(Mark)` say
  that an attempt made again and again succeeds at last. This is an assumption
  on the bus and the database: a row that fails for ever holds up every row after
  it, which is what `DispatchOnce` does.
- `ApiClientHistory`: every `fetch` settles, with an answer or by rejecting, and
  timers fire. There is no timeout in the code, so this is an assumption on browser and
  network. The user and the server's own doings are under no fairness.
- `PracticePageHistory`: the same assumption for each call, `WF(Settle(n, kind))`.
  The user is under no obligation; `RunEndsInResults` says that the last rating
  of a run leads to the results without one.

## 5. Proofs

All theorems are for any finite or infinite sets of users, decks, workers, tabs
and so on, except where an assumption below says otherwise.

| Module | Theorem | Shows |
|---|---|---|
| `DecksProofs` | `TypeCorrectness`, `CardLists`, `Ownership` | `TypeOK`, `CardListsWellFormed`, `OnlyOwnerWrites` |
| `DecksProofs` | `RowsReplay`, `DeletionIsFinal` | `RowsAreReplayUnlessOverwritten`, `DeletedUnlessOverwritten` |
| `PracticeProofs` | `TypeCorrectness`, `Snapshots`, `Ownership` | `TypeOK`, `RatingsWithinSnapshot`, `OnlyOwnerWrites` |
| `PracticeProofs` | `RatingsReplay`, `CompletionIsFinal`, `AnswersAgree` | `RatingsAreReplayUnlessOverwritten`, `CompletedUnlessOverwritten`, `AnswersAgreeUnlessOverwritten` |
| `IamProofs` | `TypeCorrectness`, `Addresses`, `Lineage`, `Story`, `Finality` | `TypeOK`, `EmailsUnique`, `ChildRetiresParent`, `OutboxMatchesTokens`, `RevocationIsFinal` |
| `IamHistoryProofs` | `LiveSessions`, `Deadlocks`, `Refinement` | `LiveSessionsAreWanted`, `DeadlockOnlyOverRaced`, `ImplementsSessions` |
| `IamHistoryProofs` | `Implements` | `Sessions!Spec`, the specification of `LoginSessions` under the refinement mapping |
| `IdempotencyProofs` | `TypeCorrectness`, `Entries`, `Answers` | `TypeOK`, `EntriesAreEffects`, `AnswersAreOwn` |
| `IdempotencyProofs` | `OneEffect`, `AnswersAgree` | `OneEffectUnlessDisturbed`, `AnswersAgreeUnlessDisturbed` |
| `OutboxProofs` | `TypeCorrectness`, `MarkedAfterForwarded`, `CommitOrder` | `TypeOK`, `MarkedWasForwarded`, `ForwardedInCommitOrder` |
| `ApiClientProofs` | `TypeCorrectness`, `Refusals`, `Discards`, `Fillings` | `TypeOK`, `RefusedOnlyIfOver`, `DiscardsOnlyRefused`, `SignedOutUnlessOvertaken` |
| `PracticePageProofs` | `TypeCorrectness`, `Cursor`, `Toggle`, `NotForgotten`, `Results` | `TypeOK`, `CursorWithinDeck`, `ToggleMeansSession`, `NoSessionForgotten`, `ResultsCountEveryRating` |

Every invariant and every action property that a run checks is proved, and so is
the refinement. Each follows from an inductive invariant (`IInv`, or `HInv` where it is
about a history) that `Invariance` (`HistoryInvariance`) states. None of the
claims survives a step by itself, because what a commit or a late answer writes was
fixed steps earlier, in a state since gone. The invariants say what a request in
each stage holds and how it agrees with the shared state:

- `Decks`. `RowsInv`: the rows of every deck list some dense sequence, with ids
  minted so far. `WorkerInv`: a loaded copy is dense, and its owner is the owner of
  the row, because rows never change owner; one that has saved holds the row's
  lock, has the owner as its caller, and the row, if there is one, still has that
  owner. The lock keeps two creators or writers of one deck apart. The first part
  of the module proves what each operator does to a dense list (`HydratedDense`,
  `AppendDense`, `EditDense`, `WithoutDense`, `ReorderedDense`, `DraftsDense`);
  that `CardListsWellFormed` follows from `RowsInv` is a counting argument
  (`DenseCardinality`).
- `DecksHistory`. A copy that no commit has outdated is the committed deck; the
  events a request has staged lead from the committed deck to what it will write
  (`StagedInv`); a deck nobody overwrote is what its events lead to (`DeckInv`). To
  *lead* is to have a trace, one state per event; that `Replay`, a fold, returns
  the last state of a trace (`ReplayIsWhereItLeads`), and that every sequence of events has
  one (`LeadsSomewhere`), are inductions over its length. Each operation then has a lemma
  that its events lead from the old view of the aggregate to the new
  (`RemoveCardLeads`, `ReorderLeads`, ...), and `ReadsBack` says that the rows
  read in the order of their ordinals are the list that was saved.
- `Practice`. A worker's copy, read in two statements and possibly outdated since,
  is of the session it was asked for, and agrees with the row in owner, mode and
  snapshot (`SameSession`), which no save changes; so its ratings are within the
  snapshot of whatever row it overwrites.
- `PracticeHistory`. Besides `CopyInv` and `StagedInv` as for the decks, `SessionInv`:
  a session nobody overwrote has of each card the rating announced last, and every
  completion announced of it tells the rows as they are, in the time to the
  microsecond. The one case that needs
  more than "the copy is up to date" is a second finish: its copy is of a session
  already completed, so it announces and stamps nothing new.
- `Iam`. A transaction writes several rows before it commits. `KillInv`: the tokens
  it has revoked are locked by it and still active; `MintInv`: the token it has
  minted has an id of its own, and family and user of the parent it has revoked;
  `SavedInv`: the address it has saved is free. `Apart`: what two workers have
  written does not meet. `MintsInv` counts mints against requests begun, `TokensInv`
  has the theorems about tokens and that a family is of one user, which `Story`
  needs because a logout's event names one user for the whole family.
- `IamHistory`. `LiveWanted` alone is not inductive: a request may insert a token
  into a family whose end commits first, and a statement may miss a token inserted
  meanwhile. `RefreshInv`: a refresh holds the live token of a wanted family, or the
  family is in `raced`; `OpenInv`: a login's new family has the account's present
  password, or is in `raced`, or the account in `muddled`; `RevokeInv`: every live
  token that a logout or a password change is to end is one it has ended or has yet
  to, or of a raced family; `OneLive`: a family that is not raced has one live
  token, so no two statements lock two of its rows in opposite orders. The
  refinement takes from these that a commit is what `LoginSessions` allows:
  `Refinement` has one case per kind of request; a step that is no commit stutters or
  gives up a session that requests race for. `Implements` is the same in the abstract
  specification's own terms: `HistorySpec => Sessions!Spec`.
- `Idempotency`. A worker's response is of the call it was sent, and so is an entry.
  For `OneEffect`: an undisturbed key has at most one worker at a time, and its
  effect, if there is one, is cached or held by that worker.
- `Outbox`. On the publishing side, what a worker has appended and not committed is
  its own (`OwnInv`), under locks it still holds, ordered by id, and later than
  everything stored under one of them (`MineInv`); hence the ids of rows that share
  a lock grow with the commits (`OrderInv`) although they do not over all. On the
  dispatcher's, every earlier stored row that shares a lock with a fetched one is
  dispatched or before it in the batch (`BatchInv`): a commit cannot break this, because what it stores is later.
  `FetchedRows` says what a fetch returns; that there is such a sequence at all, which
  its CHOOSE needs, is an induction over its length (`SmallestExist`).
- `ApiClient`. `SlotInv`: one flight per tab. `AnswerInv`: the pair of an answer on
  its way is known only to its flight, so nobody has presented it. `GrantedInv`:
  likewise the pair of a sign-in only to its form. `SpentInv`: a
  stored or presented pair that was exchanged is lost, contested, or about to be
  replaced by the flight that exchanged it. `RecordInv`: an outstanding flight that
  nothing overtook, a sign-in included, presents what is stored.
- `PracticePage`. `CallInv`: a start has yet to create its session, any other call
  is about a stored one, an orphan is about one in `failed`. `StartsInv`: of two
  starts under way, and of a start and the session active meanwhile, both are in
  `hurried`, so that what `AfterStart` replaces may be forgotten. `AloneInv`: a
  rating of a session that is not excepted is the only rating under way, and its
  session is not being finished; hence (`LatestInv`) the server has the user's
  latest rating of every card or is about to accept it.

Assumptions, each named where the constants are declared and evaluated by TLC in
every run that extends the module: `LimitsAssumption` (the limits are natural
numbers, the card limit positive, a creation has no more drafts than the limit),
`BoundsAssumption`, `BoundAssumption` and `ParametersAssumption` (bounds are natural
numbers), `DecksAssumption` (decks have cards, and one has the most),
`CardsAssumption` (the cards of `Practice` are finitely many: a session announces
how many it rated), and `NoneAssumption` (`None` is not a row, a worker, a
request, an aggregate, a user or a password).

Induction. The provers cannot instantiate an induction theorem whose parameter is an
operator. `NatInductionSet` states induction for a set of numbers instead and follows
from the well-foundedness of `<` (`WFMin`): a set that holds 0 and the successor of
its every member holds all of them. What is claimed of n is put into the set.

Only model-checked: the liveness properties (`TransactionsEnd`, `EveryEventDispatched`,
`CallsEnd`, `RunEndsInResults`). They rest on fairness, which needs ENABLED, out of
reach of these provers. The four properties of section 6 that fail are shown by
their counterexamples.

## 6. Differences between code and documentation

Four are demonstrated by a run each (docs are under `src/docs/backend`):

1. *A deleted deck comes back* (`DecksResurrected`). `Decks.Save` writes
   `deleted_at = NULL` from a copy loaded before the deletion committed;
   `aggregates.md:85` calls deletion terminal.
2. *Reuse does not end the family* (`IamReuse`). `RefreshAccessToken` revokes the
   family and returns the error inside the transaction, which rolls the
   revocation back; ADR 0003, lines 39-42.
3. *One key, two effects* (`IdempotencyTwoEffects`). The lookup reserves nothing;
   ADR 0005, line 68.
4. *Signed in again after signing out* (`ApiClientLogout`). The answer to an
   outstanding refresh is stored whatever the store holds; `session.ts:43`,
   `guard.ts:42-43`.

Others met while modelling. The models contain them, and where a property would
be false because of them it is stated with the condition that excludes them
(the last two items are outside the models):

- Of two overlapping edits of a deck, or ratings of a session, the later commit
  overwrites the earlier, whose event stays in the outbox (ADR 0002, line 61; the
  conditions `overwritten`). Likewise a rating that overlaps a finish reopens the
  session (`aggregates.md:128`), and two overlapping finishes announce different
  completions (`aggregates.md:133`).
- Deleting a deck keeps its card rows: `Save` deletes and inserts them again
  (`use-cases.md:158`, `aggregates.md:93`).
- Two overlapping refreshes of one token leave two active children, since
  `RevokeOne` reports no error when it changed nothing (ADR 0003, lines 34-35).
  A refresh or login that overlaps a logout or a password change leaves an
  active token behind (`aggregates.md:34`). These are the sessions in `raced`.
- Two logouts, or a logout and a password change, over a family with two active
  children may lock them in opposite orders and deadlock; PostgreSQL then fails
  one of them. Families that nothing raced over have one row to lock.
- The first `Finish` announces and answers the clock's nanoseconds from memory
  (`finish_session.go:40-56`, `clock.go:18`); every later answer reads the column,
  which keeps microseconds. So the answers differ, with no requests overlapping,
  where `aggregates.md:133` has subsequent calls "return the same result" and
  `session.go:159-160` "the previously stamped completed_at". The unit test that
  compares them (`finish_session_test.go:42`) uses a repository in memory.
  `AnswersAgreeUnlessOverwritten` compares to the microsecond.
- Events about a token family may be forwarded against the order of their commits:
  a repeated logout finds nothing to revoke and publishes all the same
  (`logout_user.go:36-44`), and so does a refresh whose `RevokeOne` changed nothing
  (`refresh_tokens.go:127-151`), under no lock that an earlier event of the family
  was published under. ADR 0002 promises no order; `ForwardedInCommitOrder` claims
  it for rows with a common lock.
- A profile update that overlaps a password change writes the old password hash
  back (`use-cases.md:87`): the accounts in `muddled`.
- A password change announces one `RefreshTokenRevoked` without a family, not one
  per family (`use-cases.md:104`).
- The idempotency entry is written after the handler's commit by a statement of
  its own whose error is dropped (ADR 0005, lines 43-45). Its hash is of
  method, path, query and body, not of the user (`idempotency.go:114-126`): "own" in
  `AnswersAreOwn` is meant in that sense. Entries do not expire: `Get` ignores
  `expires_at` and no janitor exists (lines 46-47).
- Subscribers run before the commit (ADR 0002, lines 32-33), and an event they
  have been given is forwarded again by the dispatcher; its forwarder passes on
  a record without the typed payload. No subscriber is registered, so
  `UserDeckProgress` is never written.
- `UnitOfWork.Do` does not roll back when its function panics.
- The client's sign-out does not call `POST /auth/logout`, so the family stays
  active. A refresh answered by a 5xx clears the store like a refusal does. Two
  tabs share the stored token but not the flight: both present it, one is
  refused and clears the store, and the later answer decides what it holds.
- A tab left on `/login` may sign in over the pair of another tab
  (`loginForm.ts:41-42`, `session.ts:35-41`; the guard knows its own tab's atoms).
  If that tab's refresh of the old pair is then refused or fails with a 5xx, it
  clears the new pair (`client.ts:77-79`), if it succeeds it replaces it:
  `DiscardsOnlyRefused` names the flights that a sign-in has overtaken.
- Practice page: toggle and active session survive leaving a deck, although
  `sessionAtom.ts:15-16` has the session cleared on leave and the comment in
  `DeckPracticePage.tsx:400-403` has it finished (`SessionFinishOnExit` returns
  null and `clearActiveSessionAction` has no caller). On another deck ratings go
  to the old session, which refuses them, while the cursor moves on.
- Practice page: the end of a deck finishes the session and leaves the toggle on
  (`ranOut`). Later ratings are dropped silently and the next end leads nowhere.
- Practice page: a rating that settles after the user has entered another deck
  moves the cursor there, possibly past the last card (`crossed`). If it finds the
  cursor on the last card, it finishes the session active by then, which may be a
  later one with a rating under way: that rating is refused and missing from the
  results. A toggle turned off while its session starts leaves that session active.
- The route guard (`guard.ts:35`: "logout / async refresh failure flips this and
  we need to react to it") is not told of a failed refresh: `attemptRefresh`
  clears the token store but not the atoms, and the guard takes a user for signed
  in if either says so. Until the page is reloaded or the user signs out, `/login`
  leads back to `/decks`.
- The client's schema of a deck's progress names fields the backend does not send
  (`shared/api/practice.ts:85-88`), and of the forms only the registration form
  sends an `Idempotency-Key`, a new one at each submission.

## 7. Not modelled

- Reads without effect: `GetDeck`, `ListUserDecks`, `GetUserDeckProgress`,
  `GetCurrentUser`.
- `Session.Abandon` (no caller), the `UserDeckProgress` projection (no writer),
  the avatar stub, `GenerateDeckWithAI` beyond its event, which is
  `Outbox!PublishOutsideTx`.
- Validation of formats and lengths: inputs are the ones that pass. Expired
  entries, `created_at`, page sizes.
- Signing and verifying access tokens, password hashing, request ids, access
  log, CORS, JSON binding: stateless, or cryptography.
- The frontend apart from the api client and the practice page: rendering, the
  route guard with its atoms, and forms that send one call each. Of the practice
  page, the face of the card and the texts of errors.
- Migrations, configuration, logging, and panics.

## 8. Plan

Done, in this order: `Decks` with its proofs, `Iam` with `LoginSessions`,
`Practice`, `Idempotency`, `Outbox`, `ApiClient`, the practice page, the history
modules, and the proofs of section 5.

Left, in the order of its worth:
1. Exact statements of what a lost update costs: that every deck or session in
   `overwritten` got there by a commit of a copy read before another commit, and that
   the rows are then the view of that copy.
2. Models of the route guard with the atoms that mirror the token store in several
   tabs, and of the `UserDeckProgress` fold against a reference definition, once
   something writes it.
