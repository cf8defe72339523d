------------------------------- MODULE Outbox -------------------------------
(***************************************************************************)
(* One context's outbox.  A use case appends an event at the end of its    *)
(* transaction, under the locks of the rows it has written: a deck, a      *)
(* session, a user, some refresh tokens, or none at all, as when a logout  *)
(* is repeated and RevokeFamily finds nothing to revoke.  It runs the      *)
(* in-process subscribers right there, before the commit.                  *)
(* The dispatcher wakes up now and then, fetches a batch of undispatched   *)
(* rows by id, forwards each to the bus and marks it; the first failure    *)
(* ends the round.  Ids come from a sequence: they are taken when a row is *)
(* appended, so transactions may commit out of id order.                   *)
(*                                                                         *)
(* main.go subscribes nobody to the bus, so running the subscribers has no *)
(* effect but that an error of theirs would fail the use case.             *)
(***************************************************************************)
EXTENDS Integers, FiniteSets, Sequences, SequencesExt

CONSTANTS
  Locks,       \* the rows that use cases write and so lock
  Workers,     \* request goroutines
  BatchSize,   \* the dispatcher's limit per round
  MaxEvents    \* bound: rows appended in a behaviour

ASSUME BoundsAssumption == BatchSize \in Nat \ {0} /\ MaxEvents \in Nat

Ids == 1..MaxEvents

VARIABLES
  status,      \* status[id]: "unused", "pending", "stored" or "aborted"
  under,       \* under[id]: the locks under which row id was appended
  committed,   \* the stored rows in commit order
  dispatched,  \* the rows with a dispatched_at
  next,        \* the last id taken from the sequence
  holds,       \* holds[w]: the locks of w's transaction
  mine,        \* mine[w]: the ids w has appended, uncommitted
  batch,       \* the fetched rows the dispatcher has yet to mark
  sent,        \* whether the first of them has been forwarded
  forwarded    \* the rows the dispatcher has forwarded, by first time

vars == <<status, under, committed, dispatched, next, holds, mine, batch, sent, forwarded>>
box == <<status, under, committed, next>>
round == <<batch, sent>>

Init ==
  /\ status = [id \in Ids |-> "unused"]
  /\ under = [id \in Ids |-> {}]
  /\ committed = <<>>
  /\ dispatched = {}
  /\ next = 0
  /\ holds = [w \in Workers |-> {}]
  /\ mine = [w \in Workers |-> <<>>]
  /\ batch = <<>>
  /\ sent = FALSE
  /\ forwarded = <<>>

(***************************************************************************)
(* The publishing side.                                                    *)
(***************************************************************************)

\* The use case writes a row, waiting for the transaction that has its lock.
Save(w, l) ==
  /\ mine[w] = <<>>
  /\ \A v \in Workers : l \notin holds[v]
  /\ holds' = [holds EXCEPT ![w] = @ \cup {l}]
  /\ UNCHANGED <<box, dispatched, mine, round, forwarded>>

\* Publish appends one row per event, whatever the transaction has written: an
\* UPDATE that matched no row has locked none.
Publish(w) ==
  /\ next < MaxEvents
  /\ next' = next + 1
  /\ status' = [status EXCEPT ![next'] = "pending"]
  /\ under' = [under EXCEPT ![next'] = holds[w]]
  /\ mine' = [mine EXCEPT ![w] = Append(@, next')]
  /\ UNCHANGED <<committed, dispatched, holds, round, forwarded>>

Resolved(w, outcome) ==
  [id \in Ids |-> IF \E i \in DOMAIN mine[w] : mine[w][i] = id THEN outcome ELSE status[id]]

\* w has written or published something.
InTransaction(w) == holds[w] # {} \/ mine[w] # <<>>

Commit(w) ==
  /\ InTransaction(w)
  /\ status' = Resolved(w, "stored")
  /\ committed' = committed \o mine[w]
  /\ holds' = [holds EXCEPT ![w] = {}]
  /\ mine' = [mine EXCEPT ![w] = <<>>]
  /\ UNCHANGED <<under, next, dispatched, round, forwarded>>

\* An error after the append, a subscriber's error, a failing commit, a crash.
Rollback(w) ==
  /\ InTransaction(w)
  /\ status' = Resolved(w, "aborted")
  /\ holds' = [holds EXCEPT ![w] = {}]
  /\ mine' = [mine EXCEPT ![w] = <<>>]
  /\ UNCHANGED <<under, committed, next, dispatched, round, forwarded>>

\* GenerateDeckWithAI publishes without a transaction: each row is stored as it
\* is appended, under no lock that lasts.
PublishOutsideTx ==
  /\ next < MaxEvents
  /\ next' = next + 1
  /\ status' = [status EXCEPT ![next'] = "stored"]
  /\ committed' = Append(committed, next')
  /\ UNCHANGED <<under, dispatched, holds, mine, round, forwarded>>

(***************************************************************************)
(* The dispatcher.                                                         *)
(***************************************************************************)

\* Mutant: a cursor, only rows after the newest one dispatched.
UndispatchedAfterCursor ==
  {id \in Ids : status[id] = "stored" /\ \A d \in dispatched : d < id}

\* dispatched_at IS NULL.
Undispatched == {id \in Ids : status[id] = "stored" /\ id \notin dispatched}

\* Mutants: without the limit; newest first.
FirstOf(ids, n) == SetToSortSeq(ids, <)
NewestOf(ids, n) ==
  LET s == SetToSortSeq(ids, >) IN SubSeq(s, 1, IF Len(s) < n THEN Len(s) ELSE n)

\* ORDER BY id ASC LIMIT n: n rows, or all, in the order of their ids, and no row
\* left out before one of them.
Fetched(ids, n) ==
  LET size == IF Cardinality(ids) < n THEN Cardinality(ids) ELSE n
  IN  CHOOSE s \in [1..size -> ids] :
        /\ \A i, j \in 1..size : i < j => s[i] < s[j]
        /\ \A id \in ids : \/ \E i \in 1..size : s[i] = id
                           \/ \A i \in 1..size : s[i] < id

Fetch ==
  /\ batch = <<>>
  /\ Undispatched # {}
  /\ batch' = Fetched(Undispatched, BatchSize)
  /\ sent' = FALSE
  /\ UNCHANGED <<box, dispatched, holds, mine, forwarded>>

Forward ==
  /\ batch # <<>> /\ ~sent
  /\ sent' = TRUE
  /\ forwarded' = IF Head(batch) \in ToSet(forwarded) THEN forwarded
                  ELSE Append(forwarded, Head(batch))
  /\ UNCHANGED <<box, dispatched, holds, mine, batch>>

\* Mutant: the whole batch at once, after its first row.
MarkedBatch(b) == ToSet(b)

\* MarkDispatched, one row.
Marked(b) == {Head(b)}

Mark ==
  /\ batch # <<>> /\ sent
  /\ dispatched' = dispatched \cup Marked(batch)
  /\ batch' = Tail(batch)
  /\ sent' = FALSE
  /\ UNCHANGED <<box, holds, mine, forwarded>>

\* Forward or MarkDispatched fails, or the process dies: the round is over.
StopRound ==
  /\ batch # <<>>
  /\ batch' = <<>>
  /\ sent' = FALSE
  /\ UNCHANGED <<box, dispatched, holds, mine, forwarded>>

Next ==
  \/ \E w \in Workers :
       \/ \E l \in Locks : Save(w, l)
       \/ Publish(w) \/ Commit(w) \/ Rollback(w)
  \/ PublishOutsideTx
  \/ Fetch \/ Forward \/ Mark \/ StopRound

Spec == Init /\ [][Next]_vars

\* The ticker fires for ever and a round goes on unless something fails; a row
\* can be forwarded and marked in the end, although not at every attempt.
Fairness == WF_vars(Fetch) /\ SF_vars(Forward) /\ SF_vars(Mark)
FairSpec == Spec /\ Fairness

-----------------------------------------------------------------------------
(***************************************************************************)
(* Properties.                                                             *)
(***************************************************************************)

TypeOK ==
  /\ status \in [Ids -> {"unused", "pending", "stored", "aborted"}]
  /\ under \in [Ids -> SUBSET Locks]
  /\ committed \in Seq(Ids) /\ forwarded \in Seq(Ids) /\ batch \in Seq(Ids)
  /\ Len(batch) <= BatchSize
  /\ dispatched \subseteq Ids
  /\ next \in 0..MaxEvents
  /\ holds \in [Workers -> SUBSET Locks]
  /\ mine \in [Workers -> Seq(Ids)]
  /\ sent \in BOOLEAN

\* A row is marked only after it was forwarded, whatever rounds broke off.
MarkedWasForwarded == dispatched \subseteq ToSet(forwarded)

\* The rows x and y were appended under a common lock: two events of one deck or
\* of one session, or the issue and the revocation of one refresh token.
Serialized(x, y) == under[x] \cap under[y] # {}

\* A row is forwarded only when it is committed and every row committed before it
\* and appended under a common lock has been forwarded: between such rows the
\* dispatcher keeps the order of the commits and skips none, although ids of
\* different transactions commit out of order (a row lock is held from the write
\* to the commit; ORDER BY id).  Events about one token family need not share a
\* lock, and between those nothing is claimed.
ForwardedInCommitOrder ==
  \A j \in DOMAIN forwarded :
    \E i \in DOMAIN committed :
      /\ committed[i] = forwarded[j]
      /\ \A k \in 1..(i - 1) : Serialized(committed[k], committed[i]) =>
           \E l \in 1..(j - 1) : forwarded[l] = committed[k]

\* Every committed event is dispatched in the end.
EveryEventDispatched ==
  \A id \in Ids : status[id] = "stored" ~> id \in dispatched
=============================================================================
