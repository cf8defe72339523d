------------------------------- MODULE Decks -------------------------------
(***************************************************************************)
(* The decks context: the Deck aggregate, its seven mutating use cases and *)
(* the Postgres rows they write.  Each request runs in one READ COMMITTED  *)
(* transaction of the unit of work: it reads the deck row, then the card   *)
(* rows, applies one operation of the aggregate in memory, writes the deck *)
(* row and the whole card list back, appends its events to the outbox and  *)
(* commits.  Requests of several clients interleave between those steps.   *)
(*                                                                         *)
(* A request's operation and arguments are chosen when they are first      *)
(* used (the two reads do not depend on them).  A request that ends with   *)
(* an error, does nothing, is cancelled or dies with the process is        *)
(* Rollback.                                                               *)
(***************************************************************************)
EXTENDS Integers, FiniteSets, Sequences, SequencesExt

CONSTANTS
  Users,        \* callers; every one may own decks
  DeckIds,      \* ids CreateDeck may generate
  Titles,       \* deck titles that pass validation
  Contents,     \* a card's term and definition, as one value
  Workers,      \* request goroutines
  None,         \* no row, no lock holder, nothing loaded
  MaxCards,     \* MaxCardsPerDeck
  MaxDrafts,    \* bound: initial cards of one CreateDeck
  MaxInFlight,  \* how many requests may overlap; 1 makes them serial
  MaxRequests   \* bound: requests in a behaviour

ASSUME LimitsAssumption ==
  /\ MaxCards \in Nat \ {0}
  /\ MaxDrafts \in 0..MaxCards
  /\ MaxInFlight \in Nat \ {0}
  /\ MaxRequests \in Nat

Row == [owner : Users, title : Titles, deleted : BOOLEAN]
Card == [id : Nat, content : Contents, ordinal : Nat]
Deck == [owner : Users, title : Titles, deleted : BOOLEAN, cards : Seq(Card)]

ASSUME NoneAssumption ==
  /\ None \notin Row
  /\ None \notin Workers
  /\ None \notin [caller : Users, deck : DeckIds]

Event ==
  [type : {"DeckCreated"}, deck : DeckIds, owner : Users, title : Titles,
   cardCount : Nat]
    \cup [type : {"DeckRenamed"}, deck : DeckIds, title : Titles]
    \cup [type : {"DeckDeleted"}, deck : DeckIds]
    \cup [type : {"CardAdded"}, deck : DeckIds, card : Nat,
          content : Contents, ordinal : Nat]
    \cup [type : {"CardEdited"}, deck : DeckIds, card : Nat, content : Contents]
    \cup [type : {"CardRemoved"}, deck : DeckIds, card : Nat]
    \cup [type : {"CardsReordered"}, deck : DeckIds, order : Seq(Nat)]

VARIABLES
  deckRow,   \* decks.decks, committed: deckRow[d] a Row or None
  cardRows,  \* decks.cards, committed: cardRows[d] a set of Cards
  outbox,    \* decks.outbox, committed, in commit order
  lock,      \* lock[d]: the worker holding d's row lock, or None
  pc,        \* where each worker is in its transaction
  req,       \* the request each worker serves: caller and deck
  deck,      \* the aggregate each worker holds in memory
  staged,    \* the events each worker has appended and not yet committed
  minted,    \* the number of card ids generated so far
  begun      \* the number of requests begun so far

db == <<deckRow, cardRows, outbox>>
vars == <<deckRow, cardRows, outbox, lock, pc, req, deck, staged, minted, begun>>

Init ==
  /\ deckRow = [d \in DeckIds |-> None]
  /\ cardRows = [d \in DeckIds |-> {}]
  /\ outbox = <<>>
  /\ lock = [d \in DeckIds |-> None]
  /\ pc = [w \in Workers |-> "idle"]
  /\ req = [w \in Workers |-> None]
  /\ deck = [w \in Workers |-> None]
  /\ staged = [w \in Workers |-> <<>>]
  /\ minted = 0
  /\ begun = 0

InFlight == {w \in Workers : pc[w] # "idle"}

(***************************************************************************)
(* Reading the aggregate.                                                  *)
(***************************************************************************)

\* ORDER BY ordinal ASC.
InOrdinalOrder(rows) ==
  CHOOSE s \in [1..Cardinality(rows) -> rows] :
    \A i, j \in 1..Cardinality(rows) : i < j => s[i].ordinal < s[j].ordinal

Renumbered(cards) ==
  [i \in 1..Len(cards) |-> [cards[i] EXCEPT !.ordinal = i]]

\* Mutant: the card query has lost its ORDER BY.
HydratedUnordered(rows) == Renumbered(SetToSeq(rows))

\* The rows re-fed one by one through AddCard, which numbers them afresh.
Hydrated(rows) == Renumbered(InOrdinalOrder(rows))

Begin(w, caller, d) ==
  /\ pc[w] = "idle"
  /\ Cardinality(InFlight) < MaxInFlight
  /\ begun < MaxRequests
  /\ pc' = [pc EXCEPT ![w] = "began"]
  /\ req' = [req EXCEPT ![w] = [caller |-> caller, deck |-> d]]
  /\ begun' = begun + 1
  /\ UNCHANGED <<db, lock, deck, staged, minted>>

\* First SELECT of ByID; an unknown deck ends the request (Rollback).
ReadDeckRow(w) ==
  /\ pc[w] = "began"
  /\ deckRow[req[w].deck] # None
  /\ LET row == deckRow[req[w].deck]
     IN  deck' = [deck EXCEPT ![w] =
           [owner |-> row.owner, title |-> row.title,
            deleted |-> row.deleted, cards |-> <<>>]]
  /\ pc' = [pc EXCEPT ![w] = "rowRead"]
  /\ UNCHANGED <<db, lock, req, staged, minted, begun>>

\* Second SELECT of ByID: under READ COMMITTED it has a snapshot of its own.
\* AddCard refuses to rebuild a list longer than the limit.
ReadCardRows(w) ==
  /\ pc[w] = "rowRead"
  /\ Cardinality(cardRows[req[w].deck]) <= MaxCards
  /\ deck' = [deck EXCEPT ![w].cards = Hydrated(cardRows[req[w].deck])]
  /\ pc' = [pc EXCEPT ![w] = "loaded"]
  /\ UNCHANGED <<db, lock, req, staged, minted, begun>>

(***************************************************************************)
(* The operations of the aggregate, each followed by Save and Publish.     *)
(***************************************************************************)

\* Mutants: an operation that forgets authorize, or requireAlive.
AuthorizedAnyone(w) == TRUE
AliveUnchecked(w) == TRUE

Authorized(w) == req[w].caller = deck[w].owner
Alive(w) == ~deck[w].deleted
KnownIds(cards) == {cards[i].id : i \in DOMAIN cards}

\* Decks.Save: the upsert takes the row lock of the deck, waiting for the
\* transaction that holds it; everything it writes is invisible to the others
\* until the commit.  The events are appended to the outbox after it.
Save(w, saved, events) ==
  /\ lock[req[w].deck] = None
  /\ lock' = [lock EXCEPT ![req[w].deck] = w]
  /\ deck' = [deck EXCEPT ![w] = saved]
  /\ staged' = [staged EXCEPT ![w] = events]
  /\ pc' = [pc EXCEPT ![w] = "saved"]
  /\ UNCHANGED <<db, req, begun>>

AddCard(w, content) ==
  LET card == [id |-> minted + 1, content |-> content,
               ordinal |-> Len(deck[w].cards) + 1]
  IN  /\ pc[w] = "loaded"
      /\ Authorized(w)
      /\ Alive(w)
      /\ Len(deck[w].cards) < MaxCards
      /\ Save(w, [deck[w] EXCEPT !.cards = Append(@, card)],
              <<[type |-> "CardAdded", deck |-> req[w].deck, card |-> card.id,
                 content |-> content, ordinal |-> card.ordinal]>>)
      /\ minted' = minted + 1

EditCard(w, i, content) ==
  /\ pc[w] = "loaded"
  /\ Authorized(w)
  /\ Alive(w)
  /\ i \in DOMAIN deck[w].cards
  /\ Save(w, [deck[w] EXCEPT !.cards[i].content = content],
          <<[type |-> "CardEdited", deck |-> req[w].deck,
             card |-> deck[w].cards[i].id, content |-> content]>>)
  /\ UNCHANGED minted

\* Mutant: the cards after the removed one keep their ordinals.
WithoutGap(cards, i) == RemoveAt(cards, i)

Without(cards, i) == Renumbered(RemoveAt(cards, i))

IdsOf(cards) == [i \in 1..Len(cards) |-> cards[i].id]

\* CardsReordered follows when cards are left.
RemovalEvents(d, card, left) ==
  <<[type |-> "CardRemoved", deck |-> d, card |-> card]>> \o
  (IF left = <<>> THEN <<>>
   ELSE <<[type |-> "CardsReordered", deck |-> d, order |-> IdsOf(left)]>>)

RemoveCard(w, i) ==
  /\ pc[w] = "loaded"
  /\ Authorized(w)
  /\ Alive(w)
  /\ i \in DOMAIN deck[w].cards
  /\ LET left == Without(deck[w].cards, i)
     IN  Save(w, [deck[w] EXCEPT !.cards = left],
              RemovalEvents(req[w].deck, deck[w].cards[i].id, left))
  /\ UNCHANGED minted

\* The supplied ids are the deck's ids, each exactly once.
IsPermutationOf(order, cards) ==
  /\ Len(order) = Len(cards)
  /\ \A i, j \in 1..Len(order) : order[i] = order[j] => i = j
  /\ \A i \in 1..Len(order) : order[i] \in KnownIds(cards)

CardWithId(cards, id) == CHOOSE c \in ToSet(cards) : c.id = id

Reordered(cards, order) ==
  [i \in 1..Len(order) |-> [CardWithId(cards, order[i]) EXCEPT !.ordinal = i]]

ReorderCards(w, order) ==
  /\ pc[w] = "loaded"
  /\ Authorized(w)
  /\ Alive(w)
  /\ IsPermutationOf(order, deck[w].cards)
  /\ Save(w, [deck[w] EXCEPT !.cards = Reordered(@, order)],
          <<[type |-> "CardsReordered", deck |-> req[w].deck, order |-> order]>>)
  /\ UNCHANGED minted

RenameDeck(w, title) ==
  /\ pc[w] = "loaded"
  /\ Authorized(w)
  /\ Alive(w)
  /\ Save(w, [deck[w] EXCEPT !.title = title],
          <<[type |-> "DeckRenamed", deck |-> req[w].deck, title |-> title]>>)
  /\ UNCHANGED minted

\* A deck already deleted is left as it is (Rollback: nothing was written).
DeleteDeck(w) ==
  /\ pc[w] = "loaded"
  /\ Authorized(w)
  /\ Alive(w)
  /\ Save(w, [deck[w] EXCEPT !.deleted = TRUE],
          <<[type |-> "DeckDeleted", deck |-> req[w].deck]>>)
  /\ UNCHANGED minted

\* An id CreateDeck may be given: no row and no request in flight names it.
FreshDeck(d) ==
  /\ deckRow[d] = None
  /\ \A w \in InFlight : req[w].deck # d

CreationEvents(d, owner, title, cards) ==
  <<[type |-> "DeckCreated", deck |-> d, owner |-> owner, title |-> title,
     cardCount |-> Len(cards)]>> \o
  [i \in 1..Len(cards) |->
     [type |-> "CardAdded", deck |-> d, card |-> cards[i].id,
      content |-> cards[i].content, ordinal |-> cards[i].ordinal]]

\* The drafts become cards one after the other; the new row is visible to
\* nobody before the commit.
CreateDeck(w, caller, d, title, drafts) ==
  LET cards == [i \in 1..Len(drafts) |->
                  [id |-> minted + i, content |-> drafts[i], ordinal |-> i]]
  IN  /\ pc[w] = "idle"
      /\ Cardinality(InFlight) < MaxInFlight
      /\ begun < MaxRequests
      /\ FreshDeck(d)
      /\ Len(drafts) <= MaxCards
      /\ pc' = [pc EXCEPT ![w] = "saved"]
      /\ req' = [req EXCEPT ![w] = [caller |-> caller, deck |-> d]]
      /\ lock' = [lock EXCEPT ![d] = w]
      /\ deck' = [deck EXCEPT ![w] = [owner |-> caller, title |-> title,
                                      deleted |-> FALSE, cards |-> cards]]
      /\ staged' = [staged EXCEPT ![w] = CreationEvents(d, caller, title, cards)]
      /\ minted' = minted + Len(drafts)
      /\ begun' = begun + 1
      /\ UNCHANGED db

(***************************************************************************)
(* The end of a transaction.                                               *)
(***************************************************************************)

\* Mutant: a failing function returns before the transaction is rolled back.
ReleaseLocksNever(w) == lock

ReleaseLocks(w) == [d \in DeckIds |-> IF lock[d] = w THEN None ELSE lock[d]]

End(w) ==
  /\ pc' = [pc EXCEPT ![w] = "idle"]
  /\ req' = [req EXCEPT ![w] = None]
  /\ deck' = [deck EXCEPT ![w] = None]
  /\ staged' = [staged EXCEPT ![w] = <<>>]
  /\ lock' = ReleaseLocks(w)
  /\ UNCHANGED <<minted, begun>>

\* Mutant: the INSERT does not name owner_id.
SavedRowOwnerless(row, saved) ==
  IF row = None
  THEN [title |-> saved.title, deleted |-> saved.deleted]
  ELSE [row EXCEPT !.title = saved.title, !.deleted = saved.deleted]

\* The row Save leaves: an existing one keeps its owner; deleted_at becomes
\* NULL or not as the aggregate says, whatever the row held.
SavedRow(row, saved) ==
  IF row = None
  THEN [owner |-> saved.owner, title |-> saved.title, deleted |-> saved.deleted]
  ELSE [row EXCEPT !.title = saved.title, !.deleted = saved.deleted]

\* The card rows are deleted and inserted again from the aggregate.
Commit(w) ==
  /\ pc[w] = "saved"
  /\ deckRow' = [deckRow EXCEPT ![req[w].deck] = SavedRow(@, deck[w])]
  /\ cardRows' = [cardRows EXCEPT ![req[w].deck] = ToSet(deck[w].cards)]
  /\ outbox' = outbox \o staged[w]
  /\ End(w)

Rollback(w) ==
  /\ pc[w] # "idle"
  /\ UNCHANGED db
  /\ End(w)

Drafts == UNION {[1..n -> Contents] : n \in 0..MaxDrafts}
Orders(n) == [1..n -> 1..minted]

\* One of the six operations on a loaded deck.
Operation(w) ==
  \/ \E content \in Contents : AddCard(w, content)
  \/ \E i \in 1..MaxCards, content \in Contents : EditCard(w, i, content)
  \/ \E i \in 1..MaxCards : RemoveCard(w, i)
  \/ \E n \in 0..MaxCards : \E order \in Orders(n) : ReorderCards(w, order)
  \/ \E title \in Titles : RenameDeck(w, title)
  \/ DeleteDeck(w)

Next ==
  \E w \in Workers :
    \/ \E caller \in Users, d \in DeckIds : Begin(w, caller, d)
    \/ ReadDeckRow(w)
    \/ ReadCardRows(w)
    \/ Operation(w)
    \/ \E caller \in Users, d \in DeckIds, title \in Titles, drafts \in Drafts :
         CreateDeck(w, caller, d, title, drafts)
    \/ Commit(w)
    \/ Rollback(w)

Spec == Init /\ [][Next]_vars

\* An error return every operation makes: no such deck, not its owner, deleted.
Refused(w) ==
  /\ \/ pc[w] = "began" /\ deckRow[req[w].deck] = None
     \/ pc[w] = "loaded" /\ ~(Authorized(w) /\ Alive(w))
  /\ Rollback(w)

\* A live server runs its goroutines on, and Postgres queues the waiters of a
\* row lock, so one that waits gets it: strong fairness for the operation.  No
\* fairness for Rollback as such (a request need not fail) nor for new requests.
Fairness ==
  \A w \in Workers :
    /\ WF_vars(ReadDeckRow(w)) /\ WF_vars(ReadCardRows(w))
    /\ SF_vars(Operation(w)) /\ WF_vars(Commit(w)) /\ WF_vars(Refused(w))

FairSpec == Spec /\ Fairness

-----------------------------------------------------------------------------
(***************************************************************************)
(* Properties.                                                             *)
(***************************************************************************)

TypeOK ==
  /\ deckRow \in [DeckIds -> Row \cup {None}]
  /\ cardRows \in [DeckIds -> SUBSET Card]
  /\ outbox \in Seq(Event)
  /\ lock \in [DeckIds -> Workers \cup {None}]
  /\ pc \in [Workers -> {"idle", "began", "rowRead", "loaded", "saved"}]
  /\ req \in [Workers -> [caller : Users, deck : DeckIds] \cup {None}]
  /\ deck \in [Workers -> Deck \cup {None}]
  /\ staged \in [Workers -> Seq(Event)]
  /\ minted \in Nat
  /\ begun \in Nat

\* Whatever transactions overlap, the committed cards of a deck are numbered
\* 1..N without gap or repetition, N is within the limit and no card is there
\* twice (Deck.AddCard, RemoveCard, ReorderCards; Decks.Save).
CardListsWellFormed ==
  \A d \in DeckIds :
    LET n == Cardinality(cardRows[d])
    IN  /\ {c.ordinal : c \in cardRows[d]} = 1..n
        /\ n <= MaxCards
        /\ Cardinality({c.id : c \in cardRows[d]}) = n

Touched(d) == deckRow'[d] # deckRow[d] \/ cardRows'[d] # cardRows[d]

\* Every deck stored before the step and changed by it is changed by the commit
\* of its owner's request, and keeps its owner.
OwnerCommits ==
  \A d \in DeckIds : deckRow[d] # None /\ Touched(d) =>
    /\ deckRow'[d].owner = deckRow[d].owner
    /\ \E w \in Workers : /\ pc[w] = "saved" /\ pc'[w] = "idle"
                          /\ req[w] = [caller |-> deckRow[d].owner, deck |-> d]

\* A stored deck changes only by the commit of a request its owner sent, and
\* keeps its owner (Deck.authorize, evaluated on rows read earlier; the upsert).
OnlyOwnerWrites == [][OwnerCommits]_vars

\* A deleted deck is never written again (Deck.requireAlive).
DeleteIsTerminal ==
  [][\A d \in DeckIds : (deckRow[d] # None /\ deckRow[d].deleted) => ~Touched(d)]_vars

\* The deck a consumer of the outbox rebuilds: each event applied in turn.
Applied(state, e) ==
  CASE e.type = "DeckCreated" -> [title |-> e.title, deleted |-> FALSE, cards |-> <<>>]
    [] e.type = "DeckRenamed" -> [state EXCEPT !.title = e.title]
    [] e.type = "DeckDeleted" -> [state EXCEPT !.deleted = TRUE]
    [] e.type = "CardAdded" ->
         [state EXCEPT !.cards = Append(@, [id |-> e.card, content |-> e.content])]
    [] e.type = "CardEdited" ->
         [state EXCEPT !.cards = [i \in DOMAIN @ |->
            IF @[i].id = e.card THEN [@[i] EXCEPT !.content = e.content] ELSE @[i]]]
    [] e.type = "CardRemoved" ->
         [state EXCEPT !.cards = RemoveAt(@, CHOOSE i \in DOMAIN @ : @[i].id = e.card)]
    [] e.type = "CardsReordered" ->
         [state EXCEPT !.cards = [i \in DOMAIN e.order |->
            CHOOSE c \in ToSet(@) : c.id = e.order[i]]]

Followed(d, state, e) == IF e.deck = d THEN Applied(state, e) ELSE state
Replay(d, events) == FoldLeft(LAMBDA state, e : Followed(d, state, e), None, events)
Replayed(d) == Replay(d, outbox)

Stored(d) ==
  LET cards == InOrdinalOrder(cardRows[d])
  IN  [title |-> deckRow[d].title, deleted |-> deckRow[d].deleted,
       cards |-> [i \in DOMAIN cards |-> [id |-> cards[i].id,
                                          content |-> cards[i].content]]]

\* Every transaction ends: no request waits forever for the row lock of a deck,
\* whichever of the others fail on the way (UnitOfWork.Do, Decks.Save).
TransactionsEnd == \A w \in Workers : pc[w] # "idle" ~> pc[w] = "idle"
=============================================================================
