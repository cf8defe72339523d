---------------------------- MODULE DecksProofs ----------------------------
(***************************************************************************)
(* Proofs about Decks: type correctness, the shape of every committed card *)
(* list and the ownership of every write, for any number of users, decks,  *)
(* overlapping requests and cards; and about DecksHistory: that the rows   *)
(* are what the outbox adds up to, and deletion final, unless an outdated  *)
(* copy was saved.                                                         *)
(***************************************************************************)
EXTENDS DecksHistory, FiniteSetTheorems, SequenceTheorems, WellFoundedInduction, TLAPS

\* A card list as the aggregate keeps it: ordinals are positions, ids distinct.
Dense(cards) ==
  /\ cards \in Seq(Card)
  /\ Len(cards) <= MaxCards
  /\ \A i \in 1..Len(cards) : cards[i].ordinal = i
  /\ \A i, j \in 1..Len(cards) : cards[i].id = cards[j].id => i = j

\* A set of rows that lists such a sequence.
DenseRows(rows) == \E s : Dense(s) /\ rows = ToSet(s)

-----------------------------------------------------------------------------
(* The operators on card lists. *)

\* A dense list and its set of rows have the same size.
LEMMA DenseCardinality ==
  ASSUME NEW s, Dense(s)
  PROVE  /\ IsFiniteSet(ToSet(s))
         /\ Cardinality(ToSet(s)) = Len(s)
<1>0. DOMAIN s = 1..Len(s) /\ \A i \in 1..Len(s) : s[i] \in Card
  BY DEF Dense
<1>1. s \in Bijection(1..Len(s), ToSet(s))
  <2>1. s \in [1..Len(s) -> ToSet(s)]
    BY <1>0 DEF Dense, ToSet
  <2>2. \A i, j \in 1..Len(s) : s[i] = s[j] => i = j
    BY DEF Dense
  <2>3. \A t \in ToSet(s) : \E i \in 1..Len(s) : s[i] = t
    BY <1>0 DEF ToSet
  <2> QED
    BY <1>0, <2>1, <2>2, <2>3 DEF Bijection, Injection, Surjection, IsInjective
<1>2. ExistsBijection(1..Len(s), ToSet(s))
  BY <1>1 DEF ExistsBijection
<1>3. Len(s) \in Nat
  BY DEF Dense
<1>4. IsFiniteSet(1..Len(s)) /\ Cardinality(1..Len(s)) = Len(s)
  <2>1. 1 \in Int /\ Len(s) \in Int
    BY <1>3
  <2>2. /\ IsFiniteSet(1..Len(s))
        /\ Cardinality(1..Len(s)) = IF 1 > Len(s) THEN 0 ELSE Len(s) - 1 + 1
    BY <2>1, FS_Interval, Zenon
  <2>3. Len(s) = IF 1 > Len(s) THEN 0 ELSE Len(s) - 1 + 1
    BY <1>3
  <2> QED
    BY <2>2, <2>3
<1> QED
  BY <1>2, <1>4, FS_Bijection

\* Renumbering keeps everything of a card but its ordinal.
LEMMA RenumberedCards ==
  ASSUME NEW s \in Seq(Card)
  PROVE  /\ Renumbered(s) \in Seq(Card)
         /\ Len(Renumbered(s)) = Len(s)
         /\ \A i \in 1..Len(s) : /\ Renumbered(s)[i].ordinal = i
                                /\ Renumbered(s)[i].id = s[i].id
<1> DEFINE r(i) == [s[i] EXCEPT !.ordinal = i]
<1>1. Len(s) \in Nat /\ \A i \in 1..Len(s) : i \in Nat /\ s[i] \in Card
  OBVIOUS
<1>2. \A i \in 1..Len(s) : r(i) \in Card /\ r(i).ordinal = i /\ r(i).id = s[i].id
  <2> TAKE i \in 1..Len(s)
  <2>1. [s[i] EXCEPT !.ordinal = i] \in Card
    BY <1>1 DEF Card
  <2>2. [s[i] EXCEPT !.ordinal = i].ordinal = i
    BY <1>1 DEF Card
  <2>3. [s[i] EXCEPT !.ordinal = i].id = s[i].id
    BY <1>1 DEF Card
  <2> QED
    BY <2>1, <2>2, <2>3
<1> HIDE DEF r
<1>3. [i \in 1..Len(s) |-> r(i)] \in [1..Len(s) -> Card]
  BY <1>2
<1>4. Renumbered(s) = [i \in 1..Len(s) |-> r(i)]
  BY DEF Renumbered, r
<1> QED
  BY <1>1, <1>2, <1>3, <1>4

\* Reading rows that list a dense sequence gives a dense sequence of those rows.
LEMMA HydratedDense ==
  ASSUME NEW rows, DenseRows(rows)
  PROVE  /\ Dense(Hydrated(rows))
         /\ \A c \in ToSet(Hydrated(rows)) : \E r \in rows : r.id = c.id
<1>1. PICK s : Dense(s) /\ rows = ToSet(s)
  BY DEF DenseRows
<1> DEFINE n == Cardinality(rows)
           h == InOrdinalOrder(rows)
<1>2. n = Len(s) /\ n \in Nat
  BY <1>1, DenseCardinality DEF Dense
<1>0. DOMAIN s = 1..Len(s) /\ \A i \in 1..Len(s) : s[i] \in Card
  BY <1>1 DEF Dense
<1>3. s \in [1..n -> rows]
  <2>1. s \in [1..n -> Card]
    BY <1>1, <1>2, LenProperties DEF Dense
  <2> QED
    BY <1>0, <1>1, <1>2, <2>1 DEF ToSet
<1>4. \A i, j \in 1..n : i < j => s[i].ordinal < s[j].ordinal
  BY <1>1, <1>2 DEF Dense
<1>5. /\ h \in [1..n -> rows]
      /\ \A i, j \in 1..n : i < j => h[i].ordinal < h[j].ordinal
  BY <1>3, <1>4 DEF InOrdinalOrder
<1>6. rows \subseteq Card
  BY <1>1 DEF Dense, ToSet
<1>7. \A a, b \in rows : a.id = b.id => a = b
  BY <1>1 DEF Dense, ToSet
<1>8. h \in Seq(Card) /\ Len(h) = n
  BY <1>2, <1>5, <1>6
<1>9. \A i, j \in 1..n : h[i].id = h[j].id => i = j
  <2>1. SUFFICES ASSUME NEW i \in 1..n, NEW j \in 1..n, h[i].id = h[j].id, i < j
                 PROVE  FALSE
    BY <1>2
  <2>2. h[i] = h[j]
    BY <1>5, <1>7, <2>1
  <2>3. h[i].ordinal < h[j].ordinal /\ h[i].ordinal \in Nat
    BY <1>5, <1>6, <2>1 DEF Card
  <2> QED
    BY <2>2, <2>3
<1>10. /\ Hydrated(rows) \in Seq(Card)
       /\ Len(Hydrated(rows)) = n
       /\ \A i \in 1..n : /\ Hydrated(rows)[i].ordinal = i
                          /\ Hydrated(rows)[i].id = h[i].id
  BY <1>2, <1>8, RenumberedCards DEF Hydrated
<1>11. Dense(Hydrated(rows))
  BY <1>1, <1>2, <1>9, <1>10 DEF Dense
<1>12. \A c \in ToSet(Hydrated(rows)) : \E r \in rows : r.id = c.id
  BY <1>5, <1>10 DEF ToSet
<1> QED
  BY <1>11, <1>12

\* AddCard: a card with a new id at the end.
LEMMA AppendDense ==
  ASSUME NEW s, Dense(s), Len(s) < MaxCards, NEW card \in Card,
         card.ordinal = Len(s) + 1,
         \A i \in 1..Len(s) : s[i].id # card.id
  PROVE  Dense(Append(s, card))
<1>1. /\ Append(s, card) \in Seq(Card)
      /\ Len(Append(s, card)) = Len(s) + 1
      /\ Append(s, card)[Len(s) + 1] = card
      /\ \A i \in 1..Len(s) : Append(s, card)[i] = s[i]
  BY DEF Dense
<1>2. Len(s) \in Nat /\ MaxCards \in Nat
  BY LimitsAssumption DEF Dense
<1> QED
  BY <1>1, <1>2 DEF Dense

\* EditCard: the same ids and ordinals.
LEMMA EditDense ==
  ASSUME NEW s, Dense(s), NEW i \in DOMAIN s, NEW content \in Contents
  PROVE  /\ Dense([s EXCEPT ![i].content = content])
         /\ \A j \in 1..Len(s) : [s EXCEPT ![i].content = content][j].id = s[j].id
<1> DEFINE t == [s EXCEPT ![i].content = content]
<1>1. s \in Seq(Card) /\ i \in 1..Len(s)
  BY DEF Dense
<1>2. [s[i] EXCEPT !.content = content] \in Card
  <2>1. s[i] \in Card
    BY <1>1
  <2> QED
    BY <2>1 DEF Card
<1>3. /\ t \in Seq(Card)
      /\ Len(t) = Len(s)
      /\ \A j \in 1..Len(s) :
           t[j] = IF j = i THEN [s[i] EXCEPT !.content = content] ELSE s[j]
  BY <1>1, <1>2, ExceptSeq
<1>4. \A j \in 1..Len(s) : t[j].id = s[j].id /\ t[j].ordinal = s[j].ordinal
  BY <1>1, <1>3 DEF Card
<1> QED
  BY <1>3, <1>4 DEF Dense

\* Removing the i-th element: what follows it moves up by one.
LEMMA RemoveAtSeq ==
  ASSUME NEW S, NEW s \in Seq(S), NEW i \in 1..Len(s)
  PROVE  /\ RemoveAt(s, i) \in Seq(S)
         /\ Len(RemoveAt(s, i)) = Len(s) - 1
         /\ \A j \in 1..Len(s)-1 : j < i => RemoveAt(s, i)[j] = s[j]
         /\ \A j \in 1..Len(s)-1 : i <= j => RemoveAt(s, i)[j] = s[j+1]
<1>1. Len(s) \in Nat
  OBVIOUS
<1>2. PICK a \in Seq(S) : /\ a = SubSeq(s, 1, i-1)
                          /\ Len(a) = i - 1
                          /\ \A j \in 1..i-1 : a[j] = s[j]
  <2> DEFINE a == SubSeq(s, 1, i-1)
  <2>1. \A j \in 1..i-1 : s[j] \in S
    BY <1>1
  <2>2. /\ a \in Seq(S)
        /\ Len(a) = IF 1 <= i-1 THEN (i-1)-1+1 ELSE 0
        /\ \A j \in 1..(i-1)-1+1 : a[j] = s[1+j-1]
    BY <1>1, <2>1, SubSeqProperties
  <2> HIDE DEF a
  <2>3. Len(a) = i - 1 /\ (i-1)-1+1 = i-1 /\ \A j \in 1..i-1 : 1+j-1 = j
    BY <1>1, <2>2
  <2>4. \A j \in 1..i-1 : a[j] = s[j]
    BY <2>2, <2>3
  <2> QED
    BY <2>2, <2>3, <2>4 DEF a
<1>3. PICK b \in Seq(S) : /\ b = SubSeq(s, i+1, Len(s))
                          /\ Len(b) = Len(s) - i
                          /\ \A j \in 1..Len(s)-i : b[j] = s[j+i]
  <2> DEFINE b == SubSeq(s, i+1, Len(s))
  <2>1. \A j \in i+1..Len(s) : s[j] \in S
    BY <1>1
  <2>2. /\ b \in Seq(S)
        /\ Len(b) = IF i+1 <= Len(s) THEN Len(s)-(i+1)+1 ELSE 0
        /\ \A j \in 1..Len(s)-(i+1)+1 : b[j] = s[(i+1)+j-1]
    BY <1>1, <2>1, SubSeqProperties
  <2> HIDE DEF b
  <2>3. Len(b) = Len(s) - i
    BY <1>1, <2>2
  <2>4. \A j \in 1..Len(s)-i : b[j] = s[j+i]
    <3>1. \A j \in 1..Len(s)-i : (i+1)+j-1 = j+i
      BY <1>1
    <3>2. Len(s)-(i+1)+1 = Len(s)-i
      BY <1>1
    <3> QED
      BY <2>2, <3>1, <3>2
  <2> QED
    BY <2>2, <2>3, <2>4 DEF b
<1>4. RemoveAt(s, i) = a \o b
  BY <1>2, <1>3 DEF RemoveAt
<1>5. /\ a \o b \in Seq(S)
      /\ Len(a \o b) = Len(a) + Len(b)
      /\ \A j \in 1..Len(a) + Len(b) :
           (a \o b)[j] = IF j <= Len(a) THEN a[j] ELSE b[j - Len(a)]
  BY ConcatProperties
<1>6. Len(a) + Len(b) = Len(s) - 1
  <2>1. Len(a) = i - 1
    BY <1>2
  <2>2. Len(b) = Len(s) - i
    BY <1>3
  <2> QED
    BY <1>1, <2>1, <2>2
<1>7. ASSUME NEW j \in 1..Len(s)-1, j < i
      PROVE  (a \o b)[j] = s[j]
  BY <1>1, <1>2, <1>5, <1>6, <1>7
<1>8. ASSUME NEW j \in 1..Len(s)-1, i <= j
      PROVE  (a \o b)[j] = s[j+1]
  <2>1. (a \o b)[j] = b[j - (i-1)]
    BY <1>1, <1>2, <1>5, <1>6, <1>8
  <2>2. j - (i-1) \in 1..Len(s)-i /\ (j - (i-1)) + i = j + 1
    BY <1>1, <1>8
  <2> QED
    BY <1>3, <2>1, <2>2
<1> QED
  BY <1>4, <1>5, <1>6, <1>7, <1>8

\* RemoveCard: the ids left are ids that were there.
LEMMA WithoutDense ==
  ASSUME NEW s, Dense(s), NEW i \in DOMAIN s
  PROVE  /\ Dense(Without(s, i))
         /\ \A j \in 1..Len(Without(s, i)) :
              \E k \in 1..Len(s) : Without(s, i)[j].id = s[k].id
<1> DEFINE n == Len(s) - 1
           old(j) == IF j < i THEN j ELSE j + 1
<1>1. s \in Seq(Card) /\ i \in 1..Len(s) /\ Len(s) \in Nat /\ n \in Nat
  BY DEF Dense
<1>2. /\ RemoveAt(s, i) \in Seq(Card)
      /\ Len(RemoveAt(s, i)) = n
      /\ \A j \in 1..n : RemoveAt(s, i)[j] = s[old(j)]
  BY <1>1, RemoveAtSeq
<1>3. /\ Without(s, i) \in Seq(Card)
      /\ Len(Without(s, i)) = n
      /\ \A j \in 1..n : /\ Without(s, i)[j].ordinal = j
                        /\ Without(s, i)[j].id = s[old(j)].id
  BY <1>1, <1>2, RenumberedCards DEF Without
<1>4. \A j \in 1..n : old(j) \in 1..Len(s)
  BY <1>1
<1>5. \A j, k \in 1..n : old(j) = old(k) => j = k
  BY <1>1
<1>6. n <= MaxCards
  BY <1>1, LimitsAssumption DEF Dense
<1> HIDE DEF n, old
<1>7. \A j, k \in 1..n : Without(s, i)[j].id = Without(s, i)[k].id => j = k
  BY <1>3, <1>4, <1>5 DEF Dense
<1> QED
  BY <1>3, <1>4, <1>6, <1>7 DEF Dense

\* ReorderCards: every card keeps its id, and the positions are renumbered.
LEMMA ReorderedDense ==
  ASSUME NEW s, Dense(s), NEW order \in Seq(Nat), IsPermutationOf(order, s)
  PROVE  /\ Dense(Reordered(s, order))
         /\ \A i \in 1..Len(Reordered(s, order)) :
              \E k \in 1..Len(s) : Reordered(s, order)[i].id = s[k].id
<1> DEFINE pick(i) == CardWithId(s, order[i])
           r(i) == [pick(i) EXCEPT !.ordinal = i]
<1>1. s \in Seq(Card) /\ Len(s) \in Nat /\ DOMAIN s = 1..Len(s)
  BY DEF Dense
<1>0. /\ Len(order) = Len(s)
      /\ \A i, j \in 1..Len(order) : order[i] = order[j] => i = j
      /\ \A i \in 1..Len(order) : \E k \in 1..Len(s) : order[i] = s[k].id
  BY <1>1 DEF IsPermutationOf, KnownIds
<1>2. \A i \in 1..Len(s) : pick(i) \in Card /\ pick(i).id = order[i]
  <2> SUFFICES ASSUME NEW i \in 1..Len(s)
               PROVE  pick(i) \in Card /\ pick(i).id = order[i]
    OBVIOUS
  <2>1. PICK k \in 1..Len(s) : order[i] = s[k].id
    BY <1>0
  <2>2. s[k] \in ToSet(s) /\ s[k].id = order[i]
    BY <1>1, <2>1 DEF ToSet
  <2>3. pick(i) \in ToSet(s) /\ pick(i).id = order[i]
    BY <2>2 DEF CardWithId
  <2> QED
    BY <1>1, <2>3 DEF ToSet
<1> HIDE DEF pick
<1>3. \A i \in 1..Len(s) : r(i) \in Card /\ r(i).ordinal = i /\ r(i).id = order[i]
  <2> SUFFICES ASSUME NEW i \in 1..Len(s)
               PROVE  r(i) \in Card /\ r(i).ordinal = i /\ r(i).id = order[i]
    OBVIOUS
  <2>1. i \in Nat /\ pick(i) \in Card /\ pick(i).id = order[i]
    BY <1>1, <1>2
  <2>2. [pick(i) EXCEPT !.ordinal = i] \in Card
    BY <2>1 DEF Card
  <2>3. [pick(i) EXCEPT !.ordinal = i].ordinal = i
    BY <2>1 DEF Card
  <2>4. [pick(i) EXCEPT !.ordinal = i].id = order[i]
    BY <2>1 DEF Card
  <2> QED
    BY <2>2, <2>3, <2>4
<1> HIDE DEF r
<1>4. Reordered(s, order) = [i \in 1..Len(s) |-> r(i)]
  BY <1>0 DEF Reordered, r, pick
<1>5. /\ Reordered(s, order) \in Seq(Card)
      /\ Len(Reordered(s, order)) = Len(s)
      /\ \A i \in 1..Len(s) : Reordered(s, order)[i] = r(i)
  BY <1>1, <1>3, <1>4
<1> DEFINE t == Reordered(s, order)
<1> HIDE DEF t
<1>6. /\ t \in Seq(Card)
      /\ Len(t) = Len(s)
      /\ \A i \in 1..Len(s) : t[i].ordinal = i /\ t[i].id = order[i]
  BY <1>3, <1>5 DEF t
<1>7. \A i, j \in 1..Len(s) : t[i].id = t[j].id => i = j
  <2> SUFFICES ASSUME NEW i \in 1..Len(s), NEW j \in 1..Len(s), t[i].id = t[j].id
               PROVE  i = j
    OBVIOUS
  <2>1. order[i] = order[j]
    BY <1>6
  <2> QED
    BY <1>0, <2>1
<1>8. Dense(t)
  BY <1>6, <1>7 DEF Dense
<1>9. \A i \in 1..Len(t) : \E k \in 1..Len(s) : t[i].id = s[k].id
  <2> SUFFICES ASSUME NEW i \in 1..Len(t)
               PROVE  \E k \in 1..Len(s) : t[i].id = s[k].id
    OBVIOUS
  <2>1. i \in 1..Len(order)
    BY <1>0, <1>6
  <2>2. PICK k \in 1..Len(s) : order[i] = s[k].id
    BY <1>0, <2>1
  <2> QED
    BY <1>6, <2>1, <2>2
<1> QED
  BY <1>8, <1>9 DEF t

\* CreateDeck: the drafts become cards with consecutive new ids.
LEMMA DraftsDense ==
  ASSUME NEW drafts \in Seq(Contents), Len(drafts) <= MaxCards, NEW base \in Nat,
         NEW cards,
         cards = [i \in 1..Len(drafts) |->
                    [id |-> base + i, content |-> drafts[i], ordinal |-> i]]
  PROVE  /\ Dense(cards)
         /\ Len(cards) = Len(drafts)
         /\ \A i \in 1..Len(cards) : cards[i].id <= base + Len(drafts)
<1>1. Len(drafts) \in Nat /\ \A i \in 1..Len(drafts) : drafts[i] \in Contents
  OBVIOUS
<1>2. \A i \in 1..Len(drafts) :
        [id |-> base + i, content |-> drafts[i], ordinal |-> i] \in Card
  BY <1>1 DEF Card
<1>3. cards \in Seq(Card) /\ Len(cards) = Len(drafts)
  BY <1>1, <1>2
<1>4. \A i \in 1..Len(drafts) : cards[i].id = base + i /\ cards[i].ordinal = i
  OBVIOUS
<1>5. \A i, j \in 1..Len(drafts) : base + i = base + j => i = j
  BY <1>1
<1>6. \A i \in 1..Len(drafts) : base + i <= base + Len(drafts)
  BY <1>1
<1>7. \A i, j \in 1..Len(drafts) : cards[i].id = cards[j].id => i = j
  BY <1>4, <1>5
<1>8. Dense(cards)
  BY <1>3, <1>4, <1>7 DEF Dense
<1> QED
  BY <1>3, <1>4, <1>6, <1>8

-----------------------------------------------------------------------------
(***************************************************************************)
(* The inductive invariant.                                                *)
(***************************************************************************)

IdsUpTo(cards, n) == \A i \in 1..Len(cards) : cards[i].id <= n

\* The committed card lists are dense and use ids generated so far.
RowsInv ==
  \A d \in DeckIds : /\ DenseRows(cardRows[d])
                     /\ \A c \in cardRows[d] : c.id <= minted

\* A loaded aggregate is dense, and it belongs to the owner of its row: rows
\* never change owner, so a stale copy authorises no one else.  A worker that
\* has saved holds the row lock, so of two that create or write a deck one
\* commits before the other saves.
WorkerInv(w) ==
  /\ pc[w] # "idle" => req[w] \in [caller : Users, deck : DeckIds]
  /\ pc[w] \in {"rowRead", "loaded"} =>
       /\ deck[w] \in Deck
       /\ deckRow[req[w].deck] # None
       /\ deckRow[req[w].deck].owner = deck[w].owner
  /\ pc[w] = "loaded" => Dense(deck[w].cards) /\ IdsUpTo(deck[w].cards, minted)
  /\ pc[w] = "saved" =>
       /\ deck[w] \in Deck
       /\ Dense(deck[w].cards) /\ IdsUpTo(deck[w].cards, minted)
       /\ lock[req[w].deck] = w
       /\ req[w].caller = deck[w].owner
       /\ deckRow[req[w].deck] # None =>
            deckRow[req[w].deck].owner = deck[w].owner

IInv == TypeOK /\ RowsInv /\ \A w \in Workers : WorkerInv(w)

\* The invariant holds initially.
LEMMA InitIInv == Init => IInv
<1> SUFFICES ASSUME Init PROVE IInv
  OBVIOUS
<1>1. TypeOK
  BY DEF Init, TypeOK
<1>2. Dense(<<>>) /\ ToSet(<<>>) = {}
  BY LimitsAssumption DEF Dense, ToSet
<1>3. DenseRows({})
  BY <1>2 DEF DenseRows
<1>4. RowsInv
  BY <1>3 DEF Init, RowsInv
<1>5. \A w \in Workers : WorkerInv(w)
  BY DEF Init, WorkerInv
<1> QED
  BY <1>1, <1>4, <1>5 DEF IInv

\* Begin preserves the invariant.
LEMMA BeginIInv ==
  ASSUME IInv, NEW w \in Workers, NEW caller \in Users, NEW d \in DeckIds,
         Begin(w, caller, d)
  PROVE  IInv'
<1> USE DEF IInv
<1>1. TypeOK'
  BY DEF Begin, TypeOK, db
<1>2. RowsInv'
  BY DEF Begin, RowsInv, db
<1>3. ASSUME NEW v \in Workers PROVE WorkerInv(v)'
  BY DEF Begin, WorkerInv, IdsUpTo, TypeOK, db
<1> QED
  BY <1>1, <1>2, <1>3

\* ReadDeckRow preserves the invariant.
LEMMA ReadDeckRowIInv ==
  ASSUME IInv, NEW w \in Workers, ReadDeckRow(w)
  PROVE  IInv'
<1> DEFINE row == deckRow[req[w].deck]
           read == [owner |-> row.owner, title |-> row.title,
                    deleted |-> row.deleted, cards |-> <<>>]
<1>1. req[w].deck \in DeckIds /\ row \in Row
  BY DEF IInv, WorkerInv, ReadDeckRow, TypeOK
<1>2. read \in Deck
  BY <1>1 DEF Row, Deck
<1>3. deck' = [deck EXCEPT ![w] = read]
  BY DEF ReadDeckRow
<1> HIDE DEF read
<1>4. TypeOK'
  BY <1>2, <1>3 DEF IInv, ReadDeckRow, TypeOK, db
<1>5. RowsInv'
  BY DEF IInv, ReadDeckRow, RowsInv, db
<1>6. ASSUME NEW v \in Workers PROVE WorkerInv(v)'
  <2>1. CASE v = w
    BY <1>1, <1>2, <1>3, <2>1
       DEF IInv, ReadDeckRow, WorkerInv, IdsUpTo, TypeOK, db, read
  <2>2. CASE v # w
    BY <1>3, <2>2 DEF IInv, ReadDeckRow, WorkerInv, IdsUpTo, TypeOK, db
  <2> QED
    BY <2>1, <2>2
<1> QED
  BY <1>4, <1>5, <1>6 DEF IInv

\* ReadCardRows preserves the invariant.
LEMMA ReadCardRowsIInv ==
  ASSUME IInv, NEW w \in Workers, ReadCardRows(w)
  PROVE  IInv'
<1> DEFINE rows == cardRows[req[w].deck]
           h == Hydrated(rows)
<1>1. req[w].deck \in DeckIds /\ deck[w] \in Deck
  BY DEF IInv, WorkerInv, ReadCardRows
<1>2. DenseRows(rows) /\ \A c \in rows : c.id <= minted
  BY <1>1 DEF IInv, RowsInv
<1>3. Dense(h) /\ \A c \in ToSet(h) : \E r \in rows : r.id = c.id
  BY <1>2, HydratedDense
<1>4. deck' = [deck EXCEPT ![w].cards = h]
  BY DEF ReadCardRows
<1> HIDE DEF h
<1>5. h \in Seq(Card) /\ \A i \in 1..Len(h) : h[i] \in ToSet(h)
  BY <1>3 DEF Dense, ToSet
<1>6. \A i \in 1..Len(h) : h[i].id <= minted
  BY <1>2, <1>3, <1>5
<1>7. /\ [deck[w] EXCEPT !.cards = h] \in Deck
      /\ [deck[w] EXCEPT !.cards = h].cards = h
      /\ [deck[w] EXCEPT !.cards = h].owner = deck[w].owner
  BY <1>1, <1>5 DEF Deck
<1>8. /\ deck'[w] = [deck[w] EXCEPT !.cards = h]
      /\ \A v \in Workers \ {w} : deck'[v] = deck[v]
  BY <1>4 DEF IInv, TypeOK
<1>9. TypeOK'
  BY <1>4, <1>7 DEF IInv, ReadCardRows, TypeOK, db
<1>10. RowsInv'
  BY DEF IInv, ReadCardRows, RowsInv, db
<1>11. ASSUME NEW v \in Workers PROVE WorkerInv(v)'
  <2>1. CASE v = w
    <3>1. pc[w] = "rowRead" /\ pc'[w] = "loaded" /\ UNCHANGED <<deckRow, req, minted>>
      BY DEF IInv, TypeOK, ReadCardRows, db
    <3>2. /\ req[w] \in [caller : Users, deck : DeckIds]
          /\ deckRow[req[w].deck] # None
          /\ deckRow[req[w].deck].owner = deck[w].owner
      BY <3>1 DEF IInv, WorkerInv
    <3>3. deck'[w] \in Deck /\ deck'[w].owner = deck[w].owner /\ deck'[w].cards = h
      BY <1>7, <1>8
    <3>4. Dense(deck'[w].cards) /\ IdsUpTo(deck'[w].cards, minted')
      BY <1>3, <1>6, <3>1, <3>3 DEF IdsUpTo
    <3> QED
      BY <2>1, <3>1, <3>2, <3>3, <3>4 DEF WorkerInv
  <2>2. CASE v # w
    BY <1>8, <2>2 DEF IInv, ReadCardRows, WorkerInv, IdsUpTo, TypeOK, db
  <2> QED
    BY <2>1, <2>2
<1> QED
  BY <1>9, <1>10, <1>11 DEF IInv

\* Minting ids keeps every bound on the old ones.
LEMMA IdsGrow ==
  ASSUME TypeOK, minted' \in Nat, minted <= minted'
  PROVE  /\ RowsInv /\ UNCHANGED cardRows => RowsInv'
         /\ \A cards : Dense(cards) /\ IdsUpTo(cards, minted) => IdsUpTo(cards, minted')
<1>1. ASSUME RowsInv, UNCHANGED cardRows
      PROVE  RowsInv'
  <2> SUFFICES ASSUME NEW d \in DeckIds
               PROVE  /\ DenseRows(cardRows'[d])
                      /\ \A c \in cardRows'[d] : c.id <= minted'
    BY DEF RowsInv
  <2>1. cardRows'[d] = cardRows[d] /\ cardRows[d] \subseteq Card
    BY <1>1 DEF TypeOK
  <2>2. DenseRows(cardRows[d]) /\ \A c \in cardRows[d] : c.id <= minted
    BY <1>1 DEF RowsInv
  <2>3. \A c \in cardRows[d] : c.id \in Nat /\ minted \in Nat
    BY <2>1 DEF Card, TypeOK
  <2> QED
    BY <2>1, <2>2, <2>3
<1>2. ASSUME NEW cards, Dense(cards), IdsUpTo(cards, minted)
      PROVE  IdsUpTo(cards, minted')
  <2> SUFFICES ASSUME NEW i \in 1..Len(cards)
               PROVE  cards[i].id <= minted'
    BY DEF IdsUpTo
  <2>1. cards[i] \in Card /\ cards[i].id <= minted
    BY <1>2, ElementOfSeq DEF Dense, IdsUpTo
  <2>2. cards[i].id \in Nat /\ minted \in Nat
    BY <2>1 DEF Card, TypeOK
  <2> QED
    BY <2>1, <2>2
<1> QED
  BY <1>1, <1>2

\* Any operation: what it saves is dense, its ids are old or new ones, and the
\* caller was checked against the owner of the copy.
LEMMA SaveIInv ==
  ASSUME IInv, NEW w \in Workers, pc[w] = "loaded", Authorized(w),
         NEW saved \in Deck, saved.owner = deck[w].owner, Dense(saved.cards),
         IdsUpTo(saved.cards, minted'),
         NEW events \in Seq(Event), Save(w, saved, events),
         minted' \in Nat, minted <= minted'
  PROVE  IInv'
<1>1. /\ req[w] \in [caller : Users, deck : DeckIds]
      /\ deckRow[req[w].deck] # None
      /\ deckRow[req[w].deck].owner = deck[w].owner
  BY DEF IInv, WorkerInv
<1>2. /\ deck'[w] = saved
      /\ pc'[w] = "saved"
      /\ lock'[req[w].deck] = w
      /\ \A v \in Workers \ {w} : deck'[v] = deck[v] /\ pc'[v] = pc[v]
      /\ lock[req[w].deck] = None
      /\ \A d \in DeckIds : d # req[w].deck => lock'[d] = lock[d]
      /\ UNCHANGED <<deckRow, cardRows, outbox, req, begun>>
  BY <1>1 DEF IInv, TypeOK, Save, db
<1>3. TypeOK'
  BY <1>1 DEF IInv, TypeOK, Save, db
<1>4. RowsInv'
  BY <1>2, IdsGrow DEF IInv
<1>5. ASSUME NEW v \in Workers PROVE WorkerInv(v)'
  <2>1. CASE v = w
    BY <1>1, <1>2, <2>1 DEF WorkerInv, Authorized
  <2>2. CASE v # w
    <3>1. WorkerInv(v) /\ deck'[v] = deck[v] /\ pc'[v] = pc[v] /\ req'[v] = req[v]
      BY <1>2, <2>2 DEF IInv
    <3>2. pc[v] \in {"loaded", "saved"} => IdsUpTo(deck[v].cards, minted')
      BY <3>1, IdsGrow DEF WorkerInv, IInv
    <3>3. pc[v] = "saved" => lock'[req[v].deck] = v
      BY <1>2, <3>1, NoneAssumption DEF WorkerInv
    <3> QED
      BY <1>2, <3>1, <3>2, <3>3 DEF WorkerInv
  <2> QED
    BY <2>1, <2>2
<1> QED
  BY <1>3, <1>4, <1>5 DEF IInv

\* What an operation starts from.
LEMMA LoadedDeck ==
  ASSUME IInv, NEW w \in Workers, pc[w] = "loaded"
  PROVE  /\ deck[w] \in Deck
         /\ Dense(deck[w].cards)
         /\ IdsUpTo(deck[w].cards, minted)
         /\ deck[w].cards \in Seq(Card)
         /\ DOMAIN deck[w].cards = 1..Len(deck[w].cards)
         /\ \A i \in 1..Len(deck[w].cards) : deck[w].cards[i] \in Card
         /\ req[w].deck \in DeckIds
         /\ minted \in Nat
<1>1. /\ deck[w] \in Deck
      /\ Dense(deck[w].cards)
      /\ IdsUpTo(deck[w].cards, minted)
      /\ req[w].deck \in DeckIds
      /\ minted \in Nat
  BY DEF IInv, WorkerInv, TypeOK
<1>2. deck[w].cards \in Seq(Card)
  BY <1>1 DEF Dense
<1> QED
  BY <1>1, <1>2, LenProperties

\* Replacing the cards of an aggregate.
LEMMA DeckWithCards ==
  ASSUME NEW d \in Deck, NEW cards \in Seq(Card)
  PROVE  /\ [d EXCEPT !.cards = cards] \in Deck
         /\ [d EXCEPT !.cards = cards].cards = cards
         /\ [d EXCEPT !.cards = cards].owner = d.owner
BY DEF Deck

\* AddCard preserves the invariant.
LEMMA AddCardIInv ==
  ASSUME IInv, NEW w \in Workers, NEW content \in Contents, AddCard(w, content)
  PROVE  IInv'
<1> DEFINE cards == deck[w].cards
           card == [id |-> minted + 1, content |-> content, ordinal |-> Len(cards) + 1]
           saved == [deck[w] EXCEPT !.cards = Append(@, card)]
           events == <<[type |-> "CardAdded", deck |-> req[w].deck, card |-> card.id,
                        content |-> content, ordinal |-> card.ordinal]>>
<1>1. /\ pc[w] = "loaded" /\ Authorized(w) /\ Len(cards) < MaxCards
      /\ Save(w, saved, events)
      /\ minted' = minted + 1
  BY DEF AddCard
<1>2. /\ deck[w] \in Deck /\ Dense(cards) /\ IdsUpTo(cards, minted) /\ minted \in Nat
      /\ cards \in Seq(Card) /\ req[w].deck \in DeckIds
      /\ \A i \in 1..Len(cards) : cards[i] \in Card
  BY <1>1, LoadedDeck
<1>3. Len(cards) \in Nat
  BY <1>2
<1>4. card \in Card /\ card.ordinal = Len(cards) + 1 /\ card.id = minted + 1
  BY <1>2, <1>3 DEF Card
<1>5. events \in Seq(Event)
  BY <1>2, <1>4, <1>3 DEF Event, Card
<1>6. \A i \in 1..Len(cards) : cards[i].id <= minted /\ cards[i].id \in Nat
  BY <1>2 DEF IdsUpTo, Card
<1> HIDE DEF card, events
<1>7. Dense(Append(cards, card))
  <2>1. \A i \in 1..Len(cards) : cards[i].id # card.id
    BY <1>2, <1>4, <1>6
  <2> QED
    BY <1>1, <1>2, <1>4, <2>1, AppendDense
<1>8. /\ saved \in Deck /\ saved.cards = Append(cards, card)
      /\ saved.owner = deck[w].owner
  <2>1. Append(cards, card) \in Seq(Card)
    BY <1>7 DEF Dense
  <2>2. saved = [deck[w] EXCEPT !.cards = Append(cards, card)]
    OBVIOUS
  <2> QED
    BY <1>2, <2>1, <2>2, DeckWithCards
<1>9. IdsUpTo(Append(cards, card), minted + 1)
  <2>1. \A i \in 1..Len(cards) : Append(cards, card)[i].id <= minted + 1
    BY <1>2, <1>6
  <2>2. Append(cards, card)[Len(cards) + 1].id <= minted + 1
    BY <1>2, <1>4
  <2>3. Len(Append(cards, card)) = Len(cards) + 1
    BY <1>2
  <2> QED
    BY <1>3, <2>1, <2>2, <2>3 DEF IdsUpTo
<1>10. minted' \in Nat /\ minted <= minted'
  BY <1>1, <1>2
<1> HIDE DEF saved
<1> QED
  BY <1>1, <1>5, <1>7, <1>8, <1>9, <1>10, SaveIInv

\* EditCard preserves the invariant.
LEMMA EditCardIInv ==
  ASSUME IInv, NEW w \in Workers, NEW i \in 1..MaxCards, NEW content \in Contents,
         EditCard(w, i, content)
  PROVE  IInv'
<1> DEFINE cards == deck[w].cards
           edited == [cards EXCEPT ![i].content = content]
           saved == [deck[w] EXCEPT !.cards[i].content = content]
           events == <<[type |-> "CardEdited", deck |-> req[w].deck,
                        card |-> cards[i].id, content |-> content]>>
<1>1. /\ pc[w] = "loaded" /\ Authorized(w) /\ i \in DOMAIN cards
      /\ Save(w, saved, events)
      /\ minted' = minted
  BY DEF EditCard
<1>2. /\ deck[w] \in Deck /\ Dense(cards) /\ IdsUpTo(cards, minted) /\ minted \in Nat
      /\ cards \in Seq(Card) /\ req[w].deck \in DeckIds
      /\ DOMAIN cards = 1..Len(cards)
      /\ \A j \in 1..Len(cards) : cards[j] \in Card
  BY <1>1, LoadedDeck
<1>3. events \in Seq(Event)
  BY <1>1, <1>2 DEF Event, Card
<1>4. Dense(edited) /\ \A j \in 1..Len(cards) : edited[j].id = cards[j].id
  BY <1>1, <1>2, EditDense
<1>5. edited \in Seq(Card)
  BY <1>4 DEF Dense
<1>6. Len(edited) = Len(cards)
  <2>1. DOMAIN edited = DOMAIN cards
    OBVIOUS
  <2>2. DOMAIN edited = 1..Len(edited) /\ Len(edited) \in Nat /\ Len(cards) \in Nat
    BY <1>2, <1>5, LenProperties
  <2> QED
    BY <1>2, <2>1, <2>2
<1>7. saved = [deck[w] EXCEPT !.cards = edited]
  BY <1>2 DEF Deck
<1> HIDE DEF edited, saved, events
<1>8. saved \in Deck /\ saved.cards = edited /\ saved.owner = deck[w].owner
  BY <1>2, <1>5, <1>7, DeckWithCards
<1>9. IdsUpTo(edited, minted)
  BY <1>2, <1>4, <1>6 DEF IdsUpTo
<1>10. minted' \in Nat /\ minted <= minted'
  BY <1>1, <1>2
<1> QED
  BY <1>1, <1>3, <1>4, <1>8, <1>9, <1>10, SaveIInv

\* The events of a removal are events.
LEMMA RemovalEventsType ==
  ASSUME NEW d \in DeckIds, NEW card \in Nat, NEW left \in Seq(Card)
  PROVE  RemovalEvents(d, card, left) \in Seq(Event)
<1>1. <<[type |-> "CardRemoved", deck |-> d, card |-> card]>> \in Seq(Event)
  BY DEF Event
<1>2. \A i \in 1..Len(left) : left[i].id \in Nat
  <2> TAKE i \in 1..Len(left)
  <2>1. left[i] \in Card
    BY ElementOfSeq
  <2> QED
    BY <2>1 DEF Card
<1>3. IdsOf(left) \in Seq(Nat)
  BY <1>2 DEF IdsOf
<1>4. <<[type |-> "CardsReordered", deck |-> d, order |-> IdsOf(left)]>> \in Seq(Event)
  BY <1>3 DEF Event
<1>5. <<>> \in Seq(Event)
  OBVIOUS
<1> QED
  BY <1>1, <1>4, <1>5, ConcatProperties DEF RemovalEvents

\* RemoveCard preserves the invariant.
LEMMA RemoveCardIInv ==
  ASSUME IInv, NEW w \in Workers, NEW i \in 1..MaxCards, RemoveCard(w, i)
  PROVE  IInv'
<1> DEFINE cards == deck[w].cards
           left == Without(cards, i)
           saved == [deck[w] EXCEPT !.cards = left]
           events == RemovalEvents(req[w].deck, cards[i].id, left)
<1>1. /\ pc[w] = "loaded" /\ Authorized(w) /\ i \in DOMAIN cards
      /\ Save(w, saved, events)
      /\ minted' = minted
  BY DEF RemoveCard
<1>2. /\ deck[w] \in Deck /\ Dense(cards) /\ IdsUpTo(cards, minted) /\ minted \in Nat
      /\ req[w].deck \in DeckIds
      /\ DOMAIN cards = 1..Len(cards)
      /\ \A j \in 1..Len(cards) : cards[j] \in Card
  BY <1>1, LoadedDeck
<1>3. /\ Dense(left)
      /\ \A j \in 1..Len(left) : \E k \in 1..Len(cards) : left[j].id = cards[k].id
  BY <1>1, <1>2, WithoutDense
<1>4. left \in Seq(Card) /\ cards[i].id \in Nat
  BY <1>1, <1>2, <1>3 DEF Dense, Card
<1> HIDE DEF left
<1>5. events \in Seq(Event)
  BY <1>2, <1>4, RemovalEventsType
<1>6. saved \in Deck /\ saved.cards = left /\ saved.owner = deck[w].owner
  BY <1>2, <1>4, DeckWithCards
<1>7. IdsUpTo(left, minted)
  BY <1>2, <1>3 DEF IdsUpTo
<1>8. minted' \in Nat /\ minted <= minted'
  BY <1>1, <1>2
<1> HIDE DEF saved, events
<1> QED
  BY <1>1, <1>3, <1>5, <1>6, <1>7, <1>8, SaveIInv

\* ReorderCards preserves the invariant.
LEMMA ReorderCardsIInv ==
  ASSUME IInv, NEW w \in Workers, NEW n \in 0..MaxCards, NEW order \in Orders(n),
         ReorderCards(w, order)
  PROVE  IInv'
<1> DEFINE cards == deck[w].cards
           placed == Reordered(cards, order)
           saved == [deck[w] EXCEPT !.cards = placed]
           events == <<[type |-> "CardsReordered", deck |-> req[w].deck,
                        order |-> order]>>
<1>1. /\ pc[w] = "loaded" /\ Authorized(w) /\ IsPermutationOf(order, cards)
      /\ Save(w, saved, events)
      /\ minted' = minted
  BY DEF ReorderCards
<1>2. /\ deck[w] \in Deck /\ Dense(cards) /\ IdsUpTo(cards, minted) /\ minted \in Nat
      /\ req[w].deck \in DeckIds
      /\ DOMAIN cards = 1..Len(cards)
  BY <1>1, LoadedDeck
<1>3. order \in Seq(Nat)
  <2>1. n \in Nat /\ order \in [1..n -> Nat]
    BY <1>2, LimitsAssumption DEF Orders
  <2> QED
    BY <2>1
<1>5. /\ Dense(placed)
      /\ \A j \in 1..Len(placed) : \E k \in 1..Len(cards) : placed[j].id = cards[k].id
  BY <1>1, <1>2, <1>3, ReorderedDense
<1>6. events \in Seq(Event)
  BY <1>2, <1>3 DEF Event
<1>7. placed \in Seq(Card)
  BY <1>5 DEF Dense
<1> HIDE DEF placed
<1>8. saved \in Deck /\ saved.cards = placed /\ saved.owner = deck[w].owner
  BY <1>2, <1>7, DeckWithCards
<1>9. IdsUpTo(placed, minted)
  BY <1>2, <1>5 DEF IdsUpTo
<1>10. minted' \in Nat /\ minted <= minted'
  BY <1>1, <1>2
<1> HIDE DEF saved, events
<1> QED
  BY <1>1, <1>5, <1>6, <1>8, <1>9, <1>10, SaveIInv

\* RenameDeck preserves the invariant.
LEMMA RenameDeckIInv ==
  ASSUME IInv, NEW w \in Workers, NEW title \in Titles, RenameDeck(w, title)
  PROVE  IInv'
<1> DEFINE saved == [deck[w] EXCEPT !.title = title]
           events == <<[type |-> "DeckRenamed", deck |-> req[w].deck, title |-> title]>>
<1>1. /\ pc[w] = "loaded" /\ Authorized(w) /\ Save(w, saved, events)
      /\ minted' = minted
  BY DEF RenameDeck
<1>2. /\ deck[w] \in Deck /\ Dense(deck[w].cards) /\ IdsUpTo(deck[w].cards, minted)
      /\ minted \in Nat /\ req[w].deck \in DeckIds
  BY <1>1, LoadedDeck
<1>3. events \in Seq(Event)
  BY <1>2 DEF Event
<1>4. saved \in Deck /\ saved.cards = deck[w].cards /\ saved.owner = deck[w].owner
  BY <1>2 DEF Deck
<1>5. minted' \in Nat /\ minted <= minted'
  BY <1>1, <1>2
<1> HIDE DEF saved, events
<1> QED
  BY <1>1, <1>2, <1>3, <1>4, <1>5, SaveIInv

\* DeleteDeck preserves the invariant.
LEMMA DeleteDeckIInv ==
  ASSUME IInv, NEW w \in Workers, DeleteDeck(w)
  PROVE  IInv'
<1> DEFINE saved == [deck[w] EXCEPT !.deleted = TRUE]
           events == <<[type |-> "DeckDeleted", deck |-> req[w].deck]>>
<1>1. /\ pc[w] = "loaded" /\ Authorized(w) /\ Save(w, saved, events)
      /\ minted' = minted
  BY DEF DeleteDeck
<1>2. /\ deck[w] \in Deck /\ Dense(deck[w].cards) /\ IdsUpTo(deck[w].cards, minted)
      /\ minted \in Nat /\ req[w].deck \in DeckIds
  BY <1>1, LoadedDeck
<1>3. events \in Seq(Event)
  BY <1>2 DEF Event
<1>4. saved \in Deck /\ saved.cards = deck[w].cards /\ saved.owner = deck[w].owner
  BY <1>2 DEF Deck
<1>5. minted' \in Nat /\ minted <= minted'
  BY <1>1, <1>2
<1> HIDE DEF saved, events
<1> QED
  BY <1>1, <1>2, <1>3, <1>4, <1>5, SaveIInv

\* CreateDeck: no request in flight names the new deck, so nobody's copy or lock
\* is disturbed.
LEMMA CreateDeckIInv ==
  ASSUME IInv, NEW w \in Workers, NEW caller \in Users, NEW d \in DeckIds,
         NEW title \in Titles, NEW drafts \in Drafts,
         CreateDeck(w, caller, d, title, drafts)
  PROVE  IInv'
<1> DEFINE cards == [i \in 1..Len(drafts) |->
                       [id |-> minted + i, content |-> drafts[i], ordinal |-> i]]
           created == [owner |-> caller, title |-> title, deleted |-> FALSE,
                       cards |-> cards]
           events == CreationEvents(d, caller, title, cards)
<1>1. minted \in Nat /\ drafts \in Seq(Contents) /\ Len(drafts) \in Nat
  BY LimitsAssumption DEF IInv, TypeOK, Drafts
<1>2. Len(drafts) <= MaxCards
  BY DEF CreateDeck
<1>3. /\ Dense(cards)
      /\ Len(cards) = Len(drafts)
      /\ \A i \in 1..Len(cards) : cards[i].id <= minted + Len(drafts)
  BY <1>1, <1>2, DraftsDense
<1>4. /\ pc[w] = "idle" /\ pc' = [pc EXCEPT ![w] = "saved"]
      /\ req' = [req EXCEPT ![w] = [caller |-> caller, deck |-> d]]
      /\ lock' = [lock EXCEPT ![d] = w]
      /\ deck' = [deck EXCEPT ![w] = created]
      /\ staged' = [staged EXCEPT ![w] = events]
      /\ minted' = minted + Len(drafts)
      /\ begun' = begun + 1
      /\ UNCHANGED <<deckRow, cardRows, outbox>>
      /\ deckRow[d] = None /\ \A v \in InFlight : req[v].deck # d
  BY DEF CreateDeck, FreshDeck, db
<1> HIDE DEF cards
<1>5. cards \in Seq(Card) /\ \A i \in 1..Len(cards) : cards[i] \in Card
  BY <1>3 DEF Dense
<1>6. created \in Deck /\ created.cards = cards /\ created.owner = caller
  BY <1>5 DEF Deck
<1>7. events \in Seq(Event)
  <2> DEFINE added == [i \in 1..Len(cards) |->
                         [type |-> "CardAdded", deck |-> d, card |-> cards[i].id,
                          content |-> cards[i].content, ordinal |-> cards[i].ordinal]]
             made == <<[type |-> "DeckCreated", deck |-> d, owner |-> caller,
                        title |-> title, cardCount |-> Len(cards)]>>
  <2>1. \A i \in 1..Len(cards) :
          [type |-> "CardAdded", deck |-> d, card |-> cards[i].id,
           content |-> cards[i].content, ordinal |-> cards[i].ordinal] \in Event
    BY <1>5 DEF Card, Event
  <2>2. Len(cards) \in Nat
    BY <1>1, <1>3
  <2>3. added \in Seq(Event)
    BY <2>1, <2>2
  <2>4. made \in Seq(Event)
    BY <2>2 DEF Event
  <2>5. events = made \o added
    BY DEF CreationEvents
  <2> HIDE DEF made, added
  <2> QED
    BY <2>3, <2>4, <2>5, ConcatProperties
<1> HIDE DEF created, events
<1>8. TypeOK'
  BY <1>1, <1>4, <1>6, <1>7 DEF IInv, TypeOK
<1>9. minted <= minted' /\ minted' \in Nat
  BY <1>1, <1>4
<1>10. RowsInv'
  BY <1>4, <1>9, IdsGrow DEF IInv
<1>11. ASSUME NEW v \in Workers PROVE WorkerInv(v)'
  <2>1. CASE v = w
    <3>1. pc'[w] = "saved" /\ req'[w] = [caller |-> caller, deck |-> d]
          /\ lock'[d] = w /\ deck'[w] = created /\ deckRow'[d] = None
      BY <1>4 DEF IInv, TypeOK
    <3>2. IdsUpTo(cards, minted')
      BY <1>3, <1>4 DEF IdsUpTo
    <3> QED
      BY <1>3, <1>6, <2>1, <3>1, <3>2 DEF WorkerInv
  <2>2. CASE v # w
    <3>1. deck'[v] = deck[v] /\ pc'[v] = pc[v] /\ req'[v] = req[v] /\ WorkerInv(v)
      BY <1>4, <2>2 DEF IInv, TypeOK
    <3>2. pc[v] = "saved" => lock'[req[v].deck] = v
      BY <1>4, <3>1 DEF WorkerInv, InFlight, IInv, TypeOK
    <3> QED
      BY <1>4, <1>9, <3>1, <3>2, IdsGrow DEF WorkerInv, IInv
  <2> QED
    BY <2>1, <2>2
<1> QED
  BY <1>8, <1>10, <1>11 DEF IInv

\* The variables End resets keep their types.
LEMMA EndTypeOK ==
  ASSUME TypeOK, NEW w \in Workers, End(w),
         deckRow' \in [DeckIds -> Row \cup {None}],
         cardRows' \in [DeckIds -> SUBSET Card],
         outbox' \in Seq(Event)
  PROVE  TypeOK'
<1>1. lock' \in [DeckIds -> Workers \cup {None}]
  BY DEF TypeOK, End, ReleaseLocks
<1>2. <<>> \in Seq(Event)
  OBVIOUS
<1> QED
  BY <1>1, <1>2 DEF TypeOK, End

\* The end of a transaction leaves the locks of the others alone.
LEMMA EndOthers ==
  ASSUME TypeOK, NEW w \in Workers, End(w), NEW v \in Workers, v # w,
         NEW d \in DeckIds, lock[d] = v
  PROVE  lock'[d] = v
BY DEF End, ReleaseLocks

\* Rollback preserves the invariant.
LEMMA RollbackIInv ==
  ASSUME IInv, NEW w \in Workers, Rollback(w)
  PROVE  IInv'
<1>1. End(w) /\ UNCHANGED <<deckRow, cardRows, outbox, minted>> /\ TypeOK
  BY DEF Rollback, db, IInv, End
<1>2. TypeOK'
  BY <1>1, EndTypeOK DEF TypeOK
<1>3. RowsInv'
  BY <1>1 DEF IInv, RowsInv
<1>4. ASSUME NEW v \in Workers PROVE WorkerInv(v)'
  <2>1. CASE v = w
    <3>1. pc'[v] = "idle"
      BY <1>1, <2>1 DEF End, TypeOK
    <3> QED
      BY <3>1 DEF WorkerInv
  <2>2. CASE v # w
    <3>1. deck'[v] = deck[v] /\ pc'[v] = pc[v] /\ req'[v] = req[v] /\ WorkerInv(v)
      BY <1>1, <2>2 DEF End, TypeOK, IInv
    <3>2. pc[v] = "saved" => lock'[req[v].deck] = v
      BY <1>1, <2>2, <3>1, EndOthers DEF WorkerInv
    <3> QED
      BY <1>1, <3>1, <3>2 DEF WorkerInv
  <2> QED
    BY <2>1, <2>2
<1> QED
  BY <1>2, <1>3, <1>4 DEF IInv

\* The committed row keeps the owner every copy of it was checked against.
LEMMA CommitIInv ==
  ASSUME IInv, NEW w \in Workers, Commit(w)
  PROVE  IInv'
<1> DEFINE d == req[w].deck
           row == SavedRow(deckRow[d], deck[w])
<1>1. /\ TypeOK /\ pc[w] = "saved" /\ End(w) /\ minted' = minted
      /\ deckRow' = [deckRow EXCEPT ![d] = row]
      /\ cardRows' = [cardRows EXCEPT ![d] = ToSet(deck[w].cards)]
      /\ outbox' = outbox \o staged[w]
  BY DEF Commit, IInv, End
<1>2. /\ req[w] \in [caller : Users, deck : DeckIds]
      /\ d \in DeckIds
      /\ deck[w] \in Deck
      /\ Dense(deck[w].cards)
      /\ IdsUpTo(deck[w].cards, minted)
      /\ lock[d] = w
      /\ deckRow[d] # None => deckRow[d].owner = deck[w].owner
  BY <1>1 DEF IInv, WorkerInv
<1>3. /\ row \in Row
      /\ deckRow[d] # None => row.owner = deckRow[d].owner
  <2>1. CASE deckRow[d] = None
    BY <1>2, <2>1 DEF SavedRow, Row, Deck
  <2>2. CASE deckRow[d] # None
    <3>1. deckRow[d] \in Row
      BY <1>1, <1>2, <2>2 DEF TypeOK
    <3>2. deck[w].title \in Titles /\ deck[w].deleted \in BOOLEAN
      BY <1>2 DEF Deck
    <3>3. row = [deckRow[d] EXCEPT !.title = deck[w].title, !.deleted = deck[w].deleted]
      BY <2>2 DEF SavedRow
    <3> HIDE DEF row, d
    <3> QED
      BY <3>1, <3>2, <3>3 DEF Row
  <2> QED
    BY <2>1, <2>2
<1> HIDE DEF row
<1>4. deck[w].cards \in Seq(Card) /\ ToSet(deck[w].cards) \subseteq Card
  BY <1>2 DEF Dense, ToSet
<1>5. TypeOK'
  <2>1. deckRow' \in [DeckIds -> Row \cup {None}]
    BY <1>1, <1>2, <1>3 DEF TypeOK
  <2>2. cardRows' \in [DeckIds -> SUBSET Card]
    BY <1>1, <1>2, <1>4 DEF TypeOK
  <2>3. outbox' \in Seq(Event)
    BY <1>1, ConcatProperties DEF TypeOK
  <2> QED
    BY <1>1, <2>1, <2>2, <2>3, EndTypeOK
<1>6. RowsInv'
  <2> SUFFICES ASSUME NEW e \in DeckIds
               PROVE  /\ DenseRows(cardRows'[e])
                      /\ \A c \in cardRows'[e] : c.id <= minted
    BY <1>1 DEF RowsInv
  <2>1. CASE e = d
    <3>1. cardRows'[e] = ToSet(deck[w].cards)
      BY <1>1, <1>2, <2>1 DEF TypeOK
    <3>2. DenseRows(cardRows'[e])
      BY <1>2, <3>1 DEF DenseRows
    <3>3. \A c \in ToSet(deck[w].cards) : c.id <= minted
      BY <1>2, <1>4 DEF IdsUpTo, ToSet
    <3> QED
      BY <3>1, <3>2, <3>3
  <2>2. CASE e # d
    BY <1>1, <2>2 DEF IInv, RowsInv, TypeOK
  <2> QED
    BY <2>1, <2>2
<1>7. ASSUME NEW v \in Workers PROVE WorkerInv(v)'
  <2>1. CASE v = w
    <3>1. pc'[v] = "idle"
      BY <1>1, <2>1 DEF End, TypeOK
    <3> QED
      BY <3>1 DEF WorkerInv
  <2>2. CASE v # w
    <3>1. deck'[v] = deck[v] /\ pc'[v] = pc[v] /\ req'[v] = req[v] /\ WorkerInv(v)
      BY <1>1, <2>2 DEF End, TypeOK, IInv
    <3>2. pc[v] = "saved" => lock'[req[v].deck] = v /\ req[v].deck # d
      BY <1>1, <1>2, <2>2, <3>1, EndOthers DEF WorkerInv
    <3>3. \A e \in DeckIds : deckRow[e] # None =>
            deckRow'[e] # None /\ deckRow'[e].owner = deckRow[e].owner
      BY <1>1, <1>2, <1>3, NoneAssumption DEF TypeOK
    <3>4. \A e \in DeckIds : e # d => deckRow'[e] = deckRow[e]
      BY <1>1 DEF TypeOK
    <3> QED
      BY <1>1, <3>1, <3>2, <3>3, <3>4 DEF WorkerInv
  <2> QED
    BY <2>1, <2>2
<1> QED
  BY <1>5, <1>6, <1>7 DEF IInv

\* Every step preserves the invariant.
LEMMA NextIInv == IInv /\ [Next]_vars => IInv'
<1> SUFFICES ASSUME IInv, [Next]_vars PROVE IInv'
  OBVIOUS
<1>1. CASE UNCHANGED vars
  <2>1. TypeOK' /\ RowsInv'
    BY <1>1 DEF IInv, TypeOK, RowsInv, vars
  <2>2. \A w \in Workers : WorkerInv(w)'
    BY <1>1 DEF IInv, WorkerInv, vars
  <2> QED
    BY <2>1, <2>2 DEF IInv
<1>2. CASE Next
  <2>1. PICK w \in Workers :
          \/ \E caller \in Users, d \in DeckIds : Begin(w, caller, d)
          \/ ReadDeckRow(w)
          \/ ReadCardRows(w)
          \/ Operation(w)
          \/ \E caller \in Users, d \in DeckIds, title \in Titles, drafts \in Drafts :
               CreateDeck(w, caller, d, title, drafts)
          \/ Commit(w)
          \/ Rollback(w)
    BY <1>2 DEF Next
  <2>2. CASE Operation(w)
    BY <2>2, AddCardIInv, EditCardIInv, RemoveCardIInv, ReorderCardsIInv,
       RenameDeckIInv, DeleteDeckIInv DEF Operation
  <2> QED
    BY <2>1, <2>2, BeginIInv, ReadDeckRowIInv, ReadCardRowsIInv, CreateDeckIInv,
       CommitIInv, RollbackIInv
<1> QED
  BY <1>1, <1>2

-----------------------------------------------------------------------------
(* The theorems. *)

\* In every behaviour the inductive invariant holds.
THEOREM Invariance == Spec => []IInv
<1>1. Init => IInv
  BY InitIInv
<1>2. IInv /\ [Next]_vars => IInv'
  BY NextIInv
<1> QED
  BY <1>1, <1>2, PTL DEF Spec

\* Type correctness: rows, copies, locks and events keep their shape in every
\* interleaving of the decks use cases (Decks.Save, Decks.ByID, the use cases).
THEOREM TypeCorrectness == Spec => []TypeOK
<1>1. IInv => TypeOK
  BY DEF IInv
<1> QED
  BY <1>1, Invariance, PTL

\* The committed cards of a deck are numbered 1..N, within the limit and without
\* repetition, for any number of overlapping transactions (Deck.AddCard,
\* EditCard, RemoveCard, ReorderCards over stale copies; Decks.Save).
THEOREM CardLists == Spec => []CardListsWellFormed
<1>1. IInv => CardListsWellFormed
  <2> SUFFICES ASSUME IInv, NEW d \in DeckIds
               PROVE  /\ {c.ordinal : c \in cardRows[d]} = 1..Cardinality(cardRows[d])
                      /\ Cardinality(cardRows[d]) <= MaxCards
                      /\ Cardinality({c.id : c \in cardRows[d]}) = Cardinality(cardRows[d])
    BY DEF CardListsWellFormed
  <2>1. PICK s : Dense(s) /\ cardRows[d] = ToSet(s)
    BY DEF IInv, RowsInv, DenseRows
  <2>2. /\ Cardinality(cardRows[d]) = Len(s)
        /\ Len(s) \in Nat /\ Len(s) <= MaxCards
        /\ DOMAIN s = 1..Len(s)
    BY <2>1, DenseCardinality DEF Dense
  <2>3. {c.ordinal : c \in cardRows[d]} = 1..Len(s)
    <3>1. ASSUME NEW n \in {c.ordinal : c \in cardRows[d]} PROVE n \in 1..Len(s)
      <4>1. PICK i \in DOMAIN s : n = s[i].ordinal
        BY <2>1 DEF ToSet
      <4> QED
        BY <2>1, <2>2, <4>1 DEF Dense
    <3>2. ASSUME NEW n \in 1..Len(s) PROVE n \in {c.ordinal : c \in cardRows[d]}
      <4>1. s[n] \in cardRows[d] /\ s[n].ordinal = n
        BY <2>1, <2>2, <3>2 DEF Dense, ToSet
      <4> QED
        BY <4>1
    <3> QED
      BY <3>1, <3>2
  <2>4. Cardinality({c.id : c \in cardRows[d]}) = Len(s)
    <3> DEFINE ids == {c.id : c \in cardRows[d]}
               f == [i \in 1..Len(s) |-> s[i].id]
    <3>1. f \in [1..Len(s) -> ids]
      BY <2>1, <2>2 DEF ToSet
    <3>2. \A i, j \in 1..Len(s) : f[i] = f[j] => i = j
      BY <2>1 DEF Dense
    <3>3. \A id \in ids : \E i \in 1..Len(s) : f[i] = id
      BY <2>1, <2>2 DEF ToSet
    <3> HIDE DEF f, ids
    <3>4. f \in Bijection(1..Len(s), ids)
      BY <3>1, <3>2, <3>3 DEF Bijection, Injection, Surjection, IsInjective
    <3>5. ExistsBijection(1..Len(s), ids)
      BY <3>4 DEF ExistsBijection
    <3>6. IsFiniteSet(1..Len(s)) /\ Cardinality(1..Len(s)) = Len(s)
      <4>1. Len(s) \in Nat
        BY <2>2
      <4> QED
        BY <4>1, FS_Interval
    <3>7. Cardinality(ids) = Len(s)
      BY <3>5, <3>6, FS_Bijection
    <3> QED
      BY <3>7 DEF ids
  <2> QED
    BY <2>2, <2>3, <2>4
<1> QED
  BY <1>1, Invariance, PTL

\* The committing worker was authorised against a copy of the row it overwrites,
\* and rows keep their owner; every other step leaves the rows alone.
LEMMA NextOwnerCommits == IInv /\ [Next]_vars => [OwnerCommits]_vars
<1> SUFFICES ASSUME IInv, Next PROVE OwnerCommits
  BY DEF vars
<1> SUFFICES ASSUME NEW d \in DeckIds, deckRow[d] # None, Touched(d)
             PROVE  /\ deckRow'[d].owner = deckRow[d].owner
                    /\ \E w \in Workers :
                         /\ pc[w] = "saved" /\ pc'[w] = "idle"
                         /\ req[w] = [caller |-> deckRow[d].owner, deck |-> d]
  BY DEF OwnerCommits
<1>1. PICK w \in Workers : Commit(w)
  <2> SUFFICES ASSUME NEW w \in Workers, ~Commit(w),
                      \/ \E caller \in Users, e \in DeckIds : Begin(w, caller, e)
                      \/ ReadDeckRow(w)
                      \/ ReadCardRows(w)
                      \/ Operation(w)
                      \/ \E caller \in Users, e \in DeckIds, title \in Titles,
                            drafts \in Drafts : CreateDeck(w, caller, e, title, drafts)
                      \/ Rollback(w)
               PROVE  UNCHANGED <<deckRow, cardRows>>
    BY DEF Next, Touched
  <2>1. CASE \E caller \in Users, e \in DeckIds : Begin(w, caller, e)
    BY <2>1 DEF Begin, db
  <2>2. CASE ReadDeckRow(w) \/ ReadCardRows(w)
    BY <2>2 DEF ReadDeckRow, ReadCardRows, db
  <2>3. CASE Operation(w)
    BY <2>3 DEF Operation, AddCard, EditCard, RemoveCard, ReorderCards, RenameDeck,
       DeleteDeck, Save, db
  <2>4. CASE \E caller \in Users, e \in DeckIds, title \in Titles, drafts \in Drafts :
               CreateDeck(w, caller, e, title, drafts)
    BY <2>4 DEF CreateDeck, db
  <2>5. CASE Rollback(w)
    BY <2>5 DEF Rollback, db
  <2> QED
    BY <2>1, <2>2, <2>3, <2>4, <2>5
<1>2. /\ pc[w] = "saved" /\ pc'[w] = "idle"
      /\ deckRow' = [deckRow EXCEPT ![req[w].deck] = SavedRow(@, deck[w])]
      /\ cardRows' = [cardRows EXCEPT ![req[w].deck] = ToSet(deck[w].cards)]
  BY <1>1 DEF Commit, End, IInv, TypeOK
<1>3. d = req[w].deck
  BY <1>2 DEF Touched, IInv, TypeOK
<1>4. /\ req[w] \in [caller : Users, deck : DeckIds]
      /\ req[w].caller = deck[w].owner
      /\ deckRow[d].owner = deck[w].owner
  BY <1>2, <1>3 DEF IInv, WorkerInv
<1>5. deckRow[d] \in Row
  BY DEF IInv, TypeOK
<1>6. deckRow'[d] = [deckRow[d] EXCEPT !.title = deck[w].title, !.deleted = deck[w].deleted]
  BY <1>2, <1>3 DEF IInv, TypeOK, SavedRow
<1>7. deckRow'[d].owner = deckRow[d].owner
  BY <1>5, <1>6 DEF Row
<1>8. req[w] = [caller |-> deckRow[d].owner, deck |-> d]
  BY <1>3, <1>4
<1> QED
  BY <1>2, <1>7, <1>8

\* Only requests of a deck's owner change it, however stale the copy they were
\* authorised against (Deck.authorize; the upsert of Decks.Save).
THEOREM Ownership == Spec => OnlyOwnerWrites
<1>1. IInv /\ [Next]_vars => [OwnerCommits]_vars
  BY NextOwnerCommits
<1> QED
  BY <1>1, Invariance, PTL DEF Spec, OnlyOwnerWrites

-----------------------------------------------------------------------------
(***************************************************************************)
(* Replaying events.  The library's induction theorems cannot be applied,  *)
(* so induction on the length of a sequence goes through the least element *)
(* of a set of numbers.                                                    *)
(***************************************************************************)

\* A set with 0 and the successor of each of its numbers has every number.
LEMMA NatInductionSet ==
  ASSUME NEW S, 0 \in S, \A n \in Nat : n \in S => n + 1 \in S
  PROVE  Nat \subseteq S
<1> PICK T : T = Nat \ S
  OBVIOUS
<1> SUFFICES ASSUME T # {} PROVE FALSE
  OBVIOUS
<1> PICK R : R = {p \in Nat \X Nat : p[1] < p[2]}
  OBVIOUS
<1>1. IsWellFoundedOn(R, Nat)
  BY NatLessThanWellFounded DEF OpToRel
<1>2. \E x \in T : \A y \in T : ~(<<y, x>> \in R)
  BY <1>1, WFMin
<1> PICK x \in T : \A y \in T : ~(<<y, x>> \in R)
  BY <1>2
<1>3. x \in Nat /\ x # 0 /\ x - 1 \in Nat /\ x - 1 < x
  OBVIOUS
<1>4. x - 1 \in S
  BY <1>3
<1>5. (x - 1) + 1 \in S
  BY <1>3, <1>4
<1> QED
  BY <1>3, <1>5

\* Applying the events of s in turn leads deck d from one state to the other.
Leads(d, from, s, to) ==
  \E f : /\ f[0] = from
         /\ \A i \in 1..Len(s) : f[i] = Followed(d, f[i - 1], s[i])
         /\ f[Len(s)] = to

LEMMA MaxOfSet ==
  ASSUME NEW n \in Nat, NEW x \in SUBSET (1..(n + 1)), n + 1 \in x
  PROVE  Max(x) = n + 1
<1>1. n + 1 \in x /\ \A y \in x : n + 1 >= y
  OBVIOUS
<1>2. \A z \in x : (\A y \in x : z >= y) => z = n + 1
  OBVIOUS
<1> QED
  BY <1>1, <1>2 DEF Max

\* g[x] folds the events of s at the positions x, the largest position last.
Folds(g, n, d, s) ==
  g = [x \in SUBSET (1..n) |->
         IF x = {} THEN None ELSE Followed(d, g[x \ {Max(x)}], s[Max(x)])]

LEMMA FoldsExist ==
  ASSUME NEW d, NEW s
  PROVE  \A n \in Nat : \E g : Folds(g, n, d, s)
<1> PICK S : S = {n \in Nat : \E g : Folds(g, n, d, s)}
  OBVIOUS
<1>1. 0 \in S
  <2> PICK g : g = [x \in SUBSET (1..0) |-> None]
    OBVIOUS
  <2>1. \A x \in SUBSET (1..0) : x = {}
    OBVIOUS
  <2>2. Folds(g, 0, d, s)
    BY <2>1 DEF Folds
  <2> QED
    BY <2>2
<1>2. ASSUME NEW n \in Nat, n \in S PROVE n + 1 \in S
  <2> PICK g : Folds(g, n, d, s)
    BY <1>2
  <2> PICK h : h = [x \in SUBSET (1..(n + 1)) |->
                      IF n + 1 \in x THEN Followed(d, g[x \ {n + 1}], s[n + 1]) ELSE g[x]]
    OBVIOUS
  <2>1. \A x \in SUBSET (1..n) : x \in SUBSET (1..(n + 1)) /\ n + 1 \notin x /\ h[x] = g[x]
    OBVIOUS
  <2>2. ASSUME NEW x \in SUBSET (1..(n + 1))
        PROVE  h[x] = IF x = {} THEN None ELSE Followed(d, h[x \ {Max(x)}], s[Max(x)])
    <3>1. CASE n + 1 \in x
      <4>1. Max(x) = n + 1 /\ x \ {n + 1} \in SUBSET (1..n)
        BY <3>1, MaxOfSet
      <4> QED
        BY <2>1, <3>1, <4>1
    <3>2. CASE n + 1 \notin x
      <4>1. \A i \in x : i \in 1..n
        BY <3>2
      <4>2. x \in SUBSET (1..n) /\ x \ {Max(x)} \in SUBSET (1..n)
        BY <4>1
      <4>3. g[x] = IF x = {} THEN None ELSE Followed(d, g[x \ {Max(x)}], s[Max(x)])
        BY <4>2 DEF Folds
      <4> QED
        BY <2>1, <4>2, <4>3
    <3> QED
      BY <3>1, <3>2
  <2>3. h = [x \in SUBSET (1..(n + 1)) |->
               IF x = {} THEN None ELSE Followed(d, h[x \ {Max(x)}], s[Max(x)])]
    BY <2>2
  <2>4. Folds(h, n + 1, d, s)
    BY <2>3 DEF Folds
  <2> QED
    BY <2>4
<1>3. Nat \subseteq S
  BY <1>1, <1>2, NatInductionSet
<1> QED
  BY <1>3

\* f holds the states the first n events of s lead to, one after the other.
Trace(f, n, d, s) ==
  f[0] = None /\ \A i \in 1..n : f[i] = Followed(d, f[i - 1], s[i])

LEMMA FoldsFollow ==
  ASSUME NEW d, NEW s, NEW n \in Nat, NEW g, Folds(g, n, d, s), NEW f, Trace(f, n, d, s)
  PROVE  g[1..n] = f[n]
<1> USE DEF Trace
<1> PICK S : S = {m \in Nat : m <= n => g[1..m] = f[m]}
  OBVIOUS
<1>0. \A x \in SUBSET (1..n) :
        g[x] = IF x = {} THEN None ELSE Followed(d, g[x \ {Max(x)}], s[Max(x)])
  BY DEF Folds
<1>1. 0 \in S
  <2>1. 1..0 = {} /\ 1..0 \in SUBSET (1..n)
    OBVIOUS
  <2> QED
    BY <1>0, <2>1
<1>2. ASSUME NEW m \in Nat, m \in S PROVE m + 1 \in S
  <2> SUFFICES ASSUME m + 1 <= n PROVE g[1..(m + 1)] = f[m + 1]
    OBVIOUS
  <2>1. 1..(m + 1) \in SUBSET (1..n)
    <3>1. \A i \in 1..(m + 1) : i \in 1..n
      OBVIOUS
    <3> QED
      BY <3>1
  <2>2. m + 1 \in 1..(m + 1) /\ m + 1 \in 1..n
    OBVIOUS
  <2>3. (1..(m + 1)) \ {m + 1} = 1..m
    OBVIOUS
  <2>4. Max(1..(m + 1)) = m + 1
    BY <2>2, MaxOfSet
  <2>5. g[1..m] = f[m]
    BY <1>2
  <2>6. g[1..(m + 1)] = Followed(d, g[1..m], s[m + 1])
    <3>1. 1..(m + 1) # {}
      BY <2>2
    <3> QED
      BY <1>0, <2>1, <2>3, <2>4, <3>1
  <2>7. f[m + 1] = Followed(d, f[(m + 1) - 1], s[m + 1]) /\ (m + 1) - 1 = m
    BY <2>2
  <2> QED
    BY <2>5, <2>6, <2>7
<1>3. Nat \subseteq S
  BY <1>1, <1>2, NatInductionSet
<1> QED
  BY <1>3

\* Every sequence of events leads somewhere.
LEMMA LeadsSomewhere ==
  ASSUME NEW d, NEW from, NEW s, Len(s) \in Nat
  PROVE  \E to : Leads(d, from, s, to)
<1> PICK S : S = {n \in Nat : \E f : /\ f[0] = from
                                     /\ \A i \in 1..n : f[i] = Followed(d, f[i - 1], s[i])}
  OBVIOUS
<1>1. 0 \in S
  <2> PICK f : f = [i \in {0} |-> from]
    OBVIOUS
  <2> f[0] = from
    OBVIOUS
  <2> QED
    OBVIOUS
<1>2. ASSUME NEW n \in Nat, n \in S PROVE n + 1 \in S
  <2> PICK f : f[0] = from /\ \A i \in 1..n : f[i] = Followed(d, f[i - 1], s[i])
    BY <1>2
  <2> PICK h : h = [i \in 0..(n + 1) |->
                      IF i = n + 1 THEN Followed(d, f[n], s[n + 1]) ELSE f[i]]
    OBVIOUS
  <2>1. h[0] = from /\ \A i \in 0..n : h[i] = f[i]
    OBVIOUS
  <2>2. h[n + 1] = Followed(d, h[n], s[n + 1])
    BY <2>1
  <2>3. \A i \in 1..(n + 1) : h[i] = Followed(d, h[i - 1], s[i])
    <3> TAKE i \in 1..(n + 1)
    <3>1. CASE i = n + 1
      BY <2>2, <3>1
    <3>2. CASE i # n + 1
      <4>1. i \in 1..n /\ i \in 0..n /\ i - 1 \in 0..n
        BY <3>2
      <4> QED
        BY <2>1, <4>1
    <3> QED
      BY <3>1, <3>2
  <2>4. \E e : e[0] = from /\ \A i \in 1..(n + 1) : e[i] = Followed(d, e[i - 1], s[i])
    BY <2>1, <2>3
  <2> QED
    BY <2>4
<1>3. Nat \subseteq S
  BY <1>1, <1>2, NatInductionSet
<1>4. PICK f : f[0] = from /\ \A i \in 1..Len(s) : f[i] = Followed(d, f[i - 1], s[i])
  BY <1>3
<1> QED
  BY <1>4 DEF Leads

\* The fold of the outbox is where its events lead.
LEMMA ReplayIsWhereItLeads ==
  ASSUME NEW d, NEW s \in Seq(Event), NEW to, Leads(d, None, s, to)
  PROVE  Replay(d, s) = to
<1> PICK n \in Nat : n = Len(s) /\ DOMAIN s = 1..n
  OBVIOUS
<1>0. PICK f : f[0] = None /\ (\A i \in 1..n : f[i] = Followed(d, f[i - 1], s[i])) /\ f[n] = to
  BY DEF Leads
<1> PICK g : g = CHOOSE h : Folds(h, n, d, s)
  OBVIOUS
<1>1. Folds(g, n, d, s)
  BY FoldsExist
<1>2. Replay(d, s) = g[DOMAIN s]
  BY DEF Replay, FoldLeft, MapThenFoldSet, Folds
<1>3. g[1..n] = f[n]
  <2>1. Trace(f, n, d, s)
    BY <1>0 DEF Trace
  <2> QED
    BY <1>1, <2>1, FoldsFollow
<1> QED
  BY <1>0, <1>2, <1>3

\* One sequence of events after another.
LEMMA LeadsFurther ==
  ASSUME NEW d, NEW a, NEW b, NEW c, NEW s \in Seq(Event), NEW t \in Seq(Event),
         Leads(d, a, s, b), Leads(d, b, t, c)
  PROVE  Leads(d, a, s \o t, c)
<1> PICK m \in Nat, n \in Nat : m = Len(s) /\ n = Len(t)
  OBVIOUS
<1> PICK f : f[0] = a /\ (\A i \in 1..m : f[i] = Followed(d, f[i - 1], s[i])) /\ f[m] = b
  BY DEF Leads
<1> PICK g : g[0] = b /\ (\A i \in 1..n : g[i] = Followed(d, g[i - 1], t[i])) /\ g[n] = c
  BY DEF Leads
<1> PICK h : h = [i \in 0..(m + n) |-> IF i <= m THEN f[i] ELSE g[i - m]]
  OBVIOUS
<1>1. /\ Len(s \o t) = m + n
      /\ \A i \in 1..(m + n) : (s \o t)[i] = IF i <= m THEN s[i] ELSE t[i - m]
  BY ConcatProperties
<1>2. \A i \in 0..m : h[i] = f[i]
  OBVIOUS
<1>3. \A i \in 0..n : h[m + i] = g[i]
  <2> TAKE i \in 0..n
  <2>1. CASE i = 0
    BY <2>1
  <2>2. CASE i # 0
    <3>1. m + i \in 0..(m + n) /\ ~(m + i <= m) /\ (m + i) - m = i
      BY <2>2
    <3> QED
      BY <3>1
  <2> QED
    BY <2>1, <2>2
<1>4. h[0] = a /\ h[m + n] = c
  BY <1>2, <1>3
<1>5. ASSUME NEW i \in 1..(m + n) PROVE h[i] = Followed(d, h[i - 1], (s \o t)[i])
  <2>1. CASE i <= m
    <3>1. i \in 1..m /\ i \in 0..m /\ i - 1 \in 0..m
      BY <2>1
    <3> QED
      BY <1>1, <1>2, <2>1, <3>1
  <2>2. CASE ~(i <= m)
    <3> PICK j : j = i - m
      OBVIOUS
    <3>1. /\ j \in 1..n /\ j \in 0..n /\ j - 1 \in 0..n
          /\ m + j = i /\ m + (j - 1) = i - 1
      BY <2>2
    <3>2. h[i] = g[j] /\ h[i - 1] = g[j - 1]
      BY <1>3, <3>1
    <3>3. (s \o t)[i] = t[j]
      BY <1>1, <2>2
    <3> QED
      BY <3>1, <3>2, <3>3
  <2> QED
    BY <2>1, <2>2
<1>6. \A i \in 1..Len(s \o t) : h[i] = Followed(d, h[i - 1], (s \o t)[i])
  BY <1>1, <1>5
<1>7. h[0] = a /\ h[Len(s \o t)] = c
  BY <1>1, <1>4
<1> QED
  BY <1>6, <1>7 DEF Leads

\* A single event.
LEMMA LeadsByOne ==
  ASSUME NEW d, NEW from, NEW e
  PROVE  Leads(d, from, <<e>>, Followed(d, from, e))
<1> PICK f : f = [i \in 0..1 |-> IF i = 0 THEN from ELSE Followed(d, from, e)]
  OBVIOUS
<1>1. f[0] = from /\ f[1] = Followed(d, from, e) /\ Len(<<e>>) = 1 /\ <<e>>[1] = e
  OBVIOUS
<1>2. \A i \in 1..1 : i = 1 /\ i - 1 = 0
  OBVIOUS
<1>3. \A i \in 1..Len(<<e>>) : f[i] = Followed(d, f[i - 1], <<e>>[i])
  BY <1>1, <1>2
<1> QED
  BY <1>1, <1>3 DEF Leads

\* The events of other decks lead nowhere.
LEMMA LeadsNowhere ==
  ASSUME NEW d, NEW from, NEW s \in Seq(Event), \A i \in DOMAIN s : s[i].deck # d
  PROVE  Leads(d, from, s, from)
<1> PICK n \in Nat : n = Len(s) /\ DOMAIN s = 1..n
  OBVIOUS
<1> PICK f : f = [i \in 0..n |-> from]
  OBVIOUS
<1>1. \A i \in 0..n : f[i] = from
  OBVIOUS
<1>2. ASSUME NEW i \in 1..n PROVE f[i] = Followed(d, f[i - 1], s[i])
  <2>1. i \in 0..n /\ i - 1 \in 0..n
    OBVIOUS
  <2>2. Followed(d, f[i - 1], s[i]) = f[i - 1]
    BY DEF Followed
  <2> QED
    BY <1>1, <2>1, <2>2
<1> QED
  BY <1>1, <1>2 DEF Leads

\* What is appended to the outbox carries the replay of a deck on.
LEMMA ReplayExtends ==
  ASSUME NEW d, NEW s \in Seq(Event), NEW t \in Seq(Event), NEW to,
         Leads(d, Replay(d, s), t, to)
  PROVE  Replay(d, s \o t) = to
<1>0. Len(s) \in Nat
  OBVIOUS
<1>1. PICK x : Leads(d, None, s, x)
  BY <1>0, LeadsSomewhere
<1>2. x = Replay(d, s)
  BY <1>1, ReplayIsWhereItLeads
<1>3. Leads(d, None, s \o t, to)
  BY <1>1, <1>2, LeadsFurther
<1>4. s \o t \in Seq(Event)
  BY ConcatProperties
<1> QED
  BY <1>3, <1>4, ReplayIsWhereItLeads

-----------------------------------------------------------------------------
(* What the events make of the cards. *)

\* What the outbox tells of a card list, and of an aggregate.
Shown(cards) == [i \in DOMAIN cards |-> [id |-> cards[i].id, content |-> cards[i].content]]
View(a) == [title |-> a.title, deleted |-> a.deleted, cards |-> Shown(a.cards)]

\* The shown cards in the order of the ids.
Arranged(shown, order) ==
  [i \in DOMAIN order |-> CHOOSE c \in ToSet(shown) : c.id = order[i]]

\* The rows of a dense list, in the order of their ordinals, are that list.
LEMMA InOrder ==
  ASSUME NEW s, Dense(s)
  PROVE  InOrdinalOrder(ToSet(s)) = s
<1> PICK rows, n, h : rows = ToSet(s) /\ n = Len(s) /\ h = InOrdinalOrder(rows)
  OBVIOUS
<1>1. /\ n \in Nat /\ s \in Seq(Card) /\ DOMAIN s = 1..n
      /\ \A i \in 1..n : s[i].ordinal = i /\ s[i] \in rows
  BY DEF Dense, ToSet
<1>2. Cardinality(rows) = n
  BY DenseCardinality
<1>3. s \in [1..n -> rows]
  BY <1>1 DEF ToSet
<1>4. \A i, j \in 1..n : i < j => s[i].ordinal < s[j].ordinal
  BY <1>1
<1>5. h \in [1..n -> rows] /\ \A i, j \in 1..n : i < j => h[i].ordinal < h[j].ordinal
  BY <1>2, <1>3, <1>4 DEF InOrdinalOrder
<1>6. \A r \in rows : r.ordinal \in 1..n /\ s[r.ordinal] = r
  BY <1>1 DEF ToSet
<1> PICK at : at = [i \in 1..n |-> h[i].ordinal]
  OBVIOUS
<1>7. /\ \A i \in 1..n : at[i] \in 1..n /\ s[at[i]] = h[i]
      /\ \A i, j \in 1..n : i < j => at[i] < at[j]
  BY <1>5, <1>6
<1>8. \A i \in 1..n : at[i] >= i
  <2> PICK S : S = {m \in Nat : m \in 1..n => at[m] >= m}
    OBVIOUS
  <2>1. 0 \in S
    OBVIOUS
  <2>2. ASSUME NEW m \in Nat, m \in S PROVE m + 1 \in S
    <3> SUFFICES ASSUME m + 1 \in 1..n PROVE at[m + 1] >= m + 1
      OBVIOUS
    <3>1. CASE m = 0
      BY <1>7, <3>1
    <3>2. CASE m # 0
      <4>1. m \in 1..n /\ m < m + 1
        BY <1>1, <3>2
      <4>2. at[m] >= m /\ at[m] < at[m + 1]
        BY <1>7, <2>2, <4>1
      <4>3. at[m] \in Nat /\ at[m + 1] \in Nat
        BY <1>7, <4>1
      <4> QED
        BY <4>2, <4>3
    <3> QED
      BY <3>1, <3>2
  <2>3. Nat \subseteq S
    BY <2>1, <2>2, NatInductionSet
  <2> QED
    BY <2>3
<1>9. \A i \in 1..n : at[i] <= i
  <2> PICK S : S = {m \in Nat : n - m \in 1..n => at[n - m] <= n - m}
    OBVIOUS
  <2>1. 0 \in S
    BY <1>1, <1>7
  <2>2. ASSUME NEW m \in Nat, m \in S PROVE m + 1 \in S
    <3> SUFFICES ASSUME n - (m + 1) \in 1..n PROVE at[n - (m + 1)] <= n - (m + 1)
      OBVIOUS
    <3> PICK k : k = n - (m + 1)
      OBVIOUS
    <3>1. k \in 1..n /\ n - m = k + 1 /\ k + 1 \in 1..n /\ k < k + 1
      BY <1>1
    <3>2. at[k + 1] <= k + 1 /\ at[k] < at[k + 1]
      BY <1>7, <2>2, <3>1
    <3>3. at[k] \in Nat /\ at[k + 1] \in Nat /\ k \in Nat
      BY <1>7, <3>1
    <3>4. at[k] <= k
      BY <3>2, <3>3
    <3> QED
      BY <3>4
  <2>3. Nat \subseteq S
    BY <2>1, <2>2, NatInductionSet
  <2>4. ASSUME NEW i \in 1..n PROVE at[i] <= i
    <3>1. n - i \in Nat /\ n - (n - i) = i
      BY <1>1
    <3> QED
      BY <2>3, <3>1
  <2> QED
    BY <2>4
<1>10. \A i \in 1..n : h[i] = s[i]
  <2> TAKE i \in 1..n
  <2>1. at[i] \in Nat /\ i \in Nat /\ at[i] >= i /\ at[i] <= i
    BY <1>7, <1>8, <1>9
  <2>2. at[i] = i
    BY <2>1
  <2> QED
    BY <1>7, <2>2
<1> QED
  BY <1>3, <1>5, <1>10

\* The rows of a dense list are read back as that list.
LEMMA ReadsBack ==
  ASSUME NEW rows, DenseRows(rows)
  PROVE  Hydrated(rows) = InOrdinalOrder(rows) /\ Dense(InOrdinalOrder(rows))
<1> PICK s : Dense(s) /\ rows = ToSet(s)
  BY DEF DenseRows
<1>1. InOrdinalOrder(rows) = s /\ s \in Seq(Card)
  BY InOrder DEF Dense
<1>2. \A i \in 1..Len(s) : [s[i] EXCEPT !.ordinal = i] = s[i]
  <2> TAKE i \in 1..Len(s)
  <2>1. s[i] \in Card /\ s[i].ordinal = i
    BY <1>1 DEF Dense
  <2> QED
    BY <2>1 DEF Card
<1>3. Renumbered(s) = s
  <2>1. s = [i \in 1..Len(s) |-> s[i]]
    BY <1>1
  <2> QED
    BY <1>2, <2>1 DEF Renumbered
<1> QED
  BY <1>1, <1>3 DEF Hydrated

\* The elements of what is shown of a list.
LEMMA ShownCards ==
  ASSUME NEW s \in Seq(Card)
  PROVE  /\ Shown(s) \in Seq([id : Nat, content : Contents])
         /\ Len(Shown(s)) = Len(s) /\ DOMAIN Shown(s) = 1..Len(s)
         /\ \A i \in 1..Len(s) : Shown(s)[i] = [id |-> s[i].id, content |-> s[i].content]
<1>1. \A i \in 1..Len(s) : [id |-> s[i].id, content |-> s[i].content]
                             \in [id : Nat, content : Contents]
  <2> TAKE i \in 1..Len(s)
  <2>1. s[i] \in Card
    OBVIOUS
  <2> QED
    BY <2>1 DEF Card
<1>2. Len(s) \in Nat /\ DOMAIN s = 1..Len(s)
  OBVIOUS
<1> PICK t : t = [i \in 1..Len(s) |-> [id |-> s[i].id, content |-> s[i].content]]
  OBVIOUS
<1>3. t \in [1..Len(s) -> [id : Nat, content : Contents]]
  BY <1>1
<1>4. t \in Seq([id : Nat, content : Contents]) /\ Len(t) = Len(s)
  BY <1>2, <1>3
<1>5. Shown(s) = t
  BY <1>2 DEF Shown
<1> QED
  BY <1>4, <1>5

\* Lists that show the same.
LEMMA SameShown ==
  ASSUME NEW s \in Seq(Card), NEW t \in Seq(Card), Len(s) = Len(t),
         \A i \in 1..Len(s) : s[i].id = t[i].id /\ s[i].content = t[i].content
  PROVE  Shown(s) = Shown(t)
BY DEF Shown

LEMMA AddedShown ==
  ASSUME NEW s \in Seq(Card), NEW c \in Card
  PROVE  Append(Shown(s), [id |-> c.id, content |-> c.content]) = Shown(Append(s, c))
<1> PICK n \in Nat : n = Len(s)
  OBVIOUS
<1>1. /\ Append(s, c) \in Seq(Card) /\ Len(Append(s, c)) = n + 1
      /\ Append(s, c)[n + 1] = c /\ \A i \in 1..n : Append(s, c)[i] = s[i]
  OBVIOUS
<1> PICK t : t = Append(Shown(s), [id |-> c.id, content |-> c.content])
  OBVIOUS
<1> PICK u : u = Shown(Append(s, c))
  OBVIOUS
<1>2. /\ DOMAIN t = 1..(n + 1) /\ t[n + 1] = [id |-> c.id, content |-> c.content]
      /\ \A i \in 1..n : t[i] = [id |-> s[i].id, content |-> s[i].content]
  BY ShownCards
<1>3. /\ DOMAIN u = 1..(n + 1)
      /\ \A i \in 1..(n + 1) : u[i] = [id |-> Append(s, c)[i].id, content |-> Append(s, c)[i].content]
  BY <1>1, ShownCards
<1>4. \A i \in 1..(n + 1) : t[i] = u[i]
  <2> TAKE i \in 1..(n + 1)
  <2>1. CASE i = n + 1
    BY <1>1, <1>2, <1>3, <2>1
  <2>2. CASE i # n + 1
    <3>1. i \in 1..n
      BY <2>2
    <3> QED
      BY <1>1, <1>2, <1>3, <3>1
  <2> QED
    BY <2>1, <2>2
<1>5. t = [i \in 1..(n + 1) |-> t[i]] /\ u = [i \in 1..(n + 1) |-> u[i]]
  <2>1. t = [i \in DOMAIN t |-> t[i]]
    <3> PICK R : R = [id : Nat, content : Contents]
      OBVIOUS
    <3>1. [id |-> c.id, content |-> c.content] \in R /\ Shown(s) \in Seq(R)
      BY ShownCards DEF Card
    <3>2. t \in Seq(R)
      BY <3>1, AppendProperties
    <3> QED
      BY <3>2
  <2>2. u = [i \in DOMAIN u |-> u[i]]
    <3>1. u \in Seq([id : Nat, content : Contents])
      BY <1>1, ShownCards
    <3> QED
      BY <3>1
  <2> QED
    BY <1>2, <1>3, <2>1, <2>2
<1> QED
  BY <1>4, <1>5

LEMMA EditedShown ==
  ASSUME NEW s, Dense(s), NEW i \in DOMAIN s, NEW content \in Contents
  PROVE  [j \in DOMAIN Shown(s) |->
            IF Shown(s)[j].id = s[i].id THEN [Shown(s)[j] EXCEPT !.content = content]
            ELSE Shown(s)[j]]
          = Shown([s EXCEPT ![i].content = content])
<1> PICK n \in Nat : n = Len(s) /\ DOMAIN s = 1..n
  BY DEF Dense
<1> PICK t : t = [s EXCEPT ![i].content = content]
  OBVIOUS
<1>1. s \in Seq(Card) /\ \A j \in 1..n : s[j] \in Card
  BY DEF Dense
<1>2. /\ DOMAIN t = 1..n /\ t[i] = [s[i] EXCEPT !.content = content]
      /\ \A j \in 1..n : j # i => t[j] = s[j]
  BY <1>1
<1>3. DOMAIN Shown(s) = 1..n /\ \A j \in 1..n : Shown(s)[j] = [id |-> s[j].id, content |-> s[j].content]
  BY <1>1, ShownCards
<1>4. ASSUME NEW j \in 1..n
      PROVE  (IF Shown(s)[j].id = s[i].id THEN [Shown(s)[j] EXCEPT !.content = content]
              ELSE Shown(s)[j]) = [id |-> t[j].id, content |-> t[j].content]
  <2>1. CASE j = i
    <3>1. t[i].id = s[i].id /\ t[i].content = content
      BY <1>1, <1>2 DEF Card
    <3>2. Shown(s)[i].id = s[i].id
      BY <1>3
    <3>3. [Shown(s)[i] EXCEPT !.content = content] = [id |-> s[i].id, content |-> content]
      BY <1>3
    <3> QED
      BY <2>1, <3>1, <3>2, <3>3
  <2>2. CASE j # i
    <3>1. s[j].id # s[i].id
      BY <2>2 DEF Dense
    <3>2. Shown(s)[j].id = s[j].id /\ t[j] = s[j]
      BY <1>2, <1>3, <2>2
    <3> QED
      BY <1>3, <3>1, <3>2
  <2> QED
    BY <2>1, <2>2
<1>5. Shown(t) = [j \in 1..n |-> [id |-> t[j].id, content |-> t[j].content]]
  BY <1>2 DEF Shown
<1> DEFINE e(j) == IF Shown(s)[j].id = s[i].id THEN [Shown(s)[j] EXCEPT !.content = content]
                   ELSE Shown(s)[j]
           v(j) == [id |-> t[j].id, content |-> t[j].content]
<1>6. \A j \in 1..n : e(j) = v(j)
  BY <1>4
<1>7. Shown(t) = [j \in 1..n |-> v(j)]
  BY <1>5
<1> HIDE DEF e, v
<1>8. [j \in DOMAIN Shown(s) |-> e(j)] = Shown(t)
  BY <1>3, <1>6, <1>7
<1> QED
  BY <1>8 DEF e

LEMMA RemovedShown ==
  ASSUME NEW s, Dense(s), NEW i \in DOMAIN s, NEW x, x = Shown(s), NEW id, id = s[i].id
  PROVE  RemoveAt(x, CHOOSE j \in DOMAIN x : x[j].id = id) = Shown(Without(s, i))
<1> PICK n \in Nat : n = Len(s) /\ DOMAIN s = 1..n
  BY DEF Dense
<1>1. s \in Seq(Card) /\ n - 1 \in Nat
  BY DEF Dense
<1>2. /\ Shown(s) \in Seq([id : Nat, content : Contents]) /\ Len(Shown(s)) = n
      /\ DOMAIN Shown(s) = 1..n
      /\ \A j \in 1..n : Shown(s)[j] = [id |-> s[j].id, content |-> s[j].content]
  BY <1>1, ShownCards
<1>3. (CHOOSE j \in DOMAIN x : x[j].id = id) = i
  <2>1. \A j \in 1..n : x[j].id = id <=> j = i
    BY <1>2 DEF Dense
  <2> QED
    BY <1>2, <2>1
<1> PICK r : r = RemoveAt(s, i)
  OBVIOUS
<1>4. /\ r \in Seq(Card) /\ Len(r) = n - 1
      /\ \A j \in 1..n-1 : /\ j < i => r[j] = s[j]
                           /\ i <= j => r[j] = s[j + 1]
  BY <1>1, RemoveAtSeq
<1> PICK t : t = RemoveAt(Shown(s), i)
  OBVIOUS
<1>5. /\ t \in Seq([id : Nat, content : Contents]) /\ Len(t) = n - 1
      /\ \A j \in 1..n-1 : /\ j < i => t[j] = Shown(s)[j]
                           /\ i <= j => t[j] = Shown(s)[j + 1]
  <2> PICK R : R = [id : Nat, content : Contents]
    OBVIOUS
  <2>1. x \in Seq(R) /\ Len(x) = n /\ i \in 1..Len(x) /\ t = RemoveAt(x, i)
    BY <1>2
  <2>2. /\ RemoveAt(x, i) \in Seq(R) /\ Len(RemoveAt(x, i)) = Len(x) - 1
        /\ \A j \in 1..Len(x)-1 : j < i => RemoveAt(x, i)[j] = x[j]
        /\ \A j \in 1..Len(x)-1 : i <= j => RemoveAt(x, i)[j] = x[j + 1]
    BY <2>1, RemoveAtSeq
  <2> QED
    BY <2>1, <2>2
<1> PICK u : u = Renumbered(r)
  OBVIOUS
<1>6. /\ u \in Seq(Card) /\ Len(u) = n - 1
      /\ \A j \in 1..n-1 : u[j] = [r[j] EXCEPT !.ordinal = j]
  BY <1>4, RenumberedCards DEF Renumbered
<1>7. ASSUME NEW j \in 1..n-1 PROVE t[j] = [id |-> u[j].id, content |-> u[j].content]
  <2>1. r[j] \in Card
    BY <1>4
  <2>2. u[j].id = r[j].id /\ u[j].content = r[j].content
    BY <1>6, <2>1 DEF Card
  <2>3. j \in 1..n /\ j + 1 \in 1..n /\ (j < i \/ i <= j)
    OBVIOUS
  <2>4. CASE j < i
    BY <1>2, <1>4, <1>5, <2>2, <2>3, <2>4
  <2>5. CASE i <= j
    BY <1>2, <1>4, <1>5, <2>2, <2>3, <2>5
  <2> QED
    BY <2>3, <2>4, <2>5
<1>8. t = [j \in 1..n-1 |-> t[j]]
  BY <1>5
<1>9. Shown(u) = [j \in 1..n-1 |-> [id |-> u[j].id, content |-> u[j].content]]
  BY <1>6 DEF Shown
<1>10. t = Shown(u)
  BY <1>7, <1>8, <1>9
<1> QED
  BY <1>3, <1>10 DEF Without

\* Reordering by ids: the shown cards follow the order that is shown.
LEMMA ReorderedShown ==
  ASSUME NEW s, Dense(s), NEW order \in Seq(Nat), IsPermutationOf(order, s)
  PROVE  Arranged(Shown(s), order) = Shown(Reordered(s, order))
<1> PICK n \in Nat : n = Len(s) /\ DOMAIN s = 1..n
  BY DEF Dense
<1>1. s \in Seq(Card) /\ \A j \in 1..n : s[j] \in Card
  BY DEF Dense
<1>2. /\ DOMAIN Shown(s) = 1..n
      /\ \A j \in 1..n : Shown(s)[j] = [id |-> s[j].id, content |-> s[j].content]
  BY <1>1, ShownCards
<1>3. /\ DOMAIN order = 1..n /\ Len(order) = n
      /\ \A i \in 1..n : \E k \in 1..n : order[i] = s[k].id
  BY DEF IsPermutationOf, KnownIds
<1> PICK t : t = Reordered(s, order)
  OBVIOUS
<1>4. DOMAIN t = 1..n /\ \A i \in 1..n : t[i] = [CardWithId(s, order[i]) EXCEPT !.ordinal = i]
  BY <1>3 DEF Reordered
<1>5. ASSUME NEW i \in 1..n
      PROVE  (CHOOSE c \in ToSet(Shown(s)) : c.id = order[i])
               = [id |-> t[i].id, content |-> t[i].content]
  <2> PICK k \in 1..n : order[i] = s[k].id
    BY <1>3
  <2>1. CardWithId(s, order[i]) = s[k]
    <3>1. s[k] \in ToSet(s) /\ s[k].id = order[i]
      BY DEF ToSet
    <3>2. \A c \in ToSet(s) : c.id = order[i] => c = s[k]
      BY DEF ToSet, Dense
    <3> QED
      BY <3>1, <3>2 DEF CardWithId
  <2>2. t[i].id = s[k].id /\ t[i].content = s[k].content
    <3>1. t[i] = [s[k] EXCEPT !.ordinal = i] /\ s[k] \in Card
      BY <1>1, <1>4, <2>1
    <3> QED
      BY <3>1 DEF Card
  <2>3. (CHOOSE c \in ToSet(Shown(s)) : c.id = order[i]) = Shown(s)[k]
    <3>0. Shown(s)[k].id = order[i]
      BY <1>2
    <3>1. Shown(s)[k] \in ToSet(Shown(s)) /\ Shown(s)[k].id = order[i]
      BY <1>2, <3>0 DEF ToSet
    <3>2. \A j \in 1..n : Shown(s)[j].id = order[i] => j = k
      BY <1>2 DEF Dense
    <3>3. \A c \in ToSet(Shown(s)) : c.id = order[i] => c = Shown(s)[k]
      BY <1>2, <3>2 DEF ToSet
    <3> QED
      BY <3>1, <3>3
  <2> QED
    BY <1>2, <2>2, <2>3
<1>6. Shown(t) = [i \in 1..n |-> [id |-> t[i].id, content |-> t[i].content]]
  BY <1>4 DEF Shown
<1> QED
  BY <1>3, <1>5, <1>6 DEF Arranged

\* Reordering a list by the ids it has leaves what it shows.
LEMMA SameOrderShown ==
  ASSUME NEW s, Dense(s)
  PROVE  Arranged(Shown(s), IdsOf(s)) = Shown(s)
<1> PICK n \in Nat : n = Len(s) /\ DOMAIN s = 1..n
  BY DEF Dense
<1>1. s \in Seq(Card)
  BY DEF Dense
<1>2. /\ DOMAIN Shown(s) = 1..n /\ Shown(s) = [i \in 1..n |-> Shown(s)[i]]
      /\ \A j \in 1..n : Shown(s)[j] = [id |-> s[j].id, content |-> s[j].content]
  BY <1>1, ShownCards DEF Shown
<1>3. DOMAIN IdsOf(s) = 1..n /\ \A i \in 1..n : IdsOf(s)[i] = s[i].id
  BY DEF IdsOf
<1>4. ASSUME NEW i \in 1..n
      PROVE  (CHOOSE c \in ToSet(Shown(s)) : c.id = IdsOf(s)[i]) = Shown(s)[i]
  <2>1. Shown(s)[i] \in ToSet(Shown(s)) /\ Shown(s)[i].id = IdsOf(s)[i]
    BY <1>2, <1>3 DEF ToSet
  <2>2. \A j \in 1..n : Shown(s)[j].id = IdsOf(s)[i] => j = i
    BY <1>2, <1>3 DEF Dense
  <2>3. \A c \in ToSet(Shown(s)) : c.id = IdsOf(s)[i] => c = Shown(s)[i]
    BY <1>2, <2>2 DEF ToSet
  <2> QED
    BY <2>1, <2>3
<1> QED
  BY <1>2, <1>3, <1>4 DEF Arranged

-----------------------------------------------------------------------------
(* The events of each operation lead from what it read to what it saves. *)

LEMMA ViewFields ==
  ASSUME NEW a
  PROVE  View(a).title = a.title /\ View(a).deleted = a.deleted /\ View(a).cards = Shown(a.cards)
BY DEF View

\* A new deck with the first of its cards.
Draft(title, shown) == [title |-> title, deleted |-> FALSE, cards |-> shown]

LEMMA DraftFollowed ==
  ASSUME NEW d, NEW title, NEW shown, NEW e, e.type = "CardAdded", e.deck = d,
         NEW c, c = [id |-> e.card, content |-> e.content]
  PROVE  Followed(d, Draft(title, shown), e) = Draft(title, Append(shown, c))
<1>1. Followed(d, Draft(title, shown), e) = [Draft(title, shown) EXCEPT !.cards = Append(@, c)]
  BY DEF Followed, Applied
<1> QED
  BY <1>1 DEF Draft

LEMMA AddCardLeads ==
  ASSUME NEW d, NEW a \in Deck, NEW card \in Card,
         NEW e, e = [type |-> "CardAdded", deck |-> d, card |-> card.id,
                     content |-> card.content, ordinal |-> card.ordinal]
  PROVE  Leads(d, View(a), <<e>>, View([a EXCEPT !.cards = Append(@, card)]))
<1>1. a.cards \in Seq(Card)
  BY DEF Deck
<1> PICK b : b = [a EXCEPT !.cards = Append(@, card)]
  OBVIOUS
<1>2. b.title = a.title /\ b.deleted = a.deleted /\ b.cards = Append(a.cards, card)
  BY DEF Deck
<1>3. Shown(b.cards) = Append(Shown(a.cards), [id |-> card.id, content |-> card.content])
  BY <1>1, <1>2, AddedShown
<1>4. Followed(d, View(a), e) = [View(a) EXCEPT !.cards = Append(@, [id |-> e.card, content |-> e.content])]
  BY DEF Followed, Applied
<1>5. e.card = card.id /\ e.content = card.content
  OBVIOUS
<1>6. Followed(d, View(a), e) = View(b)
  BY <1>2, <1>3, <1>4, <1>5 DEF View
<1> QED
  BY <1>6, LeadsByOne

LEMMA EditCardLeads ==
  ASSUME NEW d, NEW a \in Deck, Dense(a.cards), NEW i \in DOMAIN a.cards,
         NEW content \in Contents,
         NEW e, e = [type |-> "CardEdited", deck |-> d, card |-> a.cards[i].id,
                     content |-> content]
  PROVE  Leads(d, View(a), <<e>>, View([a EXCEPT !.cards[i].content = content]))
<1> PICK b, s : b = [a EXCEPT !.cards[i].content = content] /\ s = a.cards
  OBVIOUS
<1>1. /\ b.title = a.title /\ b.deleted = a.deleted
      /\ b.cards = [s EXCEPT ![i].content = content]
  BY DEF Deck
<1> DEFINE v(j) == IF Shown(s)[j].id = s[i].id THEN [Shown(s)[j] EXCEPT !.content = content]
                   ELSE Shown(s)[j]
<1>2. Shown(b.cards) = [j \in DOMAIN Shown(s) |-> v(j)]
  BY <1>1, EditedShown
<1>3. e.card = s[i].id /\ e.content = content /\ e.type = "CardEdited" /\ e.deck = d
  OBVIOUS
<1>4. Followed(d, View(a), e) =
        [View(a) EXCEPT !.cards = [j \in DOMAIN @ |->
            IF @[j].id = e.card THEN [@[j] EXCEPT !.content = e.content] ELSE @[j]]]
  BY <1>3 DEF Followed, Applied
<1>5. View(a).cards = Shown(s)
  BY ViewFields
<1>6. Followed(d, View(a), e) = [View(a) EXCEPT !.cards = [j \in DOMAIN Shown(s) |-> v(j)]]
  BY <1>3, <1>4, <1>5
<1> HIDE DEF v
<1>7. Followed(d, View(a), e) = View(b)
  BY <1>1, <1>2, <1>6 DEF View
<1> QED
  BY <1>7, LeadsByOne

\* ReorderCards, and the second event of RemoveCard.
LEMMA ReorderLeads ==
  ASSUME NEW d, NEW a, NEW b, b.title = a.title, b.deleted = a.deleted, NEW order,
         Arranged(Shown(a.cards), order) = Shown(b.cards),
         NEW e, e = [type |-> "CardsReordered", deck |-> d, order |-> order]
  PROVE  Leads(d, View(a), <<e>>, View(b))
<1>1. Followed(d, View(a), e) =
        [View(a) EXCEPT !.cards = [i \in DOMAIN e.order |->
            CHOOSE c \in ToSet(@) : c.id = e.order[i]]]
  BY DEF Followed, Applied
<1>2. e.order = order /\ View(a).cards = Shown(a.cards)
  BY ViewFields
<1> DEFINE v(i) == CHOOSE c \in ToSet(Shown(a.cards)) : c.id = order[i]
<1>3. Followed(d, View(a), e) = [View(a) EXCEPT !.cards = [i \in DOMAIN order |-> v(i)]]
  BY <1>1, <1>2
<1>4. [i \in DOMAIN order |-> v(i)] = Shown(b.cards)
  BY DEF Arranged
<1> HIDE DEF v
<1>5. Followed(d, View(a), e) = View(b)
  BY <1>3, <1>4 DEF View
<1> QED
  BY <1>5, LeadsByOne

LEMMA RemoveCardLeads ==
  ASSUME NEW d \in DeckIds, NEW a \in Deck, Dense(a.cards), NEW i \in DOMAIN a.cards
  PROVE  Leads(d, View(a), RemovalEvents(d, a.cards[i].id, Without(a.cards, i)),
               View([a EXCEPT !.cards = Without(a.cards, i)]))
<1> PICK s, left, b : s = a.cards /\ left = Without(s, i) /\ b = [a EXCEPT !.cards = left]
  OBVIOUS
<1>1. b.title = a.title /\ b.deleted = a.deleted /\ b.cards = left
  BY DEF Deck
<1>0. Dense(s) /\ i \in DOMAIN s
  OBVIOUS
<1>2. Dense(left) /\ left \in Seq(Card)
  <2>1. Dense(left)
    BY <1>0, WithoutDense
  <2> QED
    BY <2>1 DEF Dense
<1>3. s[i].id \in Nat
  <2>1. s[i] \in Card
    BY <1>0 DEF Dense
  <2> QED
    BY <2>1 DEF Card
<1> PICK e : e = [type |-> "CardRemoved", deck |-> d, card |-> s[i].id]
  OBVIOUS
<1>4. e \in Event /\ e.card = s[i].id /\ e.deck = d /\ e.type = "CardRemoved"
  BY <1>3 DEF Event
<1>5. Leads(d, View(a), <<e>>, View(b))
  <2>1. Followed(d, View(a), e) =
          [View(a) EXCEPT !.cards = RemoveAt(@, CHOOSE j \in DOMAIN @ : @[j].id = e.card)]
    BY <1>4 DEF Followed, Applied
  <2> PICK x : x = View(a).cards
    OBVIOUS
  <2>2. RemoveAt(x, CHOOSE j \in DOMAIN x : x[j].id = e.card) = Shown(left)
    BY <1>0, <1>4, RemovedShown, ViewFields
  <2>3. Followed(d, View(a), e) = [View(a) EXCEPT !.cards = Shown(left)]
    BY <2>1, <2>2
  <2>4. Followed(d, View(a), e) = View(b)
    BY <1>1, <2>3 DEF View
  <2> QED
    BY <2>4, LeadsByOne
<1>6. CASE left = <<>>
  <2>1. RemovalEvents(d, s[i].id, left) = <<e>>
    BY <1>6 DEF RemovalEvents
  <2> QED
    BY <1>5, <2>1
<1>7. CASE left # <<>>
  <2> PICK r : r = [type |-> "CardsReordered", deck |-> d, order |-> IdsOf(left)]
    OBVIOUS
  <2>1. RemovalEvents(d, s[i].id, left) = <<e>> \o <<r>>
    BY <1>7 DEF RemovalEvents
  <2>2. Leads(d, View(b), <<r>>, View(b))
    <3>1. Arranged(Shown(b.cards), IdsOf(left)) = Shown(b.cards)
      BY <1>1, <1>2, SameOrderShown
    <3> QED
      BY <3>1, ReorderLeads
  <2>3. r \in Event
    <3>1. \A j \in 1..Len(left) : left[j].id \in Nat
      <4>1. \A j \in 1..Len(left) : left[j] \in Card
        BY <1>2
      <4> QED
        BY <4>1 DEF Card
    <3>2. IdsOf(left) \in Seq(Nat)
      BY <1>2, <3>1 DEF IdsOf
    <3> QED
      BY <3>2 DEF Event
  <2>4. <<e>> \in Seq(Event) /\ <<r>> \in Seq(Event)
    BY <1>4, <2>3
  <2> QED
    BY <1>5, <2>1, <2>2, <2>4, LeadsFurther
<1> QED
  BY <1>6, <1>7

\* The drafts of a new deck, one card after the other.
LEMMA CreateDeckLeads ==
  ASSUME NEW d \in DeckIds, NEW owner \in Users, NEW title \in Titles, NEW cards \in Seq(Card),
         NEW a, a = Draft(title, Shown(cards))
  PROVE  /\ CreationEvents(d, owner, title, cards) \in Seq(Event)
         /\ CreationEvents(d, owner, title, cards) # <<>>
         /\ \A i \in DOMAIN CreationEvents(d, owner, title, cards) :
              CreationEvents(d, owner, title, cards)[i].deck = d
         /\ Leads(d, None, CreationEvents(d, owner, title, cards), a)
<1> PICK n \in Nat : n = Len(cards) /\ DOMAIN cards = 1..n
  OBVIOUS
<1> PICK made : made = [type |-> "DeckCreated", deck |-> d, owner |-> owner, title |-> title,
                        cardCount |-> Len(cards)]
  OBVIOUS
<1> PICK added : added = [i \in 1..Len(cards) |->
                            [type |-> "CardAdded", deck |-> d, card |-> cards[i].id,
                             content |-> cards[i].content, ordinal |-> cards[i].ordinal]]
  OBVIOUS
<1> PICK first : first = Draft(title, <<>>)
  OBVIOUS
<1>1. CreationEvents(d, owner, title, cards) = <<made>> \o added
  BY DEF CreationEvents
<1>2. made \in Event /\ made.deck = d /\ made.type = "DeckCreated" /\ made.title = title
  BY DEF Event
<1>3. \A i \in 1..n : cards[i] \in Card
  OBVIOUS
<1>4. \A i \in 1..n : added[i] \in Event
  BY <1>3 DEF Event, Card
<1>5. added \in Seq(Event) /\ Len(added) = n /\ <<made>> \in Seq(Event) /\ Len(<<made>>) = 1
  BY <1>2, <1>4
<1>6. \A i \in 1..n : /\ added[i].type = "CardAdded" /\ added[i].deck = d
                     /\ added[i].card = cards[i].id /\ added[i].content = cards[i].content
  OBVIOUS
<1>7. Leads(d, None, <<made>>, first)
  <2>1. Followed(d, None, made) = first
    BY <1>2 DEF Followed, Applied, Draft
  <2> QED
    BY <2>1, LeadsByOne
<1>8. Leads(d, first, added, a)
  <2> DEFINE shown(i) == [id |-> cards[i].id, content |-> cards[i].content]
             upTo(k) == [i \in 1..k |-> shown(i)]
             after(k) == Draft(title, upTo(k))
  <2> PICK f : f = [k \in 0..n |-> after(k)]
    OBVIOUS
  <2>1. \A k \in 0..n : f[k] = after(k)
    OBVIOUS
  <2>2. f[0] = first
    <3>1. upTo(0) = <<>>
      OBVIOUS
    <3> QED
      BY <2>1, <3>1
  <2>3. f[n] = a
    <3>1. upTo(n) = Shown(cards)
      BY DEF Shown
    <3>2. n \in 0..n
      OBVIOUS
    <3> HIDE DEF upTo
    <3> QED
      BY <2>1, <3>1, <3>2
  <2>4. ASSUME NEW k \in 1..n PROVE f[k] = Followed(d, f[k - 1], added[k])
    <3> HIDE DEF shown
    <3>1. Append(upTo(k - 1), shown(k)) = upTo(k)
      <4>1. k - 1 \in Nat /\ k \in Nat /\ Len(upTo(k - 1)) = k - 1
        OBVIOUS
      <4> QED
        BY <4>1
    <3> HIDE DEF upTo
    <3>2. f[k - 1] = after(k - 1) /\ f[k] = after(k)
      BY <2>1
    <3>3. shown(k) = [id |-> added[k].card, content |-> added[k].content]
      BY <1>6 DEF shown
    <3>4. Followed(d, Draft(title, upTo(k - 1)), added[k])
            = Draft(title, Append(upTo(k - 1), shown(k)))
      <4>1. added[k].type = "CardAdded" /\ added[k].deck = d
        BY <1>6
      <4> QED
        BY ONLY <3>3, <4>1, DraftFollowed
    <3> QED
      BY <3>1, <3>2, <3>4
  <2> HIDE DEF after
  <2> QED
    BY <1>5, <2>2, <2>3, <2>4 DEF Leads
<1>9. Leads(d, None, <<made>> \o added, a)
  BY <1>5, <1>7, <1>8, LeadsFurther
<1> PICK es : es = <<made>> \o added
  OBVIOUS
<1>10. /\ es \in Seq(Event) /\ Len(es) = 1 + n
       /\ \A i \in 1..(1 + n) : es[i] = IF i <= 1 THEN made ELSE added[i - 1]
  BY <1>5, ConcatProperties
<1>11. ASSUME NEW i \in DOMAIN es PROVE es[i].deck = d
  <2>1. i \in 1..(1 + n)
    BY <1>10
  <2>2. CASE i <= 1
    BY <1>2, <1>10, <2>1, <2>2
  <2>3. CASE ~(i <= 1)
    <3>1. i - 1 \in 1..n
      BY <2>1, <2>3
    <3> QED
      BY <1>6, <1>10, <2>1, <2>3, <3>1
  <2> QED
    BY <2>2, <2>3
<1>12. es # <<>>
  BY <1>10
<1> QED
  BY <1>1, <1>9, <1>10, <1>11, <1>12

-----------------------------------------------------------------------------
(***************************************************************************)
(* The record of lost updates: what holds unless an outdated copy is saved.*)
(***************************************************************************)

Reads == {"rowRead", "loaded"}

\* A copy that no commit has outdated is the committed deck.
CopyInv(w) ==
  LET d == req[w].deck
      a == deck[w]
  IN  pc[w] \in Reads /\ w \notin stale =>
        /\ a.title = deckRow[d].title /\ a.deleted = deckRow[d].deleted
        /\ pc[w] = "loaded" => View(a) = Stored(d)

\* What the outbox and the rows tell of a deck before a commit to it.
Base(d) == IF deckRow[d] = None THEN None ELSE Stored(d)

\* What a worker has staged are events of its deck; unless a commit has outdated
\* the copy it started from, they lead from the committed deck to what it saves,
\* and that deck is not deleted.
StagedInv(w) ==
  LET d == req[w].deck
  IN  pc[w] = "saved" =>
        /\ staged[w] # <<>> /\ \A i \in DOMAIN staged[w] : staged[w][i].deck = d
        /\ w \notin stale => /\ Leads(d, Base(d), staged[w], View(deck[w]))
                             /\ deckRow[d] # None => ~deckRow[d].deleted

\* A deck that no outdated copy was saved to is what its events add up to, and
\* there is none of a deck without a row.
DeckInv(d) ==
  /\ deckRow[d] = None => Replayed(d) = None
  /\ d \notin overwritten /\ deckRow[d] # None => Stored(d) = Replayed(d)

HInv ==
  /\ IInv
  /\ \A w \in Workers : CopyInv(w) /\ StagedInv(w)
  /\ \A d \in DeckIds : DeckInv(d)

LEMMA InitHInv == HistoryInit => HInv
<1> SUFFICES ASSUME HistoryInit PROVE HInv
  OBVIOUS
<1>1. IInv
  BY InitIInv DEF HistoryInit
<1>2. \A w \in Workers : pc[w] = "idle"
  BY DEF HistoryInit, Init
<1>3. ASSUME NEW d \in DeckIds PROVE DeckInv(d)
  <2>1. deckRow[d] = None /\ outbox = <<>>
    BY DEF HistoryInit, Init
  <2>2. outbox \in Seq(Event) /\ \A i \in DOMAIN outbox : outbox[i].deck # d
    BY <2>1
  <2>3. Replay(d, outbox) = None
    BY <2>2, LeadsNowhere, ReplayIsWhereItLeads
  <2> QED
    BY <2>1, <2>3 DEF DeckInv, Replayed
<1> QED
  BY <1>1, <1>2, <1>3 DEF HInv, CopyInv, StagedInv, Reads

\* A step that leaves the tables alone outdates and overwrites nothing.
LEMMA QuietRecord ==
  ASSUME Record, UNCHANGED db
  PROVE  /\ \A v \in Workers : pc'[v] # "idle" => (v \in stale' <=> v \in stale)
         /\ overwritten' = overwritten
<1>1. \A v : ~Commits(v)
  BY DEF Commits, db
<1>2. {v \in stale : Commits(v)} = {}
  BY <1>1
<1>3. overwritten' = overwritten \cup {req[v].deck : v \in {u \in stale : Commits(u)}}
  BY DEF Record
<1>4. overwritten' = overwritten
  BY <1>2, <1>3
<1> QED
  BY <1>1, <1>4 DEF Record

\* The deck tables decide what is stored and what the events add up to.
LEMMA SameStored ==
  ASSUME NEW d, deckRow'[d] = deckRow[d], cardRows'[d] = cardRows[d]
  PROVE  Stored(d)' = Stored(d) /\ Base(d)' = Base(d)
BY DEF Stored, Base

\* A worker that does not move in such a step, and the decks.
LEMMA QuietOther ==
  ASSUME HInv, Record, UNCHANGED db, NEW v \in Workers,
         pc'[v] = pc[v], req'[v] = req[v], deck'[v] = deck[v], staged'[v] = staged[v]
  PROVE  CopyInv(v)' /\ StagedInv(v)'
<1>1. CopyInv(v) /\ StagedInv(v) /\ deckRow' = deckRow /\ cardRows' = cardRows
  BY DEF HInv, db
<1>2. pc[v] # "idle" => (v \in stale' <=> v \in stale)
  BY QuietRecord
<1> PICK d : d = req[v].deck
  OBVIOUS
<1>3. Stored(d)' = Stored(d) /\ Base(d)' = Base(d)
  BY <1>1, SameStored
<1>4. CopyInv(v)'
  BY <1>1, <1>2, <1>3 DEF CopyInv, Reads
<1>5. StagedInv(v)'
  BY <1>1, <1>2, <1>3 DEF StagedInv
<1> QED
  BY <1>4, <1>5

LEMMA QuietDeck ==
  ASSUME HInv, Record, UNCHANGED db, NEW d \in DeckIds
  PROVE  DeckInv(d)'
<1>1. DeckInv(d) /\ deckRow' = deckRow /\ cardRows' = cardRows /\ outbox' = outbox
  BY DEF HInv, db
<1>2. overwritten' = overwritten
  BY QuietRecord
<1>3. Stored(d)' = Stored(d)
  BY <1>1, SameStored
<1>4. Replayed(d)' = Replayed(d)
  BY <1>1 DEF Replayed
<1> QED
  BY <1>1, <1>2, <1>3, <1>4 DEF DeckInv

\* Such a step of w, with the invariants of w itself.
LEMMA QuietHInv ==
  ASSUME HInv, IInv', Record, UNCHANGED db, NEW w \in Workers,
         \A v \in Workers \ {w} : /\ pc'[v] = pc[v] /\ req'[v] = req[v]
                                  /\ deck'[v] = deck[v] /\ staged'[v] = staged[v],
         CopyInv(w)', StagedInv(w)'
  PROVE  HInv'
<1>1. ASSUME NEW v \in Workers, v # w PROVE CopyInv(v)' /\ StagedInv(v)'
  BY <1>1, QuietOther
<1> QED
  BY <1>1, QuietDeck DEF HInv

LEMMA BeginHInv ==
  ASSUME HInv, IInv', Record, NEW w \in Workers, NEW caller \in Users, NEW d \in DeckIds,
         Begin(w, caller, d)
  PROVE  HInv'
<1>1. UNCHANGED <<db, deck, staged>> /\ IInv
  BY DEF Begin, HInv
<1>2. /\ pc'[w] = "began"
      /\ \A v \in Workers \ {w} : /\ pc'[v] = pc[v] /\ req'[v] = req[v]
                                  /\ deck'[v] = deck[v] /\ staged'[v] = staged[v]
  BY <1>1 DEF Begin, IInv, TypeOK
<1>3. CopyInv(w)' /\ StagedInv(w)'
  BY <1>2 DEF CopyInv, StagedInv, Reads
<1> QED
  BY <1>1, <1>2, <1>3, QuietHInv

LEMMA ReadDeckRowHInv ==
  ASSUME HInv, IInv', Record, NEW w \in Workers, ReadDeckRow(w)
  PROVE  HInv'
<1>1. /\ IInv /\ UNCHANGED <<db, req, staged>> /\ deckRow' = deckRow
  BY DEF HInv, ReadDeckRow, db
<1> PICK d : d = req[w].deck
  OBVIOUS
<1> PICK a : a = [owner |-> deckRow[d].owner, title |-> deckRow[d].title,
                  deleted |-> deckRow[d].deleted, cards |-> <<>>]
  OBVIOUS
<1>2. pc' = [pc EXCEPT ![w] = "rowRead"] /\ deck' = [deck EXCEPT ![w] = a]
  BY DEF ReadDeckRow
<1>3. /\ pc'[w] = "rowRead" /\ deck'[w] = a /\ a.title = deckRow[d].title
      /\ a.deleted = deckRow[d].deleted
      /\ \A v \in Workers \ {w} : pc'[v] = pc[v] /\ deck'[v] = deck[v]
  BY <1>1, <1>2 DEF IInv, TypeOK
<1>4. CopyInv(w)' /\ StagedInv(w)'
  BY <1>1, <1>3 DEF CopyInv, StagedInv
<1> QED
  BY <1>1, <1>3, <1>4, QuietHInv

\* The two reads of a copy are of one commit, unless one came between them.
LEMMA ReadCardRowsHInv ==
  ASSUME HInv, IInv', Record, NEW w \in Workers, ReadCardRows(w)
  PROVE  HInv'
<1>1. /\ IInv /\ WorkerInv(w) /\ CopyInv(w) /\ UNCHANGED <<db, req, staged>>
      /\ deckRow' = deckRow /\ cardRows' = cardRows /\ pc[w] = "rowRead"
  BY DEF HInv, IInv, ReadCardRows, db
<1> PICK d : d = req[w].deck
  OBVIOUS
<1> PICK a : a = [deck[w] EXCEPT !.cards = Hydrated(cardRows[d])]
  OBVIOUS
<1>2. pc' = [pc EXCEPT ![w] = "loaded"] /\ deck' = [deck EXCEPT ![w] = a]
  BY DEF ReadCardRows
<1>3. /\ pc'[w] = "loaded" /\ deck'[w] = a
      /\ \A v \in Workers \ {w} : pc'[v] = pc[v] /\ deck'[v] = deck[v]
  BY <1>1, <1>2 DEF IInv, TypeOK
<1>4. d \in DeckIds /\ deck[w] \in Deck
  BY <1>1 DEF WorkerInv
<1>5. /\ a.title = deck[w].title /\ a.deleted = deck[w].deleted
      /\ a.cards = InOrdinalOrder(cardRows[d])
  <2>1. DenseRows(cardRows[d])
    BY <1>1, <1>4 DEF IInv, RowsInv
  <2>2. Hydrated(cardRows[d]) = InOrdinalOrder(cardRows[d])
    BY <2>1, ReadsBack
  <2> QED
    BY <1>4, <2>2 DEF Deck
<1>6. w \in stale' <=> w \in stale
  BY <1>1, <1>3, QuietRecord
<1>7. w \notin stale => /\ a.title = deckRow[d].title /\ a.deleted = deckRow[d].deleted
                        /\ View(a) = Stored(d)
  <2> SUFFICES ASSUME w \notin stale PROVE /\ a.title = deckRow[d].title
                                           /\ a.deleted = deckRow[d].deleted
                                           /\ View(a) = Stored(d)
    OBVIOUS
  <2>1. a.title = deckRow[d].title /\ a.deleted = deckRow[d].deleted
    BY <1>1, <1>5 DEF CopyInv, Reads
  <2>2. Shown(a.cards) = Shown(InOrdinalOrder(cardRows[d]))
    BY <1>5
  <2> QED
    BY <2>1, <2>2 DEF View, Stored, Shown
<1>8. Stored(d)' = Stored(d)
  BY <1>1, SameStored
<1>9. CopyInv(w)' /\ StagedInv(w)'
  BY <1>1, <1>3, <1>6, <1>7, <1>8 DEF CopyInv, StagedInv
<1> QED
  BY <1>1, <1>3, <1>9, QuietHInv

\* An operation whose events lead from the copy to what it saves.
LEMMA SaveHInv ==
  ASSUME HInv, IInv', Record, NEW w \in Workers, pc[w] = "loaded", Alive(w),
         NEW saved, NEW events, Save(w, saved, events),
         events # <<>>, \A i \in DOMAIN events : events[i].deck = req[w].deck,
         Leads(req[w].deck, View(deck[w]), events, View(saved))
  PROVE  HInv'
<1>1. IInv /\ WorkerInv(w) /\ CopyInv(w)
  BY DEF HInv, IInv
<1> PICK d : d = req[w].deck
  OBVIOUS
<1>2. /\ UNCHANGED <<db, req>> /\ deckRow' = deckRow /\ cardRows' = cardRows
      /\ deck' = [deck EXCEPT ![w] = saved] /\ staged' = [staged EXCEPT ![w] = events]
      /\ pc' = [pc EXCEPT ![w] = "saved"]
  BY DEF Save, db
<1>3. /\ pc'[w] = "saved" /\ deck'[w] = saved /\ staged'[w] = events
      /\ \A v \in Workers \ {w} : /\ pc'[v] = pc[v] /\ req'[v] = req[v]
                                  /\ deck'[v] = deck[v] /\ staged'[v] = staged[v]
  BY <1>1, <1>2 DEF IInv, TypeOK
<1>4. w \in stale' <=> w \in stale
  BY <1>2, <1>3, QuietRecord
<1>5. d \in DeckIds /\ deckRow[d] # None
  BY <1>1 DEF WorkerInv
<1>6. w \notin stale => View(deck[w]) = Stored(d) /\ ~deckRow[d].deleted
  BY <1>1 DEF CopyInv, Reads, Alive
<1>7. Base(d)' = Base(d) /\ Base(d) = Stored(d)
  BY <1>2, <1>5, SameStored DEF Base
<1>8. CopyInv(w)' /\ StagedInv(w)'
  BY <1>2, <1>3, <1>4, <1>6, <1>7 DEF CopyInv, StagedInv, Reads
<1> QED
  BY <1>2, <1>3, <1>8, QuietHInv

LEMMA AddCardHInv ==
  ASSUME HInv, IInv', Record, NEW w \in Workers, NEW content \in Contents, AddCard(w, content)
  PROVE  HInv'
<1> PICK d, a, card : /\ d = req[w].deck /\ a = deck[w]
                      /\ card = [id |-> minted + 1, content |-> content,
                                 ordinal |-> Len(a.cards) + 1]
  OBVIOUS
<1> PICK saved, e : /\ saved = [a EXCEPT !.cards = Append(@, card)]
                    /\ e = [type |-> "CardAdded", deck |-> d, card |-> card.id,
                            content |-> card.content, ordinal |-> card.ordinal]
  OBVIOUS
<1>1. pc[w] = "loaded" /\ Alive(w) /\ Save(w, saved, <<e>>)
  BY DEF AddCard
<1>2. IInv
  BY DEF HInv
<1>3. a \in Deck /\ a.cards \in Seq(Card) /\ minted \in Nat
  BY <1>1, <1>2, LoadedDeck
<1>4. card \in Card
  BY <1>3 DEF Card
<1>5. Leads(d, View(a), <<e>>, View(saved))
  BY <1>3, <1>4, AddCardLeads
<1>6. <<e>> # <<>> /\ \A i \in DOMAIN <<e>> : <<e>>[i].deck = d
  OBVIOUS
<1> PICK es : es = <<e>>
  OBVIOUS
<1>7. Save(w, saved, es) /\ es # <<>> /\ \A i \in DOMAIN es : es[i].deck = req[w].deck
  BY <1>1, <1>6
<1>8. Leads(req[w].deck, View(deck[w]), es, View(saved))
  BY <1>5
<1> QED
  BY <1>1, <1>7, <1>8, SaveHInv

LEMMA EditCardHInv ==
  ASSUME HInv, IInv', Record, NEW w \in Workers, NEW i \in 1..MaxCards,
         NEW content \in Contents, EditCard(w, i, content)
  PROVE  HInv'
<1> PICK d, a : d = req[w].deck /\ a = deck[w]
  OBVIOUS
<1> PICK saved, e : /\ saved = [a EXCEPT !.cards[i].content = content]
                    /\ e = [type |-> "CardEdited", deck |-> d, card |-> a.cards[i].id,
                            content |-> content]
  OBVIOUS
<1>1. pc[w] = "loaded" /\ Alive(w) /\ i \in DOMAIN a.cards /\ Save(w, saved, <<e>>)
  BY DEF EditCard
<1>2. IInv
  BY DEF HInv
<1>3. a \in Deck /\ Dense(a.cards)
  BY <1>1, <1>2, LoadedDeck
<1>4. Leads(d, View(a), <<e>>, View(saved))
  BY <1>1, <1>3, EditCardLeads
<1>5. <<e>> # <<>> /\ \A j \in DOMAIN <<e>> : <<e>>[j].deck = d
  OBVIOUS
<1> QED
  BY <1>1, <1>4, <1>5, SaveHInv

LEMMA TwoEvents ==
  ASSUME NEW d, NEW e, NEW r, e.deck = d, r.deck = d, NEW es, es = <<e>> \o <<r>>
  PROVE  es # <<>> /\ \A i \in DOMAIN es : es[i].deck = d
<1>1. <<e>> \in Seq({e, r}) /\ <<r>> \in Seq({e, r}) /\ Len(<<e>>) = 1 /\ Len(<<r>>) = 1
  OBVIOUS
<1>2. /\ es \in Seq({e, r}) /\ Len(es) = 2
  BY <1>1, ConcatProperties
<1> QED
  BY <1>2

LEMMA RemoveCardHInv ==
  ASSUME HInv, IInv', Record, NEW w \in Workers, NEW i \in 1..MaxCards, RemoveCard(w, i)
  PROVE  HInv'
<1> PICK d, a, left : d = req[w].deck /\ a = deck[w] /\ left = Without(a.cards, i)
  OBVIOUS
<1> PICK saved, es : /\ saved = [a EXCEPT !.cards = left]
                     /\ es = RemovalEvents(d, a.cards[i].id, left)
  OBVIOUS
<1>1. pc[w] = "loaded" /\ Alive(w) /\ i \in DOMAIN a.cards /\ Save(w, saved, es)
  BY DEF RemoveCard
<1>2. IInv
  BY DEF HInv
<1>3. a \in Deck /\ Dense(a.cards) /\ d \in DeckIds
  BY <1>1, <1>2, LoadedDeck
<1>4. Leads(d, View(a), es, View(saved))
  BY <1>1, <1>3, RemoveCardLeads
<1>5. es # <<>> /\ \A j \in DOMAIN es : es[j].deck = d
  <2> PICK e, r : /\ e = [type |-> "CardRemoved", deck |-> d, card |-> a.cards[i].id]
                  /\ r = [type |-> "CardsReordered", deck |-> d, order |-> IdsOf(left)]
    OBVIOUS
  <2>1. e.deck = d /\ r.deck = d
    OBVIOUS
  <2>2. CASE left = <<>>
    <3>1. es = <<e>> \o <<>>
      BY <2>2 DEF RemovalEvents
    <3>2. es = <<e>>
      BY <3>1
    <3> QED
      BY <2>1, <3>2
  <2>3. CASE left # <<>>
    <3>1. es = <<e>> \o <<r>>
      BY <2>3 DEF RemovalEvents
    <3> QED
      BY ONLY <2>1, <3>1, TwoEvents
  <2> QED
    BY <2>2, <2>3
<1> QED
  BY <1>1, <1>4, <1>5, SaveHInv

LEMMA ReorderCardsHInv ==
  ASSUME HInv, IInv', Record, NEW w \in Workers, NEW n \in 0..MaxCards,
         NEW order \in Orders(n), ReorderCards(w, order)
  PROVE  HInv'
<1> PICK d, a : d = req[w].deck /\ a = deck[w]
  OBVIOUS
<1> PICK saved, e : /\ saved = [a EXCEPT !.cards = Reordered(@, order)]
                    /\ e = [type |-> "CardsReordered", deck |-> d, order |-> order]
  OBVIOUS
<1>1. /\ pc[w] = "loaded" /\ Alive(w) /\ IsPermutationOf(order, a.cards)
      /\ Save(w, saved, <<e>>)
  BY DEF ReorderCards
<1>2. IInv
  BY DEF HInv
<1>3. a \in Deck /\ Dense(a.cards) /\ minted \in Nat
  BY <1>1, <1>2, LoadedDeck
<1>4. order \in Seq(Nat)
  <2>1. n \in Nat /\ order \in [1..n -> Nat]
    BY <1>3, LimitsAssumption DEF Orders
  <2> QED
    BY <2>1
<1>5. Arranged(Shown(a.cards), order) = Shown(Reordered(a.cards, order))
  BY <1>1, <1>3, <1>4, ReorderedShown
<1>6. saved.title = a.title /\ saved.deleted = a.deleted /\ saved.cards = Reordered(a.cards, order)
  BY <1>3 DEF Deck
<1>7. Leads(d, View(a), <<e>>, View(saved))
  BY <1>5, <1>6, ReorderLeads
<1>8. <<e>> # <<>> /\ \A j \in DOMAIN <<e>> : <<e>>[j].deck = d
  OBVIOUS
<1> QED
  BY <1>1, <1>7, <1>8, SaveHInv

LEMMA RenameDeckHInv ==
  ASSUME HInv, IInv', Record, NEW w \in Workers, NEW title \in Titles, RenameDeck(w, title)
  PROVE  HInv'
<1> PICK d, a : d = req[w].deck /\ a = deck[w]
  OBVIOUS
<1> PICK saved, e : /\ saved = [a EXCEPT !.title = title]
                    /\ e = [type |-> "DeckRenamed", deck |-> d, title |-> title]
  OBVIOUS
<1>1. pc[w] = "loaded" /\ Alive(w) /\ Save(w, saved, <<e>>)
  BY DEF RenameDeck
<1>2. IInv
  BY DEF HInv
<1>3. a \in Deck
  BY <1>1, <1>2, LoadedDeck
<1>4. saved.title = title /\ saved.deleted = a.deleted /\ saved.cards = a.cards
  BY <1>3 DEF Deck
<1>5. Followed(d, View(a), e) = [View(a) EXCEPT !.title = title]
  BY DEF Followed, Applied
<1>6. Followed(d, View(a), e) = View(saved)
  BY <1>4, <1>5 DEF View
<1>7. Leads(d, View(a), <<e>>, View(saved))
  BY <1>6, LeadsByOne
<1>8. <<e>> # <<>> /\ \A j \in DOMAIN <<e>> : <<e>>[j].deck = d
  OBVIOUS
<1> QED
  BY <1>1, <1>7, <1>8, SaveHInv

LEMMA DeleteDeckHInv ==
  ASSUME HInv, IInv', Record, NEW w \in Workers, DeleteDeck(w)
  PROVE  HInv'
<1> PICK d, a : d = req[w].deck /\ a = deck[w]
  OBVIOUS
<1> PICK saved, e : /\ saved = [a EXCEPT !.deleted = TRUE]
                    /\ e = [type |-> "DeckDeleted", deck |-> d]
  OBVIOUS
<1>1. pc[w] = "loaded" /\ Alive(w) /\ Save(w, saved, <<e>>)
  BY DEF DeleteDeck
<1>2. IInv
  BY DEF HInv
<1>3. a \in Deck
  BY <1>1, <1>2, LoadedDeck
<1>4. saved.title = a.title /\ saved.deleted = TRUE /\ saved.cards = a.cards
  BY <1>3 DEF Deck
<1>5. Followed(d, View(a), e) = [View(a) EXCEPT !.deleted = saved.deleted]
  BY <1>4 DEF Followed, Applied
<1>6. Followed(d, View(a), e) = View(saved)
  <2>1. saved.title = a.title /\ saved.cards = a.cards
    BY <1>4
  <2> QED
    BY ONLY <1>5, <2>1 DEF View
<1>7. Leads(d, View(a), <<e>>, View(saved))
  BY <1>6, LeadsByOne
<1>8. <<e>> # <<>> /\ \A j \in DOMAIN <<e>> : <<e>>[j].deck = d
  OBVIOUS
<1> QED
  BY <1>1, <1>7, <1>8, SaveHInv

LEMMA CreateDeckHInv ==
  ASSUME HInv, IInv', Record, NEW w \in Workers, NEW caller \in Users, NEW d \in DeckIds,
         NEW title \in Titles, NEW drafts \in Drafts, CreateDeck(w, caller, d, title, drafts)
  PROVE  HInv'
<1> PICK cards : cards = [i \in 1..Len(drafts) |->
                            [id |-> minted + i, content |-> drafts[i], ordinal |-> i]]
  OBVIOUS
<1> PICK a, es : /\ a = [owner |-> caller, title |-> title, deleted |-> FALSE, cards |-> cards]
                 /\ es = CreationEvents(d, caller, title, cards)
  OBVIOUS
<1>1. IInv /\ TypeOK
  BY DEF HInv, IInv
<1>2. /\ UNCHANGED db /\ deckRow' = deckRow /\ deckRow[d] = None /\ Len(drafts) <= MaxCards
      /\ pc' = [pc EXCEPT ![w] = "saved"]
      /\ req' = [req EXCEPT ![w] = [caller |-> caller, deck |-> d]]
      /\ deck' = [deck EXCEPT ![w] = a] /\ staged' = [staged EXCEPT ![w] = es]
  BY DEF CreateDeck, FreshDeck, db
<1>3. /\ pc'[w] = "saved" /\ req'[w].deck = d /\ deck'[w] = a /\ staged'[w] = es
      /\ \A v \in Workers \ {w} : /\ pc'[v] = pc[v] /\ req'[v] = req[v]
                                  /\ deck'[v] = deck[v] /\ staged'[v] = staged[v]
  BY <1>1, <1>2 DEF TypeOK
<1>4. drafts \in Seq(Contents) /\ minted \in Nat
  BY <1>1, LimitsAssumption DEF TypeOK, Drafts
<1>5. cards \in Seq(Card)
  <2>1. Dense(cards)
    BY <1>2, <1>4, DraftsDense
  <2> QED
    BY <2>1 DEF Dense
<1>6. View(a) = Draft(title, Shown(cards))
  BY DEF View, Draft
<1>7. /\ es # <<>> /\ \A i \in DOMAIN es : es[i].deck = d
      /\ Leads(d, None, es, View(a))
  <2>1. View(a) = Draft(title, Shown(cards)) /\ cards \in Seq(Card)
    BY <1>5, <1>6
  <2>2. es = CreationEvents(d, caller, title, cards)
    OBVIOUS
  <2> QED
    BY ONLY <2>1, <2>2, CreateDeckLeads
<1>8. Base(d)' = None /\ deckRow'[d] = None
  BY <1>2 DEF Base
<1>9. CopyInv(w)' /\ StagedInv(w)'
  BY <1>3, <1>7, <1>8 DEF CopyInv, StagedInv, Reads
<1> QED
  BY <1>2, <1>3, <1>9, QuietHInv

\* A request that ends without a commit.
LEMMA RollbackHInv ==
  ASSUME HInv, IInv', Record, NEW w \in Workers, Rollback(w)
  PROVE  HInv'
<1>1. UNCHANGED db
  BY DEF Rollback
<1>2. /\ pc'[w] = "idle"
      /\ \A v \in Workers \ {w} : /\ pc'[v] = pc[v] /\ req'[v] = req[v]
                                  /\ deck'[v] = deck[v] /\ staged'[v] = staged[v]
  BY DEF Rollback, End, HInv, IInv, TypeOK
<1>3. CopyInv(w)' /\ StagedInv(w)'
  BY <1>2 DEF CopyInv, StagedInv, Reads
<1> QED
  BY <1>1, <1>2, <1>3, QuietHInv

\* What the commit of w does to the tables, the record and the other workers.
LEMMA CommittedStep ==
  ASSUME HInv, Record, NEW w \in Workers, Commit(w), NEW d, d = req[w].deck
  PROVE  /\ d \in DeckIds /\ pc[w] = "saved" /\ pc'[w] = "idle"
         /\ deckRow'[d] # None /\ Stored(d)' = View(deck[w])
         /\ \A c \in DeckIds \ {d} : deckRow'[c] = deckRow[c] /\ cardRows'[c] = cardRows[c]
         /\ outbox \in Seq(Event) /\ staged[w] \in Seq(Event) /\ outbox' = outbox \o staged[w]
         /\ \A i \in DOMAIN staged[w] : staged[w][i].deck = d
         /\ overwritten \subseteq overwritten'
         /\ w \in stale => d \in overwritten'
         /\ \A v \in Workers \ {w} :
              /\ pc'[v] = pc[v] /\ req'[v] = req[v] /\ deck'[v] = deck[v] /\ staged'[v] = staged[v]
              /\ pc[v] # "idle" /\ v \in stale => v \in stale'
              /\ pc[v] \in Reads /\ req[v].deck = d => v \in stale'
              /\ pc[v] = "saved" => req[v].deck # d
<1> PICK a : a = deck[w]
  OBVIOUS
<1>1. /\ IInv /\ TypeOK /\ StagedInv(w) /\ WorkerInv(w) /\ pc[w] = "saved" /\ End(w)
      /\ deckRow' = [deckRow EXCEPT ![d] = SavedRow(deckRow[d], a)]
      /\ cardRows' = [cardRows EXCEPT ![d] = ToSet(a.cards)]
      /\ outbox' = outbox \o staged[w]
  BY DEF HInv, IInv, Commit
<1>2. d \in DeckIds /\ a \in Deck /\ Dense(a.cards) /\ lock[d] = w
  BY <1>1 DEF WorkerInv
<1>3. /\ deckRow'[d] = SavedRow(deckRow[d], a) /\ cardRows'[d] = ToSet(a.cards)
      /\ \A c \in DeckIds \ {d} : deckRow'[c] = deckRow[c] /\ cardRows'[c] = cardRows[c]
  BY <1>1, <1>2 DEF TypeOK
<1>4. deckRow'[d] # None /\ deckRow'[d].title = a.title /\ deckRow'[d].deleted = a.deleted
  <2>1. CASE deckRow[d] = None
    <3>1. SavedRow(deckRow[d], a) = [owner |-> a.owner, title |-> a.title, deleted |-> a.deleted]
      BY <2>1 DEF SavedRow
    <3>2. SavedRow(deckRow[d], a) \in Row
      BY <1>2, <3>1 DEF Row, Deck
    <3> QED
      BY <1>3, <3>1, <3>2, NoneAssumption
  <2>2. CASE deckRow[d] # None
    <3>1. deckRow[d] \in Row
      BY <1>1, <1>2, <2>2 DEF TypeOK
    <3>2. SavedRow(deckRow[d], a) = [deckRow[d] EXCEPT !.title = a.title, !.deleted = a.deleted]
      BY <2>2 DEF SavedRow
    <3>3. SavedRow(deckRow[d], a) \in Row
      BY <1>2, <3>1, <3>2 DEF Row, Deck
    <3> QED
      BY <1>3, <3>1, <3>2, <3>3, NoneAssumption DEF Row
  <2> QED
    BY <2>1, <2>2
<1>5. Stored(d)' = View(a)
  <2>1. InOrdinalOrder(cardRows'[d]) = a.cards
    BY <1>2, <1>3, InOrder
  <2>2. Stored(d)' = [title |-> deckRow'[d].title, deleted |-> deckRow'[d].deleted,
                      cards |-> Shown(InOrdinalOrder(cardRows'[d]))]
    BY DEF Stored, Shown
  <2> QED
    BY <1>4, <2>1, <2>2 DEF View
<1>6. /\ outbox \in Seq(Event) /\ staged[w] \in Seq(Event) /\ staged[w] # <<>>
      /\ \A i \in DOMAIN staged[w] : staged[w][i].deck = d
  BY <1>1 DEF TypeOK, StagedInv
<1>7. outbox' # outbox
  <2>1. Len(staged[w]) # 0 /\ Len(staged[w]) \in Nat /\ Len(outbox) \in Nat
    BY <1>6
  <2>2. Len(outbox \o staged[w]) = Len(outbox) + Len(staged[w])
    BY <1>6, ConcatProperties
  <2> QED
    BY <1>1, <2>1, <2>2
<1>8. /\ pc'[w] = "idle"
      /\ \A v \in Workers \ {w} : /\ pc'[v] = pc[v] /\ req'[v] = req[v]
                                  /\ deck'[v] = deck[v] /\ staged'[v] = staged[v]
  BY <1>1 DEF End, TypeOK
<1>9. Commits(w)
  BY <1>1, <1>7, <1>8 DEF Commits
<1>10. overwritten \subseteq overwritten' /\ (w \in stale => d \in overwritten')
  BY <1>9 DEF Record
<1>11. ASSUME NEW v \in Workers \ {w}
       PROVE  /\ pc[v] # "idle" /\ v \in stale => v \in stale'
              /\ pc[v] \in Reads /\ req[v].deck = d => v \in stale'
  <2>1. pc'[v] = pc[v]
    BY <1>8
  <2>2. pc[v] \in Reads => v \in Reading /\ pc[v] # "idle"
    BY DEF Reads, Reading
  <2> QED
    BY <1>9, <2>1, <2>2 DEF Record
<1>12. ASSUME NEW v \in Workers \ {w}, pc[v] = "saved" PROVE req[v].deck # d
  BY <1>1, <1>2, <1>12 DEF IInv, WorkerInv
<1> QED
  BY <1>1, <1>2, <1>3, <1>4, <1>5, <1>6, <1>8, <1>10, <1>11, <1>12

\* A commit carries the replay of its deck on from what was stored, and leaves
\* the other decks and the workers whose copies it does not outdate alone.
LEMMA CommitHInv ==
  ASSUME HInv, IInv', Record, NEW w \in Workers, Commit(w)
  PROVE  HInv'
<1> PICK d : d = req[w].deck
  OBVIOUS
<1>1. /\ d \in DeckIds /\ pc[w] = "saved" /\ pc'[w] = "idle"
      /\ deckRow'[d] # None /\ Stored(d)' = View(deck[w])
      /\ \A c \in DeckIds \ {d} : deckRow'[c] = deckRow[c] /\ cardRows'[c] = cardRows[c]
      /\ outbox \in Seq(Event) /\ staged[w] \in Seq(Event) /\ outbox' = outbox \o staged[w]
      /\ \A i \in DOMAIN staged[w] : staged[w][i].deck = d
      /\ overwritten \subseteq overwritten'
      /\ w \in stale => d \in overwritten'
      /\ \A v \in Workers \ {w} :
           /\ pc'[v] = pc[v] /\ req'[v] = req[v] /\ deck'[v] = deck[v] /\ staged'[v] = staged[v]
           /\ pc[v] # "idle" /\ v \in stale => v \in stale'
           /\ pc[v] \in Reads /\ req[v].deck = d => v \in stale'
           /\ pc[v] = "saved" => req[v].deck # d
  BY CommittedStep
<1>2. ASSUME NEW c \in DeckIds \ {d} PROVE Stored(c)' = Stored(c) /\ Base(c)' = Base(c)
  BY <1>1, SameStored
<1>3. ASSUME NEW v \in Workers PROVE CopyInv(v)' /\ StagedInv(v)'
  <2>1. CASE v = w
    BY <1>1, <2>1 DEF CopyInv, StagedInv, Reads
  <2>2. CASE v # w
    <3> PICK c : c = req[v].deck
      OBVIOUS
    <3>1. /\ pc'[v] = pc[v] /\ req'[v] = req[v] /\ deck'[v] = deck[v] /\ staged'[v] = staged[v]
          /\ pc[v] # "idle" /\ v \in stale => v \in stale'
          /\ pc[v] \in Reads /\ c = d => v \in stale'
          /\ pc[v] = "saved" => c # d
          /\ CopyInv(v) /\ StagedInv(v)
      BY <1>1, <2>2 DEF HInv
    <3>2. pc[v] # "idle" => c \in DeckIds
      BY DEF HInv, IInv, WorkerInv
    <3>3. pc[v] # "idle" /\ c # d => Stored(c)' = Stored(c) /\ Base(c)' = Base(c) /\ deckRow'[c] = deckRow[c]
      BY <1>1, <1>2, <3>2
    <3>4. CopyInv(v)'
      BY <3>1, <3>3 DEF CopyInv, Reads
    <3>5. StagedInv(v)'
      BY <3>1, <3>3 DEF StagedInv
    <3> QED
      BY <3>4, <3>5
  <2> QED
    BY <2>1, <2>2
<1>4. ASSUME NEW c \in DeckIds, c # d PROVE DeckInv(c)'
  <2>1. Leads(c, Replay(c, outbox), staged[w], Replay(c, outbox))
    BY <1>1, <1>4, LeadsNowhere
  <2>2. Replay(c, outbox \o staged[w]) = Replay(c, outbox)
    BY <1>1, <2>1, ReplayExtends
  <2>3. Replayed(c)' = Replayed(c)
    BY <1>1, <2>2 DEF Replayed
  <2>4. DeckInv(c) /\ deckRow'[c] = deckRow[c] /\ Stored(c)' = Stored(c)
    BY <1>1, <1>2, <1>4 DEF HInv
  <2> QED
    BY <1>1, <2>3, <2>4 DEF DeckInv
<1>5. DeckInv(d)'
  <2> SUFFICES ASSUME d \notin overwritten' PROVE Stored(d)' = Replayed(d)'
    BY <1>1 DEF DeckInv
  <2>1. w \notin stale /\ d \notin overwritten /\ StagedInv(w) /\ DeckInv(d)
    BY <1>1 DEF HInv
  <2>2. Leads(d, Base(d), staged[w], View(deck[w]))
    BY <1>1, <2>1 DEF StagedInv
  <2>3. Base(d) = Replay(d, outbox)
    BY <2>1 DEF Base, DeckInv, Replayed
  <2>4. Replay(d, outbox \o staged[w]) = View(deck[w])
    BY <1>1, <2>2, <2>3, ReplayExtends
  <2> QED
    BY <1>1, <2>4 DEF Replayed
<1> QED
  BY <1>3, <1>4, <1>5 DEF HInv

LEMMA NextHInv == HInv /\ [HistoryNext]_historyVars => HInv'
<1> SUFFICES ASSUME HInv, [HistoryNext]_historyVars PROVE HInv'
  OBVIOUS
<1>1. IInv'
  <2>1. [Next]_vars /\ IInv
    BY DEF HInv, HistoryNext, historyVars
  <2> QED
    BY <2>1, NextIInv
<1>2. CASE UNCHANGED historyVars
  <2>1. UNCHANGED <<deckRow, cardRows, outbox, lock, pc, req, deck, staged, minted, begun,
                    stale, overwritten>>
    BY <1>2 DEF historyVars, vars
  <2>2. ASSUME NEW d PROVE Stored(d)' = Stored(d) /\ Base(d)' = Base(d) /\ Replayed(d)' = Replayed(d)
    BY <2>1 DEF Stored, Base, Replayed
  <2>3. ASSUME NEW w \in Workers PROVE CopyInv(w)' /\ StagedInv(w)'
    BY <2>1, <2>2 DEF HInv, CopyInv, StagedInv
  <2>4. ASSUME NEW d \in DeckIds PROVE DeckInv(d)'
    BY <2>1, <2>2 DEF HInv, DeckInv
  <2> QED
    BY <1>1, <2>3, <2>4 DEF HInv
<1>3. CASE HistoryNext
  <2>1. Next /\ Record
    BY <1>3 DEF HistoryNext
  <2>2. PICK w \in Workers :
          \/ \E caller \in Users, d \in DeckIds : Begin(w, caller, d)
          \/ ReadDeckRow(w)
          \/ ReadCardRows(w)
          \/ Operation(w)
          \/ \E caller \in Users, d \in DeckIds, title \in Titles, drafts \in Drafts :
               CreateDeck(w, caller, d, title, drafts)
          \/ Commit(w)
          \/ Rollback(w)
    BY <2>1 DEF Next
  <2>3. CASE Operation(w)
    BY <1>1, <2>1, <2>3, AddCardHInv, EditCardHInv, RemoveCardHInv, ReorderCardsHInv,
       RenameDeckHInv, DeleteDeckHInv DEF Operation
  <2> QED
    BY <1>1, <2>1, <2>2, <2>3, BeginHInv, ReadDeckRowHInv, ReadCardRowsHInv, CreateDeckHInv,
       CommitHInv, RollbackHInv
<1> QED
  BY <1>2, <1>3

\* The invariant behind the two theorems below, whatever requests overlap and fail
\* (Decks.ByID, the mutators, Decks.Save): a copy that no commit has outdated is the
\* deck as committed, and the events staged from it lead to what it will leave.
THEOREM HistoryInvariance == HistorySpec => []HInv
BY InitHInv, NextHInv, PTL DEF HistorySpec

\* As long as no outdated copy was saved, the rows of a deck are what its events add
\* up to: no announced update is lost and none is unannounced, whatever the limits on
\* cards, users and overlapping requests (Decks.Save, Publish).
THEOREM RowsReplay == HistorySpec => []RowsAreReplayUnlessOverwritten
<1>1. HInv => RowsAreReplayUnlessOverwritten
  BY DEF HInv, DeckInv, RowsAreReplayUnlessOverwritten
<1> QED
  BY <1>1, HistoryInvariance, PTL

\* Only commits touch the decks.
LEMMA OnlyCommits ==
  ASSUME Next, \A w \in Workers : ~Commit(w)
  PROVE  UNCHANGED db
<1>1. PICK w \in Workers :
        \/ \E caller \in Users, d \in DeckIds : Begin(w, caller, d)
        \/ ReadDeckRow(w)
        \/ ReadCardRows(w)
        \/ Operation(w)
        \/ \E caller \in Users, d \in DeckIds, title \in Titles, drafts \in Drafts :
             CreateDeck(w, caller, d, title, drafts)
        \/ Rollback(w)
  BY DEF Next
<1>2. CASE Operation(w)
  BY <1>2 DEF Operation, AddCard, EditCard, RemoveCard, ReorderCards, RenameDeck, DeleteDeck, Save
<1>3. CASE ReadDeckRow(w) \/ ReadCardRows(w) \/ Rollback(w)
  BY <1>3 DEF ReadDeckRow, ReadCardRows, Rollback
<1>4. CASE \E caller \in Users, d \in DeckIds : Begin(w, caller, d)
  BY <1>4 DEF Begin
<1>5. CASE \E caller \in Users, d \in DeckIds, title \in Titles, drafts \in Drafts :
             CreateDeck(w, caller, d, title, drafts)
  BY <1>5 DEF CreateDeck
<1> QED
  BY <1>1, <1>2, <1>3, <1>4, <1>5

\* What DeletedUnlessOverwritten asks of every step.
DeletedKept ==
  \A d \in DeckIds \ overwritten' :
    (deckRow[d] # None /\ deckRow[d].deleted) => ~Touched(d)

\* As long as no outdated copy was saved, a deleted deck is never written again
\* (Deck.requireAlive): a copy that may still be saved is of a deck that is not deleted.
THEOREM DeletionIsFinal == HistorySpec => DeletedUnlessOverwritten
<1>1. HInv /\ [HistoryNext]_historyVars => [DeletedKept]_historyVars
  <2> SUFFICES ASSUME HInv, HistoryNext, NEW d \in DeckIds, d \notin overwritten',
                      deckRow[d] # None, deckRow[d].deleted
               PROVE  deckRow'[d] = deckRow[d] /\ cardRows'[d] = cardRows[d]
    BY DEF DeletedKept, Touched
  <2>1. Next /\ Record
    BY DEF HistoryNext
  <2>2. ASSUME NEW w \in Workers, Commit(w)
        PROVE  deckRow'[d] = deckRow[d] /\ cardRows'[d] = cardRows[d]
    <3>1. CASE d # req[w].deck
      <4> PICK c : c = req[w].deck
        OBVIOUS
      <4>1. \A e \in DeckIds \ {c} : deckRow'[e] = deckRow[e] /\ cardRows'[e] = cardRows[e]
        BY <2>1, <2>2, CommittedStep
      <4> QED
        BY <3>1, <4>1
    <3>2. CASE d = req[w].deck
      <4>1. pc[w] = "saved" /\ (w \in stale => d \in overwritten')
        BY <2>1, <2>2, <3>2, CommittedStep
      <4>2. StagedInv(w)
        BY DEF HInv
      <4> QED
        BY <3>2, <4>1, <4>2 DEF StagedInv
    <3> QED
      BY <3>1, <3>2
  <2>3. CASE \A w \in Workers : ~Commit(w)
    BY <2>1, <2>3, OnlyCommits DEF db
  <2> QED
    BY <2>2, <2>3
<1>2. HistorySpec => [][DeletedKept]_historyVars
  BY <1>1, HistoryInvariance, PTL DEF HistorySpec
<1> QED
  BY <1>2 DEF DeletedUnlessOverwritten, DeletedKept
=============================================================================
