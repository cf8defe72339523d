---------------------------- MODULE OutboxProofs ----------------------------
(***************************************************************************)
(* Proofs that the dispatcher marks no row it has not forwarded, and that  *)
(* it forwards the rows appended under a common lock in the order of their *)
(* commits, although ids are taken before the commits and in another       *)
(* order.  The argument joins the two sides: the lock makes such ids grow  *)
(* with the commits, and the fetch by id lets no stored row be overtaken   *)
(* by a later one of the same lock.                                        *)
(***************************************************************************)
EXTENDS Outbox, FiniteSetTheorems, SequenceTheorems, WellFoundedInduction, TLAPS

\* What Forward appends is recorded, and what was recorded stays.
LEMMA ToSetAppend ==
  ASSUME NEW s, s \in Seq(ToSet(s)), NEW e
  PROVE  /\ ToSet(Append(s, e)) = ToSet(s) \cup {e}
         /\ Append(s, e) \in Seq(ToSet(s) \cup {e})
<1>1. /\ Append(s, e) \in Seq(ToSet(s) \cup {e})
      /\ Len(s) \in Nat /\ DOMAIN s = 1..Len(s)
      /\ Len(Append(s, e)) = Len(s) + 1
      /\ DOMAIN Append(s, e) = 1..(Len(s) + 1)
      /\ Append(s, e)[Len(s) + 1] = e
      /\ \A i \in DOMAIN s : Append(s, e)[i] = s[i]
  <2>1. s \in Seq(ToSet(s) \cup {e}) /\ e \in ToSet(s) \cup {e}
    OBVIOUS
  <2>2. QED
    BY <2>1
<1>2. ToSet(Append(s, e)) = ToSet(s) \cup {e}
  BY <1>1 DEF ToSet
<1>3. QED
  BY <1>1, <1>2

-----------------------------------------------------------------------------
(***************************************************************************)
(* What a fetch returns.  CHOOSE picks a sequence only when there is one:  *)
(* the m smallest ids are found one after the other.                       *)
(***************************************************************************)

LEMMA NatInductionSet ==
  ASSUME NEW S, 0 \in S, \A n \in Nat : n \in S => n + 1 \in S
  PROVE  Nat \subseteq S
<1> PICK T : T = Nat \ S
  OBVIOUS
<1> SUFFICES ASSUME T # {} PROVE FALSE
  OBVIOUS
<1> PICK R : R = {p \in Nat \X Nat : p[1] < p[2]}
  OBVIOUS
<1>1. IsWellFoundedOn(R, Nat)
  BY NatLessThanWellFounded DEF OpToRel
<1>2. \E x \in T : \A y \in T : ~(<<y, x>> \in R)
  BY <1>1, WFMin
<1> PICK x \in T : \A y \in T : ~(<<y, x>> \in R)
  BY <1>2
<1>3. x \in Nat /\ x # 0 /\ x - 1 \in Nat /\ x - 1 < x
  OBVIOUS
<1>4. x - 1 \in S
  BY <1>3
<1>5. (x - 1) + 1 \in S
  BY <1>3, <1>4
<1> QED
  BY <1>3, <1>5

LEMMA LeastId ==
  ASSUME NEW S \in SUBSET Nat, S # {}
  PROVE  \E x \in S : \A y \in S : x <= y
<1> PICK R : R = {p \in Nat \X Nat : p[1] < p[2]}
  OBVIOUS
<1>1. IsWellFoundedOn(R, Nat)
  BY NatLessThanWellFounded DEF OpToRel
<1>2. \E x \in S : \A y \in S : ~(<<y, x>> \in R)
  BY <1>1, WFMin
<1> PICK x \in S : \A y \in S : ~(<<y, x>> \in R)
  BY <1>2
<1>3. ASSUME NEW y \in S PROVE x <= y
  <2>1. x \in Nat /\ y \in Nat /\ (y < x => <<y, x>> \in R)
    OBVIOUS
  <2> QED
    BY <2>1
<1> QED
  BY <1>3

\* s lists the m smallest of ids, the smallest first.
Smallest(ids, m, s) ==
  /\ s \in [1..m -> ids]
  /\ \A i, j \in 1..m : i < j => s[i] < s[j]
  /\ \A id \in ids : (\E i \in 1..m : s[i] = id) \/ (\A i \in 1..m : s[i] < id)

LEMMA OneMore ==
  ASSUME NEW ids \in SUBSET Nat, NEW m \in Nat, NEW s, Smallest(ids, m, s),
         IsFiniteSet(ids), m + 1 <= Cardinality(ids)
  PROVE  \E t : Smallest(ids, m + 1, t)
<1> PICK rest : rest = {id \in ids : ~ \E i \in 1..m : s[i] = id}
  OBVIOUS
<1>1. rest # {}
  <2> SUFFICES ASSUME rest = {} PROVE FALSE
    OBVIOUS
  <2>1. s \in Surjection(1..m, ids)
    BY DEF Surjection, Smallest
  <2>2. IsFiniteSet(1..m) /\ Cardinality(1..m) = m
    BY FS_Interval
  <2>3. Cardinality(ids) <= m
    BY <2>1, <2>2, FS_Surjection
  <2>4. Cardinality(ids) \in Nat
    BY FS_CardinalityType
  <2> QED
    BY <2>3, <2>4
<1>2. PICK x \in rest : \A y \in rest : x <= y
  BY <1>1, LeastId
<1> PICK t : t = [i \in 1..(m + 1) |-> IF i <= m THEN s[i] ELSE x]
  OBVIOUS
<1>3. x \in ids /\ x \in Nat /\ \A i \in 1..m : s[i] < x
  BY <1>2 DEF Smallest
<1>4. t \in [1..(m + 1) -> ids] /\ t[m + 1] = x /\ \A i \in 1..m : t[i] = s[i]
  BY <1>3 DEF Smallest
<1>5. \A i, j \in 1..(m + 1) : i < j => t[i] < t[j]
  BY <1>3, <1>4 DEF Smallest
<1>6. \A id \in ids :
        (\E i \in 1..(m + 1) : t[i] = id) \/ (\A i \in 1..(m + 1) : t[i] < id)
  <2> SUFFICES ASSUME NEW id \in ids, ~ \E i \in 1..(m + 1) : t[i] = id
               PROVE  \A i \in 1..(m + 1) : t[i] < id
    OBVIOUS
  <2>1. id \in rest /\ id # x
    BY <1>4
  <2>2. x < id
    BY <1>2, <1>3, <2>1
  <2> QED
    BY <1>3, <1>4, <2>1, <2>2 DEF Smallest
<1> QED
  BY <1>4, <1>5, <1>6 DEF Smallest

LEMMA SmallestExist ==
  ASSUME NEW ids \in SUBSET Nat, IsFiniteSet(ids),
         NEW n \in Nat, n <= Cardinality(ids)
  PROVE  \E s : Smallest(ids, n, s)
<1> PICK S : S = {m \in Nat : m <= Cardinality(ids) => \E s : Smallest(ids, m, s)}
  OBVIOUS
<1>0. Cardinality(ids) \in Nat
  BY FS_CardinalityType
<1>1. 0 \in S
  <2>1. Smallest(ids, 0, [i \in 1..0 |-> 0])
    BY DEF Smallest
  <2> QED
    BY <2>1
<1>2. \A m \in Nat : m \in S => m + 1 \in S
  BY <1>0, OneMore
<1> QED
  BY <1>1, <1>2, NatInductionSet

\* ORDER BY id ASC LIMIT n: at most n rows, some when there is one, by id, and a
\* row that is left out comes after them all.
LEMMA FetchedRows ==
  ASSUME NEW ids \in SUBSET Ids, NEW n \in Nat \ {0}
  PROVE  LET s == Fetched(ids, n) IN
         /\ s \in Seq(ids) /\ Len(s) <= n /\ (ids # {} => s # <<>>)
         /\ \A i, j \in DOMAIN s : i < j => s[i] < s[j]
         /\ \A id \in ids : (\E i \in DOMAIN s : s[i] = id) \/ (\A i \in DOMAIN s : s[i] < id)
<1>1. IsFiniteSet(ids) /\ ids \in SUBSET Nat
  <2>1. IsFiniteSet(Ids) /\ Ids \subseteq Nat
    BY FS_Interval, BoundsAssumption DEF Ids
  <2> QED
    BY <2>1, FS_Subset
<1>2. Cardinality(ids) \in Nat /\ (Cardinality(ids) = 0 <=> ids = {})
  BY <1>1, FS_CardinalityType, FS_EmptySet
<1> PICK size : size = IF Cardinality(ids) < n THEN Cardinality(ids) ELSE n
  OBVIOUS
<1>3. size \in Nat /\ size <= n /\ size <= Cardinality(ids) /\ (ids # {} => size # 0)
  BY <1>2
<1>4. \E s : Smallest(ids, size, s)
  BY <1>1, <1>3, SmallestExist
<1>5. Fetched(ids, n) = CHOOSE s \in [1..size -> ids] :
        /\ \A i, j \in 1..size : i < j => s[i] < s[j]
        /\ \A id \in ids : \/ \E i \in 1..size : s[i] = id
                           \/ \A i \in 1..size : s[i] < id
  BY DEF Fetched
<1>6. Smallest(ids, size, Fetched(ids, n))
  BY <1>4, <1>5 DEF Smallest
<1> PICK s : s = Fetched(ids, n)
  OBVIOUS
<1>7. s \in [1..size -> ids] /\ s \in Seq(ids) /\ Len(s) = size /\ DOMAIN s = 1..size
  BY <1>3, <1>6 DEF Smallest
<1> QED
  BY <1>3, <1>6, <1>7 DEF Smallest

-----------------------------------------------------------------------------
(***************************************************************************)
(* The inductive invariant.                                                *)
(***************************************************************************)

\* Rows beyond the sequence's last id are as they were.
NextInv ==
  \A id \in Ids : id > next => status[id] = "unused" /\ under[id] = {}

\* A row is stored when it has been committed, and then only.
StoredInv ==
  \A id \in Ids : status[id] = "stored" <=> \E i \in DOMAIN committed : committed[i] = id

\* The row lock.
LockInv ==
  \A v, w \in Workers : v # w => holds[v] \cap holds[w] = {}

\* What w has appended is its own, in the order of the ids, under locks it still
\* holds, and later than all that is stored under one of them.
MineInv ==
  \A w \in Workers :
    \A i \in DOMAIN mine[w] :
      /\ status[mine[w][i]] = "pending"
      /\ under[mine[w][i]] \subseteq holds[w]
      /\ \A j \in 1..(i - 1) : mine[w][j] < mine[w][i]
      /\ \A id \in Ids : status[id] = "stored" /\ Serialized(id, mine[w][i]) => id < mine[w][i]

OwnInv ==
  \A v, w \in Workers : v # w =>
    \A i \in DOMAIN mine[v], j \in DOMAIN mine[w] : mine[v][i] # mine[w][j]

\* The ids appended under one lock grow with the commits.
OrderInv ==
  \A i, k \in DOMAIN committed :
    /\ k < i
    /\ Serialized(committed[k], committed[i])
    => committed[k] < committed[i]

\* The rows the round still has to mark are stored, and an earlier stored row under
\* a common lock is dispatched or comes before.
BatchInv ==
  \A i \in DOMAIN batch :
    /\ status[batch[i]] = "stored"
    /\ \A id \in Ids :
         /\ status[id] = "stored"
         /\ under[id] \cap under[batch[i]] # {}
         /\ id < batch[i]
         => id \in dispatched \/ \E k \in 1..(i - 1) : batch[k] = id

\* What is forwarded is stored; so is the row the round has forwarded and not yet
\* marked.
SentInv ==
  /\ \A j \in DOMAIN forwarded : status[forwarded[j]] = "stored"
  /\ sent => batch # <<>> /\ Head(batch) \in ToSet(forwarded)

IInv ==
  /\ TypeOK
  /\ NextInv /\ StoredInv /\ LockInv /\ MineInv /\ OwnInv /\ OrderInv
  /\ BatchInv /\ SentInv
  /\ MarkedWasForwarded
  /\ ForwardedInCommitOrder

-----------------------------------------------------------------------------
(***************************************************************************)
(* The publishing side.                                                    *)
(***************************************************************************)

\* A use case disturbs nothing of the dispatcher's: what is stored stays, and a row
\* that becomes stored is later than the rows stored under its locks.
LEMMA RoundKept ==
  ASSUME IInv, UNCHANGED <<dispatched, batch, sent, forwarded>>,
         \A id \in Ids : status[id] = "stored" =>
           status'[id] = "stored" /\ under'[id] = under[id],
         \A id \in Ids : status'[id] = "stored" /\ status[id] # "stored" =>
           \A y \in Ids : status[y] = "stored" /\ under[y] \cap under'[id] # {} => y < id,
         \A i \in DOMAIN committed : i \in DOMAIN committed' /\ committed'[i] = committed[i]
  PROVE  BatchInv' /\ SentInv' /\ MarkedWasForwarded' /\ ForwardedInCommitOrder'
<1>1. /\ \A i \in DOMAIN batch : batch[i] \in Ids
      /\ \A j \in DOMAIN forwarded : forwarded[j] \in Ids
      /\ \A i \in DOMAIN committed : committed[i] \in Ids
      /\ Ids \subseteq Nat
  <2>1. batch \in Seq(Ids) /\ forwarded \in Seq(Ids) /\ committed \in Seq(Ids)
    BY DEF IInv, TypeOK
  <2>2. Ids \subseteq Nat
    BY BoundsAssumption DEF Ids
  <2> QED
    BY <2>1, <2>2
<1>2. BatchInv'
  <2> SUFFICES ASSUME NEW i \in DOMAIN batch
               PROVE  /\ status'[batch[i]] = "stored"
                      /\ \A id \in Ids :
                           /\ status'[id] = "stored"
                           /\ under'[id] \cap under'[batch[i]] # {}
                           /\ id < batch[i]
                           => id \in dispatched \/ \E k \in 1..(i - 1) : batch[k] = id
    BY DEF BatchInv, Ids
  <2>1. status[batch[i]] = "stored" /\ batch[i] \in Ids
    BY <1>1 DEF IInv, BatchInv
  <2>2. status'[batch[i]] = "stored" /\ under'[batch[i]] = under[batch[i]]
    BY <2>1
  <2>3. ASSUME NEW id \in Ids, status'[id] = "stored",
               under'[id] \cap under'[batch[i]] # {}, id < batch[i]
        PROVE  id \in dispatched \/ \E k \in 1..(i - 1) : batch[k] = id
    <3>1. status[id] = "stored"
      <4> SUFFICES ASSUME status[id] # "stored" PROVE FALSE
        OBVIOUS
      <4>1. under[batch[i]] \cap under'[id] # {}
        BY <2>2, <2>3
      <4>2. batch[i] < id
        BY <2>1, <2>3, <4>1
      <4>3. batch[i] \in Nat /\ id \in Nat /\ id < batch[i]
        BY <1>1, <2>1, <2>3
      <4> QED
        BY <4>2, <4>3
    <3>2. under[id] \cap under[batch[i]] # {}
      BY <2>2, <2>3, <3>1
    <3> QED
      BY <2>3, <3>1, <3>2 DEF IInv, BatchInv
  <2> QED
    BY <2>2, <2>3
<1>3. SentInv' /\ MarkedWasForwarded'
  BY <1>1 DEF IInv, SentInv, MarkedWasForwarded
<1>4. ForwardedInCommitOrder'
  <2> SUFFICES ASSUME NEW j \in DOMAIN forwarded
               PROVE  \E i \in DOMAIN committed' :
                        /\ committed'[i] = forwarded[j]
                        /\ \A k \in 1..(i - 1) : under'[committed'[k]] \cap under'[committed'[i]] # {} =>
                             \E l \in 1..(j - 1) : forwarded[l] = committed'[k]
    BY DEF ForwardedInCommitOrder, Serialized
  <2>2. PICK i \in DOMAIN committed :
          /\ committed[i] = forwarded[j]
          /\ \A k \in 1..(i - 1) : under[committed[k]] \cap under[committed[i]] # {} =>
               \E l \in 1..(j - 1) : forwarded[l] = committed[k]
    BY DEF IInv, ForwardedInCommitOrder, Serialized
  <2>3. \A k \in 1..i : k \in DOMAIN committed
    BY DEF IInv, TypeOK
  <2>4. \A k \in 1..i : /\ committed'[k] = committed[k]
                        /\ under'[committed[k]] = under[committed[k]]
    BY <1>1, <2>3 DEF IInv, StoredInv
  <2>5. i \in 1..i /\ \A k \in 1..(i - 1) : k \in 1..i
    BY <2>2 DEF IInv, TypeOK
  <2> QED
    BY <2>2, <2>4, <2>5
<1> QED
  BY <1>2, <1>3, <1>4

LEMMA SaveInv == ASSUME IInv, NEW w \in Workers, NEW l \in Locks, Save(w, l) PROVE IInv'
<1>1. /\ mine[w] = <<>> /\ \A v \in Workers : l \notin holds[v]
      /\ holds' = [holds EXCEPT ![w] = holds[w] \cup {l}]
      /\ UNCHANGED <<status, under, committed, next, dispatched, mine, batch, sent, forwarded>>
  BY DEF Save, box, round
<1>2. /\ holds \in [Workers -> SUBSET Locks] /\ holds' \in [Workers -> SUBSET Locks]
      /\ holds'[w] = holds[w] \cup {l} /\ \A v \in Workers \ {w} : holds'[v] = holds[v]
  BY <1>1 DEF IInv, TypeOK
<1>3. TypeOK' /\ NextInv' /\ StoredInv' /\ OwnInv' /\ OrderInv'
  BY <1>1, <1>2 DEF IInv, TypeOK, NextInv, StoredInv, OwnInv, OrderInv, Serialized, Ids
<1>4. LockInv'
  BY <1>1, <1>2 DEF IInv, LockInv
<1>5. MineInv'
  <2>1. \A v \in Workers : holds[v] \subseteq holds'[v]
    BY <1>2
  <2> QED
    BY <1>1, <2>1 DEF IInv, MineInv, Serialized, Ids
<1>6. BatchInv' /\ SentInv' /\ MarkedWasForwarded' /\ ForwardedInCommitOrder'
  BY <1>1, RoundKept
<1> QED
  BY <1>3, <1>4, <1>5, <1>6 DEF IInv

LEMMA PublishInv == ASSUME IInv, NEW w \in Workers, Publish(w) PROVE IInv'
<1> PICK new : new = next + 1
  OBVIOUS
<1>1. /\ next < MaxEvents /\ next' = new
      /\ status' = [status EXCEPT ![new] = "pending"]
      /\ under' = [under EXCEPT ![new] = holds[w]]
      /\ mine' = [mine EXCEPT ![w] = Append(mine[w], new)]
      /\ UNCHANGED <<committed, dispatched, holds, batch, sent, forwarded>>
  BY DEF Publish, round
<1>2. new \in Ids /\ new > next /\ next \in Nat /\ Ids \subseteq Nat
  BY <1>1, BoundsAssumption DEF IInv, TypeOK, Ids
<1>3. status[new] = "unused"
  BY <1>2 DEF IInv, NextInv
<1>4. /\ status \in [Ids -> {"unused", "pending", "stored", "aborted"}]
      /\ under \in [Ids -> SUBSET Locks]
      /\ mine \in [Workers -> Seq(Ids)] /\ holds \in [Workers -> SUBSET Locks]
      /\ committed \in Seq(Ids)
  BY DEF IInv, TypeOK
<1>5. /\ status'[new] = "pending" /\ under'[new] = holds[w]
      /\ \A id \in Ids : id # new => status'[id] = status[id] /\ under'[id] = under[id]
  BY <1>1, <1>2, <1>4
<1>6. \A i \in DOMAIN committed : committed[i] \in Ids /\ committed[i] # new
  <2>1. \A i \in DOMAIN committed : committed[i] \in Ids
    BY <1>4
  <2>2. \A i \in DOMAIN committed : status[committed[i]] = "stored"
    BY <2>1 DEF IInv, StoredInv
  <2> QED
    BY <1>3, <2>1, <2>2
<1>7. /\ mine'[w] = Append(mine[w], new)
      /\ \A v \in Workers \ {w} : mine'[v] = mine[v]
      /\ mine' \in [Workers -> Seq(Ids)]
  <2>1. Append(mine[w], new) \in Seq(Ids)
    BY <1>2, <1>4
  <2> QED
    BY <1>1, <1>4, <2>1
<1>8. TypeOK'
  <2>1. /\ status' \in [Ids -> {"unused", "pending", "stored", "aborted"}]
        /\ under' \in [Ids -> SUBSET Locks]
    BY <1>1, <1>2, <1>4
  <2>2. next' \in 0..MaxEvents
    BY <1>1, <1>2 DEF Ids
  <2> QED
    BY <1>1, <1>7, <2>1, <2>2 DEF IInv, TypeOK, Ids
<1>9. NextInv'
  BY <1>1, <1>2, <1>5 DEF IInv, NextInv, Ids
<1>10. StoredInv'
  BY <1>1, <1>3, <1>5, <1>6 DEF IInv, StoredInv, Ids
<1>11. LockInv'
  BY <1>1 DEF IInv, LockInv
<1>12. OrderInv'
  BY <1>1, <1>5, <1>6 DEF IInv, OrderInv, Serialized
<1>13. \A v \in Workers : \A i \in DOMAIN mine[v] :
         mine[v][i] \in Ids /\ mine[v][i] # new /\ mine[v][i] < new
  <2> SUFFICES ASSUME NEW v \in Workers, NEW i \in DOMAIN mine[v]
               PROVE  mine[v][i] \in Ids /\ mine[v][i] # new /\ mine[v][i] < new
    OBVIOUS
  <2>1. mine[v][i] \in Ids /\ status[mine[v][i]] = "pending"
    BY <1>4 DEF IInv, MineInv
  <2>2. ~(mine[v][i] > next)
    BY <2>1 DEF IInv, NextInv
  <2>3. mine[v][i] \in Nat
    BY <1>2, <2>1
  <2> QED
    BY <1>2, <2>1, <2>2, <2>3
<1> PICK n : n = Len(mine[w])
  OBVIOUS
<1>14. /\ n \in Nat /\ DOMAIN mine[w] = 1..n /\ DOMAIN mine'[w] = 1..(n + 1)
       /\ mine'[w][n + 1] = new /\ \A i \in 1..n : mine'[w][i] = mine[w][i]
       /\ \A i \in 1..(n + 1) : i \in 1..n \/ i = n + 1
  <2>1. mine[w] \in Seq(Ids) /\ mine'[w] = Append(mine[w], new)
    BY <1>4, <1>7
  <2> QED
    BY <1>2, <2>1, AppendProperties
<1>15. OwnInv'
  <2>1. \A u, v \in Workers : u # v =>
          \A i \in DOMAIN mine[u], j \in DOMAIN mine[v] : mine[u][i] # mine[v][j]
    BY DEF IInv, OwnInv
  <2>2. ASSUME NEW v \in Workers \ {w}, NEW i \in 1..(n + 1), NEW j \in DOMAIN mine[v]
        PROVE  mine'[w][i] # mine[v][j]
    <3>1. CASE i \in 1..n
      BY <1>14, <2>1, <3>1
    <3>2. CASE i = n + 1
      BY <1>13, <1>14, <3>2
    <3> QED
      BY <1>14, <3>1, <3>2
  <2> SUFFICES ASSUME NEW u \in Workers, NEW v \in Workers, u # v,
                      NEW i \in DOMAIN mine'[u], NEW j \in DOMAIN mine'[v]
               PROVE  mine'[u][i] # mine'[v][j]
    BY DEF OwnInv
  <2>3. CASE u # w /\ v # w
    <3>1. mine'[u] = mine[u] /\ mine'[v] = mine[v]
      BY <1>7, <2>3
    <3>2. i \in DOMAIN mine[u] /\ j \in DOMAIN mine[v]
      BY <3>1
    <3>3. mine[u][i] # mine[v][j]
      BY <2>1, <3>2
    <3> QED
      BY <3>1, <3>3
  <2>4. CASE u = w
    <3>1. v \in Workers \ {w} /\ mine'[v] = mine[v] /\ i \in 1..(n + 1)
      BY <1>7, <1>14, <2>4
    <3> QED
      BY <2>2, <2>4, <3>1
  <2>5. CASE v = w
    <3>1. u \in Workers \ {w} /\ mine'[u] = mine[u] /\ j \in 1..(n + 1)
      BY <1>7, <1>14, <2>5
    <3> QED
      BY <2>2, <2>5, <3>1
  <2> QED
    BY <2>3, <2>4, <2>5
<1>16. MineInv'
  <2> SUFFICES ASSUME NEW v \in Workers, NEW i \in DOMAIN mine'[v]
               PROVE  /\ status'[mine'[v][i]] = "pending"
                      /\ under'[mine'[v][i]] \subseteq holds[v]
                      /\ \A j \in 1..(i - 1) : mine'[v][j] < mine'[v][i]
                      /\ \A id \in Ids :
                           status'[id] = "stored" /\ under'[id] \cap under'[mine'[v][i]] # {} =>
                             id < mine'[v][i]
    BY <1>1 DEF MineInv, Serialized, Ids
  <2>1. \A id \in Ids : status'[id] = "stored" =>
          status[id] = "stored" /\ id # new /\ under'[id] = under[id]
    BY <1>5
  <2>2. \A k \in DOMAIN mine[v] :
          /\ status'[mine[v][k]] = "pending"
          /\ under'[mine[v][k]] \subseteq holds[v]
          /\ \A j \in 1..(k - 1) : mine[v][j] < mine[v][k]
          /\ \A id \in Ids : status'[id] = "stored" /\ under'[id] \cap under'[mine[v][k]] # {} =>
               id < mine[v][k]
    BY <1>5, <1>13, <2>1 DEF IInv, MineInv, Serialized
  <2>3. CASE v # w
    <3>1. mine'[v] = mine[v]
      BY <1>7, <2>3
    <3> QED
      BY <2>2, <3>1
  <2>4. CASE v = w /\ i \in 1..n
    <3>1. mine'[v][i] = mine[v][i] /\ \A j \in 1..(i - 1) : mine'[v][j] = mine[v][j]
      BY <1>14, <2>4
    <3> QED
      BY <1>14, <2>2, <2>4, <3>1
  <2>5. CASE v = w /\ i = n + 1
    <3>1. mine'[v][i] = new /\ \A j \in 1..(i - 1) : mine'[v][j] < new
      BY <1>13, <1>14, <2>5
    <3>2. \A id \in Ids : status'[id] = "stored" => id < new
      <4>1. \A id \in Ids : status[id] = "stored" => ~(id > next)
        BY DEF IInv, NextInv
      <4> QED
        BY <1>2, <2>1, <4>1
    <3> QED
      BY <1>5, <2>5, <3>1, <3>2
  <2> QED
    BY <1>14, <2>3, <2>4, <2>5
<1>17. BatchInv' /\ SentInv' /\ MarkedWasForwarded' /\ ForwardedInCommitOrder'
  <2>1. \A id \in Ids : status[id] = "stored" =>
          status'[id] = "stored" /\ under'[id] = under[id]
    BY <1>3, <1>5
  <2>2. \A id \in Ids : status'[id] = "stored" => status[id] = "stored"
    BY <1>5
  <2> QED
    BY <1>1, <2>1, <2>2, RoundKept
<1> QED
  BY <1>8, <1>9, <1>10, <1>11, <1>12, <1>15, <1>16, <1>17 DEF IInv

\* What w has appended gets the outcome of its transaction, and no other row
\* changes.  A row stored so was appended under locks that nobody else holds.
LEMMA ResolvedRows ==
  ASSUME IInv, NEW w \in Workers,
         NEW outcome \in {"stored", "aborted"}, status' = Resolved(w, outcome),
         holds' = [holds EXCEPT ![w] = {}], mine' = [mine EXCEPT ![w] = <<>>],
         UNCHANGED <<under, next>>
  PROVE  /\ status' \in [Ids -> {"unused", "pending", "stored", "aborted"}]
         /\ holds' \in [Workers -> SUBSET Locks]
         /\ mine' \in [Workers -> Seq(Ids)]
         /\ \A i \in DOMAIN mine[w] : mine[w][i] \in Ids /\ status'[mine[w][i]] = outcome
         /\ \A id \in Ids : (\A i \in DOMAIN mine[w] : mine[w][i] # id) =>
              status'[id] = status[id]
         /\ NextInv' /\ LockInv' /\ OwnInv'
         /\ MineInv'
<1>1. /\ status \in [Ids -> {"unused", "pending", "stored", "aborted"}]
      /\ mine \in [Workers -> Seq(Ids)] /\ holds \in [Workers -> SUBSET Locks]
  BY DEF IInv, TypeOK
<1>2. /\ status' \in [Ids -> {"unused", "pending", "stored", "aborted"}]
      /\ \A id \in Ids :
           status'[id] = IF \E i \in DOMAIN mine[w] : mine[w][i] = id THEN outcome ELSE status[id]
  BY <1>1 DEF Resolved
<1>3. \A v \in Workers : \A i \in DOMAIN mine[v] :
        /\ mine[v][i] \in Ids /\ status[mine[v][i]] = "pending"
        /\ under[mine[v][i]] \subseteq holds[v]
  BY <1>1 DEF IInv, MineInv
<1>4. \A i \in DOMAIN mine[w] : mine[w][i] \in Ids /\ status'[mine[w][i]] = outcome
  BY <1>2, <1>3
<1>5. \A id \in Ids : (\A i \in DOMAIN mine[w] : mine[w][i] # id) => status'[id] = status[id]
  BY <1>2
<1>6. /\ holds' \in [Workers -> SUBSET Locks] /\ holds'[w] = {}
      /\ \A v \in Workers \ {w} : holds'[v] = holds[v] /\ holds[v] \cap holds[w] = {}
  BY <1>1 DEF IInv, LockInv
<1>7. /\ mine' \in [Workers -> Seq(Ids)] /\ mine'[w] = <<>> /\ DOMAIN mine'[w] = {}
      /\ \A v \in Workers \ {w} : mine'[v] = mine[v]
  <2>1. <<>> \in Seq(Ids) /\ DOMAIN <<>> = {}
    OBVIOUS
  <2> QED
    BY <1>1, <2>1
<1>8. NextInv'
  <2>1. \A id \in Ids : id > next => status[id] = "unused" /\ under[id] = {}
    BY DEF IInv, NextInv
  <2>2. \A id \in Ids : status[id] = "unused" => status'[id] = "unused"
    BY <1>3, <1>5
  <2> QED
    BY <2>1, <2>2 DEF NextInv, Ids
<1>9. LockInv' /\ OwnInv'
  <2>1. LockInv'
    BY <1>6 DEF IInv, LockInv
  <2>2. OwnInv'
    BY <1>7 DEF IInv, OwnInv
  <2> QED
    BY <2>1, <2>2
<1>10. MineInv'
  <2> SUFFICES ASSUME NEW v \in Workers, NEW i \in DOMAIN mine'[v]
               PROVE  /\ status'[mine'[v][i]] = "pending"
                      /\ under[mine'[v][i]] \subseteq holds'[v]
                      /\ \A j \in 1..(i - 1) : mine'[v][j] < mine'[v][i]
                      /\ \A id \in Ids :
                           status'[id] = "stored" /\ under[id] \cap under[mine'[v][i]] # {} =>
                             id < mine'[v][i]
    BY DEF MineInv, Serialized, Ids
  <2>1. v # w /\ mine'[v] = mine[v] /\ holds'[v] = holds[v] /\ holds[v] \cap holds[w] = {}
    BY <1>6, <1>7
  <2>2. /\ under[mine[v][i]] \subseteq holds[v] /\ mine[v][i] \in Ids
        /\ \A j \in 1..(i - 1) : mine[v][j] < mine[v][i]
        /\ \A id \in Ids : status[id] = "stored" /\ under[id] \cap under[mine[v][i]] # {} =>
             id < mine[v][i]
    BY <1>3, <2>1 DEF IInv, MineInv, Serialized
  <2>3. \A k \in DOMAIN mine[w] :
          mine[w][k] # mine[v][i] /\ under[mine[w][k]] \cap under[mine[v][i]] = {}
    <3>1. \A k \in DOMAIN mine[w] : under[mine[w][k]] \subseteq holds[w]
      BY <1>3
    <3>2. \A k \in DOMAIN mine[w] : mine[w][k] # mine[v][i]
      BY <2>1 DEF IInv, OwnInv
    <3> QED
      BY <2>1, <2>2, <3>1, <3>2
  <2>4. status'[mine[v][i]] = "pending"
    BY <1>3, <1>5, <2>1, <2>2, <2>3
  <2>5. ASSUME NEW id \in Ids, status'[id] = "stored", under[id] \cap under[mine[v][i]] # {}
        PROVE  id < mine[v][i]
    <3>1. \A k \in DOMAIN mine[w] : mine[w][k] # id
      BY <2>3, <2>5
    <3> QED
      BY <1>5, <2>2, <2>5, <3>1
  <2> QED
    BY <2>1, <2>2, <2>4, <2>5
<1> QED
  BY <1>2, <1>4, <1>5, <1>6, <1>7, <1>8, <1>9, <1>10

LEMMA RollbackInv == ASSUME IInv, NEW w \in Workers, Rollback(w) PROVE IInv'
<1>1. /\ status' = Resolved(w, "aborted")
      /\ holds' = [holds EXCEPT ![w] = {}]
      /\ mine' = [mine EXCEPT ![w] = <<>>]
      /\ UNCHANGED <<under, committed, next, dispatched, batch, sent, forwarded>>
  BY DEF Rollback, round
<1>2. /\ status' \in [Ids -> {"unused", "pending", "stored", "aborted"}]
      /\ holds' \in [Workers -> SUBSET Locks]
      /\ mine' \in [Workers -> Seq(Ids)]
      /\ \A i \in DOMAIN mine[w] : mine[w][i] \in Ids /\ status'[mine[w][i]] = "aborted"
      /\ \A id \in Ids : (\A i \in DOMAIN mine[w] : mine[w][i] # id) => status'[id] = status[id]
      /\ NextInv' /\ LockInv' /\ OwnInv' /\ MineInv'
  <2>1. "aborted" \in {"stored", "aborted"}
    OBVIOUS
  <2> QED
    BY <1>1, <2>1, ResolvedRows
<1>3. \A id \in Ids : status'[id] = "stored" <=> status[id] = "stored"
  <2>1. \A i \in DOMAIN mine[w] : status[mine[w][i]] = "pending"
    BY DEF IInv, MineInv
  <2>2. ASSUME NEW id \in Ids, NEW i \in DOMAIN mine[w], mine[w][i] = id
        PROVE  status[id] = "pending" /\ status'[id] = "aborted"
    BY <1>2, <2>1, <2>2
  <2> QED
    BY <1>2, <2>2
<1>4. TypeOK'
  BY <1>1, <1>2 DEF IInv, TypeOK, Ids
<1>5. StoredInv' /\ OrderInv'
  BY <1>1, <1>3 DEF IInv, StoredInv, OrderInv, Serialized, Ids
<1>6. BatchInv' /\ SentInv' /\ MarkedWasForwarded' /\ ForwardedInCommitOrder'
  BY <1>1, <1>3, RoundKept
<1> QED
  BY <1>2, <1>4, <1>5, <1>6 DEF IInv

LEMMA CommitInv == ASSUME IInv, NEW w \in Workers, Commit(w) PROVE IInv'
<1>1. /\ status' = Resolved(w, "stored")
      /\ committed' = committed \o mine[w]
      /\ holds' = [holds EXCEPT ![w] = {}]
      /\ mine' = [mine EXCEPT ![w] = <<>>]
      /\ UNCHANGED <<under, next, dispatched, batch, sent, forwarded>>
  BY DEF Commit, round
<1>2. /\ status' \in [Ids -> {"unused", "pending", "stored", "aborted"}]
      /\ holds' \in [Workers -> SUBSET Locks]
      /\ mine' \in [Workers -> Seq(Ids)]
      /\ \A i \in DOMAIN mine[w] : mine[w][i] \in Ids /\ status'[mine[w][i]] = "stored"
      /\ \A id \in Ids : (\A i \in DOMAIN mine[w] : mine[w][i] # id) => status'[id] = status[id]
      /\ NextInv' /\ LockInv' /\ OwnInv' /\ MineInv'
  <2>1. "stored" \in {"stored", "aborted"}
    OBVIOUS
  <2> QED
    BY <1>1, <2>1, ResolvedRows
<1> PICK m, n : m = Len(committed) /\ n = Len(mine[w])
  OBVIOUS
<1>3. /\ m \in Nat /\ n \in Nat
      /\ DOMAIN committed = 1..m /\ DOMAIN mine[w] = 1..n /\ DOMAIN committed' = 1..(m + n)
      /\ committed' \in Seq(Ids)
      /\ \A i \in 1..m : committed'[i] = committed[i]
      /\ \A i \in 1..n : committed'[m + i] = mine[w][i]
  <2>1. committed \in Seq(Ids) /\ mine[w] \in Seq(Ids)
    BY DEF IInv, TypeOK
  <2>2. /\ committed' \in Seq(Ids) /\ Len(committed') = m + n
        /\ \A i \in 1..(m + n) : committed'[i] = IF i <= m THEN committed[i] ELSE mine[w][i - m]
    BY <1>1, <2>1, ConcatProperties
  <2>3. m \in Nat /\ n \in Nat /\ DOMAIN committed = 1..m /\ DOMAIN mine[w] = 1..n
    BY <2>1
  <2>4. DOMAIN committed' = 1..(m + n)
    BY <2>2
  <2> QED
    BY <2>2, <2>3, <2>4
<1>4. \A i \in 1..(m + n) : i \in 1..m \/ \E k \in 1..n : i = m + k
  <2> SUFFICES ASSUME NEW i \in 1..(m + n), i > m PROVE \E k \in 1..n : i = m + k
    BY <1>3
  <2>1. i - m \in 1..n /\ i = m + (i - m)
    BY <1>3
  <2> QED
    BY <2>1
<1>5. /\ \A i \in 1..m : committed[i] \in Ids /\ status[committed[i]] = "stored"
      /\ \A i \in 1..n : /\ mine[w][i] \in Ids
                         /\ status[mine[w][i]] = "pending"
                         /\ \A j \in 1..(i - 1) : mine[w][j] < mine[w][i]
                         /\ \A id \in Ids :
                              status[id] = "stored" /\ under[id] \cap under[mine[w][i]] # {} =>
                              id < mine[w][i]
  <2>1. \A i \in 1..m : committed[i] \in Ids
    BY <1>3 DEF IInv, TypeOK
  <2>2. \A i \in 1..m : status[committed[i]] = "stored"
    BY <1>3, <2>1 DEF IInv, StoredInv
  <2>3. \A i \in 1..n : mine[w][i] \in Ids
    BY <1>2, <1>3
  <2>4. \A i \in 1..n : /\ status[mine[w][i]] = "pending"
                        /\ \A j \in 1..(i - 1) : mine[w][j] < mine[w][i]
                        /\ \A id \in Ids :
                             status[id] = "stored" /\ under[id] \cap under[mine[w][i]] # {} =>
                             id < mine[w][i]
    BY <1>3 DEF IInv, MineInv, Serialized
  <2> QED
    BY <2>1, <2>2, <2>3, <2>4
<1>6. \A id \in Ids : status[id] = "stored" => status'[id] = "stored"
  BY <1>2
<1>7. TypeOK'
  BY <1>1, <1>2, <1>3 DEF IInv, TypeOK, Ids
<1>8. StoredInv'
  <2> SUFFICES ASSUME NEW id \in Ids
               PROVE  status'[id] = "stored" <=> \E i \in DOMAIN committed' : committed'[i] = id
    BY DEF StoredInv, Ids
  <2>1. ASSUME status'[id] = "stored" PROVE \E i \in DOMAIN committed' : committed'[i] = id
    <3>1. CASE \E k \in 1..n : mine[w][k] = id
      <4>1. PICK k \in 1..n : mine[w][k] = id
        BY <3>1
      <4>2. m + k \in 1..(m + n)
        BY <1>3
      <4> QED
        BY <1>3, <4>1, <4>2
    <3>2. CASE ~ \E k \in 1..n : mine[w][k] = id
      <4>1. status[id] = "stored"
        BY <1>2, <1>3, <2>1, <3>2
      <4>2. PICK i \in 1..m : committed[i] = id
        BY <1>3, <4>1 DEF IInv, StoredInv
      <4> QED
        BY <1>3, <4>2
    <3> QED
      BY <3>1, <3>2
  <2>2. ASSUME NEW i \in 1..(m + n), committed'[i] = id PROVE status'[id] = "stored"
    <3>1. CASE i \in 1..m
      BY <1>3, <1>5, <1>6, <2>2, <3>1
    <3>2. CASE \E k \in 1..n : i = m + k
      <4>1. PICK k \in 1..n : i = m + k
        BY <3>2
      <4>2. mine[w][k] = id
        BY <1>3, <2>2, <4>1
      <4>3. k \in DOMAIN mine[w]
        BY <1>3
      <4>4. status'[mine[w][k]] = "stored"
        BY <1>2, <4>3
      <4> QED
        BY <4>2, <4>4
    <3> QED
      BY <1>4, <3>1, <3>2
  <2> QED
    BY <1>3, <2>1, <2>2
<1>9. OrderInv'
  <2> SUFFICES ASSUME NEW i \in 1..(m + n), NEW k \in 1..(m + n), k < i,
                      under[committed'[k]] \cap under[committed'[i]] # {}
               PROVE  committed'[k] < committed'[i]
    BY <1>1, <1>3 DEF OrderInv, Serialized
  <2>1. CASE i \in 1..m
    <3>1. k \in 1..m
      BY <1>3, <2>1
    <3> QED
      BY <1>3, <2>1, <3>1 DEF IInv, OrderInv, Serialized
  <2>2. ASSUME NEW p \in 1..n, i = m + p PROVE committed'[k] < committed'[i]
    <3>1. committed'[i] = mine[w][p]
      BY <1>3, <2>2
    <3>2. CASE k \in 1..m
      BY <1>3, <1>5, <3>1, <3>2
    <3>3. CASE \E q \in 1..n : k = m + q
      <4>1. PICK q \in 1..n : k = m + q
        BY <3>3
      <4>2. q \in 1..(p - 1) /\ committed'[k] = mine[w][q]
        BY <1>3, <2>2, <4>1
      <4> QED
        BY <1>5, <3>1, <4>2
    <3> QED
      BY <1>4, <3>2, <3>3
  <2> QED
    BY <1>4, <2>1, <2>2
<1>10. BatchInv' /\ SentInv' /\ MarkedWasForwarded' /\ ForwardedInCommitOrder'
  <2>1. ASSUME NEW id \in Ids, status'[id] = "stored", status[id] # "stored"
        PROVE  \A y \in Ids : status[y] = "stored" /\ under[y] \cap under'[id] # {} => y < id
    <3>1. PICK k \in 1..n : mine[w][k] = id
      BY <1>2, <1>3, <2>1
    <3> QED
      BY <1>1, <1>5, <3>1
  <2>2. \A i \in DOMAIN committed : i \in DOMAIN committed' /\ committed'[i] = committed[i]
    BY <1>3
  <2> QED
    BY <1>1, <1>6, <2>1, <2>2, RoundKept
<1> QED
  BY <1>2, <1>7, <1>8, <1>9, <1>10 DEF IInv

LEMMA PublishOutsideTxInv == ASSUME IInv, PublishOutsideTx PROVE IInv'
<1> PICK new : new = next + 1
  OBVIOUS
<1>1. /\ next < MaxEvents /\ next' = new
      /\ status' = [status EXCEPT ![new] = "stored"]
      /\ committed' = Append(committed, new)
      /\ UNCHANGED <<under, holds, mine, dispatched, batch, sent, forwarded>>
  BY DEF PublishOutsideTx, round
<1>2. new \in Ids /\ new > next /\ next \in Nat /\ Ids \subseteq Nat
  BY <1>1, BoundsAssumption DEF IInv, TypeOK, Ids
<1>3. status[new] = "unused" /\ under[new] = {}
  BY <1>2 DEF IInv, NextInv
<1>4. /\ status \in [Ids -> {"unused", "pending", "stored", "aborted"}]
      /\ mine \in [Workers -> Seq(Ids)] /\ committed \in Seq(Ids)
  BY DEF IInv, TypeOK
<1>5. status'[new] = "stored" /\ \A id \in Ids : id # new => status'[id] = status[id]
  BY <1>1, <1>2, <1>4
<1> PICK m : m = Len(committed)
  OBVIOUS
<1>6. /\ m \in Nat /\ DOMAIN committed = 1..m /\ DOMAIN committed' = 1..(m + 1)
      /\ committed' \in Seq(Ids) /\ committed'[m + 1] = new
      /\ \A i \in 1..m : committed'[i] = committed[i]
  BY <1>1, <1>2, <1>4, AppendProperties
<1>7. TypeOK'
  <2>1. status' \in [Ids -> {"unused", "pending", "stored", "aborted"}] /\ next' \in 0..MaxEvents
    BY <1>1, <1>2, <1>4 DEF Ids
  <2> QED
    BY <1>1, <1>6, <2>1 DEF IInv, TypeOK, Ids
<1>8. NextInv'
  BY <1>1, <1>2, <1>5 DEF IInv, NextInv, Ids
<1>9. StoredInv'
  <2> SUFFICES ASSUME NEW id \in Ids
               PROVE  status'[id] = "stored" <=> \E i \in 1..(m + 1) : committed'[i] = id
    BY <1>6 DEF StoredInv, Ids
  <2>1. status[id] = "stored" <=> \E i \in 1..m : committed[i] = id
    BY <1>6 DEF IInv, StoredInv
  <2>2. (\E i \in 1..(m + 1) : committed'[i] = id) <=> id = new \/ \E i \in 1..m : committed[i] = id
    BY <1>6
  <2> QED
    BY <1>5, <2>1, <2>2
<1>10. LockInv'
  BY <1>1 DEF IInv, LockInv
<1>11. OrderInv'
  <2>1. \A i \in 1..(m + 1) : i \in 1..m \/ i = m + 1
    BY <1>6
  <2> SUFFICES ASSUME NEW i \in 1..(m + 1), NEW k \in 1..(m + 1), k < i,
                      under[committed'[k]] \cap under[committed'[i]] # {}
               PROVE  committed'[k] < committed'[i]
    BY <1>1, <1>6 DEF OrderInv, Serialized
  <2>2. i \in 1..m
    BY <1>3, <1>6, <2>1
  <2>3. k \in 1..m
    BY <1>6, <2>2
  <2> QED
    BY <1>6, <2>2, <2>3 DEF IInv, OrderInv, Serialized
<1>12. MineInv' /\ OwnInv'
  <2>1. OwnInv'
    BY <1>1 DEF IInv, OwnInv
  <2> SUFFICES ASSUME NEW v \in Workers, NEW i \in DOMAIN mine[v]
               PROVE  /\ status'[mine[v][i]] = "pending"
                      /\ under[mine[v][i]] \subseteq holds[v]
                      /\ \A j \in 1..(i - 1) : mine[v][j] < mine[v][i]
                      /\ \A id \in Ids :
                           status'[id] = "stored" /\ under[id] \cap under[mine[v][i]] # {} =>
                             id < mine[v][i]
    BY <1>1, <2>1 DEF MineInv, Serialized, Ids
  <2>2. mine[v][i] \in Ids /\ status[mine[v][i]] = "pending"
    BY <1>4 DEF IInv, MineInv
  <2>3. status'[mine[v][i]] = "pending"
    BY <1>3, <1>5, <2>2
  <2>4. \A id \in Ids : under[id] # {} /\ status'[id] = "stored" => status[id] = "stored"
    BY <1>3, <1>5
  <2> QED
    BY <2>3, <2>4 DEF IInv, MineInv, Serialized
<1>13. BatchInv' /\ SentInv' /\ MarkedWasForwarded' /\ ForwardedInCommitOrder'
  <2>1. \A id \in Ids : status[id] = "stored" => status'[id] = "stored"
    BY <1>3, <1>5
  <2>2. \A id \in Ids : status'[id] = "stored" /\ status[id] # "stored" => under'[id] = {}
    BY <1>1, <1>3, <1>5
  <2>3. \A i \in DOMAIN committed : i \in DOMAIN committed' /\ committed'[i] = committed[i]
    BY <1>6
  <2> QED
    BY <1>1, <2>1, <2>2, <2>3, RoundKept
<1> QED
  BY <1>7, <1>8, <1>9, <1>10, <1>11, <1>12, <1>13 DEF IInv

-----------------------------------------------------------------------------
(***************************************************************************)
(* The dispatcher.                                                         *)
(***************************************************************************)

\* The dispatcher leaves the rows and the workers alone.
LEMMA BoxKept ==
  ASSUME IInv, UNCHANGED <<status, under, committed, next, holds, mine>>
  PROVE  NextInv' /\ StoredInv' /\ LockInv' /\ MineInv' /\ OwnInv' /\ OrderInv'
BY DEF IInv, NextInv, StoredInv, LockInv, MineInv, OwnInv, OrderInv, Serialized, Ids

LEMMA OrderKept ==
  ASSUME ForwardedInCommitOrder, UNCHANGED <<under, committed, forwarded>>
  PROVE  ForwardedInCommitOrder'
<1> SUFFICES ASSUME NEW j \in DOMAIN forwarded
             PROVE  \E i \in DOMAIN committed :
                      /\ committed[i] = forwarded[j]
                      /\ \A k \in 1..(i - 1) : under[committed[k]] \cap under[committed[i]] # {} =>
                           \E l \in 1..(j - 1) : forwarded[l] = committed[k]
  BY DEF ForwardedInCommitOrder, Serialized
<1> QED
  BY DEF ForwardedInCommitOrder, Serialized

LEMMA FetchInv == ASSUME IInv, Fetch PROVE IInv'
<1> PICK s : s = Fetched(Undispatched, BatchSize)
  OBVIOUS
<1>1. /\ Undispatched # {} /\ batch' = s /\ sent' = FALSE
      /\ UNCHANGED <<status, under, committed, next, holds, mine, dispatched, forwarded>>
  BY DEF Fetch, box
<1>2. Undispatched \subseteq Ids /\ Ids \subseteq Nat
  BY BoundsAssumption DEF Undispatched, Ids
<1>3. /\ s \in Seq(Undispatched) /\ Len(s) <= BatchSize /\ s # <<>>
      /\ \A i, j \in DOMAIN s : i < j => s[i] < s[j]
      /\ \A id \in Undispatched : (\E i \in DOMAIN s : s[i] = id) \/ (\A i \in DOMAIN s : s[i] < id)
  BY <1>1, <1>2, BoundsAssumption, FetchedRows
<1>4. s \in Seq(Ids) /\ \A i \in DOMAIN s : i \in Nat /\ s[i] \in Undispatched
  <2>1. Len(s) \in Nat /\ DOMAIN s = 1..Len(s) /\ \A i \in DOMAIN s : s[i] \in Undispatched
    BY <1>3
  <2>2. \A i \in 1..Len(s) : s[i] \in Ids
    BY <1>2, <2>1
  <2>3. s = [i \in 1..Len(s) |-> s[i]]
    BY <1>3
  <2>4. s \in Seq(Ids)
    BY <2>1, <2>2, <2>3
  <2> QED
    BY <2>1, <2>4
<1>5. TypeOK'
  BY <1>1, <1>3, <1>4 DEF IInv, TypeOK, Ids
<1>6. BatchInv'
  <2> SUFFICES ASSUME NEW i \in DOMAIN s
               PROVE  /\ status[s[i]] = "stored"
                      /\ \A id \in Ids :
                           /\ status[id] = "stored"
                           /\ under[id] \cap under[s[i]] # {}
                           /\ id < s[i]
                           => id \in dispatched \/ \E k \in 1..(i - 1) : s[k] = id
    BY <1>1 DEF BatchInv, Ids
  <2>1. status[s[i]] = "stored" /\ s[i] \in Nat /\ i \in Nat
    BY <1>2, <1>4 DEF Undispatched
  <2>2. ASSUME NEW id \in Ids, status[id] = "stored", id < s[i], id \notin dispatched
        PROVE  \E k \in 1..(i - 1) : s[k] = id
    <3>1. id \in Undispatched /\ id \in Nat
      BY <1>2, <2>2 DEF Undispatched
    <3>2. PICK k \in DOMAIN s : s[k] = id
      BY <1>3, <2>1, <2>2, <3>1
    <3>3. k < i
      <4> SUFFICES ASSUME ~(k < i) PROVE FALSE
        OBVIOUS
      <4>1. k = i \/ i < k
        BY <1>4, <2>1
      <4>2. s[i] <= s[k]
        BY <1>3, <1>4, <2>1, <3>1, <3>2, <4>1
      <4> QED
        BY <2>1, <2>2, <3>1, <3>2, <4>2
    <3>4. k \in 1..(i - 1)
      BY <1>3, <2>1, <3>3
    <3> QED
      BY <3>2, <3>4
  <2> QED
    BY <2>1, <2>2
<1>7. SentInv' /\ MarkedWasForwarded' /\ ForwardedInCommitOrder'
  BY <1>1, OrderKept DEF IInv, SentInv, MarkedWasForwarded
<1> QED
  BY <1>1, <1>5, <1>6, <1>7, BoxKept DEF IInv

LEMMA StopRoundInv == ASSUME IInv, StopRound PROVE IInv'
<1>1. /\ batch' = <<>> /\ sent' = FALSE
      /\ UNCHANGED <<status, under, committed, next, holds, mine, dispatched, forwarded>>
  BY DEF StopRound, box
<1>2. TypeOK'
  <2>1. <<>> \in Seq(Ids) /\ Len(<<>>) <= BatchSize
    BY BoundsAssumption
  <2> QED
    BY <1>1, <2>1 DEF IInv, TypeOK, Ids
<1>3. BatchInv'
  BY <1>1 DEF BatchInv
<1>4. SentInv' /\ MarkedWasForwarded' /\ ForwardedInCommitOrder'
  BY <1>1, OrderKept DEF IInv, SentInv, MarkedWasForwarded
<1> QED
  BY <1>1, <1>2, <1>3, <1>4, BoxKept DEF IInv

LEMMA MarkInv == ASSUME IInv, Mark PROVE IInv'
<1> PICK b, t, n : b = batch /\ t = Tail(batch) /\ n = Len(t)
  OBVIOUS
<1>1. /\ b # <<>> /\ sent
      /\ dispatched' = dispatched \cup {Head(b)} /\ batch' = t /\ sent' = FALSE
      /\ UNCHANGED <<status, under, committed, next, holds, mine, forwarded>>
  BY DEF Mark, Marked, box
<1>2. b \in Seq(Ids) /\ Len(b) <= BatchSize
  BY DEF IInv, TypeOK
<1>3. /\ Head(b) \in Ids /\ Head(b) = b[1]
      /\ t \in Seq(Ids) /\ n \in Nat /\ Len(b) = n + 1
      /\ DOMAIN b = 1..(n + 1) /\ DOMAIN t = 1..n
      /\ \A i \in 1..n : t[i] = b[i + 1]
  BY <1>1, <1>2, HeadTailProperties
<1>4. TypeOK'
  <2>1. Len(t) <= BatchSize
    BY <1>2, <1>3, BoundsAssumption
  <2> QED
    BY <1>1, <1>3, <2>1 DEF IInv, TypeOK, Ids
<1>5. BatchInv'
  <2> SUFFICES ASSUME NEW i \in DOMAIN t
               PROVE  /\ status[t[i]] = "stored"
                      /\ \A id \in Ids :
                           /\ status[id] = "stored"
                           /\ under[id] \cap under[t[i]] # {}
                           /\ id < t[i]
                           => id \in dispatched' \/ \E k \in 1..(i - 1) : t[k] = id
    BY <1>1 DEF BatchInv, Ids
  <2>1. i + 1 \in DOMAIN b /\ (i + 1) - 1 = i /\ i \in Nat /\ t[i] = b[i + 1]
    BY <1>3
  <2>2. /\ status[b[i + 1]] = "stored"
        /\ \A id \in Ids :
             /\ status[id] = "stored"
             /\ under[id] \cap under[b[i + 1]] # {}
             /\ id < b[i + 1]
             => id \in dispatched \/ \E k \in 1..i : b[k] = id
    BY <2>1 DEF IInv, BatchInv
  <2>3. ASSUME NEW k \in 1..i PROVE b[k] \in dispatched' \/ \E l \in 1..(i - 1) : t[l] = b[k]
    <3>1. CASE k = 1
      BY <1>1, <1>3, <3>1
    <3>2. CASE k # 1
      <4>1. k - 1 \in 1..(i - 1) /\ k - 1 \in 1..n /\ (k - 1) + 1 = k
        BY <1>3, <3>2
      <4>2. t[k - 1] = b[k]
        BY <1>3, <4>1
      <4> QED
        BY <4>1, <4>2
    <3> QED
      BY <3>1, <3>2
  <2> QED
    <3>1. ASSUME NEW id \in Ids, status[id] = "stored", under[id] \cap under[t[i]] # {},
                 id < t[i]
          PROVE  id \in dispatched' \/ \E k \in 1..(i - 1) : t[k] = id
      <4>1. id \in dispatched \/ \E k \in 1..i : b[k] = id
        BY <2>1, <2>2, <3>1
      <4>2. id \in dispatched => id \in dispatched'
        BY <1>1
      <4> QED
        BY <2>3, <4>1, <4>2
    <3> QED
      BY <2>1, <2>2, <3>1
<1>6. SentInv' /\ MarkedWasForwarded' /\ ForwardedInCommitOrder'
  BY <1>1, OrderKept DEF IInv, SentInv, MarkedWasForwarded
<1> QED
  BY <1>1, <1>4, <1>5, <1>6, BoxKept DEF IInv

\* The row at the head of the batch: the earlier rows stored under its locks are
\* dispatched, hence forwarded.
LEMMA ForwardInv == ASSUME IInv, Forward PROVE IInv'
<1> PICK e : e = Head(batch)
  OBVIOUS
<1>1. /\ batch # <<>> /\ sent' = TRUE
      /\ forwarded' = IF e \in ToSet(forwarded) THEN forwarded ELSE Append(forwarded, e)
      /\ UNCHANGED <<status, under, committed, next, holds, mine, dispatched, batch>>
  BY DEF Forward, box
<1>2. batch \in Seq(Ids) /\ forwarded \in Seq(Ids) /\ committed \in Seq(Ids) /\ Ids \subseteq Nat
  BY BoundsAssumption DEF IInv, TypeOK, Ids
<1>3. 1 \in DOMAIN batch /\ e = batch[1] /\ e \in Ids
  BY <1>1, <1>2
<1>4. /\ status[e] = "stored"
      /\ \A id \in Ids :
           status[id] = "stored" /\ under[id] \cap under[e] # {} /\ id < e
           => id \in dispatched
  BY <1>3 DEF IInv, BatchInv
<1> PICK m : m = Len(forwarded)
  OBVIOUS
<1>5. m \in Nat /\ DOMAIN forwarded = 1..m
  BY <1>2
<1>6. CASE e \in ToSet(forwarded)
  <2>1. forwarded' = forwarded
    BY <1>1, <1>6
  <2>2. TypeOK' /\ BatchInv' /\ SentInv' /\ MarkedWasForwarded' /\ ForwardedInCommitOrder'
    BY <1>1, <1>6, <2>1, OrderKept
    DEF IInv, TypeOK, BatchInv, SentInv, MarkedWasForwarded, Ids
  <2> QED
    BY <1>1, <2>2, BoxKept DEF IInv
<1>7. CASE e \notin ToSet(forwarded)
  <2>1. /\ forwarded' \in Seq(Ids) /\ DOMAIN forwarded' = 1..(m + 1)
        /\ forwarded'[m + 1] = e /\ \A i \in 1..m : forwarded'[i] = forwarded[i]
    <3>1. forwarded' = Append(forwarded, e)
      BY <1>1, <1>7
    <3> QED
      BY <1>2, <1>3, <1>5, <3>1, AppendProperties
  <2>2. ToSet(forwarded') = ToSet(forwarded) \cup {e}
    BY <1>5, <2>1 DEF ToSet
  <2>3. TypeOK'
    BY <1>1, <2>1 DEF IInv, TypeOK, Ids
  <2>4. BatchInv'
    <3>1. BatchInv
      BY DEF IInv
    <3> QED
      BY <1>1, <3>1 DEF BatchInv, Ids
  <2>5. SentInv'
    <3>1. \A j \in 1..(m + 1) : status[forwarded'[j]] = "stored"
      BY <1>4, <1>5, <2>1 DEF IInv, SentInv
    <3> QED
      BY <1>1, <2>1, <2>2, <3>1 DEF SentInv
  <2>6. MarkedWasForwarded'
    BY <1>1, <2>2 DEF IInv, MarkedWasForwarded
  <2>7. ForwardedInCommitOrder'
    <3> SUFFICES ASSUME NEW j \in DOMAIN forwarded'
                 PROVE  \E i \in DOMAIN committed' :
                          /\ committed'[i] = forwarded'[j]
                          /\ \A k \in 1..(i - 1) : under'[committed'[k]] \cap under'[committed'[i]] # {} =>
                               \E l \in 1..(j - 1) : forwarded'[l] = committed'[k]
      BY DEF ForwardedInCommitOrder, Serialized
    <3> SUFFICES \E i \in DOMAIN committed :
                   /\ committed[i] = forwarded'[j]
                   /\ \A k \in 1..(i - 1) : under[committed[k]] \cap under[committed[i]] # {} =>
                        \E l \in 1..(j - 1) : forwarded'[l] = committed[k]
      BY <1>1
    <3>0. j \in 1..m \/ j = m + 1
      BY <1>5, <2>1
    <3>1. CASE j \in 1..m
      <4>1. forwarded'[j] = forwarded[j] /\ \A l \in 1..(j - 1) : forwarded'[l] = forwarded[l]
        BY <1>5, <2>1, <3>1
      <4>2. PICK i \in DOMAIN committed :
              /\ committed[i] = forwarded[j]
              /\ \A k \in 1..(i - 1) : under[committed[k]] \cap under[committed[i]] # {} =>
                   \E l \in 1..(j - 1) : forwarded[l] = committed[k]
        BY <1>5, <3>1 DEF IInv, ForwardedInCommitOrder, Serialized
      <4> QED
        BY <4>1, <4>2
    <3>2. CASE j = m + 1
      <4>1. forwarded'[j] = e /\ j - 1 = m
        BY <1>5, <2>1, <3>2
      <4>2. PICK i \in DOMAIN committed : committed[i] = e
        BY <1>3, <1>4 DEF IInv, StoredInv
      <4>3. ASSUME NEW k \in 1..(i - 1), under[committed[k]] \cap under[committed[i]] # {}
            PROVE  \E l \in 1..m : forwarded'[l] = committed[k]
        <5>1. k \in DOMAIN committed /\ k < i /\ committed[k] \in Ids
          BY <1>2, <4>2
        <5>2. committed[k] < e
          BY <4>1, <4>2, <4>3, <5>1 DEF IInv, OrderInv, Serialized
        <5>3. status[committed[k]] = "stored"
          BY <5>1 DEF IInv, StoredInv
        <5>4. committed[k] \in dispatched
          BY <1>4, <4>1, <4>2, <4>3, <5>1, <5>2, <5>3
        <5>5. committed[k] \in ToSet(forwarded)
          BY <5>4 DEF IInv, MarkedWasForwarded
        <5> QED
          BY <1>5, <2>1, <5>5 DEF ToSet
      <4> QED
        BY <4>1, <4>2, <4>3
    <3> QED
      BY <3>0, <3>1, <3>2
  <2> QED
    BY <1>1, <2>3, <2>4, <2>5, <2>6, <2>7, BoxKept DEF IInv
<1> QED
  BY <1>6, <1>7

LEMMA InitInv == Init => IInv
<1> SUFFICES ASSUME Init PROVE IInv
  OBVIOUS
<1>1. /\ committed = <<>> /\ forwarded = <<>> /\ batch = <<>> /\ dispatched = {} /\ sent = FALSE
      /\ next = 0 /\ status = [id \in Ids |-> "unused"] /\ under = [id \in Ids |-> {}]
      /\ holds = [w \in Workers |-> {}] /\ mine = [w \in Workers |-> <<>>]
  BY DEF Init
<1>2. <<>> \in Seq(Ids) /\ Len(<<>>) <= BatchSize /\ DOMAIN <<>> = {} /\ 0 \in 0..MaxEvents
  BY BoundsAssumption
<1>3. TypeOK
  BY <1>1, <1>2 DEF TypeOK
<1>4. NextInv /\ StoredInv /\ LockInv /\ MineInv /\ OwnInv
  BY <1>1, <1>2 DEF NextInv, StoredInv, LockInv, MineInv, OwnInv
<1>5. OrderInv /\ BatchInv /\ SentInv /\ MarkedWasForwarded /\ ForwardedInCommitOrder
  BY <1>1, <1>2
  DEF OrderInv, BatchInv, SentInv, MarkedWasForwarded, ForwardedInCommitOrder, Serialized
<1> QED
  BY <1>3, <1>4, <1>5 DEF IInv

LEMMA StutterInv == ASSUME IInv, UNCHANGED vars PROVE IInv'
<1>1. UNCHANGED <<status, under, committed, next, holds, mine, dispatched, batch, sent, forwarded>>
  BY DEF vars
<1>2. TypeOK' /\ BatchInv' /\ SentInv' /\ MarkedWasForwarded' /\ ForwardedInCommitOrder'
  BY <1>1, OrderKept DEF IInv, TypeOK, BatchInv, SentInv, MarkedWasForwarded, Ids
<1> QED
  BY <1>1, <1>2, BoxKept DEF IInv

LEMMA Invariance == Spec => []IInv
<1>1. IInv /\ [Next]_vars => IInv'
  <2> SUFFICES ASSUME IInv, [Next]_vars PROVE IInv'
    OBVIOUS
  <2>1. CASE UNCHANGED vars
    BY <2>1, StutterInv
  <2>2. ASSUME NEW w \in Workers, NEW l \in Locks, Save(w, l) PROVE IInv'
    BY <2>2, SaveInv
  <2>3. ASSUME NEW w \in Workers, Publish(w) PROVE IInv'
    BY <2>3, PublishInv
  <2>4. ASSUME NEW w \in Workers, Commit(w) PROVE IInv'
    BY <2>4, CommitInv
  <2>5. ASSUME NEW w \in Workers, Rollback(w) PROVE IInv'
    BY <2>5, RollbackInv
  <2>6. CASE PublishOutsideTx
    BY <2>6, PublishOutsideTxInv
  <2>7. CASE Fetch
    BY <2>7, FetchInv
  <2>8. CASE Forward
    BY <2>8, ForwardInv
  <2>9. CASE Mark
    BY <2>9, MarkInv
  <2>10. CASE StopRound
    BY <2>10, StopRoundInv
  <2> QED
    BY <2>1, <2>2, <2>3, <2>4, <2>5, <2>6, <2>7, <2>8, <2>9, <2>10 DEF Next
<1> QED
  BY <1>1, InitInv, PTL DEF Spec

-----------------------------------------------------------------------------
(***************************************************************************)
(* What is proved of a context's outbox.                                   *)
(***************************************************************************)

\* The variables have their types; in particular a round holds at most BatchSize
\* rows.
THEOREM TypeCorrectness == Spec => []TypeOK
<1>1. IInv => TypeOK
  BY DEF IInv
<1> QED
  BY <1>1, Invariance, PTL

\* dispatcher.go: a row is marked dispatched only after Forward has returned for
\* it, in this round or in one that broke off, for every size of batch and any
\* interleaving with the use cases that append.
THEOREM MarkedAfterForwarded == Spec => []MarkedWasForwarded
<1>1. IInv => MarkedWasForwarded
  BY DEF IInv
<1> QED
  BY <1>1, Invariance, PTL

\* Events appended under a common row lock are forwarded for the first time in the
\* order in which they were committed, none skipped, for any number of request
\* goroutines and rows, whatever rounds broke off and whatever was rolled back: the
\* lock is held from the write to the commit, and the fetch is by id.
THEOREM CommitOrder == Spec => []ForwardedInCommitOrder
<1>1. IInv => ForwardedInCommitOrder
  BY DEF IInv
<1> QED
  BY <1>1, Invariance, PTL
=============================================================================
