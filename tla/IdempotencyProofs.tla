------------------------- MODULE IdempotencyProofs -------------------------
(***************************************************************************)
(* Proofs about Idempotency and IdempotencyHistory, for any keys, requests *)
(* and workers.  Whatever requests overlap and whichever cache writes are  *)
(* lost, entries and answers are results of their own request; under a key *)
(* that no two handlers were at work under at once, and none of whose      *)
(* responses failed to be cached, a request takes effect once and has one  *)
(* answer.                                                                 *)
(***************************************************************************)
EXTENDS IdempotencyHistory, TLAPS

\* The result r is that of a call c which took effect.
ResultOf(r, c) == r \in DOMAIN effects /\ effects[r] = c

\* A worker past the lookup has a call; a handler's response, unless it is an
\* error, is the result of that call.
WorkerInv(w) ==
  /\ pc[w] # "idle" => call[w] \in Call
  /\ (pc[w] = "ran" /\ response[w] # 0) => ResultOf(response[w], call[w])

IInv ==
  /\ TypeOK
  /\ EntriesAreEffects
  /\ AnswersAreOwn
  /\ \A w \in Workers : WorkerInv(w)

-----------------------------------------------------------------------------

\* Results stay what they are as a handler appends its own.
LEMMA ResultsStay ==
  ASSUME NEW s \in Seq(Call), NEW c \in Call
  PROVE  /\ Append(s, c) \in Seq(Call)
         /\ Len(s) + 1 \in DOMAIN Append(s, c) /\ Append(s, c)[Len(s) + 1] = c
         /\ \A r \in DOMAIN s : r \in DOMAIN Append(s, c) /\ Append(s, c)[r] = s[r]
OBVIOUS

LEMMA InitIInv == Init => IInv
BY ParametersAssumption DEF Init, IInv, TypeOK, EntriesAreEffects, AnswersAreOwn, WorkerInv,
                            ResultOf, Responses

\* Counting a request keeps the bound.
LEMMA AdmitBegun ==
  ASSUME TypeOK, Admit
  PROVE  begun' \in 0..MaxRequests
BY ParametersAssumption DEF TypeOK, Admit

LEMMA ReplayIInv ==
  ASSUME IInv, NEW w \in Workers, NEW k \in Keys, NEW hash \in Requests, Replay(w, k, hash)
  PROVE  IInv'
<1> DEFINE entry == store[k]
           c == [key |-> k, hash |-> hash]
<1>1. UNCHANGED <<store, effects, pc, call, response>> /\ begun' \in 0..MaxRequests
  BY AdmitBegun DEF Replay, IInv
<1>2. entry \in Entry /\ c \in Call
  BY DEF Replay, Cached, IInv, TypeOK, Call
<1>3. entry.hash = hash => ResultOf(entry.response, c)
  BY DEF Replay, Cached, IInv, EntriesAreEffects, ResultOf
<1>4. CASE entry.hash = hash
  <2>1. answers' = answers \cup {[call |-> c, response |-> entry.response]}
    BY <1>4 DEF Replay, Cached, Matches, Answer
  <2>2. AnswersAreOwn'
    BY <1>1, <1>3, <1>4, <2>1 DEF IInv, AnswersAreOwn, ResultOf
  <2>3. TypeOK'
    BY <1>1, <1>2, <2>1 DEF IInv, TypeOK, Entry
  <2> QED
    BY <1>1, <2>2, <2>3 DEF IInv, EntriesAreEffects, WorkerInv, ResultOf
<1>5. CASE entry.hash # hash
  <2>1. UNCHANGED answers
    BY <1>5 DEF Replay, Cached, Matches
  <2> QED
    BY <1>1, <2>1 DEF IInv, TypeOK, EntriesAreEffects, AnswersAreOwn, WorkerInv, ResultOf
<1> QED
  BY <1>4, <1>5

LEMMA MissIInv ==
  ASSUME IInv, NEW w \in Workers, NEW k \in Keys, NEW hash \in Requests, Miss(w, k, hash)
  PROVE  IInv'
<1>1. /\ UNCHANGED <<store, effects, answers, response>> /\ begun' \in 0..MaxRequests
      /\ pc' = [pc EXCEPT ![w] = "missed"]
      /\ call' = [call EXCEPT ![w] = [key |-> k, hash |-> hash]]
  BY AdmitBegun DEF Miss, IInv
<1>2. [key |-> k, hash |-> hash] \in Call
  BY DEF Call
<1>3. TypeOK'
  BY <1>1, <1>2 DEF IInv, TypeOK
<1>4. ASSUME NEW v \in Workers PROVE WorkerInv(v)'
  BY <1>1, <1>2 DEF IInv, TypeOK, WorkerInv, ResultOf
<1> QED
  BY <1>1, <1>3, <1>4 DEF IInv, EntriesAreEffects, AnswersAreOwn

\* The handler's result is that of its worker's call; no other result changes.
LEMMA HandlerSucceedsIInv ==
  ASSUME IInv, NEW w \in Workers, HandlerSucceeds(w)
  PROVE  IInv'
<1> DEFINE n == Len(effects) + 1
<1>1. call[w] \in Call
  BY DEF IInv, WorkerInv, HandlerSucceeds
<1>2. /\ effects' \in Seq(Call)
      /\ n \in DOMAIN effects' /\ effects'[n] = call[w]
      /\ \A r, d : ResultOf(r, d) => ResultOf(r, d)'
  <2>1. effects' = Append(effects, call[w]) /\ UNCHANGED call /\ effects \in Seq(Call)
    BY DEF HandlerSucceeds, IInv, TypeOK
  <2>2. /\ effects' \in Seq(Call)
        /\ n \in DOMAIN effects' /\ effects'[n] = call[w]
        /\ \A r \in DOMAIN effects : r \in DOMAIN effects' /\ effects'[r] = effects[r]
    BY <1>1, <2>1, ResultsStay
  <2> QED
    BY <2>1, <2>2 DEF ResultOf
<1>3. /\ UNCHANGED <<store, call, begun>>
      /\ answers' = answers \cup {[call |-> call[w], response |-> n]}
      /\ response' = [response EXCEPT ![w] = n]
      /\ pc' = [pc EXCEPT ![w] = "ran"]
  BY DEF HandlerSucceeds, Answer
<1>4. n \in Nat
  BY DEF IInv, TypeOK
<1>5. TypeOK'
  BY <1>1, <1>2, <1>3, <1>4 DEF IInv, TypeOK, Responses
<1>6. EntriesAreEffects'
  BY <1>2, <1>3 DEF IInv, EntriesAreEffects, ResultOf
<1>7. AnswersAreOwn'
  BY <1>2, <1>3 DEF IInv, AnswersAreOwn, ResultOf
<1>8. ASSUME NEW v \in Workers PROVE WorkerInv(v)'
  BY <1>1, <1>2, <1>3 DEF IInv, TypeOK, WorkerInv, ResultOf
<1> QED
  BY <1>5, <1>6, <1>7, <1>8 DEF IInv

LEMMA HandlerFailsIInv ==
  ASSUME IInv, NEW w \in Workers, HandlerFails(w)
  PROVE  IInv'
<1>1. TypeOK'
  BY DEF IInv, TypeOK, HandlerFails, Responses
<1>2. ASSUME NEW v \in Workers PROVE WorkerInv(v)'
  BY DEF IInv, TypeOK, WorkerInv, HandlerFails, ResultOf
<1> QED
  BY <1>1, <1>2 DEF IInv, EntriesAreEffects, AnswersAreOwn, HandlerFails

\* The worker is idle again.
LEMMA DoneWorkers ==
  ASSUME IInv, NEW w \in Workers, Done(w)
  PROVE  /\ pc' \in [Workers -> {"idle", "missed", "ran"}]
         /\ call' \in [Workers -> Call \cup {None}]
         /\ response' \in [Workers -> Responses]
         /\ \A v \in Workers : WorkerInv(v)'
<1>1. ASSUME NEW v \in Workers PROVE WorkerInv(v)'
  BY DEF IInv, TypeOK, WorkerInv, Done, ResultOf
<1> QED
  BY <1>1 DEF IInv, TypeOK, Done, Responses

\* What is cached is the result of the call it is cached under.
LEMMA PutIInv ==
  ASSUME IInv, NEW w \in Workers, Put(w)
  PROVE  IInv'
<1> DEFINE c == call[w]
           r == response[w]
<1>1. /\ c \in Call /\ r \in Responses /\ ResultOf(r, c)
      /\ UNCHANGED <<effects, answers, begun>>
  BY DEF IInv, TypeOK, WorkerInv, Put, Cacheable, Done
<1>2. store' = [store EXCEPT ![c.key] = [hash |-> c.hash, response |-> r]]
  BY DEF Put, StoredUnder
<1>3. c.key \in Keys /\ c = [key |-> c.key, hash |-> c.hash] /\ [hash |-> c.hash, response |-> r] \in Entry
  BY <1>1 DEF Call, Entry
<1>4. TypeOK'
  BY <1>1, <1>2, <1>3, DoneWorkers DEF IInv, TypeOK, Put
<1>5. EntriesAreEffects'
  <2> SUFFICES ASSUME NEW k \in Keys, store'[k] # None
               PROVE  ResultOf(store'[k].response, [key |-> k, hash |-> store'[k].hash])
    BY <1>1 DEF EntriesAreEffects, ResultOf
  <2>1. CASE k = c.key
    BY <1>1, <1>2, <1>3, <2>1 DEF IInv, TypeOK
  <2>2. CASE k # c.key
    BY <1>2, <2>2 DEF IInv, TypeOK, EntriesAreEffects, ResultOf
  <2> QED
    BY <2>1, <2>2
<1> QED
  BY <1>1, <1>4, <1>5, DoneWorkers DEF IInv, AnswersAreOwn, Put

LEMMA NoPutIInv ==
  ASSUME IInv, NEW w \in Workers, NoPut(w)
  PROVE  IInv'
<1>1. UNCHANGED <<store, effects, answers, begun>> /\ Done(w)
  BY DEF NoPut, Done
<1> QED
  BY <1>1, DoneWorkers DEF IInv, TypeOK, EntriesAreEffects, AnswersAreOwn

LEMMA NextIInv == IInv /\ [Next]_vars => IInv'
<1> SUFFICES ASSUME IInv, [Next]_vars PROVE IInv'
  OBVIOUS
<1>1. CASE UNCHANGED vars
  BY <1>1 DEF IInv, TypeOK, EntriesAreEffects, AnswersAreOwn, WorkerInv, ResultOf, vars
<1>2. ASSUME NEW w \in Workers, NEW k \in Keys, NEW hash \in Requests,
             Replay(w, k, hash) \/ Miss(w, k, hash)
      PROVE  IInv'
  BY <1>2, ReplayIInv, MissIInv
<1>3. ASSUME NEW w \in Workers, HandlerSucceeds(w) \/ HandlerFails(w) PROVE IInv'
  BY <1>3, HandlerSucceedsIInv, HandlerFailsIInv
<1>4. ASSUME NEW w \in Workers, Put(w) \/ NoPut(w) PROVE IInv'
  BY <1>4, PutIInv, NoPutIInv
<1> QED
  BY <1>1, <1>2, <1>3, <1>4 DEF Next

-----------------------------------------------------------------------------

\* The inductive invariant of the middleware: types, results in the cache, in the
\* answers and in the hands of workers (Idempotent).
THEOREM Invariance == Spec => []IInv
BY InitIInv, NextIInv, PTL DEF Spec

\* Cache, effects, answers and workers keep their types.
THEOREM TypeCorrectness == Spec => []TypeOK
<1>1. IInv => TypeOK
  BY DEF IInv
<1> QED
  BY <1>1, Invariance, PTL

\* A cached entry holds the response to a call with that key and that request
\* which really took effect, whoever put it there last (Idempotent, Put).
THEOREM Entries == Spec => []EntriesAreEffects
<1>1. IInv => EntriesAreEffects
  BY DEF IInv
<1> QED
  BY <1>1, Invariance, PTL

\* A client is never answered with the result of another request, be the answer
\* fresh or replayed (Idempotent, the comparison of request hashes).
THEOREM Answers == Spec => []AnswersAreOwn
<1>1. IInv => AnswersAreOwn
  BY DEF IInv
<1> QED
  BY <1>1, Invariance, PTL

-----------------------------------------------------------------------------
(***************************************************************************)
(* What the record of the disturbed keys adds.                             *)
(***************************************************************************)

\* Nobody else is at work under an undisturbed key.
Alone(w) ==
  \A v \in Workers :
    (v # w /\ pc[v] # "idle" /\ pc[w] # "idle" /\ call[v].key = call[w].key)
      => call[w].key \in disturbed

\* A handler has yet to run only while nothing is cached under its key.
NothingCached(w) ==
  pc[w] = "missed" /\ call[w].key \notin disturbed => store[call[w].key] = None

\* Someone holds the response to effect i and has yet to cache it.
ToBeCached(i) ==
  \E w \in Workers : pc[w] = "ran" /\ response[w] # 0 /\ call[w] = effects[i]

\* What took effect is in the cache or on its way there.
Remembered(i) ==
  effects[i].key \in disturbed \/ store[effects[i].key] # None \/ ToBeCached(i)

HInv ==
  /\ IInv
  /\ disturbed \subseteq Keys
  /\ \A w \in Workers : Alone(w) /\ NothingCached(w)
  /\ \A i \in DOMAIN effects : Remembered(i)
  /\ OneEffectUnlessDisturbed

-----------------------------------------------------------------------------

LEMMA InitHInv == HistoryInit => HInv
BY InitIInv DEF HistoryInit, Init, HInv, Alone, NothingCached, OneEffectUnlessDisturbed

\* What every step does to the record.
LEMMA Disturbing ==
  ASSUME HInv, HistoryNext
  PROVE  /\ IInv /\ IInv'
         /\ disturbed' \subseteq Keys /\ disturbed \subseteq disturbed'
         /\ \A w \in Workers : Alone(w)'
<1>1. IInv /\ IInv'
  BY NextIInv DEF HInv, HistoryNext
<1>2. disturbed' = disturbed \cup {k \in Keys : Overlap(k) \/ Uncached(k)}
  BY DEF HistoryNext
<1>3. ASSUME NEW w \in Workers PROVE Alone(w)'
  <2> SUFFICES ASSUME NEW v \in Workers, v # w, pc'[v] # "idle", pc'[w] # "idle",
                      call'[v].key = call'[w].key
               PROVE  call'[w].key \in disturbed'
    BY DEF Alone
  <2>1. call'[w].key \in Keys
    BY <1>1 DEF IInv, WorkerInv, Call
  <2>2. Overlap(call'[w].key)
    BY DEF Overlap
  <2> QED
    BY <1>2, <2>1, <2>2
<1> QED
  BY <1>1, <1>2, <1>3 DEF HInv

\* A step that leaves cache and effects alone, and whose handlers at work and
\* responses in hand were so before or have just missed.
LEMMA QuietHInv ==
  ASSUME HInv, HistoryNext, UNCHANGED <<store, effects>>,
         \A w \in Workers : pc'[w] = "missed" =>
           \/ pc[w] = "missed" /\ call'[w] = call[w]
           \/ store[call'[w].key] = None,
         \A w \in Workers : pc[w] = "ran" /\ response[w] # 0 =>
           \/ pc'[w] = "ran" /\ response'[w] = response[w] /\ call'[w] = call[w]
           \/ call[w].key \in disturbed'
  PROVE  HInv'
<1>1. ASSUME NEW w \in Workers PROVE NothingCached(w)'
  BY Disturbing DEF HInv, NothingCached
<1>2. ASSUME NEW i \in DOMAIN effects PROVE Remembered(i)'
  BY Disturbing DEF HInv, Remembered, ToBeCached
<1>3. OneEffectUnlessDisturbed'
  BY Disturbing DEF HInv, OneEffectUnlessDisturbed
<1> QED
  BY <1>1, <1>2, <1>3, Disturbing DEF HInv

LEMMA LookupHInv ==
  ASSUME HInv, HistoryNext, NEW w \in Workers, NEW k \in Keys, NEW hash \in Requests,
         Replay(w, k, hash) \/ Miss(w, k, hash)
  PROVE  HInv'
<1>1. CASE Replay(w, k, hash)
  BY <1>1, QuietHInv DEF Replay
<1>2. CASE Miss(w, k, hash)
  <2>1. /\ pc' = [pc EXCEPT ![w] = "missed"] /\ pc[w] = "idle" /\ store[k] = None
        /\ call' = [call EXCEPT ![w] = [key |-> k, hash |-> hash]]
        /\ UNCHANGED <<store, effects, response>>
    BY <1>2 DEF Miss, Cached
  <2>2. pc \in [Workers -> {"idle", "missed", "ran"}] /\ call \in [Workers -> Call \cup {None}]
    BY DEF HInv, IInv, TypeOK
  <2> QED
    BY <2>1, <2>2, QuietHInv
<1> QED
  BY <1>1, <1>2

\* An undisturbed key has no effect yet when its handler commits: the one there
\* might be is cached, which the lookup would have seen, or another worker is
\* about to cache it, which would be an overlap.
LEMMA HandlerSucceedsHInv ==
  ASSUME HInv, HistoryNext, NEW w \in Workers, HandlerSucceeds(w)
  PROVE  HInv'
<1> DEFINE c == call[w]
           n == Len(effects) + 1
<1>1. /\ TypeOK /\ c \in Call /\ pc[w] = "missed"
      /\ UNCHANGED <<store, call>>
      /\ response' = [response EXCEPT ![w] = n]
      /\ pc' = [pc EXCEPT ![w] = "ran"]
      /\ effects' = Append(effects, c)
  BY DEF HInv, IInv, WorkerInv, HandlerSucceeds
<1>2. /\ n \in Nat \ {0}
      /\ DOMAIN effects' = DOMAIN effects \cup {n} /\ n \notin DOMAIN effects
      /\ effects'[n] = c
      /\ \A i \in DOMAIN effects : effects'[i] = effects[i]
  BY <1>1 DEF TypeOK
<1>3. ASSUME NEW v \in Workers PROVE NothingCached(v)'
  BY <1>1, Disturbing DEF HInv, NothingCached, TypeOK
<1>4. ASSUME NEW i \in DOMAIN effects' PROVE Remembered(i)'
  <2>1. CASE i = n
    <3>1. pc'[w] = "ran" /\ response'[w] # 0 /\ call'[w] = effects'[n]
      BY <1>1, <1>2 DEF TypeOK
    <3> QED
      BY <2>1, <3>1 DEF Remembered, ToBeCached
  <2>2. CASE i \in DOMAIN effects
    <3>1. Remembered(i) /\ effects'[i] = effects[i]
      BY <1>2, <2>2 DEF HInv
    <3>2. CASE ToBeCached(i)
      <4>1. PICK v \in Workers : pc[v] = "ran" /\ response[v] # 0 /\ call[v] = effects[i]
        BY <3>2 DEF ToBeCached
      <4>2. pc'[v] = "ran" /\ response'[v] # 0 /\ call'[v] = effects'[i]
        BY <1>1, <3>1, <4>1 DEF TypeOK
      <4> QED
        BY <4>2 DEF Remembered, ToBeCached
    <3>3. CASE effects[i].key \in disturbed \/ store[effects[i].key] # None
      BY <1>1, <3>1, <3>3, Disturbing DEF Remembered
    <3> QED
      BY <3>1, <3>2, <3>3 DEF Remembered
  <2> QED
    BY <1>2, <2>1, <2>2
<1>5. ASSUME NEW i \in DOMAIN effects, effects[i].key = c.key PROVE c.key \in disturbed
  <2>1. CASE store[c.key] # None
    BY <1>1, <2>1 DEF HInv, NothingCached
  <2>2. CASE ToBeCached(i)
    <3>1. PICK v \in Workers : pc[v] = "ran" /\ response[v] # 0 /\ call[v] = effects[i]
      BY <2>2 DEF ToBeCached
    <3> QED
      BY <1>1, <1>5, <3>1 DEF HInv, Alone
  <2> QED
    BY <1>5, <2>1, <2>2 DEF HInv, Remembered
<1>6. OneEffectUnlessDisturbed'
  BY <1>2, <1>5, Disturbing DEF HInv, OneEffectUnlessDisturbed
<1> QED
  BY <1>3, <1>4, <1>6, Disturbing DEF HInv

LEMMA HandlerFailsHInv ==
  ASSUME HInv, HistoryNext, NEW w \in Workers, HandlerFails(w)
  PROVE  HInv'
<1>1. /\ pc' = [pc EXCEPT ![w] = "ran"] /\ pc[w] = "missed"
      /\ response' = [response EXCEPT ![w] = 0]
      /\ UNCHANGED <<store, effects, call>>
  BY DEF HandlerFails
<1>2. /\ pc \in [Workers -> {"idle", "missed", "ran"}]
      /\ response \in [Workers -> Responses]
  BY DEF HInv, IInv, TypeOK
<1> QED
  BY <1>1, <1>2, QuietHInv

\* Nobody else is at work under an undisturbed key while its response is cached.
LEMMA PutHInv ==
  ASSUME HInv, HistoryNext, NEW w \in Workers, Put(w)
  PROVE  HInv'
<1> DEFINE c == call[w]
           entry == [hash |-> c.hash, response |-> response[w]]
<1>1. /\ TypeOK /\ c \in Call /\ pc[w] = "ran"
      /\ store' = [store EXCEPT ![c.key] = entry]
      /\ pc' = [pc EXCEPT ![w] = "idle"]
      /\ call' = [call EXCEPT ![w] = None]
      /\ response' = [response EXCEPT ![w] = 0]
      /\ UNCHANGED effects
  BY DEF HInv, IInv, WorkerInv, Put, Done, StoredUnder
<1>2. c.key \in Keys /\ entry \in Entry
  BY <1>1 DEF Call, Entry, TypeOK
<1>3. store'[c.key] # None /\ \A k \in Keys \ {c.key} : store'[k] = store[k]
  BY <1>1, <1>2, NoneAssumption DEF TypeOK
<1>4. ASSUME NEW v \in Workers PROVE NothingCached(v)'
  <2> SUFFICES ASSUME pc'[v] = "missed", call'[v].key \notin disturbed'
               PROVE  store'[call'[v].key] = None
    BY DEF NothingCached
  <2>1. v # w /\ pc[v] = "missed" /\ call'[v] = call[v] /\ call[v].key \notin disturbed
    BY <1>1, Disturbing DEF TypeOK
  <2>2. call[v].key # c.key
    BY <1>1, <2>1 DEF HInv, Alone
  <2>3. call[v].key \in Keys /\ store[call[v].key] = None
    BY <2>1 DEF HInv, IInv, WorkerInv, Call, NothingCached
  <2> QED
    BY <1>3, <2>1, <2>2, <2>3
<1>5. ASSUME NEW i \in DOMAIN effects PROVE Remembered(i)'
  <2>1. effects[i].key \in Keys
    <3>1. effects \in Seq(Call)
      BY <1>1 DEF TypeOK
    <3>2. effects[i] \in Call
      BY <3>1
    <3> QED
      BY <3>2 DEF Call
  <2>2. CASE effects[i].key = c.key
    BY <1>1, <1>3, <2>2 DEF Remembered
  <2>3. CASE effects[i].key # c.key
    <3>1. ToBeCached(i) => ToBeCached(i)'
      BY <1>1, <2>3 DEF ToBeCached, TypeOK
    <3> QED
      BY <1>1, <1>3, <2>1, <2>3, <3>1, Disturbing DEF HInv, Remembered
  <2> QED
    BY <2>2, <2>3
<1>6. OneEffectUnlessDisturbed'
  BY <1>1, Disturbing DEF HInv, OneEffectUnlessDisturbed
<1> QED
  BY <1>1, <1>4, <1>5, <1>6, Disturbing DEF HInv

\* A response that goes uncached disturbs its key.
LEMMA NoPutHInv ==
  ASSUME HInv, HistoryNext, NEW w \in Workers, NoPut(w)
  PROVE  HInv'
<1>1. /\ pc[w] = "ran" /\ pc' = [pc EXCEPT ![w] = "idle"]
      /\ call' = [call EXCEPT ![w] = None]
      /\ response' = [response EXCEPT ![w] = 0]
      /\ UNCHANGED <<store, effects>>
  BY DEF NoPut, Done
<1>2. /\ pc \in [Workers -> {"idle", "missed", "ran"}]
      /\ call \in [Workers -> Call \cup {None}]
      /\ response \in [Workers -> Responses]
  BY DEF HInv, IInv, TypeOK
<1>3. response[w] # 0 => call[w].key \in disturbed'
  <2>1. call[w].key \in Keys
    BY <1>1 DEF HInv, IInv, WorkerInv, Call
  <2>2. response[w] # 0 => Uncached(call[w].key)
    BY DEF Uncached, Cacheable
  <2> QED
    BY <2>1, <2>2 DEF HistoryNext
<1>4. /\ \A v \in Workers : pc'[v] = "missed" => pc[v] = "missed" /\ call'[v] = call[v]
      /\ \A v \in Workers : pc[v] = "ran" /\ response[v] # 0 =>
           \/ pc'[v] = "ran" /\ response'[v] = response[v] /\ call'[v] = call[v]
           \/ call[v].key \in disturbed'
  BY <1>1, <1>2, <1>3
<1> QED
  BY <1>1, <1>4, QuietHInv

LEMMA HistoryNextHInv == HInv /\ [HistoryNext]_historyVars => HInv'
<1> SUFFICES ASSUME HInv, [HistoryNext]_historyVars PROVE HInv'
  OBVIOUS
<1>1. CASE UNCHANGED historyVars
  <2>1. UNCHANGED vars /\ UNCHANGED disturbed
    BY <1>1 DEF historyVars
  <2>2. IInv'
    BY <2>1, NextIInv DEF HInv
  <2> QED
    BY <2>1, <2>2 DEF HInv, Alone, NothingCached, Remembered, ToBeCached,
                      OneEffectUnlessDisturbed, vars
<1>2. CASE HistoryNext
  <2>1. PICK w \in Workers :
          \/ \E k \in Keys, hash \in Requests : Replay(w, k, hash) \/ Miss(w, k, hash)
          \/ HandlerSucceeds(w) \/ HandlerFails(w) \/ Put(w) \/ NoPut(w)
    BY <1>2 DEF HistoryNext, Next
  <2> QED
    BY <1>2, <2>1, LookupHInv, HandlerSucceedsHInv, HandlerFailsHInv, PutHInv, NoPutHInv
<1> QED
  BY <1>1, <1>2

-----------------------------------------------------------------------------

\* The inductive invariant: what took effect under an undisturbed key is cached or
\* held by the only worker about to cache it (Idempotent).
THEOREM HistoryInvariance == HistorySpec => []HInv
BY InitHInv, HistoryNextHInv, PTL DEF HistorySpec

\* A key takes effect once, however often it is sent, unless two requests under it
\* overlapped or a response was not cached (Idempotent: lookup, handler, Put).
THEOREM OneEffect == HistorySpec => []OneEffectUnlessDisturbed
<1>1. HInv => OneEffectUnlessDisturbed
  BY DEF HInv
<1> QED
  BY <1>1, HistoryInvariance, PTL

\* Under the same condition all answers to one request under one key are the same:
\* they are results of that request, of which there is one.
THEOREM AnswersAgree == HistorySpec => []AnswersAgreeUnlessDisturbed
<1>1. HInv => AnswersAgreeUnlessDisturbed
  BY DEF HInv, IInv, AnswersAreOwn, OneEffectUnlessDisturbed, AnswersAgreeUnlessDisturbed
<1> QED
  BY <1>1, HistoryInvariance, PTL
=============================================================================
