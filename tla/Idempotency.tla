---------------------------- MODULE Idempotency ----------------------------
(***************************************************************************)
(* The Idempotency-Key middleware around a handler that creates something: *)
(* look the key up; on a hit replay the cached response, or refuse the key *)
(* if it came with another request; on a miss run the handler, whose       *)
(* transaction commits on its own, forward its response, and then cache it *)
(* with a statement of its own, whose errors are ignored.                  *)
(*                                                                         *)
(* What a handler creates is one entry of "effects"; its response is the   *)
(* position of that entry, and 0 stands for any response that is not 2xx.  *)
(* The middleware itself keeps no state but its variables, so a crash is a *)
(* failing handler or a failing Put.  Entries stay for ever: Get does not   *)
(* look at expires_at and nothing deletes old rows.                        *)
(***************************************************************************)
EXTENDS Integers, FiniteSets, Sequences

CONSTANTS
  Keys,         \* (scope, Idempotency-Key)
  Requests,     \* hashRequest: method, path, query and body; not who sent them
  Workers,      \* request goroutines
  None,
  MaxInFlight,  \* how many requests may overlap
  MaxRequests   \* bound: requests in a behaviour

ASSUME ParametersAssumption ==
  MaxInFlight \in Nat \ {0} /\ MaxRequests \in Nat

Responses == Nat
Entry == [hash : Requests, response : Responses]
Call == [key : Keys, hash : Requests]

ASSUME NoneAssumption == None \notin Entry \cup Call

VARIABLES
  store,    \* iam.idempotency_keys: store[k] an Entry or None
  effects,  \* what the handlers have committed, in order: a Call each
  answers,  \* the 2xx responses sent: the call and the response
  pc,       \* "idle", "missed" or "ran"
  call,     \* the call each worker serves
  response, \* the response its handler gave
  begun     \* the number of requests begun so far

vars == <<store, effects, answers, pc, call, response, begun>>

Init ==
  /\ store = [k \in Keys |-> None]
  /\ effects = <<>>
  /\ answers = {}
  /\ pc = [w \in Workers |-> "idle"]
  /\ call = [w \in Workers |-> None]
  /\ response = [w \in Workers |-> 0]
  /\ begun = 0

InFlight == {w \in Workers : pc[w] # "idle"}

Answer(c, r) == [call |-> c, response |-> r]

Admit ==
  /\ Cardinality(InFlight) < MaxInFlight
  /\ begun < MaxRequests
  /\ begun' = begun + 1

\* Mutant: the lookup composes another scope than the upsert did.
CachedElsewhere(k) == None

\* Get by (scope, key).
Cached(k) == store[k]

\* Mutant: the request is not compared with the one that was cached.
MatchesAnything(entry, hash) == TRUE

Matches(entry, hash) == entry.hash = hash

\* The key is found.
Replay(w, k, hash) ==
  /\ pc[w] = "idle" /\ Admit
  /\ Cached(k) # None
  /\ answers' = IF Matches(Cached(k), hash)
                THEN answers \cup {Answer([key |-> k, hash |-> hash], Cached(k).response)}
                ELSE answers
  /\ UNCHANGED <<store, effects, pc, call, response>>

Miss(w, k, hash) ==
  /\ pc[w] = "idle" /\ Admit
  /\ Cached(k) = None
  /\ pc' = [pc EXCEPT ![w] = "missed"]
  /\ call' = [call EXCEPT ![w] = [key |-> k, hash |-> hash]]
  /\ UNCHANGED <<store, effects, answers, response>>

\* The handler's transaction commits and its response is forwarded.
HandlerSucceeds(w) ==
  /\ pc[w] = "missed"
  /\ effects' = Append(effects, call[w])
  /\ answers' = answers \cup {Answer(call[w], Len(effects) + 1)}
  /\ response' = [response EXCEPT ![w] = Len(effects) + 1]
  /\ pc' = [pc EXCEPT ![w] = "ran"]
  /\ UNCHANGED <<store, call, begun>>

\* The handler rolls back and answers with an error.
HandlerFails(w) ==
  /\ pc[w] = "missed"
  /\ response' = [response EXCEPT ![w] = 0]
  /\ pc' = [pc EXCEPT ![w] = "ran"]
  /\ UNCHANGED <<store, effects, answers, call, begun>>

\* Mutant: error responses are cached too.
CacheableAlways(r) == TRUE

Cacheable(r) == r # 0

Done(w) ==
  /\ pc' = [pc EXCEPT ![w] = "idle"]
  /\ call' = [call EXCEPT ![w] = None]
  /\ response' = [response EXCEPT ![w] = 0]
  /\ UNCHANGED <<effects, answers, begun>>

\* Mutant: the request hash is not stored.
StoredUnhashed(entries, c, r) == [entries EXCEPT ![c.key] = [response |-> r]]

\* The upsert overwrites what another request has cached meanwhile.
StoredUnder(entries, c, r) ==
  [entries EXCEPT ![c.key] = [hash |-> c.hash, response |-> r]]

Put(w) ==
  /\ pc[w] = "ran"
  /\ Cacheable(response[w])
  /\ store' = StoredUnder(store, call[w], response[w])
  /\ Done(w)

\* Nothing to cache, or the Put fails: the context was cancelled because the
\* client has gone, the database is away, the process dies.
NoPut(w) ==
  /\ pc[w] = "ran"
  /\ UNCHANGED store
  /\ Done(w)

Next ==
  \E w \in Workers :
    \/ \E k \in Keys, hash \in Requests : Replay(w, k, hash) \/ Miss(w, k, hash)
    \/ HandlerSucceeds(w) \/ HandlerFails(w) \/ Put(w) \/ NoPut(w)

Spec == Init /\ [][Next]_vars

-----------------------------------------------------------------------------
(***************************************************************************)
(* Properties.                                                             *)
(***************************************************************************)

TypeOK ==
  /\ store \in [Keys -> Entry \cup {None}]
  /\ effects \in Seq(Call)
  /\ answers \subseteq [call : Call, response : Responses]
  /\ pc \in [Workers -> {"idle", "missed", "ran"}]
  /\ call \in [Workers -> Call \cup {None}]
  /\ response \in [Workers -> Responses]
  /\ begun \in 0..MaxRequests

\* A cached entry, whoever put it there last, holds the response to a call with
\* that key and that request which really took effect (Idempotent, Put).
EntriesAreEffects ==
  \A k \in Keys : store[k] # None =>
    /\ store[k].response \in DOMAIN effects
    /\ effects[store[k].response] = [key |-> k, hash |-> store[k].hash]

\* A client is never answered with the result of another request, be the answer
\* fresh or replayed (the comparison of request hashes).
AnswersAreOwn ==
  \A a \in answers : a.response \in DOMAIN effects /\ effects[a.response] = a.call

\* A key takes effect once, however often its request is sent.
OneEffectPerKey ==
  \A i, j \in DOMAIN effects : effects[i].key = effects[j].key => i = j
=============================================================================
