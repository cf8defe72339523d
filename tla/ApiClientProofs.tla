--------------------------- MODULE ApiClientProofs ---------------------------
(***************************************************************************)
(* Proofs about ApiClientHistory: what a refused refresh means, and how    *)
(* the token store is emptied and filled, for any number of tabs, calls,   *)
(* sign-outs and token pairs.                                              *)
(***************************************************************************)
EXTENDS ApiClientHistory, TLAPS

\* A flight keeps its tab's slot to the end of its grace period.
SlotInv == \A f \in Calls : flight[f] # None => slot[TabOf(f)] = f

\* What is presented has been minted.  An answer on its way is known to nobody
\* but its flight.
AnswerInv ==
  /\ rotated \subseteq 1..minted /\ stray \subseteq 1..minted
  /\ \A f \in Calls : flight[f] # None => flight[f].token \in 1..minted
  /\ \A f \in Calls : In(f, {"sent", "accepted", "refused", "unavailable"}) => flight[f].answer = 0
  /\ \A f \in Calls : In(f, {"exchanged"}) =>
       LET a == flight[f].answer
       IN  /\ a \in 1..minted /\ a \notin rotated \cup stray /\ a # stored
           /\ flight[f].token \in rotated
           /\ \A g \in Calls :
                /\ Outstanding(g) => flight[g].token # a
                /\ g # f /\ In(g, {"exchanged"}) => flight[g].answer # a

\* An exchanged pair is presented again only where the records say so; it is
\* stored only until the flight that has its successor settles.
SpentInv ==
  /\ \A f \in Calls : In(f, {"refused"}) => flight[f].token \in rotated \cup ended
  /\ \A f \in Calls : In(f, {"sent", "accepted", "refused"}) /\ flight[f].token \in rotated =>
       flight[f].token \in lost \cup contested
  /\ stored \in rotated =>
       \/ stored \in lost \cup contested
       \/ \E f \in Calls : In(f, {"exchanged"}) /\ flight[f].token = stored

\* The records: two tabs' flights with one pair contest it, and a flight that
\* nothing has overtaken presents what is stored.
RecordInv ==
  /\ Contested \subseteq contested
  /\ \A f \in Calls : Outstanding(f) /\ f \notin overtaken => stored = flight[f].token

\* Somebody but the form that awaits it has come to know pair p.
Known(p) ==
  \/ p \in rotated \cup stray \/ p = stored
  \/ \E f \in Calls :
       \/ Outstanding(f) /\ flight[f].token = p
       \/ In(f, {"exchanged"}) /\ flight[f].answer = p

\* A pair granted to a form is known only to that form until it is stored.
GrantedInv == granted \subseteq 1..minted /\ \A p \in granted : ~Known(p)

IInv == TypeOK /\ SlotInv /\ AnswerInv /\ SpentInv /\ RecordInv /\ GrantedInv

\* What a step records.
Recorded ==
  /\ contested \subseteq contested' /\ Contested' \subseteq contested'
  /\ \A f \in Calls : Outstanding(f)' /\ f \notin overtaken' =>
       f \notin overtaken /\ (Outstanding(f) => ~Overtakes(f))

-----------------------------------------------------------------------------

LEMMA StepIsRecorded == HistoryNext => Recorded
BY DEF HistoryNext, Recorded

LEMMA TabOfCall == \A c \in Calls : TabOf(c) \in Tabs
BY DEF Calls, TabOf

LEMMA IdleType == InPhase("idle") \in Call /\ InPhase("sent") \in Call /\ InPhase("retried") \in Call
BY DEF InPhase, Call

LEMMA InitIInv == HistoryInit => IInv
BY IdleType, ParametersAssumption, TabOfCall
DEF HistoryInit, Init, IInv, TypeOK, SlotInv, AnswerInv, SpentInv, RecordInv, GrantedInv,
    Contested, In, Outstanding, Idle

\* One flight of a tab at a time.
LEMMA SingleFlight ==
  ASSUME IInv, NEW f \in Calls, NEW g \in Calls, flight[f] # None, flight[g] # None,
         TabOf(f) = TabOf(g)
  PROVE  f = g
BY DEF IInv, SlotInv

\* A flight's token and answer.
LEMMA FlightType ==
  ASSUME TypeOK, NEW f \in Calls, flight[f] # None
  PROVE  flight[f] \in Flight /\ flight[f].token \in Pairs /\ flight[f].answer \in {0} \cup Pairs
BY DEF TypeOK, Flight

\* A step that grants nothing and makes no granted pair known.
LEMMA GrantedKept ==
  ASSUME IInv, granted' = granted, minted' \in {minted, minted + 1},
         \A p \in granted : Known(p)' => Known(p)
  PROVE  GrantedInv'
<1>1. minted \in Nat
  BY ParametersAssumption DEF IInv, TypeOK
<1>2. 1..minted \subseteq 1..minted'
  BY <1>1
<1> QED
  BY <1>2 DEF IInv, GrantedInv

\* Steps that change neither a flight, a token nor the store.
LEMMA CallStepIInv ==
  ASSUME IInv, Recorded, UNCHANGED <<stored, flight, slot, logouts, server>>,
         call' \in [Calls -> Call]
  PROVE  IInv'
<1>1. UNCHANGED <<stored, flight, slot, logouts, minted, rotated, ended, stray, lost, granted>>
  BY DEF server
<1>2. TypeOK'
  BY <1>1 DEF IInv, TypeOK
<1>3. SlotInv' /\ AnswerInv'
  BY <1>1 DEF IInv, SlotInv, AnswerInv, In, Outstanding
<1>4. SpentInv'
  BY <1>1 DEF IInv, SpentInv, In, Recorded
<1>5. RecordInv'
  BY <1>1 DEF IInv, RecordInv, In, Outstanding, Recorded
<1>6. GrantedInv'
  BY <1>1, GrantedKept DEF Known, In, Outstanding
<1> QED
  BY <1>2, <1>3, <1>4, <1>5, <1>6 DEF IInv

LEMMA CallIInv ==
  ASSUME IInv, Recorded, NEW c \in Calls, Send(c) \/ Finish(c) \/ Join(c) \/ GiveUp(c)
  PROVE  IInv'
<1>1. ASSUME Send(c) \/ Finish(c) \/ GiveUp(c)
      PROVE  call' \in [Calls -> Call] /\ UNCHANGED <<stored, flight, slot, logouts, server>>
  BY <1>1, IdleType DEF Send, Finish, GiveUp, Idle, IInv, TypeOK
<1>2. ASSUME Join(c)
      PROVE  call' \in [Calls -> Call] /\ UNCHANGED <<stored, flight, slot, logouts, server>>
  <2>1. slot[TabOf(c)] \in Calls
    BY <1>2, TabOfCall DEF Join, Underway, IInv, TypeOK
  <2>2. [call[c] EXCEPT !.phase = "waiting", !.on = slot[TabOf(c)]] \in Call
    BY <2>1 DEF IInv, TypeOK, Call
  <2>3. \A ok : After(ok) \in Call
    BY IdleType DEF After, Idle
  <2> QED
    BY <1>2, <2>2, <2>3 DEF Join, IInv, TypeOK
<1> QED
  BY <1>1, <1>2, CallStepIInv

\* A pair just minted is new to everybody.
LEMMA GrantIInv ==
  ASSUME IInv, Recorded, Grant
  PROVE  IInv'
<1>1. /\ minted' = minted + 1 /\ minted < MaxPairs /\ granted' = granted \cup {minted + 1}
      /\ UNCHANGED <<stored, call, flight, slot, logouts, rotated, ended, stray, lost>>
      /\ minted \in Nat /\ MaxPairs \in Nat /\ stored \in 0..minted
  BY ParametersAssumption DEF Grant, client, IInv, TypeOK
<1>2. 1..minted \subseteq 1..minted' /\ minted + 1 \in 1..minted' /\ minted + 1 \notin 0..minted
  BY <1>1
<1>3. TypeOK'
  BY <1>1 DEF IInv, TypeOK, Pairs
<1>4. SlotInv'
  BY <1>1 DEF IInv, SlotInv
<1>5. AnswerInv'
  BY <1>1 DEF IInv, AnswerInv, In, Outstanding
<1>6. SpentInv' /\ RecordInv'
  BY <1>1 DEF IInv, SpentInv, RecordInv, In, Outstanding, Recorded
<1>7. GrantedInv'
  <2>1. \A p : Known(p)' <=> Known(p)
    BY <1>1 DEF Known, In, Outstanding
  <2>2. ~Known(minted + 1)
    <3>1. minted + 1 \notin rotated \cup stray /\ minted + 1 # stored
      BY <1>1, <1>2 DEF IInv, AnswerInv
    <3>2. \A f \in Calls : Outstanding(f) => flight[f].token \in 1..minted
      BY DEF IInv, AnswerInv, Outstanding, In
    <3>3. \A f \in Calls : In(f, {"exchanged"}) => flight[f].answer \in 1..minted
      BY DEF IInv, AnswerInv
    <3> QED
      BY <1>2, <3>1, <3>2, <3>3 DEF Known
  <2> QED
    BY <1>1, <1>2, <2>1, <2>2 DEF IInv, GrantedInv
<1> QED
  BY <1>3, <1>4, <1>5, <1>6, <1>7 DEF IInv

\* Whatever flight is outstanding, the form's pair has overtaken it.
LEMMA LoginIInv ==
  ASSUME IInv, Recorded, NEW p \in Pairs, Login(p)
  PROVE  IInv'
<1>1. /\ p \in granted /\ stored' = p /\ granted' = granted \ {p}
      /\ UNCHANGED <<call, flight, slot, logouts, minted, rotated, ended, stray, lost>>
      /\ minted \in Nat
  BY ParametersAssumption DEF Login, IInv, TypeOK
<1>2. p \in 1..minted /\ ~Known(p)
  BY <1>1 DEF IInv, GrantedInv
<1>3. /\ p \notin rotated \cup stray /\ p # stored
      /\ \A f \in Calls : Outstanding(f) => flight[f].token # p
      /\ \A f \in Calls : In(f, {"exchanged"}) => flight[f].answer # p
  BY <1>2 DEF Known
<1>4. TypeOK'
  BY <1>1, <1>2 DEF IInv, TypeOK
<1>5. SlotInv'
  BY <1>1 DEF IInv, SlotInv
<1>6. AnswerInv'
  BY <1>1, <1>3 DEF IInv, AnswerInv, In, Outstanding
<1>7. SpentInv'
  BY <1>1, <1>3 DEF IInv, SpentInv, In, Recorded
<1>8. RecordInv'
  <2>1. \A f \in Calls : Overtakes(f)
    BY <1>1 DEF Overtakes, SignsIn
  <2> QED
    BY <1>1, <2>1 DEF RecordInv, Recorded, Outstanding, In
<1>9. GrantedInv'
  <2>1. \A q \in granted' : Known(q)' => Known(q)
    BY <1>1 DEF Known, In, Outstanding
  <2> QED
    BY <1>1, <2>1 DEF IInv, GrantedInv
<1> QED
  BY <1>4, <1>5, <1>6, <1>7, <1>8, <1>9 DEF IInv

LEMMA LogoutIInv ==
  ASSUME IInv, Recorded, Logout
  PROVE  IInv'
<1>1. /\ stored' = 0 /\ logouts' = logouts + 1 /\ logouts < MaxLogouts
      /\ UNCHANGED <<call, flight, slot, minted, rotated, ended, stray, lost, granted>>
      /\ minted \in Nat /\ MaxLogouts \in Nat /\ logouts \in Nat
  BY ParametersAssumption DEF Logout, server, IInv, TypeOK
<1>2. TypeOK'
  BY <1>1 DEF IInv, TypeOK
<1>3. SlotInv'
  BY <1>1 DEF IInv, SlotInv
<1>4. AnswerInv'
  BY <1>1 DEF IInv, AnswerInv, In, Outstanding
<1>5. SpentInv'
  BY <1>1 DEF IInv, SpentInv, AnswerInv, In, Recorded
<1>6. RecordInv'
  <2>1. \A f \in Calls : Overtakes(f)
    BY <1>1 DEF Overtakes
  <2> QED
    BY <1>1, <2>1 DEF RecordInv, Recorded, Outstanding, In
<1>7. GrantedInv'
  <2>1. \A p \in granted : p # stored'
    BY <1>1 DEF IInv, GrantedInv
  <2>2. \A p \in granted : Known(p)' => Known(p)
    BY <1>1, <2>1 DEF Known, In, Outstanding
  <2> QED
    BY <1>1, <2>2, GrantedKept
<1> QED
  BY <1>2, <1>3, <1>4, <1>5, <1>6, <1>7 DEF IInv

LEMMA EndSessionIInv ==
  ASSUME IInv, Recorded, NEW p \in Pairs, EndSession(p)
  PROVE  IInv'
<1>1. /\ ended' = ended \cup {p}
      /\ UNCHANGED <<stored, call, flight, slot, logouts, minted, rotated, stray, lost, granted>>
  BY DEF EndSession, client
<1>2. TypeOK'
  BY <1>1 DEF IInv, TypeOK
<1>3. SlotInv' /\ AnswerInv'
  BY <1>1 DEF IInv, SlotInv, AnswerInv, In, Outstanding
<1>4. SpentInv'
  BY <1>1 DEF IInv, SpentInv, In, Recorded
<1>5. RecordInv'
  BY <1>1 DEF IInv, RecordInv, In, Outstanding, Recorded
<1>6. GrantedInv'
  BY <1>1, GrantedKept DEF Known, In, Outstanding
<1> QED
  BY <1>2, <1>3, <1>4, <1>5, <1>6 DEF IInv

LEMMA ExchangeStrayIInv ==
  ASSUME IInv, Recorded, NEW p \in Pairs, ExchangeStray(p)
  PROVE  IInv'
<1>1. /\ p \in stray /\ stray' = stray \ {p} /\ lost' = lost \cup {p}
      /\ rotated' = rotated \cup {p} /\ minted' = minted + 1 /\ minted < MaxPairs
      /\ UNCHANGED <<stored, call, flight, slot, logouts, ended, granted>>
      /\ minted \in Nat /\ MaxPairs \in Nat
  BY ParametersAssumption DEF ExchangeStray, Rotate, client, IInv, TypeOK
<1>2. TypeOK'
  BY <1>1 DEF IInv, TypeOK
<1>3. SlotInv'
  BY <1>1 DEF IInv, SlotInv
<1>4. AnswerInv'
  BY <1>1 DEF IInv, AnswerInv, In, Outstanding
<1>5. SpentInv'
  BY <1>1 DEF IInv, SpentInv, In, Recorded
<1>6. RecordInv'
  BY <1>1 DEF IInv, RecordInv, In, Outstanding, Recorded
<1>7. GrantedInv'
  <2>1. \A q \in granted : Known(q)' => Known(q)
    BY <1>1 DEF Known, In, Outstanding
  <2> QED
    BY <1>1, <2>1, GrantedKept
<1> QED
  BY <1>2, <1>3, <1>4, <1>5, <1>6, <1>7 DEF IInv

-----------------------------------------------------------------------------
(***************************************************************************)
(* The steps of a flight.                                                  *)
(***************************************************************************)

\* A tab starts a flight with a stored pair only while it has none, so a pair
\* whose successor is on its way is another tab's.
LEMMA StartIInv ==
  ASSUME IInv, Recorded, NEW c \in Calls, Start(c)
  PROVE  IInv'
<1> PICK r : r = [phase |-> "sent", token |-> stored, answer |-> 0, ok |-> FALSE]
  OBVIOUS
<1>1. /\ slot[TabOf(c)] = None /\ flight[c] = None /\ stored # 0
      /\ flight' = [flight EXCEPT ![c] = r]
      /\ slot' = [slot EXCEPT ![TabOf(c)] = c]
      /\ call' = [call EXCEPT ![c].phase = "waiting", ![c].on = c]
      /\ UNCHANGED <<stored, logouts, minted, rotated, ended, stray, lost, granted>>
      /\ minted \in 0..MaxPairs /\ MaxPairs \in Nat
  BY ParametersAssumption DEF Start, Underway, Present, server, IInv, TypeOK
<1>2. /\ r.phase = "sent" /\ r.token = stored /\ r.answer = 0
      /\ stored \in 1..minted /\ r \in Flight /\ r # None
  <2>1. stored \in 1..minted /\ stored \in Pairs
    BY <1>1 DEF IInv, TypeOK, Pairs
  <2>2. r \in Flight
    BY <2>1 DEF Flight, Phases
  <2> QED
    BY <2>1, <2>2, NoneAssumption
<1>3. flight'[c] = r /\ \A g \in Calls \ {c} : flight'[g] = flight[g]
  BY <1>1 DEF IInv, TypeOK
<1>4. TypeOK'
  <2>1. [call[c] EXCEPT !.phase = "waiting", !.on = c] \in Call
    BY DEF IInv, TypeOK, Call
  <2>2. call' \in [Calls -> Call]
    BY <1>1, <2>1 DEF IInv, TypeOK
  <2> QED
    BY <1>1, <1>2, <2>2, TabOfCall DEF IInv, TypeOK
<1>5. SlotInv'
  BY <1>1, <1>3, TabOfCall, NoneAssumption DEF IInv, SlotInv, TypeOK
<1>6. AnswerInv'
  <2>1. \A g \in Calls : g # c => (Outstanding(g)' <=> Outstanding(g))
    BY <1>3 DEF Outstanding, In
  <2> QED
    BY <1>1, <1>2, <1>3, <2>1 DEF IInv, AnswerInv, In
<1>7. SpentInv'
  <2>1. ASSUME NEW g \in Calls, In(g, {"exchanged"}), flight[g].token = stored
        PROVE  stored \in Contested'
    <3>1. g # c /\ TabOf(g) # TabOf(c)
      BY <1>1, <2>1, NoneAssumption DEF In, IInv, SlotInv
    <3>2. Outstanding(g)' /\ Outstanding(c)'
      BY <1>2, <1>3, <2>1, <3>1 DEF Outstanding, In, Phases
    <3>3. stored \in Pairs
      BY <1>1, <1>2 DEF Pairs
    <3> QED
      BY <1>2, <1>3, <2>1, <3>1, <3>2, <3>3 DEF Contested
  <2>2. stored \in rotated => stored \in lost \cup contested'
    BY <2>1 DEF IInv, SpentInv, Recorded
  <2> QED
    BY <1>1, <1>2, <1>3, <2>2 DEF IInv, SpentInv, In, Recorded
<1>8. RecordInv'
  BY <1>1, <1>2, <1>3 DEF IInv, RecordInv, In, Outstanding, Recorded
<1>9. GrantedInv'
  <2>1. \A g \in Calls : g # c => (Outstanding(g)' <=> Outstanding(g)) /\ (In(g, {"exchanged"})' <=> In(g, {"exchanged"}))
    BY <1>3 DEF Outstanding, In
  <2>2. ~In(c, {"exchanged"})' /\ flight'[c].token = stored
    BY <1>2, <1>3 DEF In
  <2>3. \A q \in granted : Known(q)' => Known(q)
    BY <1>1, <1>3, <2>1, <2>2 DEF Known
  <2> QED
    BY <1>1, <2>3, GrantedKept
<1> QED
  BY <1>4, <1>5, <1>6, <1>7, <1>8, <1>9 DEF IInv

LEMMA ServerStepIInv ==
  ASSUME IInv, Recorded, NEW f \in Calls, Accept(f) \/ Refuse(f)
  PROVE  IInv'
<1>1. PICK phase \in {"accepted", "refused"} :
        /\ flight' = [flight EXCEPT ![f].phase = phase]
        /\ phase = "refused" => flight[f].token \in rotated \cup ended
  BY DEF Accept, Refuse, Usable
<1>2. /\ In(f, {"sent"}) /\ flight[f] # None
      /\ UNCHANGED <<stored, call, slot, logouts, minted, rotated, ended, stray, lost, granted>>
  BY DEF Accept, Refuse, In, server
<1>3. /\ flight'[f] \in Flight /\ flight'[f] # None /\ flight'[f].phase = phase
      /\ flight'[f].token = flight[f].token /\ flight'[f].answer = flight[f].answer
      /\ \A g \in Calls \ {f} : flight'[g] = flight[g]
  BY <1>1, <1>2, FlightType, NoneAssumption DEF IInv, TypeOK, Flight, Phases
<1>4. TypeOK'
  BY <1>1, <1>2, <1>3 DEF IInv, TypeOK
<1>5. SlotInv'
  BY <1>2, <1>3 DEF IInv, SlotInv
<1>6. \A g \in Calls : Outstanding(g)' <=> Outstanding(g)
  BY <1>2, <1>3 DEF Outstanding, In, Phases
<1>7. \A g \in Calls : flight[g] # None => flight'[g] # None /\ flight'[g].token = flight[g].token
  BY <1>3
<1>8. AnswerInv'
  BY <1>2, <1>3, <1>6, <1>7 DEF IInv, AnswerInv, In
<1>9. SpentInv'
  BY <1>1, <1>2, <1>3 DEF IInv, SpentInv, In, Recorded
<1>10. RecordInv'
  BY <1>2, <1>6, <1>7 DEF IInv, RecordInv, Recorded, Outstanding, In
<1>11. GrantedInv'
  <2>1. \A g \in Calls : In(g, {"exchanged"})' => In(g, {"exchanged"}) /\ flight'[g] = flight[g]
    BY <1>3 DEF In
  <2>2. \A g \in Calls : Outstanding(g)' => Outstanding(g) /\ flight'[g].token = flight[g].token
    BY <1>6, <1>7 DEF Outstanding, In
  <2>3. \A q \in granted : Known(q)' => Known(q)
    BY <1>2, <2>1, <2>2 DEF Known
  <2> QED
    BY <1>2, <2>3, GrantedKept
<1> QED
  BY <1>4, <1>5, <1>8, <1>9, <1>10, <1>11 DEF IInv

\* Another flight that has presented the exchanged pair is of another tab, so
\* the two of them have contested it; the new pair is nobody else's.
LEMMA ExchangeIInv ==
  ASSUME IInv, Recorded, NEW f \in Calls, Exchange(f)
  PROVE  IInv'
<1>1. /\ In(f, {"accepted"}) /\ flight[f] # None /\ flight[f].phase = "accepted"
      /\ minted < MaxPairs /\ minted' = minted + 1 /\ rotated' = rotated \cup {flight[f].token}
      /\ UNCHANGED <<stored, call, slot, logouts, ended, stray, lost, granted>>
      /\ minted \in Nat /\ MaxPairs \in Nat
  BY ParametersAssumption DEF Exchange, Rotate, In, IInv, TypeOK
<1>2. /\ flight'[f] \in Flight /\ flight'[f] # None /\ flight'[f].phase = "exchanged"
      /\ flight'[f].token = flight[f].token /\ flight'[f].answer = minted + 1
      /\ \A g \in Calls \ {f} : flight'[g] = flight[g]
      /\ flight' \in [Calls -> Flight \cup {None}]
  <2>1. flight'[f] = [flight[f] EXCEPT !.phase = "exchanged", !.answer = minted + 1]
        /\ \A g \in Calls \ {f} : flight'[g] = flight[g]
    BY <1>1 DEF Exchange, IInv, TypeOK
  <2>2. flight[f] \in Flight /\ minted + 1 \in Pairs
    BY <1>1, FlightType DEF IInv, Pairs
  <2>3. /\ flight'[f] \in Flight /\ flight'[f].phase = "exchanged"
        /\ flight'[f].token = flight[f].token /\ flight'[f].answer = minted + 1
    BY <2>1, <2>2 DEF Flight, Phases
  <2>4. flight' \in [Calls -> Flight \cup {None}]
    BY <1>1, <2>1, <2>3 DEF Exchange, IInv, TypeOK
  <2> QED
    BY <2>1, <2>3, <2>4, NoneAssumption
<1>3. flight[f].token \in 1..minted /\ flight[f].token \in Pairs
  BY <1>1, FlightType DEF IInv, AnswerInv
<1>4. TypeOK'
  BY <1>1, <1>2, <1>3 DEF IInv, TypeOK
<1>5. SlotInv'
  BY <1>1, <1>2 DEF IInv, SlotInv
<1>6. \A g \in Calls : Outstanding(g)' <=> Outstanding(g)
  BY <1>1, <1>2 DEF Outstanding, In, Phases
<1>7. \A g \in Calls : Outstanding(g)' =>
        Outstanding(g) /\ flight[g] # None /\ flight'[g].token = flight[g].token
  BY <1>1, <1>2 DEF Outstanding, In, Phases
<1>8. AnswerInv'
  <2>1. rotated' \subseteq 1..minted' /\ stray' \subseteq 1..minted'
    <3>1. 1..minted \subseteq 1..minted'
      BY <1>1
    <3> QED
      BY <1>1, <1>3, <3>1 DEF IInv, AnswerInv
  <2>2. \A g \in Calls : flight'[g] # None => flight'[g].token \in 1..minted'
    BY <1>1, <1>2 DEF IInv, AnswerInv
  <2>3. \A g \in Calls : In(g, {"sent", "accepted", "refused", "unavailable"})' => flight'[g].answer = 0
    BY <1>2 DEF IInv, AnswerInv, In
  <2>4. ASSUME NEW g \in Calls, In(g, {"exchanged"})', NEW a, a = flight'[g].answer
        PROVE  /\ a \in 1..minted' /\ a \notin rotated' \cup stray' /\ a # stored'
               /\ flight'[g].token \in rotated'
               /\ \A h \in Calls :
                    /\ Outstanding(h)' => flight'[h].token # a
                    /\ h # g /\ In(h, {"exchanged"})' => flight'[h].answer # a
    <3>1. CASE g = f
      <4>1. a = minted + 1 /\ a \in 1..minted' /\ a \notin 1..minted /\ a # 0
        BY <1>1, <1>2, <2>4, <3>1
      <4>2. a \notin rotated' \cup stray' /\ a # stored'
        BY <1>1, <1>3, <4>1 DEF IInv, AnswerInv, TypeOK
      <4>3. \A h \in Calls : flight[h] # None => flight[h].token # a
        BY <4>1 DEF IInv, AnswerInv
      <4>4. \A h \in Calls : h # g /\ In(h, {"exchanged"})' => flight'[h].answer # a
        BY <1>2, <3>1, <4>1 DEF IInv, AnswerInv, In
      <4> QED
        BY <1>1, <1>2, <1>7, <3>1, <4>1, <4>2, <4>3, <4>4
    <3>2. CASE g # f
      <4>1. In(g, {"exchanged"}) /\ a = flight[g].answer
        BY <1>2, <2>4, <3>2 DEF In
      <4>2. /\ a \in 1..minted /\ a \notin rotated \cup stray /\ a # stored
            /\ flight[g].token \in rotated
            /\ \A h \in Calls :
                 /\ Outstanding(h) => flight[h].token # a
                 /\ h # g /\ In(h, {"exchanged"}) => flight[h].answer # a
        BY <4>1 DEF IInv, AnswerInv
      <4>3. Outstanding(f)
        BY <1>1 DEF Outstanding, In, Phases
      <4>4. \A h \in Calls : Outstanding(h)' => flight'[h].token # a
        BY <1>7, <4>2
      <4>5. \A h \in Calls : h # g /\ In(h, {"exchanged"})' => flight'[h].answer # a
        <5>1. a # minted + 1
          BY <1>1, <4>2
        <5> QED
          BY <1>2, <4>2, <5>1 DEF In
      <4>6. a \in 1..minted' /\ a # flight[f].token /\ flight'[g] = flight[g]
        BY <1>1, <1>2, <3>2, <4>2, <4>3
      <4> QED
        BY <1>1, <4>2, <4>4, <4>5, <4>6
    <3> QED
      BY <3>1, <3>2
  <2> QED
    BY <2>1, <2>2, <2>3, <2>4 DEF AnswerInv
<1>9. SpentInv'
  <2>1. ASSUME NEW g \in Calls, g # f, In(g, {"sent", "accepted", "refused"}),
               flight[g].token = flight[f].token
        PROVE  flight[f].token \in contested
    <3>1. TabOf(g) # TabOf(f)
      BY <1>1, <2>1, SingleFlight DEF In
    <3>2. Outstanding(g) /\ Outstanding(f)
      BY <1>1, <2>1 DEF Outstanding, In, Phases
    <3> QED
      BY <1>3, <2>1, <3>1, <3>2 DEF IInv, RecordInv, Contested
  <2>2. ASSUME NEW g \in Calls, In(g, {"sent", "accepted", "refused"})', flight'[g].token \in rotated'
        PROVE  flight'[g].token \in lost' \cup contested'
    <3>1. g # f /\ In(g, {"sent", "accepted", "refused"}) /\ flight'[g] = flight[g]
      BY <1>2, <2>2 DEF In
    <3>2. contested \subseteq contested' /\ lost' = lost /\ rotated' = rotated \cup {flight[f].token}
      BY <1>1 DEF Recorded
    <3>3. flight[g].token \in rotated => flight[g].token \in lost \cup contested
      BY <3>1 DEF IInv, SpentInv
    <3> QED
      BY <2>1, <2>2, <3>1, <3>2, <3>3
  <2>3. \A g \in Calls : In(g, {"refused"})' => flight'[g].token \in rotated' \cup ended'
    BY <1>1, <1>2 DEF IInv, SpentInv, In
  <2>4. ASSUME stored' \in rotated'
        PROVE  \/ stored' \in lost' \cup contested'
               \/ \E g \in Calls : In(g, {"exchanged"})' /\ flight'[g].token = stored'
    <3>1. In(f, {"exchanged"})' /\ flight'[f].token = flight[f].token
      BY <1>2 DEF In
    <3>2. \A g \in Calls : In(g, {"exchanged"}) => In(g, {"exchanged"})' /\ flight'[g].token = flight[g].token
      BY <1>1, <1>2 DEF In
    <3> QED
      BY <1>1, <2>4, <3>1, <3>2 DEF IInv, SpentInv, Recorded
  <2> QED
    BY <2>2, <2>3, <2>4 DEF SpentInv
<1>10. RecordInv'
  <2>1. /\ Contested' \subseteq contested'
        /\ \A g \in Calls : Outstanding(g)' /\ g \notin overtaken' => g \notin overtaken
    BY DEF Recorded
  <2> QED
    BY <1>1, <1>7, <2>1 DEF IInv, RecordInv
<1>11. GrantedInv'
  <2>1. Outstanding(f) /\ \A q \in granted : q # minted + 1
    BY <1>1 DEF Outstanding, In, Phases, IInv, GrantedInv
  <2>2. \A g \in Calls : g # f /\ In(g, {"exchanged"})' => In(g, {"exchanged"}) /\ flight'[g] = flight[g]
    BY <1>2 DEF In
  <2>3. \A q \in granted : Known(q)' => Known(q)
    BY <1>1, <1>2, <1>7, <2>1, <2>2 DEF Known
  <2> QED
    BY <1>1, <2>3, GrantedKept
<1> QED
  BY <1>4, <1>5, <1>8, <1>9, <1>10, <1>11 DEF IInv

\* What giving up an answer leaves behind: the pair is lost, or may be yet.
LEMMA Abandoned ==
  ASSUME IInv, NEW f \in Calls, Outstanding(f), Abandon(f)
  PROVE  /\ lost \subseteq lost' /\ stray \subseteq stray'
         /\ lost' \subseteq rotated /\ stray' \subseteq 1..minted /\ stray' \subseteq Pairs
         /\ In(f, {"exchanged"}) => flight[f].token \in lost'
         /\ \A g \in Calls : In(g, {"exchanged"}) => flight[g].answer \notin stray'
<1>1. flight[f] # None /\ flight[f].token \in 1..minted /\ flight[f].token \in Pairs
  BY FlightType DEF Outstanding, In, IInv, AnswerInv
<1>2. In(f, {"exchanged"}) => flight[f].token \in rotated
  BY DEF IInv, AnswerInv
<1>3. lost' \in {lost, lost \cup {flight[f].token}} /\ stray' \in {stray, stray \cup {flight[f].token}}
      /\ (In(f, {"exchanged"}) => lost' = lost \cup {flight[f].token})
      /\ (~In(f, {"exchanged"}) => lost' = lost)
  BY DEF Abandon
<1>4. \A g \in Calls : In(g, {"exchanged"}) =>
        flight[g].answer \notin stray /\ flight[g].answer # flight[f].token
  BY DEF IInv, AnswerInv
<1> QED
  BY <1>1, <1>2, <1>3, <1>4 DEF IInv, AnswerInv, TypeOK

LEMMA BeUnavailableIInv ==
  ASSUME IInv, Recorded, NEW f \in Calls, BeUnavailable(f)
  PROVE  IInv'
<1>1. /\ In(f, {"sent", "accepted", "exchanged"}) /\ flight[f] # None /\ Outstanding(f)
      /\ UNCHANGED <<stored, call, slot, logouts, minted, rotated, ended, granted>>
  BY DEF BeUnavailable, In, Outstanding, Phases
<1>2. /\ flight'[f] # None /\ flight'[f].phase = "unavailable"
      /\ flight'[f].token = flight[f].token /\ flight'[f].answer = 0
      /\ \A g \in Calls \ {f} : flight'[g] = flight[g]
      /\ flight' \in [Calls -> Flight \cup {None}]
  <2>1. flight'[f] = [flight[f] EXCEPT !.phase = "unavailable", !.answer = 0]
        /\ \A g \in Calls \ {f} : flight'[g] = flight[g]
    BY DEF BeUnavailable, IInv, TypeOK
  <2>2. flight[f] \in Flight
    BY <1>1, FlightType DEF IInv
  <2>3. /\ flight'[f] \in Flight /\ flight'[f].phase = "unavailable"
        /\ flight'[f].token = flight[f].token /\ flight'[f].answer = 0
    BY <2>1, <2>2 DEF Flight, Phases
  <2>4. flight' \in [Calls -> Flight \cup {None}]
    BY <2>1, <2>3 DEF BeUnavailable, IInv, TypeOK
  <2> QED
    BY <2>1, <2>3, <2>4, NoneAssumption
<1>3. /\ lost \subseteq lost' /\ lost' \subseteq rotated
      /\ stray' \subseteq 1..minted /\ stray' \subseteq Pairs
      /\ In(f, {"exchanged"}) => flight[f].token \in lost'
      /\ \A g \in Calls : In(g, {"exchanged"}) => flight[g].answer \notin stray'
  BY <1>1, Abandoned DEF BeUnavailable
<1>4. \A g \in Calls : Outstanding(g)' =>
        Outstanding(g) /\ flight[g] # None /\ flight'[g].token = flight[g].token
  BY <1>1, <1>2 DEF Outstanding, In, Phases
<1>5. \A g \in Calls : In(g, {"exchanged"})' => g # f /\ In(g, {"exchanged"}) /\ flight'[g] = flight[g]
  BY <1>2 DEF In
<1>6. TypeOK'
  BY <1>1, <1>2, <1>3 DEF IInv, TypeOK
<1>7. SlotInv'
  BY <1>1, <1>2 DEF IInv, SlotInv
<1>8. AnswerInv'
  <2>1. \A g \in Calls : flight'[g] # None => flight'[g].token \in 1..minted'
    BY <1>1, <1>2 DEF IInv, AnswerInv
  <2>2. \A g \in Calls : In(g, {"sent", "accepted", "refused", "unavailable"})' => flight'[g].answer = 0
    BY <1>2 DEF IInv, AnswerInv, In
  <2> QED
    BY <1>1, <1>3, <1>4, <1>5, <2>1, <2>2 DEF IInv, AnswerInv
<1>9. SpentInv'
  <2>1. \A g \in Calls : In(g, {"sent", "accepted", "refused"})' =>
          In(g, {"sent", "accepted", "refused"}) /\ flight'[g] = flight[g]
    BY <1>2 DEF In
  <2>2. \A g \in Calls : In(g, {"refused"})' => In(g, {"refused"}) /\ flight'[g] = flight[g]
    BY <1>2 DEF In
  <2>3. \A g \in Calls : In(g, {"exchanged"}) /\ g # f =>
          In(g, {"exchanged"})' /\ flight'[g].token = flight[g].token
    BY <1>2 DEF In
  <2> QED
    BY <1>1, <1>3, <2>1, <2>2, <2>3 DEF IInv, SpentInv, Recorded
<1>10. RecordInv'
  <2>1. /\ Contested' \subseteq contested'
        /\ \A g \in Calls : Outstanding(g)' /\ g \notin overtaken' => g \notin overtaken
    BY DEF Recorded
  <2> QED
    BY <1>1, <1>4, <2>1 DEF IInv, RecordInv
<1>11. GrantedInv'
  <2>1. stray' \subseteq stray \cup {flight[f].token}
    BY DEF BeUnavailable, Abandon
  <2>2. \A q \in granted : Known(q)' => Known(q)
    BY <1>1, <1>4, <1>5, <2>1 DEF Known
  <2> QED
    BY <1>1, <2>2, GrantedKept
<1> QED
  BY <1>6, <1>7, <1>8, <1>9, <1>10, <1>11 DEF IInv

\* When a flight settles, those still outstanding are other tabs' and overtaken.
LEMMA Settled ==
  ASSUME IInv, Recorded, NEW f \in Calls, NEW ok \in BOOLEAN, NEW pair,
         Outstanding(f), Settle(f, ok, pair)
  PROVE  /\ stored' = pair /\ UNCHANGED <<slot, logouts, minted, rotated, ended, granted>>
         /\ call' \in [Calls -> Call] /\ flight' \in [Calls -> Flight \cup {None}]
         /\ flight'[f].phase = "settled" /\ flight'[f].token = flight[f].token
         /\ \A g \in Calls \ {f} : flight'[g] = flight[g]
         /\ \A g \in Calls : Outstanding(g)' =>
              g # f /\ Outstanding(g) /\ flight'[g] = flight[g] /\ g \in overtaken'
         /\ \A g \in Calls : In(g, {"exchanged"})' <=> g # f /\ In(g, {"exchanged"})
<1>1. /\ stored' = pair /\ UNCHANGED <<slot, logouts, minted, rotated, ended, granted>>
      /\ flight[f] # None
  BY DEF Settle, Outstanding, In
<1>2. call' \in [Calls -> Call]
  BY IdleType DEF Settle, After, Idle, IInv, TypeOK
<1>3. flight'[f] = [flight[f] EXCEPT !.phase = "settled", !.ok = ok]
      /\ \A g \in Calls \ {f} : flight'[g] = flight[g]
  BY DEF Settle, IInv, TypeOK
<1>4. /\ flight'[f] \in Flight /\ flight'[f].phase = "settled" /\ flight'[f].token = flight[f].token
  <2>1. flight[f] \in Flight
    BY <1>1, FlightType DEF IInv
  <2> QED
    BY <1>3, <2>1 DEF Flight, Phases
<1>5. flight' \in [Calls -> Flight \cup {None}]
  BY <1>3, <1>4 DEF Settle, IInv, TypeOK
<1>6. \A g \in Calls : Outstanding(g)' => g # f /\ Outstanding(g) /\ flight'[g] = flight[g]
  BY <1>3, <1>4 DEF Outstanding, In, Phases
<1>7. ASSUME NEW g \in Calls, Outstanding(g)' PROVE g \in overtaken'
  <2>1. g # f /\ Outstanding(g) /\ flight[g] # None
    BY <1>6, <1>7 DEF Outstanding, In
  <2>2. TabOf(f) # TabOf(g)
    BY <1>1, <2>1, SingleFlight
  <2>3. Overtakes(g)
    BY <1>4, <2>2 DEF Overtakes, Settles
  <2> QED
    BY <1>7, <2>1, <2>3 DEF Recorded
<1>8. \A g \in Calls : In(g, {"exchanged"})' <=> g # f /\ In(g, {"exchanged"})
  BY <1>3, <1>4 DEF In
<1> QED
  BY <1>1, <1>2, <1>3, <1>4, <1>5, <1>6, <1>7, <1>8

\* The parts of the invariant that do not depend on what a settlement stores.
LEMMA SettledFlights ==
  ASSUME IInv, Recorded, NEW f \in Calls, NEW ok \in BOOLEAN, NEW pair,
         Outstanding(f), Settle(f, ok, pair), lost \subseteq lost'
  PROVE  /\ SlotInv' /\ RecordInv'
         /\ \A g \in Calls : flight'[g] # None => flight'[g].token \in 1..minted
         /\ \A g \in Calls : In(g, {"sent", "accepted", "refused", "unavailable"})' => flight'[g].answer = 0
         /\ \A g \in Calls : In(g, {"refused"})' => flight'[g].token \in rotated' \cup ended'
         /\ \A g \in Calls : In(g, {"sent", "accepted", "refused"})' /\ flight'[g].token \in rotated' =>
              flight'[g].token \in lost' \cup contested'
<1>1. flight[f] # None
  BY DEF Outstanding, In
<1>2. SlotInv'
  BY <1>1, Settled DEF IInv, SlotInv
<1>3. RecordInv'
  BY Settled DEF RecordInv, Recorded
<1>4. \A g \in Calls : flight'[g] # None => flight'[g].token \in 1..minted
  BY <1>1, Settled DEF IInv, AnswerInv
<1>5. ASSUME NEW g \in Calls, In(g, {"sent", "accepted", "refused", "unavailable"})'
      PROVE  /\ g # f /\ flight'[g] = flight[g] /\ In(g, {"sent", "accepted", "refused", "unavailable"})
             /\ In(g, {"refused"})' => In(g, {"refused"})
             /\ In(g, {"sent", "accepted", "refused"})' => In(g, {"sent", "accepted", "refused"})
  <2>1. g # f
    BY <1>5, Settled DEF In
  <2>2. flight'[g] = flight[g]
    BY <2>1, Settled
  <2> QED
    BY <1>5, <2>1, <2>2 DEF In
<1>6. \A g \in Calls : In(g, {"refused"})' \/ In(g, {"sent", "accepted", "refused"})' =>
        In(g, {"sent", "accepted", "refused", "unavailable"})'
  BY DEF In
<1>7. contested \subseteq contested' /\ UNCHANGED <<rotated, ended>>
  BY Settled DEF Recorded
<1> QED
  BY <1>2, <1>3, <1>4, <1>5, <1>6, <1>7 DEF IInv, AnswerInv, SpentInv

\* A new pair is stored before anyone can have presented it.
LEMMA ReceiveIInv ==
  ASSUME IInv, Recorded, NEW f \in Calls, Receive(f)
  PROVE  IInv'
<1>1. PICK ok, pair : ok \in BOOLEAN /\ Settle(f, ok, pair) /\ pair = flight[f].answer
  BY DEF Receive
<1>2. /\ In(f, {"exchanged"}) \/ In(f, {"refused", "unavailable"})
      /\ Outstanding(f) /\ UNCHANGED <<stray, lost>>
  BY DEF Receive, Outstanding, In, Phases
<1>3. /\ pair \in 0..minted /\ pair \notin rotated
      /\ \A g \in Calls : g # f /\ In(g, {"exchanged"}) => flight[g].answer # pair
  <2>1. CASE In(f, {"exchanged"})
    BY <1>1, <2>1 DEF IInv, AnswerInv
  <2>2. CASE In(f, {"refused", "unavailable"})
    <3>1. pair = 0
      BY <1>1, <2>2 DEF IInv, AnswerInv, In
    <3>2. minted \in Nat
      BY ParametersAssumption DEF IInv, TypeOK
    <3> QED
      BY <3>1, <3>2 DEF IInv, AnswerInv
  <2> QED
    BY <1>2, <2>1, <2>2
<1>4. lost \subseteq lost'
  BY <1>2
<1>5. TypeOK'
  <2>1. /\ stored' = pair /\ UNCHANGED <<slot, logouts, minted, rotated, ended, granted>>
        /\ call' \in [Calls -> Call] /\ flight' \in [Calls -> Flight \cup {None}]
    BY <1>1, <1>2, Settled
  <2> QED
    BY <1>2, <1>3, <2>1 DEF IInv, TypeOK
<1>6. AnswerInv'
  <2>1. \A g \in Calls : In(g, {"exchanged"})' =>
          g # f /\ In(g, {"exchanged"}) /\ flight'[g] = flight[g]
    BY <1>1, <1>2, Settled
  <2>2. \A g \in Calls : Outstanding(g)' => Outstanding(g) /\ flight'[g] = flight[g]
    BY <1>1, <1>2, Settled
  <2>3. stored' = pair /\ UNCHANGED <<minted, rotated, stray>>
    BY <1>1, <1>2, Settled
  <2>4. /\ \A g \in Calls : flight'[g] # None => flight'[g].token \in 1..minted
        /\ \A g \in Calls : In(g, {"sent", "accepted", "refused", "unavailable"})' => flight'[g].answer = 0
    BY <1>1, <1>2, <1>4, SettledFlights
  <2> QED
    BY <1>3, <2>1, <2>2, <2>3, <2>4 DEF IInv, AnswerInv
<1>7. SpentInv'
  <2>1. stored' \notin rotated'
    BY <1>1, <1>2, <1>3, Settled
  <2> QED
    BY <1>1, <1>2, <1>4, <2>1, SettledFlights DEF SpentInv
<1>8. GrantedInv'
  <2>1. \A g \in Calls : In(g, {"exchanged"})' => In(g, {"exchanged"}) /\ flight'[g] = flight[g]
    <3>1. \A g \in Calls : In(g, {"exchanged"})' => g # f /\ In(g, {"exchanged"})
      BY <1>1, <1>2, Settled
    <3> QED
      BY <1>1, <1>2, <3>1, Settled
  <2>2. \A g \in Calls : Outstanding(g)' => Outstanding(g) /\ flight'[g] = flight[g]
    BY <1>1, <1>2, Settled
  <2>3. stored' = pair /\ UNCHANGED <<minted, rotated, stray, granted>>
    BY <1>1, <1>2, Settled
  <2>4. \A q \in granted : q = pair => Known(q)
    <3>1. \A q \in granted : q # 0
      BY DEF IInv, GrantedInv
    <3>2. pair = 0 \/ In(f, {"exchanged"})
      BY <1>1, <1>2 DEF IInv, AnswerInv, In
    <3> QED
      BY <1>1, <3>1, <3>2 DEF Known
  <2>5. \A q \in granted : Known(q)' => Known(q)
    BY <2>1, <2>2, <2>3, <2>4 DEF Known
  <2> QED
    BY <2>3, <2>5, GrantedKept
<1> QED
  BY <1>1, <1>2, <1>4, <1>5, <1>6, <1>7, <1>8, SettledFlights DEF IInv

LEMMA FailIInv ==
  ASSUME IInv, Recorded, NEW f \in Calls, Fail(f)
  PROVE  IInv'
<1>1. Outstanding(f) /\ Settle(f, FALSE, stored) /\ Abandon(f)
  BY DEF Fail, Kept
<1>2. /\ lost \subseteq lost' /\ lost' \subseteq rotated
      /\ stray' \subseteq 1..minted /\ stray' \subseteq Pairs
      /\ In(f, {"exchanged"}) => flight[f].token \in lost'
      /\ \A g \in Calls : In(g, {"exchanged"}) => flight[g].answer \notin stray'
  BY <1>1, Abandoned
<1>3. stored' = stored /\ UNCHANGED <<slot, logouts, minted, rotated, ended, granted>>
  BY <1>1, Settled
<1>4. TypeOK'
  BY <1>1, <1>2, <1>3, Settled DEF IInv, TypeOK
<1>5. AnswerInv'
  <2>1. \A g \in Calls : In(g, {"exchanged"})' =>
          g # f /\ In(g, {"exchanged"}) /\ flight'[g] = flight[g]
    BY <1>1, Settled
  <2>2. \A g \in Calls : Outstanding(g)' => Outstanding(g) /\ flight'[g] = flight[g]
    BY <1>1, Settled
  <2> QED
    BY <1>1, <1>2, <1>3, <2>1, <2>2, SettledFlights DEF IInv, AnswerInv
<1>6. SpentInv'
  <2>1. \A g \in Calls : g # f /\ In(g, {"exchanged"}) =>
          In(g, {"exchanged"})' /\ flight'[g].token = flight[g].token
    BY <1>1, Settled
  <2>2. contested \subseteq contested'
    BY DEF Recorded
  <2>3. stored \in rotated =>
          \/ stored \in lost' \cup contested'
          \/ \E g \in Calls : In(g, {"exchanged"})' /\ flight'[g].token = stored
    BY <1>2, <2>1, <2>2 DEF IInv, SpentInv
  <2> QED
    BY <1>1, <1>2, <1>3, <2>3, SettledFlights DEF SpentInv
<1>7. GrantedInv'
  <2>1. stray' \subseteq stray \cup {flight[f].token}
    BY <1>1 DEF Abandon
  <2>2. \A g \in Calls : In(g, {"exchanged"})' => In(g, {"exchanged"}) /\ flight'[g] = flight[g]
    <3>1. \A g \in Calls : In(g, {"exchanged"})' => g # f /\ In(g, {"exchanged"})
      BY <1>1, Settled
    <3> QED
      BY <1>1, <3>1, Settled
  <2>3. \A g \in Calls : Outstanding(g)' => Outstanding(g) /\ flight'[g] = flight[g]
    BY <1>1, Settled
  <2>4. \A q \in granted : Known(q)' => Known(q)
    BY <1>1, <1>3, <2>1, <2>2, <2>3 DEF Known
  <2> QED
    BY <1>3, <2>4, GrantedKept
<1> QED
  BY <1>1, <1>2, <1>4, <1>5, <1>6, <1>7, SettledFlights DEF IInv

\* A slot given back is the flight's own, so the others keep theirs.
LEMMA EndGraceIInv ==
  ASSUME IInv, Recorded, NEW f \in Calls, EndGrace(f)
  PROVE  IInv'
<1>1. /\ In(f, {"settled"}) /\ UNCHANGED <<stored, call, logouts, minted, rotated, ended, stray, lost, granted>>
      /\ flight'[f] = None /\ \A g \in Calls \ {f} : flight'[g] = flight[g]
      /\ flight' \in [Calls -> Flight \cup {None}]
      /\ slot' \in [Tabs -> Calls \cup {None}]
      /\ \A t \in Tabs : slot'[t] = IF slot[t] = f THEN None ELSE slot[t]
  BY DEF EndGrace, server, IInv, TypeOK
<1>2. TypeOK'
  BY <1>1 DEF IInv, TypeOK
<1>3. SlotInv'
  BY <1>1, TabOfCall DEF IInv, SlotInv
<1>4. \A g \in Calls : Outstanding(g)' => Outstanding(g) /\ flight'[g] = flight[g]
  BY <1>1 DEF Outstanding, In
<1>5. AnswerInv'
  <2>1. \A g \in Calls : In(g, {"exchanged"})' => In(g, {"exchanged"}) /\ flight'[g] = flight[g]
    BY <1>1 DEF In
  <2>2. \A g \in Calls : In(g, {"sent", "accepted", "refused", "unavailable"})' => flight'[g].answer = 0
    BY <1>1 DEF IInv, AnswerInv, In
  <2>3. \A g \in Calls : flight'[g] # None => flight'[g].token \in 1..minted'
    BY <1>1 DEF IInv, AnswerInv
  <2> QED
    BY <1>1, <1>4, <2>1, <2>2, <2>3 DEF IInv, AnswerInv
<1>6. SpentInv'
  <2>1. \A g \in Calls : In(g, {"sent", "accepted", "refused"})' =>
          In(g, {"sent", "accepted", "refused"}) /\ flight'[g] = flight[g]
    BY <1>1 DEF In
  <2>2. \A g \in Calls : In(g, {"refused"})' => In(g, {"refused"}) /\ flight'[g] = flight[g]
    BY <1>1 DEF In
  <2>3. \A g \in Calls : In(g, {"exchanged"}) =>
          In(g, {"exchanged"})' /\ flight'[g].token = flight[g].token
    BY <1>1 DEF In
  <2> QED
    BY <1>1, <2>1, <2>2, <2>3 DEF IInv, SpentInv, Recorded
<1>7. RecordInv'
  <2>1. /\ Contested' \subseteq contested'
        /\ \A g \in Calls : Outstanding(g)' /\ g \notin overtaken' => g \notin overtaken
    BY DEF Recorded
  <2> QED
    BY <1>1, <1>4, <2>1 DEF IInv, RecordInv
<1>8. GrantedInv'
  <2>1. \A g \in Calls : In(g, {"exchanged"})' => In(g, {"exchanged"}) /\ flight'[g] = flight[g]
    BY <1>1 DEF In
  <2>2. \A q \in granted : Known(q)' => Known(q)
    BY <1>1, <1>4, <2>1 DEF Known
  <2> QED
    BY <1>1, <2>2, GrantedKept
<1> QED
  BY <1>2, <1>3, <1>5, <1>6, <1>7, <1>8 DEF IInv

-----------------------------------------------------------------------------
(***************************************************************************)
(* The theorems.                                                           *)
(***************************************************************************)

\* The invariant behind the theorems below, for any number of tabs and calls
\* (client.ts: attemptRefresh, the token store): an answer on its way is known
\* only to its flight, and a stored pair that was exchanged is lost, contested,
\* or about to be replaced.
THEOREM Invariance == HistorySpec => []IInv
<1>1. HistoryInit => IInv
  BY InitIInv
<1>2. IInv /\ [HistoryNext]_historyVars => IInv'
  <2>1. ASSUME IInv, HistoryNext PROVE IInv'
    <3>1. Recorded /\ Next
      BY <2>1, StepIsRecorded DEF HistoryNext
    <3>2. ASSUME NEW p \in Pairs, Login(p) \/ EndSession(p) \/ ExchangeStray(p) PROVE IInv'
      BY <2>1, <3>1, <3>2, LoginIInv, EndSessionIInv, ExchangeStrayIInv
    <3>3. ASSUME NEW c \in Calls, Send(c) \/ Answered(c) PROVE IInv'
      BY <2>1, <3>1, <3>3, CallIInv, StartIInv DEF Answered
    <3>4. ASSUME NEW c \in Calls, FlightStep(c) \/ EndGrace(c) PROVE IInv'
      BY <2>1, <3>1, <3>4, ServerStepIInv, ExchangeIInv, BeUnavailableIInv, ReceiveIInv, FailIInv,
         EndGraceIInv
      DEF FlightStep
    <3> QED
      BY <2>1, <3>1, <3>2, <3>3, <3>4, GrantIInv, LogoutIInv DEF Next
  <2>2. ASSUME IInv, UNCHANGED historyVars PROVE IInv'
    <3>1. UNCHANGED <<stored, call, flight, slot, logouts, minted, rotated, ended, stray, lost,
                      granted, contested, overtaken>>
      BY <2>2 DEF historyVars, vars, history, client, server
    <3>2. TypeOK' /\ SlotInv'
      BY <2>2, <3>1 DEF IInv, TypeOK, SlotInv
    <3>3. AnswerInv' /\ SpentInv'
      BY <2>2, <3>1 DEF IInv, AnswerInv, SpentInv, In, Outstanding
    <3>4. RecordInv'
      BY <2>2, <3>1 DEF IInv, RecordInv, Contested, In, Outstanding
    <3>5. GrantedInv'
      BY <2>2, <3>1, GrantedKept DEF Known, In, Outstanding
    <3> QED
      BY <3>2, <3>3, <3>4, <3>5 DEF IInv
  <2> QED
    BY <2>1, <2>2
<1> QED
  BY <1>1, <1>2, PTL DEF HistorySpec

\* Every pair the client stores or presents has been minted, and only exchanged
\* pairs are lost.
THEOREM TypeCorrectness == HistorySpec => []TypeOK
<1>1. IInv => TypeOK
  BY DEF IInv
<1> QED
  BY <1>1, Invariance, PTL

\* client.ts, attemptRefresh: a refresh is refused only because its session has
\* ended, an answer got lost or two tabs presented the token at once, however
\* many calls and tabs run into a 401 together.
THEOREM Refusals == HistorySpec => []RefusedOnlyIfOver
<1>1. IInv => RefusedOnlyIfOver
  <2> SUFFICES ASSUME IInv, NEW f \in Calls, In(f, {"refused"})
               PROVE  flight[f].token \in ended \cup lost \cup contested
    BY DEF RefusedOnlyIfOver
  <2>1. In(f, {"sent", "accepted", "refused"})
    BY DEF In
  <2> QED
    BY <2>1 DEF IInv, SpentInv
<1> QED
  BY <1>1, Invariance, PTL

\* A step that changes the store is a login, a sign-out, or settles a flight with
\* an answer, whose pair is 0 if it is not the one the server has minted.
LEMMA StoreChanges ==
  ASSUME IInv, HistoryNext, stored' # stored
  PROVE  \/ stored' \in granted /\ stored' # 0
         \/ logouts' # logouts /\ stored' = 0
         \/ \E f \in Calls :
              /\ Settles(f) /\ (f \in overtaken \/ flight[f].token = stored)
              /\ (f \in overtaken \/ stored # 0)
              /\ stored' = 0 => In(f, {"refused", "unavailable"})
<1>1. Recorded /\ Next
  BY StepIsRecorded DEF HistoryNext
<1>2. ASSUME NEW p \in Pairs, Login(p) PROVE stored' \in granted /\ stored' # 0
  BY <1>2 DEF Login, IInv, GrantedInv
<1>3. CASE Logout
  BY <1>3, ParametersAssumption DEF Logout, IInv, TypeOK
<1>4. ASSUME NEW f \in Calls, Receive(f)
      PROVE  /\ Settles(f) /\ (f \in overtaken \/ flight[f].token = stored)
             /\ (f \in overtaken \/ stored # 0)
             /\ stored' = 0 => In(f, {"refused", "unavailable"})
  <2> PICK ok, pair : ok = (flight[f].phase = "exchanged") /\ pair = flight[f].answer
    OBVIOUS
  <2>1. /\ ok \in BOOLEAN /\ Settle(f, ok, pair)
        /\ In(f, {"exchanged"}) \/ In(f, {"refused", "unavailable"})
    BY <1>4 DEF Receive, In
  <2>2. Outstanding(f) /\ flight[f] # None
    BY <2>1 DEF Outstanding, In, Phases
  <2>3. stored' = pair /\ flight'[f].phase = "settled"
    BY <1>1, <2>1, <2>2, Settled
  <2>4. In(f, {"exchanged"}) => pair # 0
    BY DEF IInv, AnswerInv
  <2>5. f \notin overtaken => flight[f].token = stored /\ stored # 0
    BY <2>2 DEF IInv, RecordInv, AnswerInv
  <2> QED
    BY <2>1, <2>2, <2>3, <2>4, <2>5 DEF Settles
<1>5. ASSUME NEW f \in Calls, Fail(f) PROVE FALSE
  BY <1>5 DEF Fail, Settle, Kept
<1>6. ASSUME Grant \/ \E p \in Pairs : EndSession(p) \/ ExchangeStray(p) PROVE FALSE
  BY <1>6 DEF Grant, EndSession, ExchangeStray, client
<1>7. ASSUME NEW c \in Calls,
             \/ Send(c) \/ Finish(c) \/ Join(c) \/ Start(c) \/ GiveUp(c) \/ Accept(c)
             \/ Exchange(c) \/ Refuse(c) \/ BeUnavailable(c) \/ EndGrace(c)
      PROVE  FALSE
  BY <1>7 DEF Send, Finish, Join, Start, GiveUp, Accept, Exchange, Refuse, BeUnavailable, EndGrace
<1>8. (\E p \in Pairs : Login(p)) \/ Logout \/ \E f \in Calls : Receive(f)
  BY <1>1, <1>5, <1>6, <1>7 DEF Next, Answered, FlightStep
<1> QED
  BY <1>2, <1>3, <1>4, <1>8

\* client.ts, the branches of attemptRefresh that clear the store: it is emptied
\* by a sign-out, by an answer other than 2xx to a refresh of the pair it holds,
\* or by an answer that a sign-out, a sign-in over that pair or another tab has
\* overtaken; never by a network error.
THEOREM Discards == HistorySpec => DiscardsOnlyRefused
<1>1. ASSUME IInv, HistoryNext, stored # 0, stored' = 0
      PROVE  \/ logouts' # logouts
             \/ \E f \in Calls : /\ Settles(f)
                                  /\ (f \in overtaken \/ flight[f].token = stored)
                                  /\ In(f, {"refused", "unavailable"})
  BY <1>1, StoreChanges
<1>2. IInv /\ [HistoryNext]_historyVars =>
        [stored # 0 /\ stored' = 0 =>
           \/ logouts' # logouts
           \/ \E f \in Calls : /\ Settles(f)
                                /\ (f \in overtaken \/ flight[f].token = stored)
                                /\ In(f, {"refused", "unavailable"})]_historyVars
  BY <1>1
<1> QED
  BY <1>2, Invariance, PTL DEF HistorySpec, DiscardsOnlyRefused

\* attemptRefresh, the branch that stores: an empty store is filled by a login, or
\* by an answer that what has emptied the store has overtaken, a sign-out or
\* another tab: two answers of one tab never cross.
THEOREM Fillings == HistorySpec => SignedOutUnlessOvertaken
<1>1. ASSUME IInv, HistoryNext, stored = 0, stored' # 0
      PROVE  stored' \in granted \/ \E f \in overtaken : Settles(f)
  BY <1>1, StoreChanges
<1>2. IInv /\ [HistoryNext]_historyVars =>
        [stored = 0 /\ stored' # 0 =>
           stored' \in granted \/ \E f \in overtaken : Settles(f)]_historyVars
  BY <1>1
<1> QED
  BY <1>2, Invariance, PTL DEF HistorySpec, SignedOutUnlessOvertaken
=============================================================================
