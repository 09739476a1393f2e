----------------------- MODULE RevocationLedgerProofs -----------------------
(***************************************************************************)
(* Type correctness of RevocationLedger, and the two facts administrators  *)
(* rely on, for any number of targets, requests, handlers and retries:     *)
(* stored ledgers validate, and acknowledged transitions are never lost.   *)
(***************************************************************************)
EXTENDS RevocationLedger, TLAPS, SequenceTheorems

-----------------------------------------------------------------------------
(* Types of the operators the actions are built from.                      *)

\* The digests of a request are in their types.
LEMMA HashTypes ==
  ASSUME NEW r \in Requests
  PROVE  /\ r \in Request
         /\ IdempotencyHash(r) \in IdemHashes
         /\ RequestHash(r) \in RequestHashes
BY LedgerConstants DEF IdemHashes, RequestHashes

\* The hash of an event is a list of contents.
LEMMA EventHashType ==
  ASSUME NEW e \in Event
  PROVE  EventHash(e) \in Seq(EventContent)
<1>1. Content(e) \in EventContent
  BY DEF Event, Content, EventContent
<1>2. e.previous_hash \in Seq(EventContent)
  BY DEF Event
<1> QED
  BY <1>1, <1>2, AppendProperties DEF EventHash

\* The last event of a ledger that is not empty is an event.
LEMMA LastEvent ==
  ASSUME NEW events \in Seq(Event), events # <<>>
  PROVE  /\ Len(events) \in Nat /\ Len(events) > 0
         /\ events[Len(events)] \in Event
OBVIOUS

\* RevocationEvent::new builds an event.
LEMMA NewEventType ==
  ASSUME NEW r \in Requests, NEW now \in Nat, NEW events \in Seq(Event)
  PROVE  NewEvent(r, now, events) \in Event
<1>1. Generation(events) \in Nat
  BY LastEvent DEF Generation, Event
<1>2. (IF events = <<>> THEN NoHash ELSE EventHash(events[Len(events)]))
        \in Seq(EventContent)
  BY LastEvent, EventHashType DEF NoHash
<1>3. /\ r.action \in {"revoke", "lift"} /\ r.target \in Targets
      /\ (IF r.action = "revoke" THEN r.expires_at ELSE 0) \in Nat
  BY HashTypes DEF Request
<1> HIDE DEF Request, EventContent
<1>4. Generation(events) + 1 \in Nat
  BY <1>1
<1> QED
  BY <1>2, <1>3, <1>4, HashTypes DEF NewEvent, Event

\* A ledger with a new event is a ledger.
LEMMA AppendedType ==
  ASSUME NEW r \in Requests, NEW now \in Nat, NEW events \in Seq(Event)
  PROVE  Appended(r, now, events) \in Seq(Event)
BY NewEventType, AppendProperties DEF Appended

\* Times are natural numbers.
LEMMA TimeNat == Time \subseteq Nat /\ HostTime \subseteq Time
BY LedgerConstants DEF Time, HostTime

\* latest_expiry is a time.
LEMMA LatestExpiryType ==
  ASSUME NEW events \in Seq(Event), NEW n \in 0 .. Len(events)
  PROVE  LatestExpiry(events, n) \in Nat
<1>1. CASE n = 0
  BY <1>1 DEF LatestExpiry
<1>2. CASE n > 0
  <2>1. events[n] \in Event
    BY <1>2
  <2>2. n > 1 => events[n - 1] \in Event
    BY <1>2
  <2>3. n # 0
    BY <1>2
  <2> QED
    BY <2>1, <2>2, <2>3, <1>2 DEF LatestExpiry, Event
<1> QED
  BY <1>1, <1>2

\* The answer to the write itself is an answer.
LEMMA SnapshotType ==
  ASSUME NEW r \in Requests, NEW now \in Nat, NEW events \in Seq(Event)
  PROVE  Snapshot(r, events, now) \in Ack
<1>1. Generation(events) \in Nat
  BY LastEvent DEF Generation, Event
<1>2. Status(events, now) \in {"active", "lifted", "pending", "expired"}
  BY DEF Status
<1>3. LatestExpiry(events, Len(events)) \in Nat
  BY LatestExpiryType
<1>4. r.target \in Targets
  BY HashTypes DEF Request
<1> QED
  BY <1>1, <1>2, <1>3, <1>4, HashTypes DEF Snapshot, Ack

\* The answer replay_snapshot gives is an answer.
LEMMA ReplayType ==
  ASSUME NEW r \in Requests, NEW events \in Seq(Event), NEW i \in Matching(r, events)
  PROVE  ReplaySnapshot(r, events, i) \in Ack
<1>1. i \in 1 .. Len(events) /\ events[i] \in Event
  BY DEF Matching
<1>2. LatestExpiry(events, i) \in Nat
  BY <1>1, LatestExpiryType
<1>3. r.target \in Targets
  BY HashTypes DEF Request
<1>4. events[i].sequence \in Nat
  BY <1>1 DEF Event
<1> QED
  BY <1>2, <1>3, <1>4, HashTypes DEF ReplaySnapshot, Ack

\* The results of the loop body are outcomes, or "replay", or "append".
LEMMA LoadResultType ==
  ASSUME NEW r, NEW now, NEW stored
  PROVE  LoadResult(r, now, stored) \in OutcomeKinds \union {"replay", "append"}
<1>1. AppendResult(r, now, stored.events) \in OutcomeKinds \union {"append"}
  BY DEF AppendResult, OutcomeKinds
<1> QED
  BY <1>1 DEF LoadResult, OutcomeKinds

-----------------------------------------------------------------------------
(* Type correctness.                                                       *)

\* What KV does with a typed PUT keeps the types of KV and of the checks.
LEMMA KvPutType ==
  ASSUME TypeOK, NEW p \in puts, KvPut(p)
  PROVE  /\ revision' \in Nat
         /\ kv' \in [Targets -> [revision: 0 .. revision', events: Seq(Event)]]
         /\ checks' \in [Checkers -> {IdleCheck} \union RunningCheck]
<1>1. p \in Put /\ p.target \in Targets /\ p.events \in Seq(Event)
  BY DEF TypeOK, Put
<1>2. CASE ~Cas(p)
  BY <1>2 DEF KvPut, TypeOK
<1>3. CASE Cas(p)
  <2>1. revision' = revision + 1 /\ revision \in Nat
    BY <1>3 DEF KvPut, TypeOK
  <2>2. kv' \in [Targets -> [revision: 0 .. revision', events: Seq(Event)]]
    <3>1. kv' = [kv EXCEPT ![p.target] = [revision |-> revision + 1, events |-> p.events]]
      BY <1>3 DEF KvPut
    <3>2. 0 .. revision \subseteq 0 .. revision + 1 /\ revision + 1 \in 0 .. revision + 1
      BY <2>1
    <3>3. kv \in [Targets -> [revision: 0 .. revision + 1, events: Seq(Event)]]
      BY <3>2 DEF TypeOK
    <3>4. [revision |-> revision + 1, events |-> p.events]
            \in [revision: 0 .. revision + 1, events: Seq(Event)]
      BY <1>1, <3>2
    <3> QED
      BY <1>1, <2>1, <3>1, <3>3, <3>4
  <2>3. checks' = Observed(kv')
    BY <1>3 DEF KvPut
  <2>4. ASSUME NEW c \in Checkers
        PROVE  Observed(kv')[c] \in {IdleCheck} \union RunningCheck
    <3>1. checks[c] \in {IdleCheck} \union RunningCheck
      BY DEF TypeOK
    <3>2. CASE checks[c].pc \in {"token", "subject"}
      <4>1. checks[c] \in RunningCheck
        BY <3>1, <3>2 DEF IdleCheck
      <4> QED
        BY <4>1, <3>2 DEF Observed, RunningCheck
    <3>3. CASE checks[c].pc \notin {"token", "subject"}
      BY <3>1, <3>3 DEF Observed
    <3> QED
      BY <3>2, <3>3
  <2>5. Observed(kv') \in [Checkers -> {IdleCheck} \union RunningCheck]
    BY <2>4 DEF Observed
  <2> QED
    BY <2>1, <2>2, <2>3, <2>5
<1> QED
  BY <1>2, <1>3

\* Answering frees the slot and reports an outcome.
LEMMA AnswerType ==
  ASSUME TypeOK, NEW w \in Tasks, tasks[w] \in RunningTask,
         NEW kind \in OutcomeKinds, Answer(w, kind)
  PROVE  /\ tasks' \in [Tasks -> {IdleTask} \union RunningTask]
         /\ outcome' \in [kind: OutcomeKinds, retried: BOOLEAN, competing: Int]
<1>1. tasks[w].request \in Requests /\ tasks[w].retried \in BOOLEAN /\ tasks[w].began \in Nat
  BY DEF RunningTask
<1>2. tasks[w].request.target \in Targets
  BY <1>1, HashTypes DEF Request
<1>3. Len(kv[tasks[w].request.target].events) \in Nat
  BY <1>2 DEF TypeOK
<1>d. \A m, n \in Nat : m - n \in Int
  OBVIOUS
<1>4. Len(kv[tasks[w].request.target].events) - tasks[w].began \in Int
  BY <1>1, <1>3, <1>d, Zenon
<1> QED
  BY <1>1, <1>4 DEF Answer, TypeOK

\* A slot that is not idle runs a handler.
LEMMA RunningSlot ==
  ASSUME TypeOK, NEW w \in Tasks, tasks[w].pc \in {"load", "put"}
  PROVE  /\ tasks[w] \in RunningTask
         /\ tasks[w].request \in Requests
         /\ tasks[w].now \in Nat
         /\ kv[tasks[w].request.target] \in [revision: Nat, events: Seq(Event)]
<1>1. tasks[w] \in RunningTask
  BY DEF TypeOK, IdleTask
<1>2. tasks[w].request \in Requests /\ tasks[w].now \in Nat
  BY <1>1, TimeNat DEF RunningTask
<1>3. tasks[w].request.target \in Targets
  BY <1>2, HashTypes DEF Request
<1>4. revision \in Nat /\ 0 .. revision \subseteq Nat
  BY DEF TypeOK
<1> QED
  BY <1>1, <1>2, <1>3, <1>4 DEF TypeOK

\* The types hold initially.
LEMMA InitType == Init => TypeOK
<1> SUFFICES ASSUME Init PROVE TypeOK
  OBVIOUS
<1>1. <<>> \in Seq(Event)
  OBVIOUS
<1>2. 0 \in 0 .. MaxTime
  BY LedgerConstants
<1>3. outcome \in [kind: OutcomeKinds, retried: BOOLEAN, competing: Int]
  BY DEF Init, NoOutcome, OutcomeKinds
<1>4. kv \in [Targets -> [revision: 0 .. revision, events: Seq(Event)]]
  BY <1>1 DEF Init
<1> QED
  BY <1>2, <1>3, <1>4 DEF Init, TypeOK

\* Every step keeps the types.
LEMMA TypeStep == TypeOK /\ [Next]_vars => TypeOK'
<1> SUFFICES ASSUME TypeOK, [Next]_vars PROVE TypeOK'
  OBVIOUS
<1>n. NoOutcome \in [kind: OutcomeKinds, retried: BOOLEAN, competing: Int]
  BY DEF NoOutcome, OutcomeKinds
<1>1. ASSUME NEW w \in Tasks, NEW r \in Requests, NEW now \in HostTime, Begin(w, r, now)
      PROVE  TypeOK'
  <2>1. r.target \in Targets /\ now \in Time
    BY HashTypes, TimeNat DEF Request
  <2>2. Len(kv[r.target].events) \in Nat
    BY <2>1 DEF TypeOK
  <2>3. Acked(r) \in BOOLEAN
    BY DEF Acked
  <2>4. [pc |-> "load", request |-> r, now |-> now, attempts |-> 0,
         retried |-> Acked(r), began |-> Len(kv[r.target].events)] \in RunningTask
    BY <2>1, <2>2, <2>3 DEF RunningTask
  <2> QED
    BY <1>1, <2>4, <1>n DEF Begin, TypeOK
<1>2. ASSUME NEW w \in Tasks, NEW r \in Requests, NEW now \in HostTime, Refuse(w, r, now)
      PROVE  TypeOK'
  <2>1. Acked(r) \in BOOLEAN
    BY DEF Acked
  <2>2. outcome' \in [kind: OutcomeKinds, retried: BOOLEAN, competing: Int]
    BY <1>2, <2>1 DEF Refuse, OutcomeKinds
  <2> QED
    BY <1>2, <2>2 DEF Refuse, TypeOK
<1>3. ASSUME NEW w \in Tasks, LoadReplays(w) PROVE TypeOK'
  <2>1. /\ tasks[w] \in RunningTask /\ tasks[w].request \in Requests
        /\ kv[tasks[w].request.target].events \in Seq(Event)
    BY <1>3, RunningSlot DEF LoadReplays
  <2>2. "ok" \in OutcomeKinds
    BY DEF OutcomeKinds
  <2>3. acks' \subseteq Ack
    BY <1>3, <2>1, ReplayType DEF LoadReplays, TypeOK
  <2> QED
    BY <1>3, <2>1, <2>2, <2>3, AnswerType DEF LoadReplays, TypeOK
<1>4. ASSUME NEW w \in Tasks, LoadFails(w) PROVE TypeOK'
  <2>1. tasks[w] \in RunningTask
    BY <1>4, RunningSlot DEF LoadFails
  <2>2. PICK result \in OutcomeKinds : Answer(w, result)
    BY <1>4, LoadResultType DEF LoadFails
  <2> QED
    BY <1>4, <2>1, <2>2, AnswerType DEF LoadFails, TypeOK
<1>5. ASSUME NEW w \in Tasks, LoadAppends(w) PROVE TypeOK'
  <2> DEFINE r == tasks[w].request
             stored == kv[r.target]
  <2>1. /\ tasks[w] \in RunningTask /\ r \in Requests /\ tasks[w].now \in Nat
        /\ stored \in [revision: Nat, events: Seq(Event)]
    BY <1>5, RunningSlot DEF LoadAppends
  <2>2. Appended(r, tasks[w].now, stored.events) \in Seq(Event)
    BY <2>1, AppendedType
  <2>3. r.target \in Targets
    BY <2>1, HashTypes DEF Request
  <2>4. [owner |-> w, target |-> r.target, prev_revision |-> stored.revision,
         events |-> Appended(r, tasks[w].now, stored.events)] \in Put
    BY <2>1, <2>2, <2>3 DEF Put
  <2>5. puts' \subseteq Put
    BY <1>5, <2>4 DEF LoadAppends, TypeOK
  <2>6. tasks' \in [Tasks -> {IdleTask} \union RunningTask]
    BY <1>5, <2>1 DEF LoadAppends, TypeOK, RunningTask
  <2> QED
    BY <1>5, <2>5, <2>6, <1>n DEF LoadAppends, TypeOK
<1>6. ASSUME NEW w \in Tasks, NEW p \in puts, PutApplied(w, p) PROVE TypeOK'
  <2>1. /\ tasks[w] \in RunningTask /\ tasks[w].request \in Requests
        /\ tasks[w].now \in Nat
    BY <1>6, RunningSlot DEF PutApplied
  <2>2. p.events \in Seq(Event)
    BY DEF TypeOK, Put
  <2>3. acks' \subseteq Ack
    BY <1>6, <2>1, <2>2, SnapshotType DEF PutApplied, TypeOK
  <2>4. "ok" \in OutcomeKinds
    BY DEF OutcomeKinds
  <2> QED
    BY <1>6, <2>1, <2>3, <2>4, KvPutType, AnswerType DEF PutApplied, TypeOK
<1>7. ASSUME NEW w \in Tasks, NEW p \in puts, PutMismatch(w, p) PROVE TypeOK'
  <2>1. tasks[w] \in RunningTask
    BY <1>7, RunningSlot DEF PutMismatch
  <2>2. "cas_exhausted" \in OutcomeKinds
    BY DEF OutcomeKinds
  <2>3. /\ tasks' \in [Tasks -> {IdleTask} \union RunningTask]
        /\ outcome' \in [kind: OutcomeKinds, retried: BOOLEAN, competing: Int]
    <3>1. CASE tasks[w].attempts + 1 < MAX_CAS_RETRIES
      BY <1>7, <2>1, <3>1, <1>n DEF PutMismatch, TypeOK, RunningTask
    <3>2. CASE ~(tasks[w].attempts + 1 < MAX_CAS_RETRIES)
      BY <1>7, <2>1, <2>2, <3>2, AnswerType DEF PutMismatch
    <3> QED
      BY <3>1, <3>2
  <2> QED
    BY <1>7, <2>3, KvPutType DEF PutMismatch, TypeOK
<1>8. ASSUME NEW w \in Tasks, Abandon(w) PROVE TypeOK'
  <2>1. tasks[w] \in RunningTask
    BY <1>8, RunningSlot DEF Abandon
  <2>2. "unavailable" \in OutcomeKinds
    BY DEF OutcomeKinds
  <2>3. \A p \in Put : [p EXCEPT !.owner = Nobody] \in Put
    BY DEF Put
  <2>4. puts' \subseteq Put
    BY <1>8, <2>3 DEF Abandon, TypeOK
  <2> QED
    BY <1>8, <2>1, <2>2, <2>4, AnswerType DEF Abandon, TypeOK
<1>9. ASSUME NEW p \in puts, LatePut(p) PROVE TypeOK'
  BY <1>9, <1>n, KvPutType DEF LatePut, TypeOK
<1>10. ASSUME NEW c \in Checkers, NEW now \in HostTime, BeginCheck(c, now) PROVE TypeOK'
  <2>1. now \in Time
    BY TimeNat
  <2>2. checks' \in [Checkers -> {IdleCheck} \union RunningCheck]
    BY <1>10, <2>1 DEF BeginCheck, TypeOK, RunningCheck
  <2> QED
    BY <1>10, <2>2, <1>n DEF BeginCheck, TypeOK
<1>11. ASSUME NEW c \in Checkers, NEW t \in Targets, NEW clear \in {"subject", "clear"},
              checks[c].pc \in {"token", "subject"}, ReadLedger(c, t, clear)
       PROVE  checks' \in [Checkers -> {IdleCheck} \union RunningCheck]
  <2>1. checks[c] \in RunningCheck
    BY <1>11 DEF TypeOK, IdleCheck
  <2>2. (IF kv[t].revision # 0 /\ ~Validate(t, kv[t].events) THEN "failed"
         ELSE IF Active(kv[t].events, checks[c].now) THEN "revoked"
         ELSE clear) \in {"failed", "revoked", "subject", "clear"}
    OBVIOUS
  <2>3. \A v \in {"failed", "revoked", "subject", "clear"} :
          [checks[c] EXCEPT !.pc = v] \in RunningCheck
    BY <2>1 DEF RunningCheck
  <2> QED
    BY <1>11, <2>2, <2>3 DEF ReadLedger, TypeOK
<1>12. ASSUME NEW c \in Checkers, CheckToken(c) PROVE TypeOK'
  BY <1>12, <1>11, <1>n, LedgerConstants DEF CheckToken, TypeOK
<1>13. ASSUME NEW c \in Checkers, CheckSubject(c) PROVE TypeOK'
  BY <1>13, <1>11, <1>n, LedgerConstants DEF CheckSubject, TypeOK
<1>14. ASSUME NEW c \in Checkers, CheckFails(c) PROVE TypeOK'
  BY <1>14, <1>n DEF CheckFails, TypeOK
<1>15. CASE Tick
  BY <1>15, <1>n, LedgerConstants DEF Tick, TypeOK
<1>16. CASE UNCHANGED vars
  BY <1>16 DEF vars, TypeOK
<1> QED
  BY <1>1, <1>2, <1>3, <1>4, <1>5, <1>6, <1>7, <1>8, <1>9, <1>10, <1>12, <1>13,
     <1>14, <1>15, <1>16 DEF Next, Mutate, Check

\* RevocationLedger is type correct.
THEOREM TypeCorrect == Spec => []TypeOK
<1> QED
  BY InitType, TypeStep, PTL DEF Spec

-----------------------------------------------------------------------------
(* The inductive invariant.                                                *)

\* A target without a ledger has revision 0, and the other way round.
EmptyIffAbsent ==
  \A t \in Targets : kv[t].revision = 0 <=> kv[t].events = <<>>

\* A PUT on the way carries a ledger that validates.
PutsValid == \A p \in puts : Validate(p.target, p.events)

\* A PUT on the way was made from a ledger KV holds or held; if KV still holds
\* it, the PUT adds one event to it.
PutsExtend ==
  \A p \in puts :
    /\ p.prev_revision <= kv[p.target].revision
    /\ p.prev_revision = kv[p.target].revision =>
         \E e \in Event : p.events = Append(kv[p.target].events, e)

\* A PUT whose handler waits for it ends with the event of the handler's request.
PutsOwned ==
  \A p \in puts : p.owner # Nobody =>
    /\ tasks[p.owner].pc = "put"
    /\ tasks[p.owner].request.target = p.target
    /\ p.events[Len(p.events)].idempotency_hash =
         IdempotencyHash(tasks[p.owner].request)
    /\ p.events[Len(p.events)].request_hash = RequestHash(tasks[p.owner].request)

\* A handler waits for one PUT at a time.
OnePutEach ==
  \A p, q \in puts : p.owner # Nobody /\ p.owner = q.owner => p = q

IInv == /\ TypeOK /\ EmptyIffAbsent /\ StoredLedgersValid
        /\ PutsValid /\ PutsExtend /\ PutsOwned /\ OnePutEach /\ AckedDurable

-----------------------------------------------------------------------------
\* A successful PUT leaves a longer ledger that agrees with the old one, at a
\* revision that no other PUT on the way was made from.
LEMMA CasExtends ==
  ASSUME IInv, NEW p \in puts, KvPut(p), Cas(p)
  PROVE  /\ kv' = [kv EXCEPT ![p.target] =
                     [revision |-> revision + 1, events |-> p.events]]
         /\ p.target \in Targets
         /\ p.events \in Seq(Event)
         /\ Len(p.events) = Len(kv[p.target].events) + 1
         /\ \A i \in 1 .. Len(kv[p.target].events) : p.events[i] = kv[p.target].events[i]
<1>1. p.target \in Targets /\ p.events \in Seq(Event)
  BY DEF IInv, TypeOK, Put
<1>2. PICK e \in Event : p.events = Append(kv[p.target].events, e)
  BY DEF IInv, PutsExtend, Cas
<1>3. kv[p.target].events \in Seq(Event)
  BY <1>1 DEF IInv, TypeOK
<1> QED
  BY <1>1, <1>2, <1>3, AppendProperties DEF KvPut

\* What KV does keeps every conjunct about KV, for the PUTs and answers there are.
LEMMA KvPutInv ==
  ASSUME IInv, NEW p \in puts, KvPut(p), puts' = puts \ {p}
  PROVE  /\ EmptyIffAbsent' /\ StoredLedgersValid' /\ PutsValid' /\ PutsExtend'
         /\ \A a \in acks :
              /\ a.generation \in 1 .. Len(kv'[a.target].events)
              /\ kv'[a.target].events[a.generation].idempotency_hash = a.idem
              /\ kv'[a.target].events[a.generation].request_hash = a.req
<1>1. CASE ~Cas(p)
  BY <1>1 DEF KvPut, IInv, EmptyIffAbsent, StoredLedgersValid, PutsValid, PutsExtend,
              AckedDurable
<1>2. CASE Cas(p)
  <2>0. /\ kv' = [kv EXCEPT ![p.target] = [revision |-> revision + 1, events |-> p.events]]
        /\ p.target \in Targets
        /\ p.events \in Seq(Event)
        /\ Len(p.events) = Len(kv[p.target].events) + 1
        /\ \A i \in 1 .. Len(kv[p.target].events) : p.events[i] = kv[p.target].events[i]
    BY <1>2, CasExtends
  <2>1. revision \in Nat /\ \A t \in Targets : kv[t].revision \in 0 .. revision
    BY DEF IInv, TypeOK
  <2>2. \A t \in Targets : t # p.target => kv'[t] = kv[t]
    BY <2>0 DEF IInv, TypeOK
  <2>3. kv'[p.target] = [revision |-> revision + 1, events |-> p.events]
    BY <2>0 DEF IInv, TypeOK
  <2>4. EmptyIffAbsent'
    BY <2>1, <2>2, <2>3 DEF IInv, EmptyIffAbsent, PutsValid, Validate
  <2>5. StoredLedgersValid'
    BY <2>2, <2>3 DEF IInv, StoredLedgersValid, PutsValid
  <2>6. PutsValid'
    BY DEF IInv, PutsValid
  <2>7. ASSUME NEW q \in puts'
        PROVE  /\ q.prev_revision <= kv'[q.target].revision
               /\ q.prev_revision = kv'[q.target].revision =>
                    \E e \in Event : q.events = Append(kv'[q.target].events, e)
    <3>1. q \in puts /\ q.target \in Targets /\ q.prev_revision \in Nat
      BY DEF IInv, TypeOK, Put
    <3>2. CASE q.target # p.target
      BY <2>2, <3>1, <3>2 DEF IInv, PutsExtend
    <3>3. CASE q.target = p.target
      <4>1. q.prev_revision <= kv[q.target].revision
        BY <3>1 DEF IInv, PutsExtend
      <4>2. kv'[q.target].revision = revision + 1
        BY <2>3, <3>3
      <4> QED
        BY <2>1, <3>1, <4>1, <4>2
    <3> QED
      BY <3>2, <3>3
  <2>8. PutsExtend'
    BY <2>7 DEF PutsExtend
  <2>9. ASSUME NEW a \in acks
        PROVE  /\ a.generation \in 1 .. Len(kv'[a.target].events)
               /\ kv'[a.target].events[a.generation] = kv[a.target].events[a.generation]
    <3>1. a.target \in Targets /\ a.generation \in 1 .. Len(kv[a.target].events)
      BY DEF IInv, TypeOK, Ack, AckedDurable
    <3>2. CASE a.target # p.target
      <4>1. kv'[a.target] = kv[a.target]
        BY <2>2, <3>1, <3>2, Zenon
      <4> QED
        BY <3>1, <4>1, Zenon
    <3>3. CASE a.target = p.target
      <4>1. kv'[a.target].events = p.events
        BY <2>3, <3>3
      <4>2. /\ Len(kv[a.target].events) \in Nat
            /\ Len(p.events) = Len(kv[a.target].events) + 1
            /\ \A i \in 1 .. Len(kv[a.target].events) :
                  p.events[i] = kv[a.target].events[i]
        <5>1. kv[p.target].events \in Seq(Event)
          BY <2>0 DEF IInv, TypeOK
        <5>2. Len(kv[p.target].events) \in Nat
          BY <5>1
        <5> QED
          BY <2>0, <3>3, <5>2, Zenon
      <4>3. \A m \in Nat : \A g \in 1 .. m : g \in 1 .. m + 1
        OBVIOUS
      <4>4. a.generation \in 1 .. Len(p.events)
        BY <3>1, <4>2, <4>3, Zenon
      <4>5. p.events[a.generation] = kv[a.target].events[a.generation]
        BY <3>1, <4>2, Zenon
      <4> QED
        BY <4>1, <4>4, <4>5, Zenon
    <3> QED
      BY <3>2, <3>3, Zenon
  <2> QED
    BY <2>4, <2>5, <2>6, <2>8, <2>9 DEF IInv, AckedDurable
<1> QED
  BY <1>1, <1>2

\* A PUT that is made now carries a ledger that validates and ends with the
\* event of the request.
LEMMA AppendLoaded ==
  ASSUME NEW r \in Requests, NEW now \in Nat,
         NEW stored \in [revision: Nat, events: Seq(Event)],
         LoadResult(r, now, stored) = "append"
  PROVE  LET next == Appended(r, now, stored.events) IN
         /\ Validate(r.target, next)
         /\ \E e \in Event : next = Append(stored.events, e)
         /\ next[Len(next)].idempotency_hash = IdempotencyHash(r)
         /\ next[Len(next)].request_hash = RequestHash(r)
<1>1. AppendResult(r, now, stored.events) = "append"
  BY DEF LoadResult
<1>2. Validate(r.target, Appended(r, now, stored.events))
  BY <1>1 DEF AppendResult
<1>3. NewEvent(r, now, stored.events) \in Event
  BY NewEventType
<1>4. /\ Appended(r, now, stored.events) =
           Append(stored.events, NewEvent(r, now, stored.events))
      /\ Len(Appended(r, now, stored.events)) = Len(stored.events) + 1
      /\ Appended(r, now, stored.events)[Len(stored.events) + 1] =
           NewEvent(r, now, stored.events)
  BY <1>3, AppendProperties DEF Appended
<1>5. /\ NewEvent(r, now, stored.events).idempotency_hash = IdempotencyHash(r)
      /\ NewEvent(r, now, stored.events).request_hash = RequestHash(r)
  BY DEF NewEvent
<1> QED
  BY <1>2, <1>3, <1>4, <1>5

\* An event found by replay_snapshot is the one the client asked about.
LEMMA ReplayLoaded ==
  ASSUME NEW r \in Requests, NEW now,
         NEW stored \in [revision: Nat, events: Seq(Event)],
         stored.revision = 0 <=> stored.events = <<>>,
         LoadResult(r, now, stored) = "replay",
         NEW i \in Matching(r, stored.events)
  PROVE  /\ i \in 1 .. Len(stored.events)
         /\ stored.events[i].sequence = i
         /\ stored.events[i].idempotency_hash = IdempotencyHash(r)
         /\ stored.events[i].request_hash = RequestHash(r)
<1>1. /\ i \in 1 .. Len(stored.events)
      /\ stored.events[i].idempotency_hash = IdempotencyHash(r)
  BY DEF Matching
<1>2. stored.revision # 0
  BY <1>1
<1>3. Validate(r.target, stored.events)
  BY <1>2 DEF LoadResult
<1>4. stored.events[i].sequence = i
  BY <1>1, <1>3 DEF Validate, ValidEvent
<1>5. ~\E j \in Matching(r, stored.events) : stored.events[j].request_hash # RequestHash(r)
  <2> SUFFICES ASSUME \E j \in Matching(r, stored.events) :
                        stored.events[j].request_hash # RequestHash(r)
               PROVE  LoadResult(r, now, stored) = "idempotency_conflict"
    OBVIOUS
  <2> QED
    BY <1>2, <1>3 DEF LoadResult
<1> QED
  BY <1>1, <1>4, <1>5

-----------------------------------------------------------------------------
\* The invariant holds initially.
LEMMA InitInv == Init => IInv
BY InitType DEF Init, IInv, EmptyIffAbsent, StoredLedgersValid, PutsValid, PutsExtend,
                PutsOwned, OnePutEach, AckedDurable

\* Steps that leave KV and the PUTs alone, answer nothing, and do not touch a
\* handler that waits for a PUT keep the invariant.
LEMMA QuietStep ==
  ASSUME IInv, TypeOK', UNCHANGED <<kv, puts, acks>>,
         \A w \in Tasks : tasks[w].pc = "put" => tasks'[w] = tasks[w]
  PROVE  IInv'
<1>1. PutsOwned'
  <2> SUFFICES ASSUME NEW p \in puts, p.owner # Nobody
               PROVE  tasks'[p.owner] = tasks[p.owner]
    BY DEF IInv, PutsOwned
  <2> QED
    BY DEF IInv, PutsOwned, TypeOK, Put
<1> QED
  BY <1>1 DEF IInv, EmptyIffAbsent, StoredLedgersValid, PutsValid, PutsExtend,
              OnePutEach, AckedDurable

\* When KV has handled the PUT of slot w, the other slots keep theirs.
LEMMA DropPut ==
  ASSUME IInv, NEW w \in Tasks, NEW p \in puts, p.owner = w, puts' = puts \ {p},
         \A v \in Tasks : v # w => tasks'[v] = tasks[v]
  PROVE  PutsOwned' /\ OnePutEach'
<1>1. OnePutEach'
  BY DEF IInv, OnePutEach
<1>2. ASSUME NEW q \in puts', q.owner # Nobody
      PROVE  q \in puts /\ tasks'[q.owner] = tasks[q.owner]
  <2>1. q \in puts /\ q # p /\ q.owner \in Tasks
    BY <1>2 DEF IInv, TypeOK, Put
  <2>2. q.owner # w
    BY <1>2, <2>1 DEF IInv, OnePutEach
  <2> QED
    BY <2>1, <2>2
<1>3. PutsOwned'
  BY <1>2 DEF IInv, PutsOwned
<1> QED
  BY <1>1, <1>3

\* Every step keeps the invariant.
LEMMA InvStep == IInv /\ [Next]_vars => IInv'
<1> SUFFICES ASSUME IInv, [Next]_vars PROVE IInv'
  OBVIOUS
<1>t. TypeOK /\ TypeOK'
  BY TypeStep DEF IInv
<1>a. tasks \in [Tasks -> {IdleTask} \union RunningTask]
  BY <1>t DEF TypeOK
<1>1. ASSUME NEW w \in Tasks, NEW r \in Requests, NEW now \in HostTime,
             Begin(w, r, now) \/ Refuse(w, r, now)
      PROVE  IInv'
  BY <1>1, <1>t, <1>a, QuietStep DEF Begin, Refuse, IdleTask
<1>2. ASSUME NEW w \in Tasks, LoadFails(w) PROVE IInv'
  <2>1. PICK result : Answer(w, result)
    BY <1>2 DEF LoadFails
  <2> QED
    BY <1>2, <2>1, <1>t, <1>a, QuietStep DEF LoadFails, Answer
<1>3. ASSUME NEW w \in Tasks, LoadReplays(w) PROVE IInv'
  <2> DEFINE r == tasks[w].request
             stored == kv[r.target]
  <2>1. /\ r \in Requests /\ r.target \in Targets
        /\ stored \in [revision: Nat, events: Seq(Event)]
    BY <1>3, <1>t, RunningSlot, HashTypes DEF LoadReplays, Request
  <2>2. stored.revision = 0 <=> stored.events = <<>>
    BY <2>1 DEF IInv, EmptyIffAbsent
  <2>3. \A i \in Matching(r, stored.events) :
          LET a == ReplaySnapshot(r, stored.events, i) IN
          /\ a.target = r.target
          /\ a.generation \in 1 .. Len(stored.events)
          /\ stored.events[a.generation].idempotency_hash = a.idem
          /\ stored.events[a.generation].request_hash = a.req
    <3> SUFFICES ASSUME NEW i \in Matching(r, stored.events)
                 PROVE  /\ i \in 1 .. Len(stored.events)
                        /\ stored.events[i].sequence = i
                        /\ stored.events[i].idempotency_hash = IdempotencyHash(r)
                        /\ stored.events[i].request_hash = RequestHash(r)
      BY DEF ReplaySnapshot
    <3>1. LoadResult(r, tasks[w].now, stored) = "replay"
      BY <1>3 DEF LoadReplays
    <3> HIDE DEF r, stored
    <3> QED
      BY <2>1, <2>2, <3>1, ReplayLoaded
  <2>4. acks' = acks \union {ReplaySnapshot(r, stored.events, i) :
                               i \in Matching(r, stored.events)}
    BY <1>3 DEF LoadReplays
  <2>5. UNCHANGED <<kv, puts>>
    BY <1>3 DEF LoadReplays
  <2>6. AckedDurable'
    <3>1. \A a \in acks : /\ a.generation \in 1 .. Len(kv[a.target].events)
                          /\ kv[a.target].events[a.generation].idempotency_hash = a.idem
                          /\ kv[a.target].events[a.generation].request_hash = a.req
      BY DEF IInv, AckedDurable
    <3>2. \A a \in acks' : a \in acks \/ \E i \in Matching(r, stored.events) :
                                           a = ReplaySnapshot(r, stored.events, i)
      BY <2>4
    <3>3. \A a \in acks' : /\ a.generation \in 1 .. Len(kv[a.target].events)
                           /\ kv[a.target].events[a.generation].idempotency_hash = a.idem
                           /\ kv[a.target].events[a.generation].request_hash = a.req
      BY <2>3, <3>1, <3>2, Zenon
    <3> QED
      BY <2>5, <3>3 DEF AckedDurable
  <2>7. PutsOwned'
    <3> SUFFICES ASSUME NEW p \in puts, p.owner # Nobody
                 PROVE  tasks'[p.owner] = tasks[p.owner]
      BY <2>5 DEF IInv, PutsOwned
    <3>1. p.owner \in Tasks /\ tasks[p.owner].pc = "put"
      BY <1>t DEF IInv, PutsOwned, TypeOK, Put
    <3> QED
      BY <1>3, <1>a, <3>1 DEF LoadReplays, Answer
  <2> QED
    BY <1>t, <2>5, <2>6, <2>7
       DEF IInv, EmptyIffAbsent, StoredLedgersValid, PutsValid, PutsExtend, OnePutEach
<1>4. ASSUME NEW w \in Tasks, LoadAppends(w) PROVE IInv'
  <2> DEFINE r == tasks[w].request
             stored == kv[r.target]
             next == Appended(r, tasks[w].now, stored.events)
             put == [owner |-> w, target |-> r.target,
                     prev_revision |-> stored.revision, events |-> next]
  <2>1. /\ r \in Requests /\ r.target \in Targets /\ tasks[w].now \in Nat
        /\ stored \in [revision: Nat, events: Seq(Event)]
    BY <1>4, <1>t, RunningSlot, HashTypes DEF LoadAppends, Request
  <2>2. /\ Validate(r.target, next)
        /\ \E e \in Event : next = Append(stored.events, e)
        /\ next[Len(next)].idempotency_hash = IdempotencyHash(r)
        /\ next[Len(next)].request_hash = RequestHash(r)
    BY <1>4, <2>1, AppendLoaded DEF LoadAppends
  <2>3. puts' = puts \union {put} /\ UNCHANGED <<kv, acks>>
    BY <1>4 DEF LoadAppends
  <2> HIDE DEF next
  <2>4. ASSUME NEW p \in puts'
        PROVE  /\ Validate(p.target, p.events)
               /\ p.prev_revision <= kv[p.target].revision
               /\ p.prev_revision = kv[p.target].revision =>
                    \E e \in Event : p.events = Append(kv[p.target].events, e)
    <3>1. CASE p = put
      <4>1. p.target = r.target /\ p.events = next /\ p.prev_revision = stored.revision
        BY <3>1
      <4>2. stored = kv[p.target]
        BY <4>1
      <4> HIDE DEF r, stored, put
      <4>3. Validate(p.target, p.events)
        BY <2>2, <4>1
      <4>4. \E e \in Event : p.events = Append(stored.events, e)
        BY <2>2, <4>1
      <4>5. p.prev_revision <= stored.revision
        BY <2>1, <4>1
      <4> QED
        BY <4>2, <4>3, <4>4, <4>5
    <3>2. CASE p \in puts
      BY <3>2 DEF IInv, PutsValid, PutsExtend
    <3> QED
      BY <2>3, <3>1, <3>2
  <2>5. PutsValid' /\ PutsExtend'
    BY <2>3, <2>4 DEF PutsValid, PutsExtend
  <2>6. /\ tasks'[w].pc = "put" /\ tasks'[w].request = r
        /\ \A v \in Tasks : v # w => tasks'[v] = tasks[v]
    BY <1>4, <1>a DEF LoadAppends
  <2>7. PutsOwned'
    <3> SUFFICES ASSUME NEW p \in puts', p.owner # Nobody
                 PROVE  /\ tasks'[p.owner].pc = "put"
                        /\ tasks'[p.owner].request.target = p.target
                        /\ p.events[Len(p.events)].idempotency_hash =
                             IdempotencyHash(tasks'[p.owner].request)
                        /\ p.events[Len(p.events)].request_hash =
                             RequestHash(tasks'[p.owner].request)
      BY DEF PutsOwned
    <3>1. CASE p = put
      BY <2>2, <2>6, <3>1
    <3>2. CASE p \in puts
      <4>1. p.owner \in Tasks /\ tasks[p.owner].pc = "put"
        BY <1>t, <3>2 DEF IInv, PutsOwned, TypeOK, Put
      <4>2. p.owner # w
        BY <1>4, <4>1 DEF LoadAppends
      <4> QED
        BY <2>6, <3>2, <4>1, <4>2 DEF IInv, PutsOwned
    <3> QED
      BY <2>3, <3>1, <3>2
  <2>8. OnePutEach'
    <3>1. \A q \in puts : q.owner # w
      BY <1>4, LedgerConstants DEF LoadAppends, IInv, PutsOwned
    <3> QED
      BY <2>3, <3>1 DEF IInv, OnePutEach
  <2> QED
    BY <1>t, <2>3, <2>5, <2>7, <2>8
       DEF IInv, EmptyIffAbsent, StoredLedgersValid, AckedDurable
<1>5. ASSUME NEW w \in Tasks, NEW p \in puts, PutApplied(w, p) PROVE IInv'
  <2> DEFINE r == tasks[w].request
             a == Snapshot(r, p.events, tasks[w].now)
  <2>1. KvPut(p) /\ Cas(p) /\ puts' = puts \ {p} /\ acks' = acks \union {a}
    BY <1>5 DEF PutApplied
  <2>2. /\ r.target = p.target
        /\ p.events[Len(p.events)].idempotency_hash = IdempotencyHash(r)
        /\ p.events[Len(p.events)].request_hash = RequestHash(r)
    BY <1>5, LedgerConstants DEF PutApplied, IInv, PutsOwned
  <2>3. /\ p.target \in Targets /\ p.events \in Seq(Event) /\ p.events # <<>>
        /\ p.events[Len(p.events)].sequence = Len(p.events)
    <3>1. Validate(p.target, p.events) /\ p.events \in Seq(Event) /\ p.target \in Targets
      BY <1>t DEF IInv, PutsValid, TypeOK, Put
    <3>2. p.events # <<>> /\ Len(p.events) \in 1 .. Len(p.events)
      BY <3>1, LastEvent DEF Validate
    <3> QED
      BY <3>1, <3>2 DEF Validate, ValidEvent
  <2>4. kv'[p.target].events = p.events
    <3>1. kv' = [kv EXCEPT ![p.target] = [revision |-> revision + 1, events |-> p.events]]
      BY <2>1, CasExtends
    <3>2. kv \in [Targets -> [revision: 0 .. revision, events: Seq(Event)]]
      BY <1>t DEF TypeOK
    <3> QED
      BY <2>3, <3>1, <3>2
  <2>5. a.target = p.target /\ a.generation = Len(p.events)
        /\ a.idem = IdempotencyHash(r) /\ a.req = RequestHash(r)
    BY <2>2, <2>3 DEF Snapshot, Generation
  <2>6. AckedDurable'
    BY <2>1, <2>2, <2>3, <2>4, <2>5, KvPutInv, LastEvent DEF AckedDurable
  <2>7. PutsOwned' /\ OnePutEach'
    BY <1>5, <1>t, <1>a, <2>1, DropPut DEF PutApplied, Answer
  <2> QED
    BY <1>t, <2>1, <2>6, <2>7, KvPutInv DEF IInv
<1>6. ASSUME NEW w \in Tasks, NEW p \in puts, PutMismatch(w, p) PROVE IInv'
  <2>1. KvPut(p) /\ puts' = puts \ {p} /\ acks' = acks
    BY <1>6 DEF PutMismatch
  <2>2. \A v \in Tasks : v # w => tasks'[v] = tasks[v]
    BY <1>6, <1>a DEF PutMismatch, Answer
  <2>3. PutsOwned' /\ OnePutEach'
    BY <1>6, <1>t, <2>1, <2>2, DropPut DEF PutMismatch
  <2> QED
    BY <1>t, <2>1, <2>3, KvPutInv DEF IInv, AckedDurable
<1>7. ASSUME NEW w \in Tasks, Abandon(w) PROVE IInv'
  <2> DEFINE orphan(p) == IF p.owner = w THEN [p EXCEPT !.owner = Nobody] ELSE p
  <2>1. puts' = {orphan(p) : p \in puts} /\ UNCHANGED <<kv, acks>>
    BY <1>7 DEF Abandon
  <2>2. \A p \in puts : /\ orphan(p).target = p.target
                        /\ orphan(p).events = p.events
                        /\ orphan(p).prev_revision = p.prev_revision
                        /\ orphan(p).owner # Nobody => orphan(p) = p /\ p.owner # w
    BY <1>t DEF TypeOK, Put
  <2>3. \A v \in Tasks : v # w => tasks'[v] = tasks[v]
    BY <1>7, <1>a DEF Abandon, Answer
  <2> HIDE DEF orphan
  <2>4a. PutsValid'
    BY <2>1, <2>2 DEF IInv, PutsValid
  <2>4b. PutsExtend'
    <3> SUFFICES ASSUME NEW p \in puts
                 PROVE  /\ orphan(p).prev_revision <= kv[orphan(p).target].revision
                        /\ orphan(p).prev_revision = kv[orphan(p).target].revision =>
                             \E e \in Event :
                               orphan(p).events = Append(kv[orphan(p).target].events, e)
      BY <2>1 DEF PutsExtend
    <3>1. /\ p.prev_revision <= kv[p.target].revision
          /\ p.prev_revision = kv[p.target].revision =>
               \E e \in Event : p.events = Append(kv[p.target].events, e)
      BY DEF IInv, PutsExtend
    <3> QED
      BY <2>2, <3>1
  <2>4. PutsValid' /\ PutsExtend'
    BY <2>4a, <2>4b
  <2>5. OnePutEach'
    BY <2>1, <2>2 DEF IInv, OnePutEach
  <2>6. PutsOwned'
    <3> SUFFICES ASSUME NEW p \in puts, orphan(p).owner # Nobody
                 PROVE  p.owner \in Tasks /\ tasks'[p.owner] = tasks[p.owner]
      BY <2>1, <2>2 DEF IInv, PutsOwned
    <3>1. p.owner # w /\ p.owner # Nobody
      BY <2>2
    <3> QED
      BY <1>t, <2>3, <3>1 DEF TypeOK, Put
  <2> QED
    BY <1>t, <2>1, <2>4, <2>5, <2>6
       DEF IInv, EmptyIffAbsent, StoredLedgersValid, AckedDurable
<1>8. ASSUME NEW p \in puts, LatePut(p) PROVE IInv'
  <2>1. KvPut(p) /\ puts' = puts \ {p} /\ UNCHANGED <<tasks, acks>>
    BY <1>8 DEF LatePut
  <2>2. PutsOwned' /\ OnePutEach'
    BY <2>1 DEF IInv, PutsOwned, OnePutEach
  <2> QED
    BY <1>t, <2>1, <2>2, KvPutInv DEF IInv, AckedDurable
<1>9. CASE Check
  BY <1>9, <1>t, QuietStep
     DEF Check, BeginCheck, CheckToken, CheckSubject, CheckFails
<1>10. CASE Tick
  BY <1>10, <1>t, QuietStep DEF Tick
<1>11. CASE UNCHANGED vars
  BY <1>11, <1>t, QuietStep DEF vars
<1> QED
  BY <1>1, <1>2, <1>3, <1>4, <1>5, <1>6, <1>7, <1>8, <1>9, <1>10, <1>11
     DEF Next, Mutate

\* Every behaviour of the ledger satisfies the inductive invariant.
LEMMA Invariance == Spec => []IInv
<1> QED
  BY InitInv, InvStep, PTL DEF Spec

\* No interleaving of replicas, clocks, retries and late PUTs stores a ledger
\* that load_ledger would refuse: validate holds of every stored ledger.
THEOREM LedgersStayValid == Spec => []StoredLedgersValid
<1>1. IInv => StoredLedgersValid
  BY DEF IInv
<1> QED
  BY <1>1, Invariance, PTL

\* A transition a client was told of is in the ledger for ever, at the
\* generation that client was told.
THEOREM AcknowledgedNeverLost == Spec => []AckedDurable
<1>1. IInv => AckedDurable
  BY DEF IInv
<1> QED
  BY <1>1, Invariance, PTL
=============================================================================
