--------------------- MODULE RevocationLedgerRefinement ---------------------
(***************************************************************************)
(* What the ledger service tells its clients, for every value of the       *)
(* constants: answers to one identity agree, a retry is not refused, the   *)
(* loop gives up only under contention, a check sees a standing revocation, *)
(* and the whole implements RevocationRegister.                            *)
(***************************************************************************)
EXTENDS RevocationLedgerProofs

-----------------------------------------------------------------------------
(* The invariant, on top of IInv.                                          *)

\* The event a PUT adds is the one its request asks for, at its handler's time.
PutsMade ==
  \A p \in puts : \E r \in Requests, now \in Time :
    /\ r.target = p.target
    /\ LedgerEntry(p.events[Len(p.events)]) = LedgerEntry(NewEvent(r, now, <<>>))
    /\ p.owner # Nobody => r = tasks[p.owner].request /\ now = tasks[p.owner].now

\* An answer describes the event it is about, and no event of another target.
AcksDescribe ==
  \A a \in acks :
    LET events == kv[a.target].events IN
    /\ a.idem[2] = a.target
    /\ a.status = IF events[a.generation].action = "revoke" THEN "active" ELSE "lifted"
    /\ a.expires_at = LatestExpiry(events, a.generation)

\* A handler that retries an acknowledged request has not written anything, and
\* the event it will find is in the ledger.
RetriesFind ==
  \A w \in Tasks : tasks[w].pc \in {"load", "put"} /\ tasks[w].retried =>
    LET r == tasks[w].request IN
    /\ tasks[w].pc = "load"
    /\ \E i \in 1 .. Len(kv[r.target].events) :
         /\ kv[r.target].events[i].idempotency_hash = IdempotencyHash(r)
         /\ kv[r.target].events[i].request_hash = RequestHash(r)

\* A PUT that can no longer be applied has lost to at least one other event.
PutsOutrun ==
  \A p \in puts : p.prev_revision # kv[p.target].revision =>
    Len(p.events) <= Len(kv[p.target].events)

\* Every failed attempt of a handler is one event that others added since it began.
AttemptsLost ==
  /\ \A w \in Tasks : tasks[w].pc \in {"load", "put"} =>
       tasks[w].began + tasks[w].attempts <= Len(kv[tasks[w].request.target].events)
  /\ \A p \in puts : p.owner # Nobody =>
       tasks[p.owner].began + tasks[p.owner].attempts < Len(p.events)

\* A check keeps only targets that match, and not the token's once it was read.
ChecksObserve ==
  \A c \in Checkers :
    /\ checks[c].pc \in {"token", "subject"} =>
         \A t \in checks[c].must : Active(kv[t].events, checks[c].now)
    /\ checks[c].pc = "subject" => TokenTarget \notin checks[c].must

JInv == /\ PutsMade /\ AcksDescribe /\ RetriesFind /\ PutsOutrun /\ AttemptsLost
        /\ ChecksObserve /\ RetryNotRefused /\ ExhaustionMeansContention
        /\ CheckSeesStandingRevocation

-----------------------------------------------------------------------------
(* What a step does to KV and to the PUTs on the way.                      *)

\* The ledger of t stays as it is, or it gets one more event at its end.
GrowsByOne(t) ==
  \/ kv'[t] = kv[t]
  \/ /\ Len(kv'[t].events) = Len(kv[t].events) + 1
     /\ \A i \in 1 .. Len(kv[t].events) : kv'[t].events[i] = kv[t].events[i]

\* Every step adds at most one event to a ledger.
LEMMA LedgersGrow ==
  ASSUME IInv, [Next]_vars, NEW t \in Targets
  PROVE  GrowsByOne(t)
<1>1. ASSUME NEW p \in puts, KvPut(p) PROVE GrowsByOne(t)
  <2>1. CASE ~Cas(p)
    BY <1>1, <2>1 DEF KvPut, GrowsByOne
  <2>2. CASE Cas(p)
    <3>1. /\ kv' = [kv EXCEPT ![p.target] = [revision |-> revision + 1, events |-> p.events]]
          /\ Len(p.events) = Len(kv[p.target].events) + 1
          /\ \A i \in 1 .. Len(kv[p.target].events) : p.events[i] = kv[p.target].events[i]
      BY <1>1, <2>2, CasExtends
    <3>2. kv \in [Targets -> [revision: 0 .. revision, events: Seq(Event)]]
      BY DEF IInv, TypeOK
    <3>3. CASE t = p.target
      <4>1. kv'[t].events = p.events
        BY <3>1, <3>2, <3>3
      <4> QED
        BY <3>1, <3>3, <4>1, Zenon DEF GrowsByOne
    <3>4. CASE t # p.target
      BY <3>1, <3>2, <3>4 DEF GrowsByOne
    <3> QED
      BY <3>3, <3>4
  <2> QED
    BY <2>1, <2>2
<1>2. ASSUME NEW w \in Tasks, NEW p \in puts, PutApplied(w, p) \/ PutMismatch(w, p)
      PROVE  GrowsByOne(t)
  BY <1>1, <1>2 DEF PutApplied, PutMismatch
<1>3. ASSUME NEW p \in puts, LatePut(p) PROVE GrowsByOne(t)
  BY <1>1, <1>3 DEF LatePut
<1>4. ASSUME UNCHANGED kv PROVE GrowsByOne(t)
  BY <1>4 DEF GrowsByOne
<1>5. ASSUME NEW w \in Tasks, LoadReplays(w) \/ LoadFails(w) \/ LoadAppends(w) \/ Abandon(w)
      PROVE  GrowsByOne(t)
  BY <1>4, <1>5 DEF LoadReplays, LoadFails, LoadAppends, Abandon
<1>6. ASSUME NEW w \in Tasks, NEW r \in Requests, NEW now \in HostTime,
             Begin(w, r, now) \/ Refuse(w, r, now)
      PROVE  GrowsByOne(t)
  BY <1>4, <1>6 DEF Begin, Refuse
<1>7. CASE Check
  BY <1>4, <1>7 DEF Check, BeginCheck, CheckToken, CheckSubject, CheckFails
<1>8. CASE Tick \/ UNCHANGED vars
  BY <1>4, <1>8 DEF Tick, vars
<1> QED
  BY <1>2, <1>3, <1>5, <1>6, <1>7, <1>8 DEF Next, Mutate

\* What was in a ledger stays in it: its length, its events, and the expiry that
\* an answer about one of them carries.
LEMMA EventsStay ==
  ASSUME IInv, IInv', [Next]_vars, NEW t \in Targets
  PROVE  /\ Len(kv[t].events) \in Nat /\ Len(kv'[t].events) \in Nat
         /\ Len(kv[t].events) <= Len(kv'[t].events)
         /\ \A i \in 1 .. Len(kv[t].events) :
              /\ i \in 1 .. Len(kv'[t].events)
              /\ kv'[t].events[i] = kv[t].events[i]
              /\ LatestExpiry(kv'[t].events, i) = LatestExpiry(kv[t].events, i)
<1>1. GrowsByOne(t)
  BY LedgersGrow
<1>2. Len(kv[t].events) \in Nat /\ Len(kv'[t].events) \in Nat
  BY DEF IInv, TypeOK
<1>3. Len(kv[t].events) <= Len(kv'[t].events)
  BY <1>1, <1>2 DEF GrowsByOne
<1>4. \A i \in 1 .. Len(kv[t].events) :
        i \in 1 .. Len(kv'[t].events) /\ kv'[t].events[i] = kv[t].events[i]
  <2>1. \A i \in 1 .. Len(kv[t].events) : kv'[t].events[i] = kv[t].events[i]
    BY <1>1, Zenon DEF GrowsByOne
  <2> QED
    BY <1>2, <1>3, <2>1
<1>5. ASSUME NEW i \in 1 .. Len(kv[t].events)
      PROVE  LatestExpiry(kv'[t].events, i) = LatestExpiry(kv[t].events, i)
  <2>1. kv'[t].events[i] = kv[t].events[i] /\ i # 0
    BY <1>2, <1>4
  <2>2. i > 1 => kv'[t].events[i - 1] = kv[t].events[i - 1]
    <3>1. i > 1 => i - 1 \in 1 .. Len(kv[t].events)
      BY <1>2
    <3> QED
      BY <1>4, <3>1
  <2> QED
    BY <2>1, <2>2 DEF LatestExpiry
<1> QED
  BY <1>2, <1>3, <1>4, <1>5

\* The PUT that LoadAppends sends.
NewPut(w) ==
  [owner |-> w, target |-> tasks[w].request.target,
   prev_revision |-> kv[tasks[w].request.target].revision,
   events |-> Appended(tasks[w].request, tasks[w].now,
                       kv[tasks[w].request.target].events)]

\* A PUT on the way after a step was on the way before it, and a handler that
\* waits for it is as it was; or it has just been sent.
PutKept(q) ==
  \E p \in puts :
    /\ q.target = p.target /\ q.events = p.events /\ q.prev_revision = p.prev_revision
    /\ q.owner # Nobody =>
         q.owner = p.owner /\ q.owner \in Tasks /\ tasks'[q.owner] = tasks[q.owner]

LEMMA PutSteps ==
  ASSUME IInv, [Next]_vars, NEW q \in puts'
  PROVE  PutKept(q) \/ \E w \in Tasks : LoadAppends(w) /\ q = NewPut(w)
<1>t. /\ \A p \in puts : p \in Put
      /\ tasks \in [Tasks -> {IdleTask} \union RunningTask]
      /\ Nobody \notin Tasks
  BY LedgerConstants DEF IInv, TypeOK
<1>w. \A p \in puts : p.owner # Nobody => p.owner \in Tasks /\ tasks[p.owner].pc = "put"
  BY <1>t DEF IInv, PutsOwned, Put
<1>k. ASSUME q \in puts, q.owner # Nobody => tasks'[q.owner] = tasks[q.owner]
      PROVE  PutKept(q)
  BY <1>k, <1>w DEF PutKept
<1>1. ASSUME NEW w \in Tasks, NEW r \in Requests, NEW now \in HostTime,
             Begin(w, r, now) \/ Refuse(w, r, now)
      PROVE  PutKept(q)
  <2>1. tasks[w].pc # "put" /\ puts' = puts
    BY <1>1 DEF Begin, Refuse, IdleTask
  <2>2. \A v \in Tasks : v # w => tasks'[v] = tasks[v]
    BY <1>1, <1>t DEF Begin, Refuse
  <2> QED
    BY <1>k, <1>w, <2>1, <2>2
<1>2. ASSUME NEW w \in Tasks, LoadReplays(w) \/ LoadFails(w) PROVE PutKept(q)
  <2>1. tasks[w].pc # "put" /\ puts' = puts /\ tasks' = [tasks EXCEPT ![w] = IdleTask]
    BY <1>2 DEF LoadReplays, LoadFails, Answer
  <2> QED
    BY <1>k, <1>t, <1>w, <2>1
<1>3. ASSUME NEW w \in Tasks, LoadAppends(w) PROVE PutKept(q) \/ q = NewPut(w)
  <2>1. /\ tasks[w].pc = "load" /\ puts' = puts \union {NewPut(w)}
        /\ \A v \in Tasks : v # w => tasks'[v] = tasks[v]
    BY <1>3, <1>t DEF LoadAppends, NewPut
  <2>2. CASE q \in puts
    BY <1>k, <1>w, <2>1, <2>2
  <2> QED
    BY <2>1, <2>2
<1>4. ASSUME NEW w \in Tasks, NEW p \in puts, PutApplied(w, p) \/ PutMismatch(w, p)
      PROVE  PutKept(q)
  <2>1. p.owner = w /\ puts' = puts \ {p}
    BY <1>4 DEF PutApplied, PutMismatch
  <2>2. \A v \in Tasks : v # w => tasks'[v] = tasks[v]
    BY <1>4, <1>t DEF PutApplied, PutMismatch, Answer
  <2>3. q \in puts /\ (q.owner # Nobody => q.owner # w)
    BY <1>t, <2>1 DEF IInv, OnePutEach
  <2> QED
    BY <1>k, <1>w, <2>2, <2>3
<1>5. ASSUME NEW w \in Tasks, Abandon(w) PROVE PutKept(q)
  <2>1. PICK p \in puts : q = IF p.owner = w THEN [p EXCEPT !.owner = Nobody] ELSE p
    BY <1>5 DEF Abandon
  <2>2. \A v \in Tasks : v # w => tasks'[v] = tasks[v]
    BY <1>5, <1>t DEF Abandon, Answer
  <2>3. CASE p.owner = w
    <3>1. q.target = p.target /\ q.events = p.events /\ q.prev_revision = p.prev_revision
          /\ q.owner = Nobody
      BY <1>t, <2>1, <2>3 DEF Put
    <3> QED
      BY <3>1 DEF PutKept
  <2>4. CASE p.owner # w
    BY <1>k, <1>w, <2>1, <2>2, <2>4
  <2> QED
    BY <2>3, <2>4
<1>6. ASSUME NEW p \in puts, LatePut(p) PROVE PutKept(q)
  BY <1>k, <1>6 DEF LatePut
<1>7. CASE Check
  BY <1>k, <1>7 DEF Check, BeginCheck, CheckToken, CheckSubject, CheckFails
<1>8. CASE Tick \/ UNCHANGED vars
  BY <1>k, <1>8 DEF Tick, vars
<1> QED
  BY <1>1, <1>2, <1>3, <1>4, <1>5, <1>6, <1>7, <1>8 DEF Next, Mutate

\* What LoadAppends sends: the stored ledger and the event the request asks for.
LEMMA NewPutIs ==
  ASSUME IInv, NEW w \in Tasks, LoadAppends(w)
  PROVE  LET p == NewPut(w) IN
         /\ p.target \in Targets /\ p.target = tasks[w].request.target
         /\ tasks[w].request \in Requests /\ tasks[w].now \in Time
         /\ p.owner = w
         /\ p.prev_revision = kv[p.target].revision
         /\ Len(p.events) = Len(kv[p.target].events) + 1
         /\ LedgerEntry(p.events[Len(p.events)]) =
              LedgerEntry(NewEvent(tasks[w].request, tasks[w].now, <<>>))
<1> DEFINE r == tasks[w].request
           now == tasks[w].now
           events == kv[r.target].events
           p == NewPut(w)
<1>1. /\ tasks[w] \in RunningTask /\ r \in Requests /\ now \in Nat /\ now \in Time
      /\ events \in Seq(Event) /\ r.target \in Targets
  BY RunningSlot, HashTypes DEF LoadAppends, IInv, RunningTask, Request
<1>2. /\ p.target = r.target /\ p.owner = w /\ p.prev_revision = kv[r.target].revision
      /\ p.events = Appended(r, now, events)
  BY DEF NewPut
<1> HIDE DEF r, now, events, p
<1>3. NewEvent(r, now, events) \in Event
  BY <1>1, NewEventType
<1>4. /\ Len(p.events) = Len(events) + 1
      /\ p.events[Len(p.events)] = NewEvent(r, now, events)
  BY <1>1, <1>2, <1>3, AppendProperties DEF Appended
<1>5. LedgerEntry(NewEvent(r, now, events)) = LedgerEntry(NewEvent(r, now, <<>>))
  BY DEF LedgerEntry, NewEvent
<1> USE DEF r, now, events, p
<1> QED
  BY <1>1, <1>2, <1>4, <1>5, Zenon

-----------------------------------------------------------------------------
(* The parts of the invariant, one by one.                                 *)

\* Every step keeps PutsMade.
LEMMA PutsMadeStep ==
  ASSUME IInv, PutsMade, [Next]_vars
  PROVE  PutsMade'
<1> SUFFICES ASSUME NEW q \in puts'
             PROVE  \E r \in Requests, now \in Time :
               /\ r.target = q.target
               /\ LedgerEntry(q.events[Len(q.events)]) = LedgerEntry(NewEvent(r, now, <<>>))
               /\ q.owner # Nobody => r = tasks'[q.owner].request /\ now = tasks'[q.owner].now
  BY DEF PutsMade
<1>1. CASE PutKept(q)
  <2>1. PICK p \in puts :
          /\ q.target = p.target /\ q.events = p.events
          /\ q.owner # Nobody => q.owner = p.owner /\ tasks'[q.owner] = tasks[q.owner]
    BY <1>1 DEF PutKept
  <2> QED
    BY <2>1, Zenon DEF PutsMade
<1>2. ASSUME NEW w \in Tasks, LoadAppends(w), q = NewPut(w)
      PROVE  \E r \in Requests, now \in Time :
               /\ r.target = q.target
               /\ LedgerEntry(q.events[Len(q.events)]) = LedgerEntry(NewEvent(r, now, <<>>))
               /\ q.owner # Nobody => r = tasks'[q.owner].request /\ now = tasks'[q.owner].now
  <2>1. tasks'[w].request = tasks[w].request /\ tasks'[w].now = tasks[w].now
    BY <1>2, RunningSlot DEF LoadAppends, IInv, TypeOK, RunningTask
  <2>2. /\ tasks[w].request \in Requests /\ tasks[w].now \in Time /\ q.owner = w
        /\ tasks[w].request.target = q.target
        /\ LedgerEntry(q.events[Len(q.events)]) =
             LedgerEntry(NewEvent(tasks[w].request, tasks[w].now, <<>>))
    BY <1>2, NewPutIs
  <2> QED
    BY <2>1, <2>2, Zenon
<1> QED
  BY <1>1, <1>2, PutSteps

\* Every step keeps PutsOutrun: the first PUT that KV applies to a ledger makes
\* it as long as all that were made from the same revision.
LEMMA PutsOutrunStep ==
  ASSUME IInv, IInv', PutsOutrun, [Next]_vars
  PROVE  PutsOutrun'
<1> SUFFICES ASSUME NEW q \in puts', q.prev_revision # kv'[q.target].revision
             PROVE  Len(q.events) <= Len(kv'[q.target].events)
  BY DEF PutsOutrun
<1>1. CASE PutKept(q)
  <2>1. PICK p \in puts : /\ q.target = p.target /\ q.events = p.events
                          /\ q.prev_revision = p.prev_revision
    BY <1>1 DEF PutKept
  <2>2. p.target \in Targets /\ p.events \in Seq(Event)
    BY DEF IInv, TypeOK, Put
  <2>3. GrowsByOne(p.target)
    BY <2>2, LedgersGrow
  <2>4. Len(kv[p.target].events) \in Nat /\ Len(p.events) \in Nat
    <3>1. kv[p.target].events \in Seq(Event)
      BY <2>2 DEF IInv, TypeOK
    <3> QED
      BY <2>2, <3>1
  <2>5. CASE p.prev_revision # kv[p.target].revision
    <3>1. Len(p.events) <= Len(kv[p.target].events)
      BY <2>5 DEF PutsOutrun
    <3> QED
      BY <2>1, <2>3, <2>4, <3>1 DEF GrowsByOne
  <2>6. CASE p.prev_revision = kv[p.target].revision
    <3>1. Len(p.events) = Len(kv[p.target].events) + 1
      <4>1. PICK e \in Event : p.events = Append(kv[p.target].events, e)
        BY <2>6 DEF IInv, PutsExtend
      <4>2. kv[p.target].events \in Seq(Event)
        BY <2>2 DEF IInv, TypeOK
      <4> QED
        BY <4>1, <4>2, AppendProperties
    <3>2. kv'[p.target] # kv[p.target]
      BY <2>1, <2>6
    <3>3. Len(kv'[p.target].events) = Len(kv[p.target].events) + 1
      BY <2>3, <3>2 DEF GrowsByOne
    <3> QED
      BY <2>1, <2>4, <3>1, <3>3
  <2> QED
    BY <2>5, <2>6
<1>2. ASSUME NEW w \in Tasks, LoadAppends(w), q = NewPut(w) PROVE FALSE
  <2>1. q.prev_revision = kv[q.target].revision
    BY <1>2, NewPutIs
  <2> QED
    BY <1>2, <2>1 DEF LoadAppends
<1> QED
  BY <1>1, <1>2, PutSteps

\* A step leaves a running handler's request, start and attempts as they are,
\* unless it starts the handler or counts a failed attempt.
LEMMA TaskSteps ==
  ASSUME IInv, [Next]_vars, NEW v \in Tasks, tasks'[v].pc \in {"load", "put"}
  PROVE  \/ \E r \in Requests, now \in HostTime : Begin(v, r, now)
         \/ \E p \in puts : /\ PutMismatch(v, p)
                            /\ tasks'[v] = [tasks[v] EXCEPT !.pc = "load",
                                                            !.attempts = @ + 1]
         \/ LoadAppends(v) /\ tasks'[v] = [tasks[v] EXCEPT !.pc = "put"]
         \/ tasks'[v] = tasks[v]
<1>t. tasks \in [Tasks -> {IdleTask} \union RunningTask]
  BY DEF IInv, TypeOK
<1>1. ASSUME NEW w \in Tasks, tasks' = [tasks EXCEPT ![w] = IdleTask]
      PROVE  tasks'[v] = tasks[v]
  BY <1>1, <1>t DEF IdleTask
<1>2. ASSUME NEW w \in Tasks, NEW r \in Requests, NEW now \in HostTime, Begin(w, r, now)
      PROVE  Begin(v, r, now) \/ tasks'[v] = tasks[v]
  <2>1. CASE v = w
    BY <1>2, <2>1
  <2>2. CASE v # w
    BY <1>2, <1>t, <2>2 DEF Begin
  <2> QED
    BY <2>1, <2>2
<1>3. ASSUME NEW w \in Tasks, NEW r \in Requests, NEW now \in HostTime, Refuse(w, r, now)
      PROVE  tasks'[v] = tasks[v]
  BY <1>3 DEF Refuse
<1>4. ASSUME NEW w \in Tasks, LoadReplays(w) \/ LoadFails(w) \/ Abandon(w)
      PROVE  tasks'[v] = tasks[v]
  BY <1>4, <1>1 DEF LoadReplays, LoadFails, Abandon, Answer
<1>5. ASSUME NEW w \in Tasks, NEW p \in puts, PutApplied(w, p)
      PROVE  tasks'[v] = tasks[v]
  BY <1>5, <1>1 DEF PutApplied, Answer
<1>6. ASSUME NEW w \in Tasks, LoadAppends(w)
      PROVE  \/ LoadAppends(v) /\ tasks'[v] = [tasks[v] EXCEPT !.pc = "put"]
             \/ tasks'[v] = tasks[v]
  <2>1. tasks' = [tasks EXCEPT ![w] = [tasks[w] EXCEPT !.pc = "put"]]
    BY <1>6 DEF LoadAppends
  <2>2. CASE v = w
    BY <1>6, <1>t, <2>1, <2>2
  <2>3. CASE v # w
    BY <1>t, <2>1, <2>3
  <2> QED
    BY <2>2, <2>3
<1>7. ASSUME NEW w \in Tasks, NEW p \in puts, PutMismatch(w, p)
      PROVE  \/ /\ PutMismatch(v, p)
                /\ tasks'[v] = [tasks[v] EXCEPT !.pc = "load", !.attempts = @ + 1]
             \/ tasks'[v] = tasks[v]
  <2>1. \/ tasks' = [tasks EXCEPT ![w] = IdleTask]
        \/ tasks' = [tasks EXCEPT ![w] = [tasks[w] EXCEPT !.pc = "load",
                                                          !.attempts = @ + 1]]
    BY <1>7, <1>t DEF PutMismatch, Answer
  <2>2. CASE tasks' = [tasks EXCEPT ![w] = IdleTask]
    BY <1>1, <2>2
  <2>3. CASE tasks' = [tasks EXCEPT ![w] = [tasks[w] EXCEPT !.pc = "load",
                                                            !.attempts = @ + 1]]
    <3>1. CASE v = w
      BY <1>7, <1>t, <2>3, <3>1
    <3>2. CASE v # w
      BY <1>t, <2>3, <3>2
    <3> QED
      BY <3>1, <3>2
  <2> QED
    BY <2>1, <2>2, <2>3
<1>8. ASSUME NEW p \in puts, LatePut(p) PROVE tasks'[v] = tasks[v]
  BY <1>8 DEF LatePut
<1>9. CASE Check
  BY <1>9 DEF Check, BeginCheck, CheckToken, CheckSubject, CheckFails
<1>10. CASE Tick \/ UNCHANGED vars
  BY <1>10 DEF Tick, vars
<1> QED
  BY <1>2, <1>3, <1>4, <1>5, <1>6, <1>7, <1>8, <1>9, <1>10 DEF Next, Mutate

\* A PUT that lost: its handler's failed attempts, this one included, are events
\* that others added since it began.
LEMMA LostPut ==
  ASSUME IInv, PutsOutrun, AttemptsLost, NEW w \in Tasks, NEW p \in puts,
         PutMismatch(w, p)
  PROVE  /\ tasks[w] \in RunningTask
         /\ tasks[w].request.target \in Targets
         /\ tasks[w].began + tasks[w].attempts + 1
              <= Len(kv[tasks[w].request.target].events)
<1>1. /\ tasks[w] \in RunningTask /\ tasks[w].request.target \in Targets
      /\ tasks[w].request.target = p.target
  BY RunningSlot, HashTypes, LedgerConstants
     DEF PutMismatch, IInv, PutsOwned, Request
<1>2. p.prev_revision # kv[p.target].revision
  BY DEF PutMismatch, Cas
<1>3. Len(p.events) <= Len(kv[p.target].events)
  BY <1>2 DEF PutsOutrun
<1>4. tasks[w].began + tasks[w].attempts < Len(p.events)
  BY LedgerConstants DEF PutMismatch, AttemptsLost
<1>5. tasks[w].began \in Nat /\ tasks[w].attempts \in Nat
  BY <1>1 DEF RunningTask
<1>6. Len(p.events) \in Nat /\ Len(kv[p.target].events) \in Nat
  <2>1. p.events \in Seq(Event) /\ p.target \in Targets
    BY DEF IInv, TypeOK, Put
  <2>2. kv[p.target].events \in Seq(Event)
    BY <2>1 DEF IInv, TypeOK
  <2> QED
    BY <2>1, <2>2
<1>7. \A b, a, m, n \in Nat : b + a < m /\ m <= n => b + a + 1 <= n
  OBVIOUS
<1>8. tasks[w].began + tasks[w].attempts + 1 <= Len(kv[p.target].events)
  BY <1>3, <1>4, <1>5, <1>6, <1>7, Zenon
<1> QED
  BY <1>1, <1>8, Zenon
\* Every step keeps AttemptsLost.
LEMMA AttemptsLostStep ==
  ASSUME IInv, IInv', PutsOutrun, AttemptsLost, [Next]_vars
  PROVE  AttemptsLost'
<1>1. ASSUME NEW v \in Tasks, tasks'[v].pc \in {"load", "put"}
      PROVE  tasks'[v].began + tasks'[v].attempts
               <= Len(kv'[tasks'[v].request.target].events)
  <2>1. ASSUME NEW r \in Requests, NEW now \in HostTime, Begin(v, r, now)
        PROVE  /\ r.target \in Targets
               /\ tasks'[v].began = Len(kv[r.target].events)
               /\ tasks'[v].attempts = 0
               /\ tasks'[v].request = r
               /\ kv' = kv
    BY <2>1, HashTypes DEF Begin, IInv, TypeOK, Request
  <2>2. CASE \E r \in Requests, now \in HostTime : Begin(v, r, now)
    <3>1. PICK r \in Requests : /\ r.target \in Targets
                                /\ tasks'[v].began = Len(kv[r.target].events)
                                /\ tasks'[v].attempts = 0
                                /\ tasks'[v].request = r
                                /\ kv' = kv
      BY <2>1, <2>2
    <3>2. Len(kv[r.target].events) \in Nat
      BY <3>1 DEF IInv, TypeOK
    <3>3. \A n \in Nat : n + 0 <= n
      OBVIOUS
    <3> QED
      BY <3>1, <3>2, <3>3, Zenon
  <2>3. ASSUME NEW p \in puts, PutMismatch(v, p),
               tasks'[v] = [tasks[v] EXCEPT !.pc = "load", !.attempts = @ + 1]
        PROVE  tasks'[v].began + tasks'[v].attempts
                 <= Len(kv'[tasks'[v].request.target].events)
    <3>1. /\ tasks[v] \in RunningTask /\ tasks[v].request.target \in Targets
          /\ tasks[v].began + tasks[v].attempts + 1
               <= Len(kv[tasks[v].request.target].events)
      BY <2>3, LostPut
    <3>2. /\ tasks'[v].began = tasks[v].began
          /\ tasks'[v].attempts = tasks[v].attempts + 1
          /\ tasks'[v].request = tasks[v].request
      BY <2>3, <3>1 DEF RunningTask
    <3>3. tasks[v].began \in Nat /\ tasks[v].attempts \in Nat
      BY <3>1 DEF RunningTask
    <3>4. /\ Len(kv[tasks[v].request.target].events)
               <= Len(kv'[tasks[v].request.target].events)
          /\ Len(kv[tasks[v].request.target].events) \in Nat
          /\ Len(kv'[tasks[v].request.target].events) \in Nat
      BY <3>1, EventsStay
    <3>5. \A b, a, m, n \in Nat : b + a + 1 <= m /\ m <= n => b + (a + 1) <= n
      OBVIOUS
    <3> QED
      BY <3>1, <3>2, <3>3, <3>4, <3>5, Zenon
  <2>4. ASSUME \/ LoadAppends(v) /\ tasks'[v] = [tasks[v] EXCEPT !.pc = "put"]
               \/ tasks'[v] = tasks[v]
        PROVE  tasks'[v].began + tasks'[v].attempts
                 <= Len(kv'[tasks'[v].request.target].events)
    <3>1. tasks[v].pc \in {"load", "put"}
      BY <1>1, <2>4 DEF LoadAppends
    <3>2. tasks[v] \in RunningTask /\ tasks[v].request.target \in Targets
      BY <3>1, RunningSlot, HashTypes DEF IInv, Request
    <3>3. /\ tasks'[v].began = tasks[v].began
          /\ tasks'[v].attempts = tasks[v].attempts
          /\ tasks'[v].request = tasks[v].request
      BY <2>4, <3>2 DEF RunningTask
    <3>4. tasks[v].began \in Nat /\ tasks[v].attempts \in Nat
      BY <3>2 DEF RunningTask
    <3>5. tasks[v].began + tasks[v].attempts <= Len(kv[tasks[v].request.target].events)
      BY <3>1 DEF AttemptsLost
    <3>6. /\ Len(kv[tasks[v].request.target].events)
               <= Len(kv'[tasks[v].request.target].events)
          /\ Len(kv[tasks[v].request.target].events) \in Nat
          /\ Len(kv'[tasks[v].request.target].events) \in Nat
      BY <3>2, EventsStay
    <3>7. \A b, a, m, n \in Nat : b + a <= m /\ m <= n => b + a <= n
      OBVIOUS
    <3> QED
      BY <3>3, <3>4, <3>5, <3>6, <3>7, Zenon
  <2> QED
    BY <1>1, <2>2, <2>3, <2>4, TaskSteps
<1>2. ASSUME NEW q \in puts', q.owner # Nobody
      PROVE  tasks'[q.owner].began + tasks'[q.owner].attempts < Len(q.events)
  <2>1. CASE PutKept(q)
    BY <1>2, <2>1 DEF PutKept, AttemptsLost
  <2>2. ASSUME NEW w \in Tasks, LoadAppends(w), q = NewPut(w)
        PROVE  tasks'[q.owner].began + tasks'[q.owner].attempts < Len(q.events)
    <3>1. /\ tasks[w] \in RunningTask /\ q.owner = w
          /\ tasks[w].request.target \in Targets
          /\ Len(q.events) = Len(kv[tasks[w].request.target].events) + 1
      BY <2>2, NewPutIs, RunningSlot DEF LoadAppends, IInv
    <3>2. tasks'[w].began = tasks[w].began /\ tasks'[w].attempts = tasks[w].attempts
      BY <2>2, <3>1 DEF LoadAppends, IInv, TypeOK, RunningTask
    <3>3. tasks[w].began \in Nat /\ tasks[w].attempts \in Nat
      BY <3>1 DEF RunningTask
    <3>4. tasks[w].began + tasks[w].attempts <= Len(kv[tasks[w].request.target].events)
      BY <2>2 DEF AttemptsLost, LoadAppends
    <3>5. Len(kv[tasks[w].request.target].events) \in Nat
      BY <3>1 DEF IInv, TypeOK
    <3>6. \A b, a, n \in Nat : b + a <= n => b + a < n + 1
      OBVIOUS
    <3> QED
      BY <3>1, <3>2, <3>3, <3>4, <3>5, <3>6, Zenon
  <2> QED
    BY <2>1, <2>2, PutSteps
<1> QED
  BY <1>1, <1>2 DEF AttemptsLost

\* The loop is exhausted only after as many events of others as it had attempts.
LEMMA ExhaustionStep ==
  ASSUME IInv, PutsOutrun, AttemptsLost, ExhaustionMeansContention, [Next]_vars
  PROVE  ExhaustionMeansContention'
<1> SUFFICES ASSUME outcome'.kind = "cas_exhausted"
             PROVE  outcome'.competing >= MAX_CAS_RETRIES
  BY DEF ExhaustionMeansContention
<1>n. NoOutcome.kind # "cas_exhausted"
  BY DEF NoOutcome
<1>1. ASSUME NEW w \in Tasks, NEW p \in puts, PutMismatch(w, p)
      PROVE  outcome'.competing >= MAX_CAS_RETRIES
  <2>1. CASE tasks[w].attempts + 1 < MAX_CAS_RETRIES
    BY <1>1, <2>1, <1>n DEF PutMismatch
  <2>2. CASE ~(tasks[w].attempts + 1 < MAX_CAS_RETRIES)
    <3>1. outcome'.competing =
            Len(kv[tasks[w].request.target].events) - tasks[w].began
      BY <1>1, <2>2 DEF PutMismatch, Answer
    <3>2. /\ tasks[w] \in RunningTask /\ tasks[w].request.target \in Targets
          /\ tasks[w].began + tasks[w].attempts + 1
               <= Len(kv[tasks[w].request.target].events)
      BY <1>1, LostPut
    <3>3. tasks[w].began \in Nat /\ tasks[w].attempts \in Nat /\ MAX_CAS_RETRIES \in Nat
      BY <3>2, LedgerConstants DEF RunningTask
    <3>4. Len(kv[tasks[w].request.target].events) \in Nat
      BY <3>2 DEF IInv, TypeOK
    <3>5. \A b, a, n, m \in Nat : b + a + 1 <= n /\ ~(a + 1 < m) => n - b >= m
      OBVIOUS
    <3> QED
      BY <2>2, <3>1, <3>2, <3>3, <3>4, <3>5, Zenon
  <2> QED
    BY <2>1, <2>2
<1>2. ASSUME NEW w \in Tasks, LoadReplays(w) \/ Abandon(w) PROVE FALSE
  BY <1>2 DEF LoadReplays, Abandon, Answer
<1>3. ASSUME NEW w \in Tasks, LoadFails(w) PROVE FALSE
  <2>1. outcome'.kind = LoadResult(tasks[w].request, tasks[w].now,
                                   kv[tasks[w].request.target])
    BY <1>3 DEF LoadFails, Answer
  <2>2. \A r, now, events : AppendResult(r, now, events) # "cas_exhausted"
    BY DEF AppendResult
  <2> QED
    BY <2>1, <2>2 DEF LoadResult
<1>4. ASSUME NEW w \in Tasks, LoadAppends(w) PROVE FALSE
  BY <1>4, <1>n DEF LoadAppends
<1>5. ASSUME NEW w \in Tasks, NEW p \in puts, PutApplied(w, p) PROVE FALSE
  BY <1>5 DEF PutApplied, Answer
<1>6. ASSUME NEW w \in Tasks, NEW r \in Requests, NEW now \in HostTime,
             Begin(w, r, now) \/ Refuse(w, r, now)
      PROVE  FALSE
  BY <1>6, <1>n DEF Begin, Refuse
<1>7. ASSUME NEW p \in puts, LatePut(p) PROVE FALSE
  BY <1>7, <1>n DEF LatePut
<1>8. ASSUME Check PROVE FALSE
  BY <1>8, <1>n DEF Check, BeginCheck, CheckToken, CheckSubject, CheckFails
<1>9. ASSUME Tick PROVE FALSE
  BY <1>9, <1>n DEF Tick
<1>10. CASE UNCHANGED vars
  BY <1>10 DEF vars, ExhaustionMeansContention
<1> QED
  BY <1>1, <1>2, <1>3, <1>4, <1>5, <1>6, <1>7, <1>8, <1>9, <1>10 DEF Next, Mutate

-----------------------------------------------------------------------------
(* Retries.                                                                *)

\* In a ledger that validates, an identity has one event.
LEMMA OneEventEach ==
  ASSUME NEW t, NEW events \in Seq(Event), Validate(t, events),
         NEW i \in 1 .. Len(events), NEW j \in 1 .. Len(events),
         events[i].idempotency_hash = events[j].idempotency_hash
  PROVE  i = j
<1>1. \A k \in 1 .. Len(events) : \A m \in 1 .. k - 1 :
        events[m].idempotency_hash # events[k].idempotency_hash
  BY DEF Validate, ValidEvent
<1>2. ~(i < j)
  <2> SUFFICES ASSUME i < j PROVE FALSE
    OBVIOUS
  <2>1. i \in 1 .. j - 1
    OBVIOUS
  <2> QED
    BY <1>1, <2>1
<1>3. ~(j < i)
  <2> SUFFICES ASSUME j < i PROVE FALSE
    OBVIOUS
  <2>1. j \in 1 .. i - 1
    OBVIOUS
  <2> QED
    BY <1>1, <2>1
<1> QED
  BY <1>2, <1>3

\* A handler whose request has its event in the ledger finds it.
LEMMA RetryReplays ==
  ASSUME IInv, NEW w \in Tasks, tasks[w].pc = "load",
         \E i \in 1 .. Len(kv[tasks[w].request.target].events) :
           /\ kv[tasks[w].request.target].events[i].idempotency_hash =
                IdempotencyHash(tasks[w].request)
           /\ kv[tasks[w].request.target].events[i].request_hash =
                RequestHash(tasks[w].request)
  PROVE  LoadResult(tasks[w].request, tasks[w].now, kv[tasks[w].request.target]) = "replay"
<1> DEFINE r == tasks[w].request
           stored == kv[r.target]
           events == stored.events
<1>1. /\ r \in Requests /\ r.target \in Targets
      /\ stored \in [revision: Nat, events: Seq(Event)]
  BY RunningSlot, HashTypes DEF IInv, Request
<1>2. PICK i \in 1 .. Len(events) : /\ events[i].idempotency_hash = IdempotencyHash(r)
                                    /\ events[i].request_hash = RequestHash(r)
  OBVIOUS
<1>3. stored.revision # 0
  <2>1. events # <<>>
    BY <1>1, <1>2
  <2> QED
    BY <1>1, <2>1 DEF IInv, EmptyIffAbsent
<1>4. Validate(r.target, events)
  BY <1>1, <1>3 DEF IInv, StoredLedgersValid
<1> HIDE DEF r, stored
<1>5. i \in Matching(r, events)
  BY <1>2 DEF Matching
<1>6. \A j \in Matching(r, events) : j = i
  BY <1>1, <1>2, <1>4, OneEventEach DEF Matching
<1>7. LoadResult(r, tasks[w].now, stored) = "replay"
  BY <1>2, <1>3, <1>4, <1>5, <1>6 DEF LoadResult
<1> QED
  BY <1>7 DEF r, stored

\* Every step keeps RetriesFind.
LEMMA RetriesFindStep ==
  ASSUME IInv, IInv', AcksDescribe, RetriesFind, [Next]_vars
  PROVE  RetriesFind'
<1> DEFINE Found(k, r) ==
      \E i \in 1 .. Len(k[r.target].events) :
        /\ k[r.target].events[i].idempotency_hash = IdempotencyHash(r)
        /\ k[r.target].events[i].request_hash = RequestHash(r)
<1> SUFFICES ASSUME NEW v \in Tasks, tasks'[v].pc \in {"load", "put"}, tasks'[v].retried
             PROVE  tasks'[v].pc = "load" /\ Found(kv', tasks'[v].request)
  BY DEF RetriesFind
<1>1. ASSUME NEW r \in Requests, Found(kv, r) PROVE Found(kv', r)
  <2>1. r.target \in Targets
    BY HashTypes DEF Request
  <2>2. \A i \in 1 .. Len(kv[r.target].events) :
          /\ i \in 1 .. Len(kv'[r.target].events)
          /\ kv'[r.target].events[i] = kv[r.target].events[i]
    BY <2>1, EventsStay
  <2> QED
    BY <1>1, <2>2, Zenon
<1>2. ASSUME tasks[v].pc \in {"load", "put"}, tasks[v].retried
      PROVE  /\ tasks[v].pc = "load" /\ tasks[v].request \in Requests
             /\ Found(kv, tasks[v].request)
  BY <1>2, RunningSlot DEF RetriesFind, IInv
<1> HIDE DEF Found
<1>3. ASSUME NEW r \in Requests, NEW now \in HostTime, Begin(v, r, now)
      PROVE  tasks'[v].pc = "load" /\ Found(kv', tasks'[v].request)
  <2>1. tasks'[v].pc = "load" /\ tasks'[v].request = r /\ tasks'[v].retried = Acked(r)
    BY <1>3 DEF Begin, IInv, TypeOK
  <2>2. PICK a \in acks : a.idem = IdempotencyHash(r) /\ a.req = RequestHash(r)
    BY <2>1 DEF Acked
  <2>3. a.target = r.target
    BY <2>2 DEF AcksDescribe, IdempotencyHash
  <2>4. Found(kv, r)
    BY <2>2, <2>3 DEF IInv, AckedDurable, Found
  <2> QED
    BY <1>1, <2>1, <2>4
<1>4. ASSUME NEW p \in puts, PutMismatch(v, p),
             tasks'[v] = [tasks[v] EXCEPT !.pc = "load", !.attempts = @ + 1]
      PROVE  FALSE
  <2>1. tasks[v].pc = "put" /\ tasks[v] \in RunningTask
    BY <1>4, RunningSlot DEF PutMismatch, IInv
  <2>2. tasks[v].retried
    BY <1>4, <2>1 DEF RunningTask
  <2> QED
    BY <1>2, <2>1, <2>2
<1>5. ASSUME LoadAppends(v), tasks'[v] = [tasks[v] EXCEPT !.pc = "put"] PROVE FALSE
  <2>1. /\ tasks[v].pc = "load" /\ tasks[v] \in RunningTask
        /\ LoadResult(tasks[v].request, tasks[v].now, kv[tasks[v].request.target]) = "append"
    BY <1>5, RunningSlot DEF LoadAppends, IInv
  <2>2. tasks[v].retried
    BY <1>5, <2>1 DEF RunningTask
  <2> QED
    BY <1>2, <2>1, <2>2, RetryReplays DEF Found
<1>6. CASE tasks'[v] = tasks[v]
  BY <1>1, <1>2, <1>6
<1> QED
  BY <1>3, <1>4, <1>5, <1>6, TaskSteps

\* A retry of an acknowledged request is not refused by any step.
LEMMA RetryNotRefusedStep ==
  ASSUME IInv, RetriesFind, RetryNotRefused, [Next]_vars
  PROVE  RetryNotRefused'
<1> SUFFICES ASSUME outcome'.retried
             PROVE  outcome'.kind \in {"ok", "unavailable", "contract"}
  BY DEF RetryNotRefused
<1>n. ~NoOutcome.retried
  BY DEF NoOutcome
<1>1. ASSUME NEW w \in Tasks, NEW p \in puts, PutMismatch(w, p) PROVE FALSE
  <2>1. tasks[w].pc = "put" /\ tasks[w].retried
    BY <1>1, <1>n DEF PutMismatch, Answer
  <2> QED
    BY <2>1 DEF RetriesFind
<1>2. ASSUME NEW w \in Tasks, LoadReplays(w) \/ Abandon(w)
      PROVE  outcome'.kind \in {"ok", "unavailable", "contract"}
  BY <1>2 DEF LoadReplays, Abandon, Answer
<1>3. ASSUME NEW w \in Tasks, LoadFails(w) PROVE FALSE
  <2>1. /\ tasks[w].pc = "load" /\ tasks[w].retried
        /\ LoadResult(tasks[w].request, tasks[w].now, kv[tasks[w].request.target]) # "replay"
    BY <1>3 DEF LoadFails, Answer
  <2> QED
    BY <2>1, RetryReplays DEF RetriesFind
<1>4. ASSUME NEW w \in Tasks, LoadAppends(w) PROVE FALSE
  BY <1>4, <1>n DEF LoadAppends
<1>5. ASSUME NEW w \in Tasks, NEW p \in puts, PutApplied(w, p)
      PROVE  outcome'.kind \in {"ok", "unavailable", "contract"}
  BY <1>5 DEF PutApplied, Answer
<1>6. ASSUME NEW w \in Tasks, NEW r \in Requests, NEW now \in HostTime,
             Begin(w, r, now) \/ Refuse(w, r, now)
      PROVE  outcome'.kind \in {"ok", "unavailable", "contract"}
  BY <1>6, <1>n DEF Begin, Refuse
<1>7. ASSUME NEW p \in puts, LatePut(p) PROVE FALSE
  BY <1>7, <1>n DEF LatePut
<1>8. ASSUME Check PROVE FALSE
  BY <1>8, <1>n DEF Check, BeginCheck, CheckToken, CheckSubject, CheckFails
<1>9. ASSUME Tick PROVE FALSE
  BY <1>9, <1>n DEF Tick
<1>10. CASE UNCHANGED vars
  BY <1>10 DEF vars, RetryNotRefused
<1> QED
  BY <1>1, <1>2, <1>3, <1>4, <1>5, <1>6, <1>7, <1>8, <1>9, <1>10 DEF Next, Mutate

-----------------------------------------------------------------------------
(* Answers.                                                                *)

\* How the answer a describes the event at its generation.
Describes(a, events) ==
  /\ a.idem[2] = a.target
  /\ a.status = IF events[a.generation].action = "revoke" THEN "active" ELSE "lifted"
  /\ a.expires_at = LatestExpiry(events, a.generation)

\* The answer to a write that was applied describes the event it added: the
\* record that was just written is in force.
LEMMA SnapshotDescribes ==
  ASSUME IInv, PutsMade, NEW w \in Tasks, NEW p \in puts, PutApplied(w, p)
  PROVE  LET a == Snapshot(tasks[w].request, p.events, tasks[w].now) IN
         /\ a.target = p.target /\ a.generation = Len(p.events)
         /\ a.req = RequestHash(tasks[w].request)
         /\ Describes(a, p.events)
<1> DEFINE r == tasks[w].request
           now == tasks[w].now
           events == p.events
           e == events[Len(events)]
           a == Snapshot(r, events, now)
<1>0. p.owner = w /\ w # Nobody /\ r \in Requests /\ now \in Nat
  BY RunningSlot, LedgerConstants DEF PutApplied, IInv
<1>1. /\ r.target = p.target
      /\ LedgerEntry(e) = LedgerEntry(NewEvent(r, now, <<>>))
  BY <1>0 DEF PutsMade
<1>2. e.action = r.action /\ e.at = now
  BY <1>1 DEF LedgerEntry, NewEvent
<1>3. Validate(p.target, events) /\ events \in Seq(Event)
  BY DEF IInv, PutsValid, TypeOK, Put
<1> HIDE DEF r, now, events
<1>4. events # <<>> /\ Len(events) \in 1 .. Len(events) /\ e \in Event
  BY <1>3, LastEvent DEF Validate
<1> HIDE DEF e
<1>5. ValidEvent(p.target, events, Len(events))
  BY <1>3, <1>4, Zenon DEF Validate
<1>6. Generation(events) = Len(events)
  BY <1>4, <1>5 DEF Generation, ValidEvent
<1>7. Status(events, now) = IF e.action = "revoke" THEN "active" ELSE "lifted"
  <2>1. CASE e.action = "revoke"
    <3>1. ValidRecord(e)
      BY <1>5, <2>1 DEF ValidEvent, e
    <3>2. e.at \in Nat /\ e.expires_at \in Nat
      BY <1>4 DEF Event
    <3>3. ~(now < e.at) /\ e.at <= now /\ now < e.expires_at
      BY <1>2, <3>1, <3>2 DEF ValidRecord
    <3>4. HasCurrent(events) /\ IsActiveAt(e, now)
      BY <1>4, <2>1, <3>1, <3>3 DEF HasCurrent, IsActiveAt, e
    <3>5. Active(events, now)
      BY <3>4 DEF Active, e
    <3> QED
      BY <2>1, <3>3, <3>4, <3>5 DEF Status, e
  <2>2. CASE e.action # "revoke"
    BY <2>2 DEF Status, HasCurrent, e
  <2> QED
    BY <2>1, <2>2
<1>8. /\ a.target = r.target /\ a.generation = Len(events) /\ a.req = RequestHash(r)
      /\ a.idem = IdempotencyHash(r) /\ a.status = Status(events, now)
      /\ a.expires_at = LatestExpiry(events, Len(events))
  BY <1>6 DEF Snapshot
<1>9. a.idem[2] = a.target
  BY <1>8 DEF IdempotencyHash
<1> HIDE DEF a
<1>10. Describes(a, events)
  BY <1>7, <1>8, <1>9 DEF Describes, e
<1> QED
  BY <1>1, <1>8, <1>10 DEF a, r, now, events

\* The answer replay_snapshot gives describes the event it found.
LEMMA ReplayDescribes ==
  ASSUME IInv, NEW w \in Tasks, LoadReplays(w),
         NEW i \in Matching(tasks[w].request, kv[tasks[w].request.target].events)
  PROVE  LET a == ReplaySnapshot(tasks[w].request, kv[tasks[w].request.target].events, i) IN
         /\ a.target = tasks[w].request.target /\ a.target \in Targets
         /\ a.generation = i /\ i \in 1 .. Len(kv[a.target].events)
         /\ kv[a.target].events[i].idempotency_hash = a.idem
         /\ kv[a.target].events[i].request_hash = a.req
         /\ Describes(a, kv[a.target].events)
<1> DEFINE r == tasks[w].request
           stored == kv[r.target]
           a == ReplaySnapshot(r, stored.events, i)
<1>1. /\ r \in Requests /\ r.target \in Targets
      /\ stored \in [revision: Nat, events: Seq(Event)]
      /\ LoadResult(r, tasks[w].now, stored) = "replay"
  BY RunningSlot, HashTypes DEF LoadReplays, IInv, Request
<1>2. stored.revision = 0 <=> stored.events = <<>>
  BY <1>1 DEF IInv, EmptyIffAbsent
<1>3. /\ i \in 1 .. Len(stored.events)
      /\ stored.events[i].sequence = i
      /\ stored.events[i].idempotency_hash = IdempotencyHash(r)
      /\ stored.events[i].request_hash = RequestHash(r)
  <2> HIDE DEF r, stored
  <2>1. i \in Matching(r, stored.events)
    BY DEF r, stored
  <2> QED
    BY <1>1, <1>2, <2>1, ReplayLoaded
<1>4. /\ a.target = r.target /\ a.generation = i /\ a.idem = IdempotencyHash(r)
      /\ a.req = RequestHash(r) /\ a.expires_at = LatestExpiry(stored.events, i)
      /\ a.status = IF stored.events[i].action = "revoke" THEN "active" ELSE "lifted"
  BY <1>3 DEF ReplaySnapshot
<1>5. a.idem[2] = a.target
  BY <1>4 DEF IdempotencyHash
<1> HIDE DEF a
<1>6. stored = kv[a.target]
  BY <1>4
<1> HIDE DEF stored
<1>7. Describes(a, stored.events)
  BY <1>4, <1>5 DEF Describes
<1> QED
  BY <1>1, <1>3, <1>4, <1>6, <1>7, Zenon DEF a, r, stored

\* An answer after a step was given before it, or is the answer of the step.
LEMMA AckSteps ==
  ASSUME [Next]_vars, NEW a \in acks'
  PROVE  \/ a \in acks
         \/ \E w \in Tasks, p \in puts :
              PutApplied(w, p) /\ a = Snapshot(tasks[w].request, p.events, tasks[w].now)
         \/ \E w \in Tasks : LoadReplays(w) /\
              \E i \in Matching(tasks[w].request, kv[tasks[w].request.target].events) :
                a = ReplaySnapshot(tasks[w].request, kv[tasks[w].request.target].events, i)
<1>1. ASSUME NEW w \in Tasks, LoadReplays(w)
      PROVE  \/ a \in acks
             \/ \E i \in Matching(tasks[w].request, kv[tasks[w].request.target].events) :
                a = ReplaySnapshot(tasks[w].request, kv[tasks[w].request.target].events, i)
  BY <1>1 DEF LoadReplays
<1>2. ASSUME NEW w \in Tasks, NEW p \in puts, PutApplied(w, p)
      PROVE  a \in acks \/ a = Snapshot(tasks[w].request, p.events, tasks[w].now)
  BY <1>2 DEF PutApplied
<1>3. ASSUME NEW w \in Tasks, LoadFails(w) \/ LoadAppends(w) \/ Abandon(w) PROVE a \in acks
  BY <1>3 DEF LoadFails, LoadAppends, Abandon
<1>4. ASSUME NEW w \in Tasks, NEW p \in puts, PutMismatch(w, p) PROVE a \in acks
  BY <1>4 DEF PutMismatch
<1>5. ASSUME NEW w \in Tasks, NEW r \in Requests, NEW now \in HostTime,
             Begin(w, r, now) \/ Refuse(w, r, now)
      PROVE  a \in acks
  BY <1>5 DEF Begin, Refuse
<1>6. ASSUME NEW p \in puts, LatePut(p) PROVE a \in acks
  BY <1>6 DEF LatePut
<1>7. ASSUME Check PROVE a \in acks
  BY <1>7 DEF Check, BeginCheck, CheckToken, CheckSubject, CheckFails
<1>8. ASSUME Tick \/ UNCHANGED vars PROVE a \in acks
  BY <1>8 DEF Tick, vars
<1> QED
  BY <1>1, <1>2, <1>3, <1>4, <1>5, <1>6, <1>7, <1>8 DEF Next, Mutate

\* Every step keeps AcksDescribe.
LEMMA AcksDescribeStep ==
  ASSUME IInv, IInv', PutsMade, AcksDescribe, [Next]_vars
  PROVE  AcksDescribe'
<1> SUFFICES ASSUME NEW a \in acks' PROVE Describes(a, kv'[a.target].events)
  BY DEF AcksDescribe, Describes
<1>1. ASSUME Describes(a, kv[a.target].events), a.target \in Targets,
             a.generation \in 1 .. Len(kv[a.target].events)
      PROVE  Describes(a, kv'[a.target].events)
  <2>1. /\ kv'[a.target].events[a.generation] = kv[a.target].events[a.generation]
        /\ LatestExpiry(kv'[a.target].events, a.generation) =
             LatestExpiry(kv[a.target].events, a.generation)
    BY <1>1, EventsStay
  <2> QED
    BY <1>1, <2>1 DEF Describes
<1>2. CASE a \in acks
  <2>1. a.target \in Targets /\ a.generation \in 1 .. Len(kv[a.target].events)
    BY <1>2 DEF IInv, TypeOK, Ack, AckedDurable
  <2>2. Describes(a, kv[a.target].events)
    BY <1>2 DEF AcksDescribe, Describes
  <2> QED
    BY <1>1, <2>1, <2>2
<1>3. ASSUME NEW w \in Tasks, NEW p \in puts, PutApplied(w, p),
             a = Snapshot(tasks[w].request, p.events, tasks[w].now)
      PROVE  Describes(a, kv'[a.target].events)
  <2>1. a.target = p.target /\ Describes(a, p.events)
    BY <1>3, SnapshotDescribes
  <2>2. /\ kv' = [kv EXCEPT ![p.target] = [revision |-> revision + 1, events |-> p.events]]
        /\ p.target \in Targets
    BY <1>3, CasExtends DEF PutApplied
  <2>3. kv'[p.target].events = p.events
    BY <2>2 DEF IInv, TypeOK
  <2> QED
    BY <2>1, <2>3
<1>4. ASSUME NEW w \in Tasks, LoadReplays(w),
             NEW i \in Matching(tasks[w].request, kv[tasks[w].request.target].events),
             a = ReplaySnapshot(tasks[w].request, kv[tasks[w].request.target].events, i)
      PROVE  Describes(a, kv'[a.target].events)
  <2>1. /\ a.target \in Targets /\ a.generation \in 1 .. Len(kv[a.target].events)
        /\ Describes(a, kv[a.target].events)
    BY <1>4, ReplayDescribes
  <2> QED
    BY <1>1, <2>1
<1> QED
  BY <1>2, <1>3, <1>4, AckSteps

-----------------------------------------------------------------------------
(* The check handler.                                                      *)

\* Every step keeps ChecksObserve, and a check that ends clear has no target
\* that stood throughout.
LEMMA ChecksStep ==
  ASSUME IInv, ChecksObserve, CheckSeesStandingRevocation, [Next]_vars
  PROVE  ChecksObserve' /\ CheckSeesStandingRevocation'
<1> DEFINE Good(c, k, ck) ==
      /\ ck[c].pc \in {"token", "subject"} =>
           \A t \in ck[c].must : Active(k[t].events, ck[c].now)
      /\ ck[c].pc = "subject" => TokenTarget \notin ck[c].must
      /\ ck[c].pc = "clear" => ck[c].must = {}
<1> SUFFICES ASSUME NEW c \in Checkers PROVE Good(c, kv', checks')
  BY DEF ChecksObserve, CheckSeesStandingRevocation
<1>g. Good(c, kv, checks)
  BY DEF ChecksObserve, CheckSeesStandingRevocation
<1>t. /\ checks \in [Checkers -> {IdleCheck} \union RunningCheck]
      /\ checks[c].pc \in {"token", "subject"} => checks[c] \in RunningCheck
  BY DEF IInv, TypeOK, IdleCheck
<1>0. ASSUME UNCHANGED <<kv, checks>> PROVE Good(c, kv', checks')
  BY <1>0, <1>g
<1>1. ASSUME NEW p \in puts, KvPut(p) PROVE Good(c, kv', checks')
  <2>1. CASE ~Cas(p)
    BY <1>0, <1>1, <2>1 DEF KvPut
  <2>2. CASE Cas(p)
    <3>1. checks' = Observed(kv')
      BY <1>1, <2>2 DEF KvPut
    <3>2. CASE checks[c].pc \in {"token", "subject"}
      <4>1. checks'[c] = [checks[c] EXCEPT !.must =
                           {t \in @ : Active(kv'[t].events, checks[c].now)}]
        BY <3>1, <3>2 DEF Observed
      <4>2. /\ checks'[c].pc = checks[c].pc /\ checks'[c].now = checks[c].now
            /\ checks'[c].must = {t \in checks[c].must :
                                    Active(kv'[t].events, checks[c].now)}
        BY <1>t, <3>2, <4>1 DEF RunningCheck
      <4> QED
        BY <1>g, <3>2, <4>2
    <3>3. CASE checks[c].pc \notin {"token", "subject"}
      <4>1. checks'[c] = checks[c]
        BY <3>1, <3>3 DEF Observed
      <4> QED
        BY <1>g, <3>3, <4>1
    <3> QED
      BY <3>2, <3>3
  <2> QED
    BY <2>1, <2>2
<1>2. ASSUME NEW d \in Checkers, NEW t \in CheckedTargets, NEW clear \in {"subject", "clear"},
             checks[d].pc \in {"token", "subject"}, ReadLedger(d, t, clear), kv' = kv,
             clear = "subject" => t = TokenTarget,
             clear = "clear" => checks[d].pc = "subject" /\ t = SubjectTarget
      PROVE  Good(c, kv', checks')
  <2>1. CASE d # c
    <3>1. checks'[c] = checks[c]
      BY <1>2, <1>t, <2>1 DEF ReadLedger
    <3> QED
      BY <1>2, <1>g, <3>1
  <2>2. CASE d = c
    <3>1. checks[c] \in RunningCheck
      BY <1>2, <1>t, <2>2
    <3>2. /\ checks'[c].must = checks[c].must /\ checks'[c].now = checks[c].now
          /\ checks'[c].pc \in {"failed", "revoked", clear}
          /\ checks'[c].pc = clear => ~Active(kv[t].events, checks[c].now)
      <4>1. checks'[c] = [checks[c] EXCEPT !.pc =
              IF kv[t].revision # 0 /\ ~Validate(t, kv[t].events) THEN "failed"
              ELSE IF Active(kv[t].events, checks[c].now) THEN "revoked"
              ELSE clear]
        BY <1>2, <1>t, <2>2 DEF ReadLedger
      <4> QED
        BY <3>1, <4>1 DEF RunningCheck
    <3>3. \A s \in checks[c].must : Active(kv[s].events, checks[c].now)
      BY <1>2, <1>g, <2>2
    <3>4. checks[c].must \subseteq {TokenTarget, SubjectTarget}
      BY <3>1 DEF RunningCheck, CheckedTargets
    <3>5. CASE clear = "subject"
      BY <1>2, <3>2, <3>3, <3>5
    <3>6. CASE clear = "clear"
      <4>1. TokenTarget \notin checks[c].must
        BY <1>2, <1>g, <2>2, <3>6
      <4> QED
        BY <1>2, <3>2, <3>3, <3>4, <3>6, <4>1
    <3> QED
      BY <3>5, <3>6
  <2> QED
    BY <2>1, <2>2
<1>3. ASSUME NEW d \in Checkers, CheckToken(d) \/ CheckSubject(d)
      PROVE  Good(c, kv', checks')
  BY <1>2, <1>3 DEF CheckToken, CheckSubject, CheckedTargets
<1>4. ASSUME NEW d \in Checkers, CheckFails(d) PROVE Good(c, kv', checks')
  <2>1. checks'[c] = checks[c] \/ checks'[c] = IdleCheck
    BY <1>4, <1>t DEF CheckFails
  <2> QED
    BY <1>4, <1>g, <2>1 DEF CheckFails, IdleCheck
<1>5. ASSUME NEW d \in Checkers, NEW now \in HostTime, BeginCheck(d, now)
      PROVE  Good(c, kv', checks')
  <2>1. \/ checks'[c] = checks[c]
        \/ checks'[c] = [pc |-> "token", now |-> now,
                         must |-> {t \in CheckedTargets : Active(kv[t].events, now)}]
    BY <1>5, <1>t DEF BeginCheck
  <2> QED
    BY <1>5, <1>g, <2>1 DEF BeginCheck
<1>6. ASSUME NEW w \in Tasks, NEW p \in puts, PutApplied(w, p) \/ PutMismatch(w, p)
      PROVE  Good(c, kv', checks')
  BY <1>1, <1>6 DEF PutApplied, PutMismatch
<1>7. ASSUME NEW p \in puts, LatePut(p) PROVE Good(c, kv', checks')
  BY <1>1, <1>7 DEF LatePut
<1>8. ASSUME NEW w \in Tasks, LoadReplays(w) \/ LoadFails(w) \/ LoadAppends(w) \/ Abandon(w)
      PROVE  UNCHANGED <<kv, checks>>
  BY <1>8 DEF LoadReplays, LoadFails, LoadAppends, Abandon
<1>9. ASSUME NEW w \in Tasks, NEW r \in Requests, NEW now \in HostTime,
             Begin(w, r, now) \/ Refuse(w, r, now)
      PROVE  UNCHANGED <<kv, checks>>
  BY <1>9 DEF Begin, Refuse
<1>10. ASSUME Tick \/ UNCHANGED vars PROVE UNCHANGED <<kv, checks>>
  BY <1>10 DEF Tick, vars
<1> HIDE DEF Good
<1> QED
  BY <1>0, <1>3, <1>4, <1>5, <1>6, <1>7, <1>8, <1>9, <1>10 DEF Next, Mutate, Check

-----------------------------------------------------------------------------
\* The second invariant holds in every behaviour.
LEMMA InvarianceJ == Spec => [](IInv /\ JInv)
<1>1. Init => IInv /\ JInv
  <2> SUFFICES ASSUME Init PROVE JInv
    BY InitInv
  <2>1. \A w \in Tasks : tasks[w].pc = "idle"
    BY DEF Init, IdleTask
  <2>2. \A c \in Checkers : checks[c].pc = "idle"
    BY DEF Init, IdleCheck
  <2>3. PutsMade /\ AcksDescribe /\ PutsOutrun
    BY DEF Init, PutsMade, AcksDescribe, PutsOutrun
  <2>4. RetriesFind /\ AttemptsLost
    BY <2>1 DEF Init, RetriesFind, AttemptsLost
  <2>5. ChecksObserve /\ CheckSeesStandingRevocation
    BY <2>2 DEF ChecksObserve, CheckSeesStandingRevocation
  <2>6. RetryNotRefused /\ ExhaustionMeansContention
    BY DEF Init, RetryNotRefused, ExhaustionMeansContention, NoOutcome
  <2> QED
    BY <2>3, <2>4, <2>5, <2>6 DEF JInv
<1>2. IInv /\ JInv /\ [Next]_vars => (IInv /\ JInv)'
  <2> SUFFICES ASSUME IInv, JInv, [Next]_vars PROVE IInv' /\ JInv'
    OBVIOUS
  <2>1. IInv'
    BY InvStep
  <2> QED
    BY <2>1, PutsMadeStep, AcksDescribeStep, RetriesFindStep, PutsOutrunStep,
       AttemptsLostStep, ChecksStep, RetryNotRefusedStep, ExhaustionStep DEF JInv
<1> QED
  BY <1>1, <1>2, PTL DEF Spec

\* A retry of an acknowledged request is answered or cut off, never refused by
\* the ledger, however full the ledger and whatever other handlers do.
THEOREM RetriesAnswered == Spec => []RetryNotRefused
<1>1. IInv /\ JInv => RetryNotRefused
  BY DEF JInv
<1> QED
  BY <1>1, InvarianceJ, PTL

\* with_cas_retries reports exhaustion only after as many transitions of others
\* on that target as it had attempts.
THEOREM ExhaustionIsContention == Spec => []ExhaustionMeansContention
<1>1. IInv /\ JInv => ExhaustionMeansContention
  BY DEF JInv
<1> QED
  BY <1>1, InvarianceJ, PTL

\* `check`, which reads the token's ledger and then the subject's, does not answer
\* "not revoked" when one of them was revoked from its start to its end.
THEOREM StandingRevocationSeen == Spec => []CheckSeesStandingRevocation
<1>1. IInv /\ JInv => CheckSeesStandingRevocation
  BY DEF JInv
<1> QED
  BY <1>1, InvarianceJ, PTL

\* All answers to one idempotency identity are equal, whether the write or a
\* replay gave them.
THEOREM AllAnswersAgree == Spec => []AnswersAgree
<1>1. IInv /\ JInv => AnswersAgree
  <2> SUFFICES ASSUME IInv, JInv, NEW a \in acks, NEW b \in acks, a.idem = b.idem
               PROVE  a = b
    BY DEF AnswersAgree
  <2>1. a \in Ack /\ b \in Ack
    BY DEF IInv, TypeOK
  <2>2. a.target = b.target /\ a.target \in Targets
    BY <2>1 DEF JInv, AcksDescribe, Ack
  <2> DEFINE events == kv[a.target].events
  <2>3. /\ a.generation \in 1 .. Len(events) /\ b.generation \in 1 .. Len(events)
        /\ events[a.generation].idempotency_hash = a.idem
        /\ events[b.generation].idempotency_hash = b.idem
        /\ events[a.generation].request_hash = a.req
        /\ events[b.generation].request_hash = b.req
    BY <2>2 DEF IInv, AckedDurable
  <2>4. events \in Seq(Event)
    BY <2>2 DEF IInv, TypeOK
  <2>5. Validate(a.target, events)
    <3>1. events # <<>>
      BY <2>3, <2>4
    <3> QED
      BY <2>2, <3>1 DEF IInv, EmptyIffAbsent, StoredLedgersValid
  <2>6. a.generation = b.generation
    <3> HIDE DEF events
    <3> QED
      BY <2>3, <2>4, <2>5, OneEventEach
  <2>7. a.status = b.status /\ a.expires_at = b.expires_at /\ a.req = b.req
    BY <2>2, <2>3, <2>6 DEF JInv, AcksDescribe
  <2> QED
    BY <2>1, <2>2, <2>6, <2>7 DEF Ack
<1> QED
  BY <1>1, InvarianceJ, PTL

-----------------------------------------------------------------------------
(* The service implements RevocationRegister.                              *)

Entry == [action: {"revoke", "lift"}, at: Nat, expires_at: Nat,
          idem: IdemHashes, req: RequestHashes]

\* The register's history of a target whose ledger has these events.
HistoryOf(events) == [i \in 1 .. Len(events) |-> LedgerEntry(events[i])]

\* A history has an entry for every event.
LEMMA HistoryIs ==
  ASSUME NEW events \in Seq(Event)
  PROVE  /\ HistoryOf(events) \in Seq(Entry)
         /\ Len(HistoryOf(events)) = Len(events)
         /\ \A i \in 1 .. Len(events) : HistoryOf(events)[i] = LedgerEntry(events[i])
         /\ HistoryOf(events) = <<>> <=> events = <<>>
<1>1. ASSUME NEW i \in 1 .. Len(events) PROVE LedgerEntry(events[i]) \in Entry
  <2>1. events[i] \in Event
    OBVIOUS
  <2> QED
    BY <2>1 DEF LedgerEntry, Event, Entry
<1>2. Len(events) \in Nat
  OBVIOUS
<1>3. HistoryOf(events) \in Seq(Entry) /\ Len(HistoryOf(events)) = Len(events)
  BY <1>1, <1>2, IsASeq DEF HistoryOf
<1>4. \A i \in 1 .. Len(events) : HistoryOf(events)[i] = LedgerEntry(events[i])
  BY DEF HistoryOf
<1>5. HistoryOf(events) = <<>> <=> events = <<>>
  BY <1>3, EmptySeq
<1> QED
  BY <1>3, <1>4, <1>5

\* One more event is one more entry.
LEMMA HistoryAppends ==
  ASSUME NEW events \in Seq(Event), NEW next \in Seq(Event),
         Len(next) = Len(events) + 1,
         \A i \in 1 .. Len(events) : next[i] = events[i]
  PROVE  HistoryOf(next) = Append(HistoryOf(events), LedgerEntry(next[Len(next)]))
<1> DEFINE h == HistoryOf(events)
           g == HistoryOf(next)
           e == LedgerEntry(next[Len(next)])
<1>1. /\ h \in Seq(Entry) /\ Len(h) = Len(events)
      /\ \A i \in 1 .. Len(events) : h[i] = LedgerEntry(events[i])
  BY HistoryIs
<1>2. /\ g \in Seq(Entry) /\ Len(g) = Len(next)
      /\ \A i \in 1 .. Len(next) : g[i] = LedgerEntry(next[i])
  BY HistoryIs
<1>3. Len(events) \in Nat /\ Len(next) \in 1 .. Len(next)
  OBVIOUS
<1>4. e = g[Len(next)]
  BY <1>2, <1>3
<1>5. e \in Entry
  BY <1>2, <1>3, <1>4
<1> HIDE DEF h, g, e
<1>6. /\ Append(h, e) \in Seq(Entry) /\ Len(Append(h, e)) = Len(h) + 1
      /\ \A i \in 1 .. Len(h) : Append(h, e)[i] = h[i]
      /\ Append(h, e)[Len(h) + 1] = e
  BY <1>1, <1>5, AppendProperties
<1>7. ASSUME NEW i \in 1 .. Len(g) PROVE g[i] = Append(h, e)[i]
  <2>1. CASE i = Len(next)
    BY <1>1, <1>4, <1>6, <2>1
  <2>2. CASE i # Len(next)
    <3>1. i \in 1 .. Len(events)
      BY <1>2, <1>3, <2>2
    <3> QED
      BY <1>1, <1>2, <1>6, <3>1
  <2> QED
    BY <2>1, <2>2
<1>8. Len(g) = Len(Append(h, e))
  BY <1>1, <1>2, <1>6
<1>9. g = Append(h, e)
  BY <1>2, <1>6, <1>7, <1>8, SeqEqual
<1> QED
  BY <1>9 DEF g, h, e

\* The event that a PUT adds to the stored ledger is a legal transition.
LEMMA AddedIsLegal ==
  ASSUME IInv, PutsMade, NEW p \in puts, KvPut(p), Cas(p)
  PROVE  /\ Register!Legal(HistoryOf(kv[p.target].events),
                           LedgerEntry(p.events[Len(p.events)]))
         /\ LedgerEntry(p.events[Len(p.events)])
              \in {LedgerEntry(NewEvent(r, now, <<>>)) : r \in Requests, now \in Time}
<1> DEFINE events == kv[p.target].events
           h == HistoryOf(events)
           n == Len(events)
           e == LedgerEntry(p.events[Len(p.events)])
<1>1. /\ p.target \in Targets /\ p.events \in Seq(Event) /\ Len(p.events) = n + 1
      /\ \A i \in 1 .. n : p.events[i] = events[i]
  BY CasExtends
<1>2. events \in Seq(Event) /\ n \in Nat
  <2>1. events \in Seq(Event)
    BY <1>1 DEF IInv, TypeOK
  <2> QED
    BY <2>1
<1>3. Validate(p.target, p.events)
  BY DEF IInv, PutsValid
<1>4. n + 1 <= MAX_TRANSITIONS_PER_TARGET /\ n + 1 \in 1 .. Len(p.events)
  BY <1>1, <1>2, <1>3 DEF Validate
<1>5. ValidEvent(p.target, p.events, n + 1)
  BY <1>3, <1>4 DEF Validate
<1>6. /\ h \in Seq(Entry) /\ Len(h) = n
      /\ \A i \in 1 .. n : h[i] = LedgerEntry(events[i])
      /\ h = <<>> <=> events = <<>>
  BY <1>2, HistoryIs
<1>7. /\ e = LedgerEntry(p.events[n + 1])
      /\ p.events[n + 1] \in Event
  BY <1>1, <1>4
<1> HIDE DEF h, e, events
<1> DEFINE x == p.events[n + 1]
<1>8. e.action = x.action /\ e.at = x.at /\ e.expires_at = x.expires_at
      /\ e.idem = x.idempotency_hash
  BY <1>7 DEF LedgerEntry
<1>9. \A i \in 1 .. n : /\ h[i].action = p.events[i].action /\ h[i].at = p.events[i].at
                        /\ h[i].expires_at = p.events[i].expires_at
                        /\ h[i].idem = p.events[i].idempotency_hash
  <2> SUFFICES ASSUME NEW i \in 1 .. n
               PROVE  /\ h[i].action = p.events[i].action /\ h[i].at = p.events[i].at
                      /\ h[i].expires_at = p.events[i].expires_at
                      /\ h[i].idem = p.events[i].idempotency_hash
    OBVIOUS
  <2>1. h[i] = LedgerEntry(p.events[i])
    BY <1>1, <1>6, Zenon
  <2> QED
    BY <2>1 DEF LedgerEntry
<1>10. \A i \in 1 .. n : h[i].idem # e.idem
  <2>1. \A j \in 1 .. (n + 1) - 1 :
          p.events[j].idempotency_hash # p.events[n + 1].idempotency_hash
    BY <1>5 DEF ValidEvent
  <2> QED
    BY <1>2, <1>8, <1>9, <2>1
<1>11. events # <<>> => n \in 1 .. n /\ n + 1 > 1 /\ (n + 1) - 1 = n
  BY <1>2
<1>12. h # <<>> => h[n].at <= e.at
  BY <1>5, <1>6, <1>8, <1>9, <1>11 DEF ValidEvent
<1>13. e.action = "revoke" => e.at < e.expires_at
  BY <1>5, <1>8 DEF ValidEvent, ValidRecord
<1>14. e.action = "lift" => h # <<>> /\ h[n].action = "revoke" /\ e.at < h[n].expires_at
  <2> SUFFICES ASSUME e.action = "lift"
               PROVE  h # <<>> /\ h[n].action = "revoke" /\ e.at < h[n].expires_at
    OBVIOUS
  <2>1. /\ n + 1 > 1 /\ p.events[(n + 1) - 1].action = "revoke"
        /\ p.events[n + 1].at < p.events[(n + 1) - 1].expires_at
    BY <1>5, <1>8 DEF ValidEvent
  <2>2. events # <<>>
    BY <1>2, <2>1
  <2> QED
    BY <1>6, <1>8, <1>9, <1>11, <2>1, <2>2
<1>15. n < MAX_TRANSITIONS_PER_TARGET
  BY <1>2, <1>4, LedgerConstants
<1>16. Register!Legal(h, e)
  BY <1>6, <1>10, <1>12, <1>13, <1>14, <1>15 DEF Register!Legal, Register!Last
<1>17. e \in {LedgerEntry(NewEvent(r, now, <<>>)) : r \in Requests, now \in Time}
  BY DEF PutsMade, e
<1> QED
  BY <1>16, <1>17 DEF h, e, events

\* The register's answer about the n-th entry is the one the service gives.
LEMMA DescriptionIs ==
  ASSUME NEW t \in Targets, NEW events \in Seq(Event), Validate(t, events),
         NEW a \in Ack, a.target = t, a.generation \in 1 .. Len(events),
         events[a.generation].idempotency_hash = a.idem,
         events[a.generation].request_hash = a.req,
         Describes(a, events)
  PROVE  a = Register!Description(t, HistoryOf(events), a.generation)
<1> DEFINE n == a.generation
           h == HistoryOf(events)
<1>1. \A i \in 1 .. Len(events) : h[i] = LedgerEntry(events[i])
  BY HistoryIs
<1>2. ValidEvent(t, events, n)
  BY DEF Validate
<1>3. /\ n \in Nat /\ n # 0 /\ events[n].action \in {"revoke", "lift"}
      /\ n > 1 => n - 1 \in 1 .. Len(events)
  <2>1. events[n] \in Event
    OBVIOUS
  <2>2. events[n].action \in {"revoke", "lift"}
    BY <2>1 DEF Event
  <2>3. Len(events) \in Nat
    OBVIOUS
  <2> HIDE DEF n
  <2>4. n \in 1 .. Len(events)
    BY DEF n
  <2> QED
    BY <2>2, <2>3, <2>4
<1> HIDE DEF h
<1>4. /\ h[n].idem = a.idem /\ h[n].req = a.req /\ h[n].action = events[n].action
      /\ h[n].expires_at = events[n].expires_at
  <2>1. h[n] = LedgerEntry(events[n])
    BY <1>1
  <2> QED
    BY <2>1 DEF LedgerEntry
<1>5. n > 1 => h[n - 1].expires_at = events[n - 1].expires_at
  <2>1. n > 1 => h[n - 1] = LedgerEntry(events[n - 1])
    BY <1>1, <1>3, Zenon
  <2> QED
    BY <2>1 DEF LedgerEntry
<1>6. events[n].action # "revoke" => n > 1
  BY <1>2, <1>3 DEF ValidEvent
<1>7. a.expires_at = IF h[n].action = "revoke" THEN h[n].expires_at
                     ELSE h[n - 1].expires_at
  BY <1>3, <1>4, <1>5, <1>6 DEF Describes, LatestExpiry
<1>8. a.status = IF h[n].action = "revoke" THEN "active" ELSE "lifted"
  BY <1>4 DEF Describes
<1>9. a = [idem |-> a.idem, req |-> a.req, target |-> a.target, generation |-> a.generation,
           status |-> a.status, expires_at |-> a.expires_at]
  BY DEF Ack
<1>10. a = Register!Description(t, h, n)
  BY <1>4, <1>7, <1>8, <1>9 DEF Register!Description
<1> QED
  BY <1>10 DEF h

\* The history of the register that a state stands for.
History == [t \in Targets |-> HistoryOf(kv[t].events)]

\* A PUT that KV applies is a transition the register accepts.
LEMMA AcceptStep ==
  ASSUME IInv, PutsMade, NEW p \in puts, KvPut(p), Cas(p)
  PROVE  /\ History' = [History EXCEPT ![p.target] =
                          Append(@, LedgerEntry(p.events[Len(p.events)]))]
         /\ History'[p.target] = HistoryOf(p.events)
         /\ Len(History'[p.target]) = Len(p.events)
         /\ p.target \in Targets
<1>1. /\ kv' = [kv EXCEPT ![p.target] = [revision |-> revision + 1, events |-> p.events]]
      /\ p.target \in Targets /\ p.events \in Seq(Event)
      /\ Len(p.events) = Len(kv[p.target].events) + 1
      /\ \A i \in 1 .. Len(kv[p.target].events) : p.events[i] = kv[p.target].events[i]
  BY CasExtends
<1>2. kv[p.target].events \in Seq(Event)
  BY <1>1 DEF IInv, TypeOK
<1>3. HistoryOf(p.events) =
        Append(HistoryOf(kv[p.target].events), LedgerEntry(p.events[Len(p.events)]))
  BY <1>1, <1>2, HistoryAppends
<1>4. \A t \in Targets : kv'[t].events =
        IF t = p.target THEN p.events ELSE kv[t].events
  BY <1>1 DEF IInv, TypeOK
<1>5. History' = [t \in Targets |-> IF t = p.target THEN HistoryOf(p.events)
                                    ELSE HistoryOf(kv[t].events)]
  BY <1>4 DEF History
<1>6. History[p.target] = HistoryOf(kv[p.target].events)
  BY <1>1 DEF History
<1>7. History' = [History EXCEPT ![p.target] = HistoryOf(p.events)]
  BY <1>1, <1>5 DEF History
<1>8. History'[p.target] = HistoryOf(p.events)
  BY <1>1, <1>5
<1> QED
  BY <1>1, <1>3, <1>6, <1>7, <1>8, HistoryIs

\* Every step of the service is a step of the register, or leaves it alone.
LEMMA RegisterStep ==
  ASSUME IInv, IInv', JInv, JInv', [Next]_vars
  PROVE  [Register!Next]_(Register!vars)
<1>h. History = [t \in Targets |->
        [i \in 1 .. Len(kv[t].events) |-> LedgerEntry(kv[t].events[i])]]
  BY DEF History, HistoryOf
<1>0. ASSUME UNCHANGED <<kv, acks>> PROVE UNCHANGED Register!vars
  BY <1>0 DEF Register!vars
<1>1. ASSUME NEW p \in puts, KvPut(p), Cas(p), puts' = puts \ {p},
             acks' \in {acks, acks \union {Register!Description(p.target,
                          HistoryOf(p.events), Len(p.events))}}
      PROVE  Register!Next
  <2> DEFINE e == LedgerEntry(p.events[Len(p.events)])
  <2>1. /\ Register!Legal(HistoryOf(kv[p.target].events), e)
        /\ e \in {LedgerEntry(NewEvent(r, now, <<>>)) : r \in Requests, now \in Time}
    BY <1>1, AddedIsLegal DEF JInv
  <2>2. /\ History' = [History EXCEPT ![p.target] = Append(@, e)]
        /\ History'[p.target] = HistoryOf(p.events)
        /\ Len(History'[p.target]) = Len(p.events)
        /\ p.target \in Targets
    BY <1>1, AcceptStep DEF JInv
  <2>3. History[p.target] = HistoryOf(kv[p.target].events)
    BY <2>2 DEF History
  <2> HIDE DEF e
  <2>4. /\ Register!Legal(History[p.target], e)
        /\ acks' \in {acks, acks \union {Register!Description(p.target,
                        History'[p.target], Len(History'[p.target]))}}
    BY <1>1, <2>1, <2>2, <2>3
  <2>5. Register!Accept(p.target, e)
    BY <2>2, <2>4, <1>h, Zenon DEF Register!Accept, History, HistoryOf
  <2> QED
    BY <2>1, <2>2, <2>5 DEF Register!Next
<1>2. ASSUME NEW w \in Tasks, NEW p \in puts, PutApplied(w, p) PROVE Register!Next
  <2> DEFINE a == Snapshot(tasks[w].request, p.events, tasks[w].now)
  <2>1. KvPut(p) /\ Cas(p) /\ puts' = puts \ {p} /\ acks' = acks \union {a}
    BY <1>2 DEF PutApplied
  <2>2. a.target = p.target /\ a.generation = Len(p.events) /\ Describes(a, p.events)
    BY <1>2, SnapshotDescribes DEF JInv
  <2>3. a \in Ack /\ a \in acks'
    BY <2>1 DEF IInv, TypeOK
  <2>4. /\ p.target \in Targets /\ p.events \in Seq(Event)
        /\ Validate(p.target, p.events)
    BY <1>2 DEF IInv, PutsValid, TypeOK, Put
  <2>5. kv'[p.target].events = p.events
    <3>1. kv' = [kv EXCEPT ![p.target] = [revision |-> revision + 1, events |-> p.events]]
      BY <2>1, CasExtends
    <3> QED
      BY <2>4, <3>1 DEF IInv, TypeOK
  <2> HIDE DEF a
  <2>6. /\ a.generation \in 1 .. Len(p.events)
        /\ p.events[a.generation].idempotency_hash = a.idem
        /\ p.events[a.generation].request_hash = a.req
    BY <2>2, <2>3, <2>5 DEF IInv, AckedDurable
  <2>7. a = Register!Description(p.target, HistoryOf(p.events), a.generation)
    BY <2>2, <2>3, <2>4, <2>6, DescriptionIs
  <2>8. acks' = acks \union {Register!Description(p.target, HistoryOf(p.events), Len(p.events))}
    BY <2>1, <2>2, <2>7, Zenon
  <2> QED
    BY <1>1, <2>1, <2>8, Zenon
<1>3. ASSUME NEW p \in puts, LatePut(p)
      PROVE  Register!Next \/ UNCHANGED Register!vars
  <2>1. KvPut(p) /\ puts' = puts \ {p} /\ acks' = acks
    BY <1>3 DEF LatePut
  <2>2. CASE Cas(p)
    BY <1>1, <2>1, <2>2, Zenon
  <2>3. CASE ~Cas(p)
    BY <1>0, <2>1, <2>3 DEF KvPut
  <2> QED
    BY <2>2, <2>3
<1>4. ASSUME NEW w \in Tasks, LoadReplays(w) PROVE Register!Next
  <2> DEFINE r == tasks[w].request
             events == kv[r.target].events
             M == Matching(r, events)
  <2>1. /\ r \in Requests /\ r.target \in Targets /\ events \in Seq(Event)
        /\ LoadResult(r, tasks[w].now, kv[r.target]) = "replay"
    BY <1>4, RunningSlot, HashTypes DEF LoadReplays, IInv, Request
  <2>2. PICK i \in M : TRUE
    <3>1. AppendResult(r, tasks[w].now, events) # "replay"
      BY DEF AppendResult
    <3> QED
      BY <2>1, <3>1 DEF LoadResult
  <2>3. /\ i \in 1 .. Len(events) /\ Validate(r.target, events)
    <3>1. i \in 1 .. Len(events)
      BY <2>2 DEF Matching
    <3>2. events # <<>>
      BY <2>1, <3>1
    <3> QED
      BY <2>1, <3>1, <3>2 DEF IInv, EmptyIffAbsent, StoredLedgersValid
  <2>4. \A j \in M : j = i
    <3> SUFFICES ASSUME NEW j \in M PROVE j = i
      OBVIOUS
    <3>1. /\ j \in 1 .. Len(events)
          /\ events[j].idempotency_hash = events[i].idempotency_hash
      BY <2>2 DEF Matching
    <3> HIDE DEF events
    <3> QED
      BY <2>1, <2>3, <3>1, OneEventEach
  <2> DEFINE a == ReplaySnapshot(r, events, i)
  <2>5. acks' = acks \union {a}
    <3>1. acks' = acks \union {ReplaySnapshot(r, events, j) : j \in M}
      BY <1>4 DEF LoadReplays
    <3> HIDE DEF r, events, M
    <3>2. {ReplaySnapshot(r, events, j) : j \in M} = {a}
      BY <2>2, <2>4
    <3> QED
      BY <3>1, <3>2
  <2>6. /\ a.target = r.target /\ a.generation = i
        /\ events[i].idempotency_hash = a.idem
        /\ events[i].request_hash = a.req
        /\ Describes(a, events)
    <3>1. /\ a.target = r.target /\ a.generation = i
          /\ kv[a.target].events[i].idempotency_hash = a.idem
          /\ kv[a.target].events[i].request_hash = a.req
          /\ Describes(a, kv[a.target].events)
      BY <1>4, <2>2, ReplayDescribes
    <3> HIDE DEF a
    <3> QED
      BY <3>1
  <2>7. a \in Ack
    BY <2>5 DEF IInv, TypeOK
  <2>8. UNCHANGED kv
    BY <1>4 DEF LoadReplays
  <2> HIDE DEF a, r, M
  <2>9. a = Register!Description(r.target, HistoryOf(events), i)
    <3> HIDE DEF events
    <3> QED
      BY <2>1, <2>3, <2>6, <2>7, DescriptionIs
  <2>10. History[r.target] = HistoryOf(events)
    BY <2>1 DEF History
  <2>11. /\ Len(History[r.target]) = Len(events) /\ i \in 1 .. MAX_TRANSITIONS_PER_TARGET
    <3>1. Len(HistoryOf(events)) = Len(events)
      BY <2>1, HistoryIs
    <3>2. Len(events) \in Nat /\ Len(events) <= MAX_TRANSITIONS_PER_TARGET
      BY <2>1, <2>3 DEF Validate
    <3> HIDE DEF events
    <3> QED
      BY <2>3, <2>10, <3>1, <3>2, LedgerConstants
  <2>12. History' = History
    BY <2>8 DEF History
  <2> HIDE DEF events
  <2>13. Register!Repeat(r.target, i)
    BY <2>3, <2>5, <2>9, <2>10, <2>11, <2>12, <1>h, Zenon
       DEF Register!Repeat, History, HistoryOf
  <2> QED
    BY <2>1, <2>11, <2>13 DEF Register!Next
<1>5. ASSUME NEW w \in Tasks, LoadFails(w) \/ LoadAppends(w) \/ Abandon(w)
      PROVE  UNCHANGED Register!vars
  BY <1>0, <1>5 DEF LoadFails, LoadAppends, Abandon
<1>6. ASSUME NEW w \in Tasks, NEW p \in puts, PutMismatch(w, p)
      PROVE  UNCHANGED Register!vars
  BY <1>0, <1>6 DEF PutMismatch, KvPut
<1>7. ASSUME NEW w \in Tasks, NEW r \in Requests, NEW now \in HostTime,
             Begin(w, r, now) \/ Refuse(w, r, now)
      PROVE  UNCHANGED Register!vars
  BY <1>0, <1>7 DEF Begin, Refuse
<1>8. ASSUME Check PROVE UNCHANGED Register!vars
  BY <1>0, <1>8 DEF Check, BeginCheck, CheckToken, CheckSubject, CheckFails
<1>9. ASSUME Tick \/ UNCHANGED vars PROVE UNCHANGED Register!vars
  BY <1>0, <1>9 DEF Tick, vars
<1> QED
  BY <1>2, <1>3, <1>4, <1>5, <1>6, <1>7, <1>8, <1>9 DEF Next, Mutate

\* The handlers over Fiducia KV, with their CAS loops, late PUTs, lost answers and
\* retries, implement the register of legal transitions that RevocationRegister
\* promises administrators.
THEOREM ServiceImplementsRegister == Spec => ImplementsRegister
<1>1. Init => Register!Init
  <2> SUFFICES ASSUME Init PROVE Register!Init
    OBVIOUS
  <2>1. \A t \in Targets : kv[t].events = <<>>
    BY DEF Init
  <2>2. HistoryOf(<<>>) = <<>>
    <3>1. <<>> \in Seq(Event)
      OBVIOUS
    <3> QED
      BY <3>1, HistoryIs
  <2>3. \A t \in Targets :
          [i \in 1 .. Len(kv[t].events) |-> LedgerEntry(kv[t].events[i])] = <<>>
    BY <2>1, <2>2, Zenon DEF HistoryOf
  <2> QED
    BY <2>3 DEF Init, Register!Init
<1>2. IInv /\ JInv /\ (IInv /\ JInv)' /\ [Next]_vars => [Register!Next]_(Register!vars)
  BY RegisterStep
<1> QED
  BY <1>1, <1>2, InvarianceJ, PTL DEF Spec, ImplementsRegister, Register!Spec
=============================================================================
