------------------------ MODULE RevocationGateProofs ------------------------
(***************************************************************************)
(* Single flight and bounded staleness of RevocationGate, for any number   *)
(* of tokens, requests and locks, every budget and capacity, and without   *)
(* an end of time.                                                         *)
(***************************************************************************)
EXTENDS RevocationGate, TLAPS, FiniteSetTheorems

-----------------------------------------------------------------------------
(* The inductive invariant.                                                *)

Guarded == Refreshing \union {"recheck", "unlock"}

\* From acquire_key to the end of release_key.
Mapped == Guarded \union {"wait", "release"}

Ending == {"unlock", "release", "drop"}

\* What a request knows of itself.
Knows(u) ==
  /\ u.pc \in Mapped \union {"drop"} => u.lock \in Locks
  /\ u.pc \in {"fast", "acquire"} => u.lock = None
  /\ u.pc \in Ending /\ u.result = "allowed" => u.age <= Budget

CallsKnow == \A t \in Tasks : Knows(tasks[t])

\* The map still holds the Arc of every request that has not released it.
Anchored ==
  \A t \in Tasks : tasks[t].pc \in Mapped => key_locks[tasks[t].key] = tasks[t].lock

\* No two tokens share an Arc.
Injective ==
  \A j, k \in Keys : key_locks[j] = key_locks[k] /\ key_locks[j] # None => j = k

Exclusive == \A t \in Tasks : tasks[t].pc \in Guarded => guard[tasks[t].lock] = t

LocksRight == Anchored /\ Injective /\ Exclusive

\* No target of token k was revoked before o.
Since(k, o) ==
  \A x \in {TokenTarget[k], SubjectTarget[k]} : authority[x] # Clear => o <= authority[x]

\* No target of token k was revoked longer than the budget before s.
Within(k, s) ==
  \A x \in {TokenTarget[k], SubjectTarget[k]} :
    authority[x] # Clear => s <= authority[x] + Budget

EntriesSince ==
  \A k \in Keys : entries[k] # None /\ entries[k].decision = "allowed" =>
    Since(k, entries[k].observed_at)

\* What the request u has learnt of the authority.
Timely(u) ==
  u.pc # "idle" =>
    /\ u.started = u.now /\ u.now <= real
    /\ u.pc = "read_subject" /\ authority[TokenTarget[u.key]] # Clear =>
         u.now <= authority[TokenTarget[u.key]]
    /\ u.pc = "apply" /\ u.decision = "allowed" => Since(u.key, u.now)
    /\ u.pc \in Ending /\ u.result = "allowed" => Within(u.key, u.started)

\* While the host clock has not been set back.
ClockRight ==
  steps = 0 =>
    /\ clock = real
    /\ EntriesSince
    /\ \A k \in Keys : entries[k] # None => entries[k].observed_at <= real
    /\ \A t \in Tasks : Timely(tasks[t])
    /\ RevokedWithinBudget

IInv == /\ TypeOK /\ CallsKnow /\ LocksRight /\ high_water = latest
        /\ StaleStaysStale /\ ClockRight
-----------------------------------------------------------------------------
(* The lock map.                                                           *)

\* A slot holds a call unless it is idle.
LEMMA CallsAre ==
  ASSUME TypeOK, NEW t \in Tasks
  PROVE  /\ tasks[t].pc # "idle" => tasks[t] \in Call
         /\ tasks[t] = IdleTask <=> tasks[t].pc = "idle"
<1>1. tasks[t] \in {IdleTask} \union Call
  BY DEF TypeOK
<1>2. ASSUME tasks[t] \in Call PROVE tasks[t].pc # "idle"
  BY <1>2 DEF Call, CallPcs
<1> QED
  BY <1>1, <1>2 DEF IdleTask

\* The parts of a call.
LEMMA CallParts ==
  ASSUME NEW u \in Call
  PROVE  /\ u.pc \in CallPcs /\ u.key \in Keys /\ u.now \in Nat /\ u.started \in Nat
         /\ u.lock \in Locks \union {None} /\ u.decision \in {"allowed", "revoked"}
         /\ u.result \in Results /\ u.age \in Int
BY DEF Call

\* The two sets of references that strong_count counts are finite.
LEMMA CountsAre ==
  ASSUME NEW l
  PROVE  LET ks == {k \in Keys : key_locks[k] = l}
             ts == {t \in Holding : tasks[t].lock = l} IN
         /\ IsFiniteSet(ks) /\ Cardinality(ks) \in Nat
         /\ IsFiniteSet(ts) /\ Cardinality(ts) \in Nat
         /\ StrongCount(l) = Cardinality(ks) + Cardinality(ts)
<1> DEFINE ks == {k \in Keys : key_locks[k] = l}
           ts == {t \in Holding : tasks[t].lock = l}
<1>1. IsFiniteSet(ks) /\ IsFiniteSet(ts)
  <2>1. ks \subseteq Keys /\ ts \subseteq Tasks
    BY DEF Holding
  <2>2. IsFiniteSet(Keys) /\ IsFiniteSet(Tasks)
    BY GateConstants
  <2> QED
    BY <2>1, <2>2, FS_Subset
<1>2. Cardinality(ks) \in Nat /\ Cardinality(ts) \in Nat
  BY <1>1, FS_CardinalityType
<1>3. StrongCount(l) = Cardinality(ks) + Cardinality(ts)
  BY DEF StrongCount
<1> QED
  BY <1>1, <1>2, <1>3

\* A lock without references is in no entry of the map, and no request has it.
LEMMA UnusedIs ==
  ASSUME NEW l \in Locks, Unused(l)
  PROVE  /\ \A k \in Keys : key_locks[k] # l
         /\ \A t \in Tasks : tasks[t].pc # "idle" => tasks[t].lock # l
<1> DEFINE ks == {k \in Keys : key_locks[k] = l}
           ts == {t \in Holding : tasks[t].lock = l}
<1>1. /\ IsFiniteSet(ks) /\ Cardinality(ks) \in Nat
      /\ IsFiniteSet(ts) /\ Cardinality(ts) \in Nat
      /\ Cardinality(ks) + Cardinality(ts) = 0
  BY CountsAre DEF Unused
<1>2. Cardinality(ks) = 0 /\ Cardinality(ts) = 0
  <2> HIDE DEF ks, ts
  <2> QED
    BY <1>1
<1>3. ks = {} /\ ts = {}
  BY <1>1, <1>2, FS_EmptySet
<1>4. l # None
  BY GateConstants
<1> QED
  BY <1>3, <1>4 DEF Holding

\* release_key removes the lock only when no other request has it: the map and the
\* request itself are two references.
LEMMA LastHolderIs ==
  ASSUME TypeOK, NEW t \in Tasks, tasks[t].pc # "idle", tasks[t].lock # None,
         key_locks[tasks[t].key] = tasks[t].lock, LastHolder(t)
  PROVE  \A s \in Tasks : tasks[s].pc # "idle" /\ tasks[s].lock = tasks[t].lock => s = t
<1> SUFFICES ASSUME NEW s \in Tasks, tasks[s].pc # "idle", tasks[s].lock = tasks[t].lock,
                    s # t
             PROVE  FALSE
  OBVIOUS
<1>1. PICK l : l = tasks[t].lock
  OBVIOUS
<1> DEFINE ks == {k \in Keys : key_locks[k] = l}
           ts == {u \in Holding : tasks[u].lock = l}
<1>2. /\ IsFiniteSet(ks) /\ Cardinality(ks) \in Nat
      /\ IsFiniteSet(ts) /\ Cardinality(ts) \in Nat
      /\ Cardinality(ks) + Cardinality(ts) <= 2
  BY <1>1, CountsAre DEF LastHolder
<1>3. tasks[t].key \in ks
  BY <1>1, CallsAre, CallParts
<1>4. Cardinality(ks) # 0
  BY <1>2, <1>3, FS_EmptySet
<1>5. s \in ts /\ t \in ts
  BY <1>1 DEF Holding
<1>6. Cardinality(ts) >= 2
  <2>1. IsFiniteSet({s}) /\ Cardinality({s}) = 1
    BY FS_Singleton
  <2>2. Cardinality({s} \union {t}) = 2
    <3>1. t \notin {s}
      OBVIOUS
    <3>2. Cardinality({s} \union {t}) = Cardinality({s}) + 1
      BY <2>1, <3>1, FS_AddElement
    <3> QED
      BY <2>1, <3>2
  <2>3. {s} \union {t} \subseteq ts
    BY <1>5
  <2>4. Cardinality({s} \union {t}) <= Cardinality(ts)
    BY <1>2, <2>3, FS_Subset
  <2> HIDE DEF ts
  <2> QED
    BY <1>2, <2>2, <2>4
<1> HIDE DEF ks, ts
<1> QED
  BY <1>2, <1>4, <1>6

\* A step of the request in slot t that keeps its lock and leaves the map and the
\* guards alone.
LEMMA LocksSame ==
  ASSUME IInv, NEW t \in Tasks, NEW u \in {IdleTask} \union Call,
         tasks' = [tasks EXCEPT ![t] = u], UNCHANGED lockVars,
         u.pc \in Mapped =>
           tasks[t].pc \in Mapped /\ u.key = tasks[t].key /\ u.lock = tasks[t].lock,
         u.pc \in Guarded => tasks[t].pc \in Guarded
  PROVE  LocksRight' /\ UNCHANGED <<key_locks, guard>>
<1>1. UNCHANGED <<key_locks, guard>>
  BY DEF lockVars
<1>2. tasks'[t] = u /\ \A s \in Tasks : s # t => tasks'[s] = tasks[s]
  BY DEF IInv, TypeOK
<1>3. LocksRight
  BY DEF IInv
<1>4. Guarded \subseteq Mapped
  BY DEF Mapped
<1>5. Anchored'
  BY <1>1, <1>2, <1>3 DEF LocksRight, Anchored
<1>6. Exclusive'
  BY <1>1, <1>2, <1>3, <1>4 DEF LocksRight, Exclusive
<1>7. Injective'
  BY <1>1, <1>3 DEF LocksRight, Injective
<1> QED
  BY <1>1, <1>5, <1>6, <1>7 DEF LocksRight
-----------------------------------------------------------------------------
(* The cache.                                                              *)

EntriesRight ==
  /\ EntriesSince
  /\ \A k \in Keys : entries[k] # None => entries[k].observed_at <= real

CacheRight ==
  /\ entries \in [Keys -> Entry \union {None}]
  /\ high_water \in Nat /\ latest \in Nat /\ high_water = latest
  /\ steps = 0 => EntriesRight

Answers == [kind: Results, key: Keys, now: Nat, started: Nat, age: Int]

OutcomeRight ==
  /\ outcome \in {NoOutcome} \union Answers
  /\ StaleStaysStale
  /\ steps = 0 => RevokedWithinBudget

\* A step that leaves the cache and the world alone.
LEMMA CacheSame ==
  ASSUME IInv, UNCHANGED <<entries, high_water, latest>>, UNCHANGED <<real, authority, steps>>
  PROVE  CacheRight'
<1>1. /\ entries \in [Keys -> Entry \union {None}] /\ high_water \in Nat
      /\ latest \in Nat /\ high_water = latest
  BY DEF IInv, TypeOK
<1>2. steps = 0 => EntriesRight
  BY DEF IInv, ClockRight, EntriesRight
<1>3. EntriesRight => EntriesRight'
  BY DEF EntriesRight, EntriesSince, Since
<1> QED
  BY <1>1, <1>2, <1>3 DEF CacheRight

\* The cache is given a time: its mark and the greatest time it was given agree.
LEMMA AdvanceIs ==
  ASSUME IInv, NEW now \in Nat, Advance(now)
  PROVE  /\ high_water' \in Nat /\ latest' \in Nat /\ high_water' = latest'
         /\ Advances(now) => latest' = now
<1>1. high_water \in Nat /\ latest \in Nat /\ high_water = latest
  BY DEF IInv, TypeOK
<1> QED
  BY <1>1 DEF Advance, Advances

\* A lookup changes the mark only.
LEMMA LookupStep ==
  ASSUME IInv, NEW now \in Nat, Advance(now), UNCHANGED entries,
         UNCHANGED <<real, authority, steps>>
  PROVE  /\ CacheRight' /\ latest' \in Nat
         /\ Advances(now) => latest' = now
<1>1. /\ high_water' \in Nat /\ latest' \in Nat /\ high_water' = latest'
      /\ Advances(now) => latest' = now
  BY AdvanceIs
<1>2. entries \in [Keys -> Entry \union {None}]
  BY DEF IInv, TypeOK
<1>3. steps = 0 => EntriesRight
  BY DEF IInv, ClockRight, EntriesRight
<1>4. EntriesRight => EntriesRight'
  BY DEF EntriesRight, EntriesSince, Since
<1> QED
  BY <1>1, <1>2, <1>3, <1>4 DEF CacheRight

\* An entry that is fresh is within the budget, and allows only what was allowed
\* when it was observed.
LEMMA FreshIs ==
  ASSUME IInv, NEW k \in Keys, NEW now \in Nat, Fresh(k, now)
  PROVE  /\ entries[k] \in Entry /\ entries[k].observed_at \in Nat
         /\ entries[k].decision \in {"allowed", "revoked"}
         /\ now - entries[k].observed_at <= Budget
         /\ steps = 0 /\ entries[k].decision = "allowed" => Within(k, now)
<1>1. entries[k] # None /\ now - entries[k].observed_at <= Budget
  BY DEF Fresh
<1>2. entries[k] \in Entry
  BY <1>1 DEF IInv, TypeOK
<1>3. entries[k].observed_at \in Nat /\ entries[k].decision \in {"allowed", "revoked"}
  BY <1>2 DEF Entry
<1>4. ASSUME steps = 0, entries[k].decision = "allowed" PROVE Within(k, now)
  <2>1. Since(k, entries[k].observed_at)
    BY <1>1, <1>4 DEF IInv, ClockRight, EntriesSince
  <2>2. ASSUME NEW x \in {TokenTarget[k], SubjectTarget[k]}, authority[x] # Clear
        PROVE  now <= authority[x] + Budget
    <3>1. entries[k].observed_at <= authority[x]
      BY <2>1, <2>2 DEF Since
    <3>2. authority[x] \in Nat /\ Budget \in Nat
      BY <2>2, GateConstants DEF IInv, TypeOK
    <3> QED
      BY <1>1, <1>3, <3>1, <3>2
  <2> QED
    BY <2>2 DEF Within
<1> QED
  BY <1>1, <1>2, <1>3, <1>4

\* The answer of the authority enters the cache, for which another may leave.
LEMMA InsertIs ==
  ASSUME IInv, NEW k \in Keys, NEW e \in Entry, Insert(k, e),
         UNCHANGED <<real, authority, steps>>,
         steps = 0 => e.observed_at <= real,
         steps = 0 /\ e.decision = "allowed" => Since(k, e.observed_at)
  PROVE  /\ entries' \in [Keys -> Entry \union {None}]
         /\ steps' = 0 => EntriesRight'
<1>1. entries \in [Keys -> Entry \union {None}]
  BY DEF IInv, TypeOK
<1>2. /\ entries' \in [Keys -> Entry \union {None}]
      /\ \A j \in Keys : entries'[j] \in {entries[j], None} \/ (j = k /\ entries'[j] = e)
  <2>1. CASE Full(k)
    <3>1. PICK old \in Keys : entries' = [entries EXCEPT ![old] = None, ![k] = e]
      BY <2>1 DEF Insert, Oldest
    <3> QED
      BY <1>1, <3>1
  <2>2. CASE ~Full(k)
    <3>1. entries' = [entries EXCEPT ![k] = e]
      BY <2>2 DEF Insert
    <3> QED
      BY <1>1, <3>1
  <2> QED
    BY <2>1, <2>2
<1>3. ASSUME steps = 0 PROVE EntriesRight'
  <2>1. EntriesRight
    BY <1>3 DEF IInv, ClockRight, EntriesRight
  <2>2. \A j \in Keys : entries'[j] # None => entries'[j].observed_at <= real
    BY <1>2, <1>3, <2>1 DEF EntriesRight
  <2>3. \A j \in Keys : entries'[j] # None /\ entries'[j].decision = "allowed" =>
          Since(j, entries'[j].observed_at)
    BY <1>2, <1>3, <2>1 DEF EntriesRight, EntriesSince
  <2> QED
    BY <2>2, <2>3 DEF EntriesRight, EntriesSince, Since
<1> QED
  BY <1>2, <1>3

-----------------------------------------------------------------------------
(* Requests.                                                               *)

\* A step that gives no answer.
LEMMA QuietOutcome ==
  ASSUME outcome' = NoOutcome
  PROVE  OutcomeRight'
BY DEF OutcomeRight, NoOutcome, StaleStaysStale, RevokedWithinBudget

\* A step that answers request u.
LEMMA AnswerOutcome ==
  ASSUME NEW u \in Call, NEW kind \in Results, NEW age \in Int,
         outcome' = [kind |-> kind, key |-> u.key, now |-> u.now,
                     started |-> u.started, age |-> age],
         UNCHANGED <<authority, steps>>,
         kind = "allowed" => age <= Budget,
         kind = "allowed" /\ steps = 0 => Within(u.key, u.started)
  PROVE  OutcomeRight'
<1>1. u.key \in Keys /\ u.now \in Nat /\ u.started \in Nat
  BY CallParts
<1>2. outcome' \in Answers
  BY <1>1 DEF Answers
<1>3. /\ outcome'.kind = kind /\ outcome'.key = u.key /\ outcome'.started = u.started
      /\ outcome'.age = age
  OBVIOUS
<1>4. StaleStaysStale'
  BY <1>3 DEF StaleStaysStale
<1>5. steps' = 0 => RevokedWithinBudget'
  BY <1>3 DEF RevokedWithinBudget, Within
<1> QED
  BY <1>2, <1>4, <1>5 DEF OutcomeRight

\* A step of the request in slot t, after which it is u.
LEMMA HandlerStep ==
  ASSUME IInv, NEW t \in Tasks, NEW u \in {IdleTask} \union Call,
         tasks' = [tasks EXCEPT ![t] = u], Knows(u), steps = 0 => Timely(u),
         LocksRight', key_locks' \in [Keys -> Locks \union {None}],
         guard' \in [Locks -> Tasks \union {None}],
         UNCHANGED <<real, clock, authority, steps>>, cancels' \in Nat,
         CacheRight', OutcomeRight'
  PROVE  IInv'
<1>1. TypeOK /\ CallsKnow /\ ClockRight
  BY DEF IInv
<1>2. /\ tasks' \in [Tasks -> {IdleTask} \union Call]
      /\ tasks'[t] = u /\ \A s \in Tasks : s # t => tasks'[s] = tasks[s]
  BY <1>1 DEF TypeOK
<1>3. TypeOK'
  BY <1>1, <1>2 DEF TypeOK, CacheRight, OutcomeRight, Answers
<1>4. CallsKnow'
  BY <1>1, <1>2 DEF CallsKnow
<1>5. ASSUME steps = 0, NEW s \in Tasks PROVE Timely(tasks[s])'
  <2>1. PICK w : w = tasks'[s]
    OBVIOUS
  <2>2. Timely(w)
    BY <1>1, <1>2, <1>5, <2>1 DEF ClockRight
  <2>3. Timely(w)'
    BY <2>2 DEF Timely, Since, Within
  <2> QED
    BY <2>1, <2>3 DEF Timely, Since, Within
<1>6. ClockRight'
  BY <1>1, <1>5 DEF ClockRight, CacheRight, EntriesRight, OutcomeRight
<1> QED
  BY <1>3, <1>4, <1>6 DEF IInv, CacheRight, OutcomeRight

\* The same for a step that leaves the map of locks and the guards alone.
LEMMA GoesOn ==
  ASSUME IInv, NEW t \in Tasks, NEW u \in {IdleTask} \union Call,
         tasks' = [tasks EXCEPT ![t] = u], Knows(u), steps = 0 => Timely(u),
         UNCHANGED lockVars, UNCHANGED worldVars,
         u.pc \in Mapped =>
           tasks[t].pc \in Mapped /\ u.key = tasks[t].key /\ u.lock = tasks[t].lock,
         u.pc \in Guarded => tasks[t].pc \in Guarded,
         CacheRight', OutcomeRight'
  PROVE  IInv'
<1>1. LocksRight' /\ UNCHANGED <<key_locks, guard>>
  BY LocksSame
<1>2. UNCHANGED <<real, clock, authority, steps, cancels>>
  BY DEF worldVars
<1>3. /\ key_locks \in [Keys -> Locks \union {None}] /\ cancels \in Nat
      /\ guard \in [Locks -> Tasks \union {None}]
  BY DEF IInv, TypeOK
<1> QED
  BY <1>1, <1>2, <1>3, HandlerStep

\* An idle slot has nothing to know.
LEMMA IdleKnows ==
  /\ Knows(IdleTask) /\ Timely(IdleTask)
  /\ IdleTask.pc \notin Mapped /\ IdleTask.pc \notin Guarded
BY DEF Knows, Timely, IdleTask, Mapped, Guarded, Refreshing, Ending
\* Goto changes nothing but the pc.
LEMMA GotoIs ==
  ASSUME TypeOK, NEW t \in Tasks, tasks[t].pc # "idle", NEW pc \in CallPcs, Goto(t, pc)
  PROVE  \E v \in Call :
           /\ tasks' = [tasks EXCEPT ![t] = v] /\ v.pc = pc
           /\ v.key = tasks[t].key /\ v.now = tasks[t].now /\ v.started = tasks[t].started
           /\ v.lock = tasks[t].lock /\ v.decision = tasks[t].decision
           /\ v.result = tasks[t].result /\ v.age = tasks[t].age
<1>1. PICK u : u = tasks[t]
  OBVIOUS
<1>2. u \in Call
  BY <1>1, CallsAre
<1>3. PICK v : v = [u EXCEPT !.pc = pc]
  OBVIOUS
<1>4. /\ v \in Call /\ v.pc = pc
      /\ v.key = u.key /\ v.now = u.now /\ v.started = u.started /\ v.lock = u.lock
      /\ v.decision = u.decision /\ v.result = u.result /\ v.age = u.age
  BY <1>2, <1>3 DEF Call
<1>5. tasks' = [tasks EXCEPT ![t] = [tasks[t] EXCEPT !.pc = pc]]
  BY DEF Goto
<1>6. tasks' = [tasks EXCEPT ![t] = v]
  BY <1>1, <1>3, <1>5
<1> QED
  BY <1>1, <1>4, <1>6

\* The block under the guard ends with an answer that is within the budget.
LEMMA FinishInv ==
  ASSUME IInv, NEW t \in Tasks, tasks[t].pc \in Guarded,
         NEW kind \in Results, NEW age \in Int, Finish(t, kind, age),
         kind = "allowed" => age <= Budget,
         kind = "allowed" /\ steps = 0 => Within(tasks[t].key, tasks[t].started),
         UNCHANGED lockVars, UNCHANGED worldVars, CacheRight'
  PROVE  IInv'
<1>1. PICK u : u = tasks[t]
  OBVIOUS
<1>2. tasks[t].pc # "idle"
  BY DEF Guarded, Refreshing
<1>3. u \in Call /\ Knows(u) /\ (steps = 0 => Timely(u))
  BY <1>1, <1>2, CallsAre DEF IInv, CallsKnow, ClockRight
<1>4. PICK v : v = [u EXCEPT !.pc = "unlock", !.result = kind, !.age = age]
  OBVIOUS
<1>5. /\ v \in Call /\ v.pc = "unlock" /\ v.result = kind /\ v.age = age
      /\ v.key = u.key /\ v.now = u.now /\ v.started = u.started /\ v.lock = u.lock
  BY <1>3, <1>4 DEF Call, CallPcs
<1>6. /\ tasks' = [tasks EXCEPT ![t] = v] /\ outcome' = NoOutcome
  BY <1>1, <1>4 DEF Finish
<1>7. tasks[t].pc \in Mapped
  BY DEF Mapped
<1>8. Knows(v)
  BY <1>1, <1>3, <1>5, <1>7 DEF Knows
<1>9. steps = 0 => Timely(v)
  BY <1>1, <1>2, <1>3, <1>5 DEF Timely
<1>10. OutcomeRight'
  BY <1>6, QuietOutcome
<1> QED
  BY <1>1, <1>5, <1>6, <1>7, <1>8, <1>9, <1>10, GoesOn

\* authorize returns an answer that is within the budget.
LEMMA ReturnInv ==
  ASSUME IInv, NEW t \in Tasks, tasks[t].pc # "idle",
         NEW kind \in Results, NEW age \in Int, Return(t, kind, age),
         kind = "allowed" => age <= Budget,
         kind = "allowed" /\ steps = 0 => Within(tasks[t].key, tasks[t].started),
         UNCHANGED lockVars, UNCHANGED worldVars, CacheRight'
  PROVE  IInv'
<1>1. PICK u : u = tasks[t]
  OBVIOUS
<1>2. u \in Call
  BY <1>1, CallsAre DEF IInv
<1>3. /\ tasks' = [tasks EXCEPT ![t] = IdleTask]
      /\ outcome' = [kind |-> kind, key |-> u.key, now |-> u.now,
                     started |-> u.started, age |-> age]
  BY <1>1 DEF Return
<1>4. UNCHANGED <<authority, steps>>
  BY DEF worldVars
<1>5. OutcomeRight'
  BY <1>1, <1>2, <1>3, <1>4, AnswerOutcome
<1> QED
  BY <1>3, <1>5, IdleKnows, GoesOn

\* A step to pc that learns nothing.
LEMMA GotoInv ==
  ASSUME IInv, NEW t \in Tasks, tasks[t].pc # "idle", NEW pc \in CallPcs, Goto(t, pc), Quiet,
         \/ pc = "acquire" /\ tasks[t].pc = "fast"
         \/ pc \in {"refresh", "read_token"} /\ tasks[t].pc \in Guarded,
         UNCHANGED lockVars, UNCHANGED worldVars, CacheRight'
  PROVE  IInv'
<1>1. PICK v \in Call :
        /\ tasks' = [tasks EXCEPT ![t] = v] /\ v.pc = pc
        /\ v.key = tasks[t].key /\ v.now = tasks[t].now /\ v.started = tasks[t].started
        /\ v.lock = tasks[t].lock
  BY GotoIs DEF IInv
<1>2. Knows(tasks[t]) /\ (steps = 0 => Timely(tasks[t]))
  BY DEF IInv, CallsKnow, ClockRight
<1>3. Guarded \subseteq Mapped
  BY DEF Mapped
<1>4. Knows(v) /\ (steps = 0 => Timely(v))
  <2>1. CASE pc = "acquire"
    BY <1>1, <1>2, <2>1 DEF Knows, Timely, Mapped, Guarded, Refreshing, Ending
  <2>2. CASE pc # "acquire"
    BY <1>1, <1>2, <1>3, <2>2 DEF Knows, Timely, Ending
  <2> QED
    BY <2>1, <2>2
<1>5. /\ v.pc \in Mapped => tasks[t].pc \in Mapped
      /\ v.pc \in Guarded => tasks[t].pc \in Guarded
  BY <1>1, <1>3 DEF Mapped, Guarded, Refreshing
<1>6. OutcomeRight'
  BY QuietOutcome DEF Quiet
<1> QED
  BY <1>1, <1>4, <1>5, <1>6, GoesOn

-----------------------------------------------------------------------------
(* The invariant, action by action.                                        *)

\* Nothing is revoked, cached or under way.
LEMMA InitInv == Init => IInv
<1> SUFFICES ASSUME Init PROVE IInv
  OBVIOUS
<1>1. TypeOK
  BY GateConstants DEF Init, TypeOK
<1>2. CallsKnow /\ \A t \in Tasks : Timely(tasks[t])
  BY IdleKnows DEF Init, CallsKnow
<1>3. LocksRight
  BY DEF Init, LocksRight, Anchored, Injective, Exclusive, IdleTask, Mapped, Guarded,
         Refreshing
<1>4. StaleStaysStale /\ RevokedWithinBudget
  BY DEF Init, NoOutcome, StaleStaysStale, RevokedWithinBudget
<1>5. ClockRight
  BY <1>2, <1>4 DEF Init, ClockRight, EntriesSince
<1> QED
  BY <1>1, <1>2, <1>3, <1>4, <1>5 DEF Init, IInv

\* A request begins with the time of the host.
LEMMA StartInv ==
  ASSUME IInv, NEW t \in Tasks, NEW k \in Keys, Start(t, k)
  PROVE  IInv'
<1>1. PICK u : u = [pc |-> "fast", key |-> k, now |-> clock, started |-> real, lock |-> None,
                    decision |-> "allowed", result |-> "none", age |-> 0]
  OBVIOUS
<1>2. /\ tasks' = [tasks EXCEPT ![t] = u] /\ outcome' = NoOutcome
      /\ UNCHANGED worldVars /\ UNCHANGED lockVars /\ UNCHANGED <<entries, high_water, latest>>
  BY <1>1 DEF Start, Quiet, cacheVars
<1>3. /\ u \in Call /\ u.pc = "fast" /\ u.lock = None /\ u.now = clock /\ u.started = real
  <2>1. clock \in Nat /\ real \in Nat
    BY DEF IInv, TypeOK
  <2> QED
    BY <1>1, <2>1 DEF Call, CallPcs, Results
<1>4. Knows(u) /\ u.pc \notin Mapped /\ u.pc \notin Guarded
  BY <1>3 DEF Knows, Mapped, Guarded, Refreshing, Ending
<1>5. steps = 0 => Timely(u)
  <2>1. steps = 0 => clock = real
    BY DEF IInv, ClockRight
  <2>2. real \in Nat
    BY DEF IInv, TypeOK
  <2> QED
    BY <1>3, <2>1, <2>2 DEF Timely, Ending
<1>6. CacheRight'
  BY <1>2, CacheSame DEF worldVars
<1>7. OutcomeRight'
  BY <1>2, QuietOutcome
<1> QED
  BY <1>2, <1>3, <1>4, <1>5, <1>6, <1>7, GoesOn

\* The first and the second lookup.
LEMMA LookupInv ==
  ASSUME IInv, NEW t \in Tasks, FastLookup(t) \/ Recheck(t)
  PROVE  IInv'
<1>1. PICK u, k, now : u = tasks[t] /\ k = u.key /\ now = u.now
  OBVIOUS
<1>2. /\ tasks[t].pc \in {"fast", "recheck"} /\ Advance(now) /\ UNCHANGED entries
      /\ UNCHANGED worldVars /\ UNCHANGED lockVars
  BY <1>1 DEF FastLookup, Recheck
<1>3. u \in Call /\ k \in Keys /\ now \in Nat /\ tasks[t].pc # "idle"
  BY <1>1, <1>2, CallsAre, CallParts DEF IInv
<1>4. CacheRight' /\ latest' \in Nat /\ (Advances(now) => latest' = now)
  BY <1>2, <1>3, LookupStep DEF worldVars
<1>5. tasks[t].pc = "recheck" => tasks[t].pc \in Guarded
  BY DEF Guarded
<1>6. CASE ~Advances(now)
  <2>1. \/ tasks[t].pc = "fast" /\ Return(t, "clock_regression", 0)
        \/ tasks[t].pc = "recheck" /\ Finish(t, "clock_regression", 0)
    BY <1>1, <1>6 DEF FastLookup, Recheck
  <2>2. "clock_regression" \in Results /\ 0 \in Int
    BY DEF Results
  <2> QED
    BY <1>2, <1>3, <1>4, <1>5, <2>1, <2>2, ReturnInv, FinishInv
<1>7. CASE Advances(now) /\ Fresh(k, now)
  <2>1. PICK kind, age : kind = entries[k].decision /\ age = Age(entries[k].observed_at)
    OBVIOUS
  <2>2. \/ tasks[t].pc = "fast" /\ Return(t, kind, age)
        \/ tasks[t].pc = "recheck" /\ Finish(t, kind, age)
    BY <1>1, <1>7, <2>1 DEF FastLookup, Recheck
  <2>3. /\ entries[k].observed_at \in Nat /\ kind \in Results
        /\ now - entries[k].observed_at <= Budget
        /\ steps = 0 /\ kind = "allowed" => Within(k, now)
    BY <1>3, <1>7, <2>1, FreshIs DEF Results
  <2>4. age \in Int /\ age <= Budget
    BY <1>3, <1>4, <1>7, <2>1, <2>3 DEF Age
  <2>5. steps = 0 => u.started = now
    BY <1>1, <1>3 DEF IInv, ClockRight, Timely
  <2> QED
    BY <1>1, <1>2, <1>3, <1>4, <1>5, <2>2, <2>3, <2>4, <2>5, ReturnInv, FinishInv
<1>8. CASE Advances(now) /\ ~Fresh(k, now)
  <2>1. \/ tasks[t].pc = "fast" /\ Goto(t, "acquire") /\ Quiet
        \/ tasks[t].pc = "recheck" /\ Goto(t, "refresh") /\ Quiet
    BY <1>1, <1>8 DEF FastLookup, Recheck
  <2>2. "acquire" \in CallPcs /\ "refresh" \in CallPcs
    BY DEF CallPcs
  <2> QED
    BY <1>2, <1>3, <1>4, <1>5, <2>1, <2>2, GotoInv
<1> QED
  BY <1>6, <1>7, <1>8
\* record_refresh_start.
LEMMA RefreshStartInv ==
  ASSUME IInv, NEW t \in Tasks, RefreshStart(t)
  PROVE  IInv'
<1>1. PICK now : now = tasks[t].now
  OBVIOUS
<1>2. /\ tasks[t].pc = "refresh" /\ Advance(now) /\ UNCHANGED entries
      /\ UNCHANGED worldVars /\ UNCHANGED lockVars
      /\ \/ Finish(t, "clock_regression", 0)
         \/ Goto(t, "read_token") /\ Quiet
  BY <1>1 DEF RefreshStart
<1>3. now \in Nat /\ tasks[t].pc # "idle" /\ tasks[t].pc \in Guarded
  BY <1>1, <1>2, CallsAre, CallParts DEF IInv, Guarded, Refreshing
<1>4. CacheRight'
  BY <1>2, <1>3, LookupStep DEF worldVars
<1>5. "clock_regression" \in Results /\ 0 \in Int /\ "read_token" \in CallPcs
  BY DEF Results, CallPcs
<1> QED
  BY <1>2, <1>3, <1>4, <1>5, GotoInv, FinishInv

\* The authority fails or is too slow.
LEMMA RefreshFailsInv ==
  ASSUME IInv, NEW t \in Tasks, RefreshFails(t)
  PROVE  IInv'
<1>1. /\ tasks[t].pc \in Guarded /\ Finish(t, "unavailable", 0)
      /\ UNCHANGED worldVars /\ UNCHANGED lockVars /\ UNCHANGED <<entries, high_water, latest>>
  BY DEF RefreshFails, Guarded, Refreshing, cacheVars
<1>2. CacheRight'
  BY <1>1, CacheSame DEF worldVars
<1>3. "unavailable" \in Results /\ 0 \in Int
  BY DEF Results
<1> QED
  BY <1>1, <1>2, <1>3, FinishInv

\* A ledger that does not match the token at `now` was not revoked before.
LEMMA NoMatch ==
  ASSUME IInv, NEW x \in Targets, NEW now \in Nat, ~Matches(x, now), authority[x] # Clear
  PROVE  now <= authority[x]
<1>1. authority[x] \in Nat /\ ~(authority[x] <= now)
  BY DEF IInv, TypeOK, Matches
<1> QED
  BY <1>1

\* The authority reads the ledger of the token, then that of the subject.
LEMMA ReadInv ==
  ASSUME IInv, NEW t \in Tasks, ReadToken(t) \/ ReadSubject(t)
  PROVE  IInv'
<1>1. PICK u : u = tasks[t]
  OBVIOUS
<1>2. /\ u.pc \in {"read_token", "read_subject"} /\ outcome' = NoOutcome
      /\ UNCHANGED worldVars /\ UNCHANGED lockVars /\ UNCHANGED <<entries, high_water, latest>>
  BY <1>1 DEF ReadToken, ReadSubject, Quiet, cacheVars
<1>3. /\ u \in Call /\ Knows(u) /\ (steps = 0 => Timely(u)) /\ tasks[t].pc # "idle"
      /\ u.pc \in Guarded /\ u.pc \in Mapped
  BY <1>1, <1>2, CallsAre
     DEF IInv, CallsKnow, ClockRight, Guarded, Refreshing, Mapped
<1>4. u.key \in Keys /\ u.now \in Nat
  BY <1>3, CallParts
<1>5. TokenTarget[u.key] \in Targets /\ SubjectTarget[u.key] \in Targets
  BY <1>4, GateConstants
<1>6. CacheRight'
  BY <1>2, CacheSame DEF worldVars
<1>7. OutcomeRight'
  BY <1>2, QuietOutcome
<1>8. ASSUME NEW v \in Call, tasks' = [tasks EXCEPT ![t] = v],
             v.pc \in {"read_subject", "apply"}, v.key = u.key, v.now = u.now,
             v.started = u.started, v.lock = u.lock, steps = 0 => Timely(v)
      PROVE  IInv'
  <2>1. Knows(v)
    BY <1>3, <1>8 DEF Knows, Mapped, Guarded, Refreshing, Ending
  <2> QED
    BY <1>1, <1>2, <1>3, <1>6, <1>7, <1>8, <2>1, GoesOn
<1>9. CASE ReadToken(t) /\ Matches(TokenTarget[u.key], u.now)
  <2>1. PICK v : v = [u EXCEPT !.pc = "apply", !.decision = "revoked"]
    OBVIOUS
  <2>2. tasks' = [tasks EXCEPT ![t] = v]
    BY <1>1, <1>9, <2>1 DEF ReadToken
  <2>3. /\ v \in Call /\ v.pc = "apply" /\ v.decision = "revoked" /\ v.key = u.key
        /\ v.now = u.now /\ v.started = u.started /\ v.lock = u.lock
    BY <1>3, <2>1 DEF Call, CallPcs
  <2>4. steps = 0 => Timely(v)
    BY <1>2, <1>3, <2>3 DEF Timely, Ending
  <2> QED
    BY <1>8, <2>2, <2>3, <2>4
<1>10. CASE ReadToken(t) /\ ~Matches(TokenTarget[u.key], u.now)
  <2>1. Goto(t, "read_subject")
    BY <1>1, <1>10 DEF ReadToken
  <2>2. PICK v \in Call :
          /\ tasks' = [tasks EXCEPT ![t] = v] /\ v.pc = "read_subject"
          /\ v.key = tasks[t].key /\ v.now = tasks[t].now
          /\ v.started = tasks[t].started /\ v.lock = tasks[t].lock
    BY <1>3, <2>1, GotoIs DEF IInv, CallPcs
  <2>3. authority[TokenTarget[u.key]] # Clear => u.now <= authority[TokenTarget[u.key]]
    BY <1>4, <1>5, <1>10, NoMatch
  <2>4. steps = 0 => Timely(v)
    BY <1>1, <1>2, <1>3, <2>2, <2>3 DEF Timely, Ending
  <2> QED
    BY <1>1, <1>8, <2>2, <2>4
<1>11. CASE ReadSubject(t)
  <2>1. PICK d : d = IF Matches(SubjectTarget[u.key], u.now) THEN "revoked" ELSE "allowed"
    OBVIOUS
  <2>2. PICK v : v = [u EXCEPT !.pc = "apply", !.decision = d]
    OBVIOUS
  <2>3. tasks' = [tasks EXCEPT ![t] = v] /\ u.pc = "read_subject"
    BY <1>1, <1>11, <2>1, <2>2 DEF ReadSubject
  <2>4. d \in {"allowed", "revoked"}
    BY <2>1
  <2>5. /\ v \in Call /\ v.pc = "apply" /\ v.decision = d /\ v.key = u.key
        /\ v.now = u.now /\ v.started = u.started /\ v.lock = u.lock
    BY <1>3, <2>2, <2>4 DEF Call, CallPcs
  <2>6. ASSUME steps = 0, d = "allowed" PROVE Since(u.key, u.now)
    <3>1. authority[SubjectTarget[u.key]] # Clear => u.now <= authority[SubjectTarget[u.key]]
      BY <1>4, <1>5, <2>1, <2>6, NoMatch
    <3>2. authority[TokenTarget[u.key]] # Clear => u.now <= authority[TokenTarget[u.key]]
      BY <1>3, <2>3, <2>6 DEF Timely
    <3> QED
      BY <3>1, <3>2 DEF Since
  <2>7. steps = 0 => Timely(v)
    BY <1>2, <1>3, <2>5, <2>6 DEF Timely, Ending
  <2> QED
    BY <1>8, <2>3, <2>5, <2>7
<1> QED
  BY <1>9, <1>10, <1>11

\* The answer of the authority is applied and returned.
LEMMA ApplyInv ==
  ASSUME IInv, NEW t \in Tasks, Apply(t)
  PROVE  IInv'
<1>1. PICK u, now, e : /\ u = tasks[t] /\ now = u.now
                       /\ e = [decision |-> u.decision, observed_at |-> now]
  OBVIOUS
<1>2. /\ u.pc = "apply" /\ Advance(now) /\ UNCHANGED worldVars /\ UNCHANGED lockVars
  BY <1>1 DEF Apply
<1>3. /\ u \in Call /\ (steps = 0 => Timely(u)) /\ tasks[t].pc \in Guarded
  BY <1>1, <1>2, CallsAre DEF IInv, ClockRight, Guarded, Refreshing
<1>4. u.key \in Keys /\ now \in Nat /\ u.decision \in {"allowed", "revoked"}
  BY <1>1, <1>3, CallParts
<1>5. e \in Entry /\ e.decision = u.decision /\ e.observed_at = now
  BY <1>1, <1>4 DEF Entry
<1>6. UNCHANGED <<real, authority, steps>>
  BY <1>2 DEF worldVars
<1>7. CASE ~Advances(now)
  <2>1. Finish(t, "clock_regression", 0) /\ UNCHANGED entries
    BY <1>1, <1>7 DEF Apply
  <2>2. CacheRight'
    BY <1>2, <1>4, <1>6, <2>1, LookupStep
  <2>3. "clock_regression" \in Results /\ 0 \in Int
    BY DEF Results
  <2> QED
    BY <1>2, <1>3, <2>1, <2>2, <2>3, FinishInv
<1>8. CASE Advances(now)
  <2>1. PICK age : age = Age(now)
    OBVIOUS
  <2>2. Insert(u.key, e) /\ Finish(t, u.decision, age)
    BY <1>1, <1>8, <2>1 DEF Apply, ObservedAt
  <2>3. steps = 0 => /\ now <= real /\ u.started = now
                     /\ u.decision = "allowed" => Since(u.key, now)
    BY <1>1, <1>2, <1>3 DEF Timely
  <2>4. /\ high_water' \in Nat /\ latest' \in Nat /\ high_water' = latest'
        /\ latest' = now
    BY <1>2, <1>4, <1>8, AdvanceIs
  <2>5. /\ entries' \in [Keys -> Entry \union {None}]
        /\ steps' = 0 => EntriesRight'
    BY <1>4, <1>5, <1>6, <2>2, <2>3, InsertIs
  <2>6. CacheRight'
    BY <2>4, <2>5 DEF CacheRight
  <2>7. age \in Int /\ age <= Budget
    BY <1>4, <2>1, <2>4, GateConstants DEF Age
  <2>8. ASSUME steps = 0, u.decision = "allowed" PROVE Within(u.key, u.started)
    <3>1. Since(u.key, now) /\ u.started = now
      BY <2>3, <2>8
    <3>2. \A x \in {TokenTarget[u.key], SubjectTarget[u.key]} :
            authority[x] # Clear => authority[x] \in Nat
      BY <1>4, GateConstants DEF IInv, TypeOK
    <3> QED
      BY <1>4, <3>1, <3>2, GateConstants DEF Since, Within
  <2>9. u.decision \in Results
    BY <1>4 DEF Results
  <2> QED
    BY <1>1, <1>2, <1>3, <2>2, <2>6, <2>7, <2>8, <2>9, FinishInv
<1> QED
  BY <1>7, <1>8

\* authorize returns what the block under the guard ended with.
LEMMA DropLockInv ==
  ASSUME IInv, NEW t \in Tasks, DropLock(t)
  PROVE  IInv'
<1>1. PICK u : u = tasks[t]
  OBVIOUS
<1>2. /\ u.pc = "drop" /\ Return(t, u.result, u.age)
      /\ UNCHANGED worldVars /\ UNCHANGED lockVars /\ UNCHANGED <<entries, high_water, latest>>
  BY <1>1 DEF DropLock, cacheVars
<1>3. /\ u \in Call /\ Knows(u) /\ (steps = 0 => Timely(u))
  BY <1>1, <1>2, CallsAre DEF IInv, CallsKnow, ClockRight
<1>4. u.result \in Results /\ u.age \in Int
  BY <1>3, CallParts
<1>5. /\ u.result = "allowed" => u.age <= Budget
      /\ u.result = "allowed" /\ steps = 0 => Within(u.key, u.started)
  BY <1>2, <1>3 DEF Knows, Timely, Ending
<1>6. CacheRight'
  BY <1>2, CacheSame DEF worldVars
<1> QED
  BY <1>1, <1>2, <1>4, <1>5, <1>6, ReturnInv
-----------------------------------------------------------------------------
(* The lock of a token is taken and given back.                            *)

\* A step of the request in slot t that changes the map or a guard, and after
\* which it is u.
LEMMA LockStep ==
  ASSUME IInv, NEW t \in Tasks, NEW u \in {IdleTask} \union Call,
         tasks' = [tasks EXCEPT ![t] = u], Knows(u), steps = 0 => Timely(u),
         LocksRight', key_locks' \in [Keys -> Locks \union {None}],
         guard' \in [Locks -> Tasks \union {None}],
         UNCHANGED <<real, clock, authority, steps>>, cancels' \in Nat,
         UNCHANGED cacheVars, Quiet
  PROVE  IInv'
<1>1. CacheRight'
  BY CacheSame DEF cacheVars
<1>2. OutcomeRight'
  BY QuietOutcome DEF Quiet
<1> QED
  BY <1>1, <1>2, HandlerStep

\* acquire_key clones the Arc in the map, or puts one there that nobody has.
LEMMA AcquireKeyInv ==
  ASSUME IInv, NEW t \in Tasks, AcquireKey(t)
  PROVE  IInv'
<1>1. PICK u, k : u = tasks[t] /\ k = u.key
  OBVIOUS
<1>2. PICK l \in Locks :
        /\ IF key_locks[k] = None THEN Unused(l) ELSE l = key_locks[k]
        /\ key_locks' = [key_locks EXCEPT ![k] = l]
        /\ tasks' = [tasks EXCEPT ![t] = [tasks[t] EXCEPT !.pc = "wait", !.lock = l]]
  <2>1. PICK l \in Locks :
          /\ IF key_locks[tasks[t].key] = None THEN Unused(l)
                                               ELSE l = key_locks[tasks[t].key]
          /\ key_locks' = [key_locks EXCEPT ![tasks[t].key] = l]
          /\ tasks' = [tasks EXCEPT ![t].pc = "wait", ![t].lock = l]
    BY Zenon DEF AcquireKey
  <2> QED
    BY <1>1, <2>1
<1>3. /\ u.pc = "acquire" /\ Quiet /\ UNCHANGED worldVars /\ UNCHANGED cacheVars
      /\ UNCHANGED guard
  BY <1>1 DEF AcquireKey
<1>4. /\ u \in Call /\ (steps = 0 => Timely(u)) /\ LocksRight /\ CallsKnow
      /\ key_locks \in [Keys -> Locks \union {None}] /\ k \in Keys
      /\ guard \in [Locks -> Tasks \union {None}] /\ cancels \in Nat
      /\ tasks \in [Tasks -> {IdleTask} \union Call]
  BY <1>1, <1>3, CallsAre, CallParts DEF IInv, ClockRight, TypeOK
<1>5. PICK v : v = [u EXCEPT !.pc = "wait", !.lock = l]
  OBVIOUS
<1>6. /\ v \in Call /\ v.pc = "wait" /\ v.lock = l /\ v.key = k /\ v.now = u.now
      /\ v.started = u.started
  BY <1>1, <1>4, <1>5 DEF Call, CallPcs
<1>7. tasks' = [tasks EXCEPT ![t] = v]
  BY <1>1, <1>2, <1>5
<1>8. tasks'[t] = v /\ \A s \in Tasks : s # t => tasks'[s] = tasks[s]
  BY <1>4, <1>7
<1>9. /\ key_locks'[k] = l /\ \A j \in Keys : j # k => key_locks'[j] = key_locks[j]
      /\ key_locks' \in [Keys -> Locks \union {None}]
  BY <1>2, <1>4
<1>10. Anchored'
  <2> SUFFICES ASSUME NEW s \in Tasks, tasks'[s].pc \in Mapped
               PROVE  key_locks'[tasks'[s].key] = tasks'[s].lock
    BY DEF Anchored
  <2>1. CASE s = t
    BY <1>6, <1>8, <1>9, <2>1
  <2>2. CASE s # t
    <3>1. /\ tasks'[s] = tasks[s] /\ tasks[s].pc \in Mapped /\ tasks[s].lock \in Locks
          /\ key_locks[tasks[s].key] = tasks[s].lock
      BY <1>4, <1>8, <2>2 DEF LocksRight, Anchored, CallsKnow, Knows
    <3>2. tasks[s].key \in Keys /\ tasks[s].lock # None
      BY <3>1, CallsAre, CallParts, GateConstants
         DEF IInv, Mapped, Guarded, Refreshing
    <3>3. CASE tasks[s].key = k
      BY <1>2, <1>9, <3>1, <3>2, <3>3
    <3>4. CASE tasks[s].key # k
      BY <1>9, <3>1, <3>2, <3>4
    <3> QED
      BY <3>3, <3>4
  <2> QED
    BY <2>1, <2>2
<1>11. Injective'
  <2>1. CASE key_locks[k] = None
    <3>1. \A j \in Keys : key_locks[j] # l
      BY <1>2, <2>1, UnusedIs
    <3> QED
      BY <1>4, <1>9, <3>1 DEF LocksRight, Injective
  <2>2. CASE key_locks[k] # None
    <3>1. \A j \in Keys : key_locks'[j] = key_locks[j]
      BY <1>2, <1>9, <2>2
    <3> QED
      BY <1>4, <3>1 DEF LocksRight, Injective
  <2> QED
    BY <2>1, <2>2
<1>12. Exclusive'
  <2>1. "wait" \notin Guarded
    BY DEF Guarded, Refreshing
  <2> QED
    BY <1>3, <1>4, <1>6, <1>8, <2>1 DEF LocksRight, Exclusive
<1>13. Knows(v) /\ (steps = 0 => Timely(v))
  BY <1>3, <1>4, <1>6 DEF Knows, Timely, Ending
<1>14. UNCHANGED <<real, clock, authority, steps>> /\ cancels' \in Nat
  BY <1>3, <1>4 DEF worldVars
<1>15. guard' \in [Locks -> Tasks \union {None}] /\ LocksRight'
  BY <1>3, <1>4, <1>10, <1>11, <1>12 DEF LocksRight
<1> QED
  BY <1>3, <1>6, <1>7, <1>9, <1>13, <1>14, <1>15, LockStep

\* A guard changes hands: the request in slot t gets it, or gives it back.
LEMMA GuardMoves ==
  ASSUME IInv, NEW t \in Tasks, NEW u \in {IdleTask} \union Call,
         tasks' = [tasks EXCEPT ![t] = u], NEW l \in Locks, tasks[t].lock = l,
         tasks[t].pc \in Mapped, guard[l] \in {t, None}, UNCHANGED key_locks,
         u.pc \in Mapped => u.key = tasks[t].key /\ u.lock = l,
         \/ guard' = [guard EXCEPT ![l] = t]
         \/ guard' = [guard EXCEPT ![l] = None] /\ u.pc \notin Guarded
  PROVE  LocksRight' /\ guard' \in [Locks -> Tasks \union {None}]
<1>1. /\ LocksRight /\ CallsKnow /\ guard \in [Locks -> Tasks \union {None}]
      /\ tasks \in [Tasks -> {IdleTask} \union Call] /\ Guarded \subseteq Mapped
  BY DEF IInv, TypeOK, Mapped
<1>2. /\ guard' \in [Locks -> Tasks \union {None}]
      /\ u.pc \in Guarded => guard'[l] = t
      /\ \A j \in Locks : j # l => guard'[j] = guard[j]
  BY <1>1
<1>3. tasks'[t] = u /\ \A s \in Tasks : s # t => tasks'[s] = tasks[s]
  BY <1>1
<1>4. Anchored' /\ Injective'
  BY <1>1, <1>3 DEF LocksRight, Anchored, Injective
<1>5. Exclusive'
  <2> SUFFICES ASSUME NEW s \in Tasks, tasks'[s].pc \in Guarded
               PROVE  guard'[tasks'[s].lock] = s
    BY DEF Exclusive
  <2>1. CASE s = t
    BY <1>1, <1>2, <1>3, <2>1
  <2>2. CASE s # t
    <3>1. tasks'[s] = tasks[s] /\ guard[tasks[s].lock] = s /\ tasks[s].lock \in Locks
      BY <1>1, <1>3, <2>2 DEF LocksRight, Exclusive, CallsKnow, Knows
    <3>2. tasks[s].lock # l
      BY <2>2, <3>1, GateConstants
    <3> QED
      BY <1>2, <3>1, <3>2
  <2> QED
    BY <2>1, <2>2
<1> QED
  BY <1>2, <1>4, <1>5 DEF LocksRight

\* The AsyncMutex of the token is locked, or the guard is dropped.
LEMMA GuardInv ==
  ASSUME IInv, NEW t \in Tasks, LockKey(t) \/ Unlock(t)
  PROVE  IInv'
<1>1. PICK pc \in {"recheck", "release"} :
        /\ Goto(t, pc)
        /\ pc = "recheck" => /\ tasks[t].pc = "wait" /\ guard[tasks[t].lock] = None
                             /\ guard' = [guard EXCEPT ![tasks[t].lock] = t]
        /\ pc = "release" => /\ tasks[t].pc = "unlock"
                             /\ guard' = [guard EXCEPT ![tasks[t].lock] = None]
  BY DEF LockKey, Unlock
<1>2. /\ Quiet /\ UNCHANGED worldVars /\ UNCHANGED cacheVars /\ UNCHANGED key_locks
  BY DEF LockKey, Unlock
<1>3. /\ tasks[t].pc \in Mapped /\ tasks[t].pc # "idle" /\ pc \in CallPcs /\ pc \in Mapped
      /\ "release" \notin Guarded /\ "unlock" \in Guarded
  BY <1>1 DEF Mapped, Guarded, Refreshing, CallPcs
<1>4. PICK v \in Call :
        /\ tasks' = [tasks EXCEPT ![t] = v] /\ v.pc = pc
        /\ v.key = tasks[t].key /\ v.now = tasks[t].now /\ v.started = tasks[t].started
        /\ v.lock = tasks[t].lock /\ v.result = tasks[t].result /\ v.age = tasks[t].age
  BY <1>1, <1>3, GotoIs DEF IInv
<1>5. /\ Knows(tasks[t]) /\ (steps = 0 => Timely(tasks[t])) /\ LocksRight
      /\ key_locks \in [Keys -> Locks \union {None}] /\ cancels \in Nat
  BY DEF IInv, CallsKnow, ClockRight, TypeOK
<1>6. PICK l \in Locks : l = tasks[t].lock
  BY <1>3, <1>5 DEF Knows
<1>7. guard[l] \in {t, None}
  BY <1>1, <1>3, <1>5, <1>6 DEF LocksRight, Exclusive
<1>8. LocksRight' /\ guard' \in [Locks -> Tasks \union {None}]
  <2>1. \/ guard' = [guard EXCEPT ![l] = t]
        \/ guard' = [guard EXCEPT ![l] = None] /\ v.pc \notin Guarded
    BY <1>1, <1>3, <1>4, <1>6
  <2>2. tasks[t].lock = l /\ v.key = tasks[t].key /\ v.lock = l /\ UNCHANGED key_locks
    BY <1>2, <1>4, <1>6
  <2> QED
    BY <1>3, <1>4, <1>7, <2>1, <2>2, GuardMoves
<1>9. Knows(v) /\ (steps = 0 => Timely(v))
  BY <1>1, <1>3, <1>4, <1>5 DEF Knows, Timely, Ending
<1>10. UNCHANGED <<real, clock, authority, steps>> /\ cancels' \in Nat
  BY <1>2, <1>5 DEF worldVars
<1>11. key_locks' \in [Keys -> Locks \union {None}]
  BY <1>2, <1>5
<1> QED
  BY <1>2, <1>4, <1>8, <1>9, <1>10, <1>11, LockStep

\* release_key removes the lock from the map when nobody else has it.
LEMMA ReleaseKeyInv ==
  ASSUME IInv, NEW t \in Tasks, ReleaseKey(t)
  PROVE  IInv'
<1>1. /\ tasks[t].pc = "release" /\ Goto(t, "drop") /\ Quiet /\ UNCHANGED worldVars
      /\ UNCHANGED cacheVars /\ UNCHANGED guard
      /\ key_locks' = IF LastHolder(t) THEN [key_locks EXCEPT ![tasks[t].key] = None]
                      ELSE key_locks
  BY DEF ReleaseKey
<1>2. /\ tasks[t].pc \in Mapped /\ tasks[t].pc # "idle"
      /\ "drop" \in CallPcs /\ "drop" \notin Mapped /\ "drop" \notin Guarded
      /\ Guarded \subseteq Mapped
  BY <1>1 DEF Mapped, Guarded, Refreshing, CallPcs
<1>3. PICK v \in Call :
        /\ tasks' = [tasks EXCEPT ![t] = v] /\ v.pc = "drop"
        /\ v.key = tasks[t].key /\ v.now = tasks[t].now /\ v.started = tasks[t].started
        /\ v.lock = tasks[t].lock /\ v.result = tasks[t].result /\ v.age = tasks[t].age
  BY <1>1, <1>2, GotoIs DEF IInv
<1>4. /\ TypeOK /\ Knows(tasks[t]) /\ (steps = 0 => Timely(tasks[t])) /\ LocksRight
      /\ key_locks \in [Keys -> Locks \union {None}] /\ cancels \in Nat
      /\ guard \in [Locks -> Tasks \union {None}]
      /\ tasks \in [Tasks -> {IdleTask} \union Call]
  BY DEF IInv, CallsKnow, ClockRight, TypeOK
<1>5. tasks'[t] = v /\ \A s \in Tasks : s # t => tasks'[s] = tasks[s]
  BY <1>3, <1>4
<1>6. key_locks' \in [Keys -> Locks \union {None}]
      /\ \A k \in Keys : key_locks'[k] \in {key_locks[k], None}
  BY <1>1, <1>4
<1>7. Anchored'
  <2> SUFFICES ASSUME NEW s \in Tasks, tasks'[s].pc \in Mapped
               PROVE  key_locks'[tasks'[s].key] = tasks'[s].lock
    BY DEF Anchored
  <2>1. s # t
    BY <1>2, <1>3, <1>5
  <2>2. /\ tasks'[s] = tasks[s] /\ tasks[s].pc \in Mapped
        /\ key_locks[tasks[s].key] = tasks[s].lock
    BY <1>4, <1>5, <2>1 DEF LocksRight, Anchored
  <2>3. CASE ~LastHolder(t)
    BY <1>1, <2>2, <2>3
  <2>4. CASE LastHolder(t)
    <3>1. tasks[t].lock # None /\ key_locks[tasks[t].key] = tasks[t].lock
      BY <1>2, <1>4, GateConstants DEF Knows, LocksRight, Anchored
    <3>2. tasks[s].pc # "idle"
      BY <2>2 DEF Mapped, Guarded, Refreshing
    <3>3. tasks[s].key # tasks[t].key
      BY <1>2, <1>4, <2>1, <2>2, <2>4, <3>1, <3>2, LastHolderIs
    <3> QED
      BY <1>1, <1>4, <2>2, <2>4, <3>3
  <2> QED
    BY <2>3, <2>4
<1>8. Injective'
  BY <1>4, <1>6 DEF LocksRight, Injective
<1>9. Exclusive'
  BY <1>1, <1>2, <1>3, <1>4, <1>5 DEF LocksRight, Exclusive
<1>10. Knows(v) /\ (steps = 0 => Timely(v))
  BY <1>1, <1>2, <1>3, <1>4 DEF Knows, Timely, Ending
<1>11. UNCHANGED <<real, clock, authority, steps>> /\ cancels' \in Nat
  BY <1>1, <1>4 DEF worldVars
<1>12. LocksRight' /\ guard' \in [Locks -> Tasks \union {None}]
  BY <1>1, <1>4, <1>7, <1>8, <1>9 DEF LocksRight
<1> QED
  BY <1>1, <1>3, <1>6, <1>10, <1>11, <1>12, LockStep

\* The caller drops its request while it waits for the lock or the authority.
LEMMA CancelInv ==
  ASSUME IInv, NEW t \in Tasks, Cancel(t)
  PROVE  IInv'
<1>1. /\ tasks[t].pc \in {"wait", "read_token", "read_subject"} /\ cancels' = cancels + 1
      /\ guard' = IF tasks[t].pc = "wait" THEN guard
                  ELSE [guard EXCEPT ![tasks[t].lock] = None]
      /\ tasks' = [tasks EXCEPT ![t] = IdleTask] /\ Quiet
      /\ UNCHANGED <<real, clock, authority, steps>> /\ UNCHANGED cacheVars
      /\ UNCHANGED key_locks
  BY DEF Cancel
<1>2. /\ Knows(tasks[t]) /\ LocksRight /\ guard \in [Locks -> Tasks \union {None}]
      /\ key_locks \in [Keys -> Locks \union {None}] /\ cancels \in Nat
  BY DEF IInv, CallsKnow, TypeOK
<1>3. tasks[t].pc \in Mapped /\ (tasks[t].pc # "wait" => tasks[t].pc \in Guarded)
  BY <1>1 DEF Mapped, Guarded, Refreshing
<1>4. cancels' \in Nat /\ key_locks' \in [Keys -> Locks \union {None}]
  BY <1>1, <1>2
<1>5. LocksRight' /\ guard' \in [Locks -> Tasks \union {None}]
  <2>1. CASE tasks[t].pc = "wait"
    <3>1. UNCHANGED lockVars
      BY <1>1, <2>1 DEF lockVars
    <3> QED
      BY <1>1, <1>2, <3>1, IdleKnows, LocksSame
  <2>2. CASE tasks[t].pc # "wait"
    <3>1. PICK l \in Locks : l = tasks[t].lock
      BY <1>2, <1>3 DEF Knows
    <3>2. guard[l] = t
      BY <1>2, <1>3, <2>2, <3>1 DEF LocksRight, Exclusive
    <3> QED
      BY <1>1, <1>3, <2>2, <3>1, <3>2, IdleKnows, GuardMoves
  <2> QED
    BY <2>1, <2>2
<1> QED
  BY <1>1, <1>4, <1>5, IdleKnows, LockStep

-----------------------------------------------------------------------------
(* The world.                                                              *)

\* Time passes, the host clock is set back, a target is revoked or lifted, or
\* nothing happens.
LEMMA WorldInv ==
  ASSUME IInv,
         \/ Tick \/ StepBack \/ UNCHANGED vars
         \/ \E x \in Targets : Revoke(x) \/ Lift(x)
  PROVE  IInv'
<1>1. UNCHANGED <<entries, high_water, latest, key_locks, guard, tasks, cancels>>
  BY DEF Tick, StepBack, Revoke, Lift, vars, cacheVars, lockVars
<1>2. TypeOK /\ CallsKnow /\ LocksRight /\ high_water = latest /\ ClockRight
  BY DEF IInv
<1>3. /\ real' \in Nat /\ clock' \in Nat /\ steps' \in Nat /\ real <= real'
      /\ authority' \in [Targets -> Nat \union {Clear}]
      /\ steps' = 0 => steps = 0 /\ (clock = real => clock' = real')
      /\ \A x \in Targets : authority'[x] \in {authority[x], Clear, real}
  <2>1. CASE Tick
    BY <1>2, <2>1 DEF Tick, TypeOK
  <2>2. CASE StepBack
    <3>1. PICK c \in 0 .. clock - 1 : clock' = c
      BY <2>2 DEF StepBack
    <3> QED
      BY <1>2, <2>2, <3>1 DEF StepBack, TypeOK
  <2>3. ASSUME NEW x \in Targets, Revoke(x) \/ Lift(x)
        PROVE  /\ UNCHANGED <<real, clock, steps>>
               /\ \/ authority' = [authority EXCEPT ![x] = real]
                  \/ authority' = [authority EXCEPT ![x] = Clear]
    BY <2>3 DEF Revoke, Lift
  <2>4. CASE UNCHANGED vars
    BY <1>2, <2>4 DEF vars, TypeOK
  <2>5. ASSUME NEW x \in Targets, Revoke(x) \/ Lift(x)
        PROVE  /\ real' \in Nat /\ clock' \in Nat /\ steps' \in Nat /\ real <= real'
               /\ authority' \in [Targets -> Nat \union {Clear}]
               /\ steps' = 0 => steps = 0 /\ (clock = real => clock' = real')
               /\ \A y \in Targets : authority'[y] \in {authority[y], Clear, real}
    BY <1>2, <2>3, <2>5 DEF TypeOK
  <2> QED
    BY <2>1, <2>2, <2>4, <2>5
<1>4. OutcomeRight'
  <2>1. CASE UNCHANGED vars
    BY <2>1 DEF vars, IInv, TypeOK, ClockRight, OutcomeRight, Answers, StaleStaysStale,
                RevokedWithinBudget
  <2>2. CASE ~UNCHANGED vars
    <3>1. outcome' = NoOutcome
      BY <2>2 DEF Tick, StepBack, Revoke, Lift, Quiet
    <3> QED
      BY <3>1, QuietOutcome
  <2> QED
    BY <2>1, <2>2
<1>5. TypeOK' /\ CallsKnow' /\ LocksRight' /\ high_water' = latest'
  BY <1>1, <1>2, <1>3, <1>4
     DEF TypeOK, OutcomeRight, Answers, CallsKnow, LocksRight, Anchored, Injective, Exclusive
<1>7. ASSUME NEW k \in Keys, NEW o \in Nat, o <= real
      PROVE  /\ Since(k, o) => Since(k, o)'
             /\ Within(k, o) => Within(k, o)'
  <2>1. TokenTarget[k] \in Targets /\ SubjectTarget[k] \in Targets
    BY GateConstants
  <2>2. real \in Nat /\ Budget \in Nat /\ \A x \in Targets : authority[x] \in Nat \union {Clear}
    BY <1>2, GateConstants DEF TypeOK
  <2>3. ASSUME NEW x \in Targets, authority'[x] # Clear
        PROVE  /\ (authority[x] # Clear => o <= authority[x]) => o <= authority'[x]
               /\ (authority[x] # Clear => o <= authority[x] + Budget) =>
                    o <= authority'[x] + Budget
    BY <1>3, <1>7, <2>2, <2>3
  <2> QED
    BY <2>1, <2>3 DEF Since, Within
<1>8. ASSUME steps = 0 PROVE EntriesRight'
  <2>1. /\ \A k \in Keys : entries[k] # None => entries[k] \in Entry
        /\ \A k \in Keys : entries[k] # None => entries[k].observed_at <= real
        /\ EntriesSince
    BY <1>2, <1>8 DEF TypeOK, ClockRight
  <2>2. ASSUME NEW k \in Keys, entries[k] # None
        PROVE  /\ entries[k].observed_at <= real'
               /\ entries[k].decision = "allowed" => Since(k, entries[k].observed_at)'
    <3>1. PICK o : o = entries[k].observed_at
      OBVIOUS
    <3>2. o \in Nat /\ o <= real /\ (entries[k].decision = "allowed" => Since(k, o))
      BY <2>1, <2>2, <3>1 DEF Entry, EntriesSince
    <3>3. entries[k].decision = "allowed" => Since(k, o)'
      BY <1>7, <3>2
    <3>4. o <= real'
      BY <1>2, <1>3, <3>2 DEF TypeOK
    <3> QED
      BY <1>1, <3>1, <3>3, <3>4 DEF Since
  <2> QED
    BY <1>1, <2>2 DEF EntriesRight, EntriesSince, Since
<1>9. ASSUME steps = 0, NEW t \in Tasks PROVE Timely(tasks[t])'
  <2>1. PICK u : u = tasks[t]
    OBVIOUS
  <2>2. CASE u.pc = "idle"
    BY <1>1, <2>1, <2>2 DEF Timely
  <2>3. CASE u.pc # "idle"
    <3>1. u \in Call /\ Timely(u)
      BY <1>2, <1>9, <2>1, <2>3, CallsAre DEF ClockRight
    <3>2. u.key \in Keys /\ u.now \in Nat /\ u.started = u.now /\ u.now <= real
      BY <2>3, <3>1, CallParts DEF Timely
    <3>3. u.now <= real'
      BY <1>2, <1>3, <3>2 DEF TypeOK
    <3>4. /\ u.pc = "apply" /\ u.decision = "allowed" => Since(u.key, u.now)'
          /\ u.pc \in Ending /\ u.result = "allowed" => Within(u.key, u.started)'
      BY <1>7, <2>3, <3>1, <3>2 DEF Timely
    <3>5. u.pc = "read_subject" /\ authority'[TokenTarget[u.key]] # Clear =>
            u.now <= authority'[TokenTarget[u.key]]
      <4>1. TokenTarget[u.key] \in Targets
        BY <3>2, GateConstants
      <4>2. u.pc = "read_subject" /\ authority[TokenTarget[u.key]] # Clear =>
              u.now <= authority[TokenTarget[u.key]]
        BY <3>1 DEF Timely
      <4> QED
        BY <1>3, <3>2, <4>1, <4>2
    <3>6. Timely(u)'
      BY <3>2, <3>3, <3>4, <3>5 DEF Timely
    <3> QED
      BY <1>1, <2>1, <3>6 DEF Timely, Since, Within
  <2> QED
    BY <2>2, <2>3
<1>10. ClockRight'
  BY <1>2, <1>3, <1>4, <1>8, <1>9 DEF ClockRight, EntriesRight, OutcomeRight
<1> QED
  BY <1>4, <1>5, <1>10 DEF IInv, OutcomeRight

\* Every step preserves the invariant.
LEMMA InvStep == IInv /\ [Next]_vars => IInv'
<1> SUFFICES ASSUME IInv, [Next]_vars PROVE IInv'
  OBVIOUS
<1>1. ASSUME NEW t \in Tasks, Proceed(t) PROVE IInv'
  BY <1>1, LookupInv, AcquireKeyInv, GuardInv, RefreshStartInv, ReadInv, RefreshFailsInv,
     ApplyInv, ReleaseKeyInv, DropLockInv DEF Proceed
<1>2. ASSUME NEW t \in Tasks, Cancel(t) PROVE IInv'
  BY <1>2, CancelInv
<1>3. ASSUME NEW t \in Tasks, NEW k \in Keys, Start(t, k) PROVE IInv'
  BY <1>3, StartInv
<1>4. CASE \/ Tick \/ StepBack \/ UNCHANGED vars
           \/ \E x \in Targets : Revoke(x) \/ Lift(x)
  BY <1>4, WorldInv
<1> QED
  BY <1>1, <1>2, <1>3, <1>4 DEF Next

\* The invariant holds in every behaviour.
LEMMA Invariance == Spec => []IInv
<1> QED
  BY InitInv, InvStep, PTL DEF Spec

-----------------------------------------------------------------------------
(* The theorems.                                                           *)

\* Every variable of the gate keeps its type.
THEOREM TypeCorrect == Spec => []TypeOK
<1>1. IInv => TypeOK
  BY DEF IInv
<1> QED
  BY <1>1, Invariance, PTL

\* However the Arcs of the map are cloned, counted, removed and allocated again,
\* no two requests refresh one token at the same time.
THEOREM RefreshesAlone == Spec => []SingleFlight
<1>1. IInv => SingleFlight
  <2> SUFFICES ASSUME IInv, NEW s \in Tasks, NEW t \in Tasks, tasks[s].pc \in Refreshing,
                      tasks[t].pc \in Refreshing, tasks[s].key = tasks[t].key
               PROVE  s = t
    BY DEF SingleFlight
  <2>1. tasks[s].lock = tasks[t].lock
    BY DEF IInv, LocksRight, Anchored, Mapped, Guarded
  <2> QED
    BY <2>1 DEF IInv, LocksRight, Exclusive, Guarded
<1> QED
  BY <1>1, Invariance, PTL

\* While the host clock has not been set back, no request that starts more than the
\* budget after a revocation is allowed.
THEOREM RevocationsTakeEffect == Spec => [](steps = 0 => RevokedWithinBudget)
<1>1. IInv => (steps = 0 => RevokedWithinBudget)
  BY DEF IInv, ClockRight
<1> QED
  BY <1>1, Invariance, PTL

\* An entry that was once too old is not served again, however often and however
\* far the host clock is set back.
THEOREM StaleForGood == Spec => []StaleStaysStale
<1>1. IInv => StaleStaysStale
  BY DEF IInv
<1> QED
  BY <1>1, Invariance, PTL
=============================================================================
