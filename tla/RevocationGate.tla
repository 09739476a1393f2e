--------------------------- MODULE RevocationGate ---------------------------
(***************************************************************************)
(* The verifier-side gate of src/src/gate.rs over the bounded cache of     *)
(* src/src/cache.rs.  Requests run as tasks on several threads: authorize  *)
(* looks the token up, and on a stale or missing entry takes the lock of   *)
(* the token, looks again, asks the authority and applies the answer.      *)
(* Every critical section of a std Mutex is one step; between two of them, *)
(* and at every await, the other tasks run.                                *)
(*                                                                         *)
(* The authority is RevocationStore::check: it reads the ledger of the     *)
(* token and then the ledger of the subject, and judges both at the time   *)
(* the request started.  A ledger is abstracted to the time since which    *)
(* its target is revoked, or Clear.                                        *)
(***************************************************************************)
EXTENDS Integers, FiniteSets

CONSTANTS
  Keys,          \* revocation_cache_key of the tokens
  Targets,       \* ledgers of the authority
  TokenTarget,   \* TokenTarget[k]: the ledger of the jti of token k
  SubjectTarget, \* SubjectTarget[k]: the ledger of its subject
  Tasks,         \* requests that can be under way at once
  Locks,         \* allocations of the per-key AsyncMutex
  Budget,        \* freshness_budget_secs
  Capacity,      \* capacity of the cache
  Clear,         \* a target that is not revoked
  None,          \* no entry, no lock, no task
  MaxTime,       \* bound: real time stops here
  MaxSteps,      \* bound: how often the host clock is set back
  MaxCancels     \* bound: how many requests are dropped by their caller

ASSUME GateConstants ==
  /\ TokenTarget \in [Keys -> Targets] /\ SubjectTarget \in [Keys -> Targets]
  /\ Budget \in Nat \ {0} /\ Capacity \in Nat \ {0}
  /\ MaxTime \in Nat /\ MaxSteps \in Nat /\ MaxCancels \in Nat
  /\ Clear \notin Nat
  /\ None \notin Tasks /\ None \notin Locks
  /\ IsFiniteSet(Tasks) /\ IsFiniteSet(Keys)

VARIABLES
  real,        \* time, as the authority's host tells it
  clock,       \* the Unix time of the verifier's host
  authority,   \* authority[x]: since when target x is revoked, or Clear
  entries,     \* entries[k]: the cached decision, or None
  high_water,  \* the cache's mark of the greatest time it has seen
  latest,      \* ghost: the greatest time any cache operation was given
  key_locks,   \* key_locks[k]: the Arc in the map, or None
  guard,       \* guard[l]: the task that holds the AsyncMutex l, or None
  tasks,       \* tasks[t]: where the request of t is
  outcome,     \* the answer the latest step gave, if it gave one
  steps, cancels

vars == <<real, clock, authority, entries, high_water, latest, key_locks, guard,
          tasks, outcome, steps, cancels>>

cacheVars == <<entries, high_water, latest>>
lockVars == <<key_locks, guard>>
worldVars == <<real, clock, authority, steps, cancels>>

-----------------------------------------------------------------------------
(* The cache.                                                              *)

\* Mutant of Advances: the high-water mark is ignored.
AdvancesAlways(now) == TRUE

Advances(now) == now >= high_water

\* advance: the clock of the cache after an operation that was given `now`.
Advance(now) ==
  /\ high_water' = IF Advances(now) THEN now ELSE high_water
  /\ latest' = IF now > latest THEN now ELSE latest

\* How far behind `latest` the evidence observed at o is (ghost).
Age(o) == latest' - o

Fresh(k, now) == entries[k] # None /\ now - entries[k].observed_at <= Budget

\* evict_oldest: HashMap order decides between entries of the same age.
Oldest == {k \in Keys : /\ entries[k] # None
                        /\ \A j \in Keys : entries[j] # None =>
                             entries[k].observed_at <= entries[j].observed_at}

Full(k) == /\ entries[k] = None
           /\ Cardinality({j \in Keys : entries[j] # None}) >= Capacity

\* apply_authoritative once the clock has been accepted.
Insert(k, e) ==
  IF Full(k)
    THEN \E old \in Oldest : entries' = [entries EXCEPT ![old] = None, ![k] = e]
    ELSE entries' = [entries EXCEPT ![k] = e]

-----------------------------------------------------------------------------
(* The per-key locks.                                                      *)

Holding == {t \in Tasks : tasks[t].pc # "idle" /\ tasks[t].lock # None}

\* Arc::strong_count: one reference of the map, one of every task with a clone.
StrongCount(l) ==
  Cardinality({k \in Keys : key_locks[k] = l})
    + Cardinality({t \in Holding : tasks[t].lock = l})

Unused(l) == StrongCount(l) = 0

-----------------------------------------------------------------------------
(* authorize.                                                              *)

IdleTask == [pc |-> "idle"]

NoOutcome == [kind |-> "none"]

Goto(t, pc) == tasks' = [tasks EXCEPT ![t].pc = pc]

\* authorize returns: to the client it is an answer.
Return(t, kind, age) ==
  /\ tasks' = [tasks EXCEPT ![t] = IdleTask]
  /\ outcome' = [kind |-> kind, key |-> tasks[t].key, now |-> tasks[t].now,
                 started |-> tasks[t].started, age |-> age]

\* The block under the guard ends with `kind`: release_key comes next.
Finish(t, kind, age) ==
  /\ tasks' = [tasks EXCEPT ![t].pc = "unlock", ![t].result = kind,
                            ![t].age = age]
  /\ outcome' = NoOutcome

Quiet == outcome' = NoOutcome

\* The caller takes the time and calls authorize.
Start(t, k) ==
  /\ tasks[t] = IdleTask
  /\ tasks' = [tasks EXCEPT ![t] =
       [pc |-> "fast", key |-> k, now |-> clock, started |-> real, lock |-> None,
        decision |-> "allowed", result |-> "none", age |-> 0]]
  /\ Quiet
  /\ UNCHANGED <<worldVars, cacheVars, lockVars>>

\* Fast path: the first cache_lookup.
FastLookup(t) ==
  /\ tasks[t].pc = "fast"
  /\ LET k == tasks[t].key
         now == tasks[t].now
     IN /\ Advance(now)
        /\ \/ ~Advances(now) /\ Return(t, "clock_regression", 0)
           \/ /\ Advances(now) /\ Fresh(k, now)
              /\ Return(t, entries[k].decision, Age(entries[k].observed_at))
           \/ /\ Advances(now) /\ ~Fresh(k, now)
              /\ Goto(t, "acquire") /\ Quiet
  /\ UNCHANGED <<worldVars, entries, lockVars>>

\* acquire_key: the Arc in the map, or a new one, cloned under the map's mutex.
AcquireKey(t) ==
  /\ tasks[t].pc = "acquire"
  /\ LET k == tasks[t].key IN
     \E l \in Locks :
       /\ IF key_locks[k] = None THEN Unused(l) ELSE l = key_locks[k]
       /\ key_locks' = [key_locks EXCEPT ![k] = l]
       /\ tasks' = [tasks EXCEPT ![t].pc = "wait", ![t].lock = l]
  /\ Quiet
  /\ UNCHANGED <<worldVars, cacheVars, guard>>

LockKey(t) ==
  /\ tasks[t].pc = "wait"
  /\ guard[tasks[t].lock] = None
  /\ guard' = [guard EXCEPT ![tasks[t].lock] = t]
  /\ Goto(t, "recheck")
  /\ Quiet
  /\ UNCHANGED <<worldVars, cacheVars, key_locks>>

\* The second cache_lookup, under the guard.
Recheck(t) ==
  /\ tasks[t].pc = "recheck"
  /\ LET k == tasks[t].key
         now == tasks[t].now
     IN /\ Advance(now)
        /\ \/ ~Advances(now) /\ Finish(t, "clock_regression", 0)
           \/ /\ Advances(now) /\ Fresh(k, now)
              /\ Finish(t, entries[k].decision, Age(entries[k].observed_at))
           \/ /\ Advances(now) /\ ~Fresh(k, now)
              /\ Goto(t, "refresh") /\ Quiet
  /\ UNCHANGED <<worldVars, entries, lockVars>>

\* refresh: record_refresh_start.
RefreshStart(t) ==
  /\ tasks[t].pc = "refresh"
  /\ Advance(tasks[t].now)
  /\ \/ ~Advances(tasks[t].now) /\ Finish(t, "clock_regression", 0)
     \/ Advances(tasks[t].now) /\ Goto(t, "read_token") /\ Quiet
  /\ UNCHANGED <<worldVars, entries, lockVars>>

\* The authority's ledger of target x matches a token at the time `now`.
Matches(x, now) == authority[x] # Clear /\ authority[x] <= now

\* check: the ledger of the token, then that of the subject.
ReadToken(t) ==
  /\ tasks[t].pc = "read_token"
  /\ IF Matches(TokenTarget[tasks[t].key], tasks[t].now)
       THEN tasks' = [tasks EXCEPT ![t].pc = "apply", ![t].decision = "revoked"]
       ELSE Goto(t, "read_subject")
  /\ Quiet
  /\ UNCHANGED <<worldVars, cacheVars, lockVars>>

ReadSubject(t) ==
  /\ tasks[t].pc = "read_subject"
  /\ tasks' = [tasks EXCEPT ![t].pc = "apply",
       ![t].decision = IF Matches(SubjectTarget[tasks[t].key], tasks[t].now)
                         THEN "revoked" ELSE "allowed"]
  /\ Quiet
  /\ UNCHANGED <<worldVars, cacheVars, lockVars>>

\* Mutant of RefreshFails: the error is returned past the guard's release.
RefreshFailsLocked(t) ==
  /\ tasks[t].pc \in {"read_token", "read_subject", "apply"}
  /\ Return(t, "unavailable", 0)
  /\ UNCHANGED <<worldVars, cacheVars, lockVars>>

\* The authority fails, or does not answer within refresh_timeout.
RefreshFails(t) ==
  /\ tasks[t].pc \in {"read_token", "read_subject", "apply"}
  /\ Finish(t, "unavailable", 0)
  /\ UNCHANGED <<worldVars, cacheVars, lockVars>>

\* Mutants of ObservedAt: the time the answer arrived; the budget subtracted.
ObservedOnArrival(t) == clock

ObservedBeforeBudget(t) == tasks[t].now - Budget

\* When the answer to t is observed: the time the request started.
ObservedAt(t) == tasks[t].now

Apply(t) ==
  /\ tasks[t].pc = "apply"
  /\ LET now == tasks[t].now
     IN /\ Advance(now)
        /\ \/ /\ ~Advances(now)
              /\ Finish(t, "clock_regression", 0)
              /\ UNCHANGED entries
           \/ /\ Advances(now)
              /\ Insert(tasks[t].key,
                        [decision |-> tasks[t].decision, observed_at |-> ObservedAt(t)])
              /\ Finish(t, tasks[t].decision, Age(now))
  /\ UNCHANGED <<worldVars, lockVars>>

\* The block's guard is dropped.
Unlock(t) ==
  /\ tasks[t].pc = "unlock"
  /\ guard' = [guard EXCEPT ![tasks[t].lock] = None]
  /\ Goto(t, "release")
  /\ Quiet
  /\ UNCHANGED <<worldVars, cacheVars, key_locks>>

\* Mutant of LastHolder: every holder removes the lock from the map.
EveryHolder(t) == TRUE

\* release_key, under the map's mutex; `lock` itself lives until the function
\* has returned, after the map's mutex was given back.
LastHolder(t) == StrongCount(tasks[t].lock) <= 2

ReleaseKey(t) ==
  /\ tasks[t].pc = "release"
  /\ key_locks' = IF LastHolder(t) THEN [key_locks EXCEPT ![tasks[t].key] = None]
                  ELSE key_locks
  /\ Goto(t, "drop")
  /\ Quiet
  /\ UNCHANGED <<worldVars, cacheVars, guard>>

DropLock(t) ==
  /\ tasks[t].pc = "drop"
  /\ Return(t, tasks[t].result, tasks[t].age)
  /\ UNCHANGED <<worldVars, cacheVars, lockVars>>

\* The caller drops the future at one of its awaits: the guard and the Arc go,
\* release_key is not called.
Cancel(t) ==
  /\ tasks[t].pc \in {"wait", "read_token", "read_subject"}
  /\ cancels < MaxCancels
  /\ cancels' = cancels + 1
  /\ guard' = IF tasks[t].pc = "wait" THEN guard
              ELSE [guard EXCEPT ![tasks[t].lock] = None]
  /\ tasks' = [tasks EXCEPT ![t] = IdleTask]
  /\ Quiet
  /\ UNCHANGED <<real, clock, authority, steps, cacheVars, key_locks>>

-----------------------------------------------------------------------------
(* The world.                                                              *)

Tick ==
  /\ real < MaxTime
  /\ real' = real + 1
  /\ clock' = clock + 1
  /\ Quiet
  /\ UNCHANGED <<authority, steps, cancels, cacheVars, lockVars, tasks>>

\* The host clock is set back.
StepBack ==
  /\ steps < MaxSteps
  /\ steps' = steps + 1
  /\ \E c \in 0 .. clock - 1 : clock' = c
  /\ Quiet
  /\ UNCHANGED <<real, authority, cancels, cacheVars, lockVars, tasks>>

Revoke(x) ==
  /\ authority[x] = Clear
  /\ authority' = [authority EXCEPT ![x] = real]
  /\ Quiet
  /\ UNCHANGED <<real, clock, steps, cancels, cacheVars, lockVars, tasks>>

Lift(x) ==
  /\ authority[x] # Clear
  /\ authority' = [authority EXCEPT ![x] = Clear]
  /\ Quiet
  /\ UNCHANGED <<real, clock, steps, cancels, cacheVars, lockVars, tasks>>

Init ==
  /\ real = 0 /\ clock = 0 /\ steps = 0 /\ cancels = 0
  /\ authority = [x \in Targets |-> Clear]
  /\ entries = [k \in Keys |-> None]
  /\ high_water = 0 /\ latest = 0
  /\ key_locks = [k \in Keys |-> None]
  /\ guard = [l \in Locks |-> None]
  /\ tasks = [t \in Tasks |-> IdleTask]
  /\ outcome = NoOutcome

\* What t does by itself once it has been called.
Proceed(t) ==
  \/ FastLookup(t) \/ AcquireKey(t) \/ LockKey(t) \/ Recheck(t) \/ RefreshStart(t)
  \/ ReadToken(t) \/ ReadSubject(t) \/ RefreshFails(t) \/ Apply(t)
  \/ Unlock(t) \/ ReleaseKey(t) \/ DropLock(t)

Next ==
  \/ \E t \in Tasks : Proceed(t) \/ Cancel(t) \/ \E k \in Keys : Start(t, k)
  \/ \E x \in Targets : Revoke(x) \/ Lift(x)
  \/ Tick \/ StepBack

Spec == Init /\ [][Next]_vars

\* Tasks are scheduled, and the AsyncMutex serves its waiters in order.
Fairness == \A t \in Tasks : WF_vars(Proceed(t)) /\ SF_vars(LockKey(t))

FairSpec == Spec /\ Fairness

-----------------------------------------------------------------------------
CallPcs == {"fast", "acquire", "wait", "recheck", "refresh", "read_token",
            "read_subject", "apply", "unlock", "release", "drop"}

Results == {"none", "allowed", "revoked", "clock_regression", "unavailable"}

Call == [pc: CallPcs, key: Keys, now: Nat, started: Nat, lock: Locks \union {None},
         decision: {"allowed", "revoked"}, result: Results, age: Int]

Entry == [decision: {"allowed", "revoked"}, observed_at: Nat]

\* Types of the gate's state.
TypeOK ==
  /\ real \in Nat /\ clock \in Nat /\ high_water \in Nat /\ latest \in Nat
  /\ steps \in Nat /\ cancels \in Nat
  /\ authority \in [Targets -> Nat \union {Clear}]
  /\ entries \in [Keys -> Entry \union {None}]
  /\ key_locks \in [Keys -> Locks \union {None}]
  /\ guard \in [Locks -> Tasks \union {None}]
  /\ tasks \in [Tasks -> {IdleTask} \union Call]
  /\ outcome \in {NoOutcome} \union
       [kind: Results, key: Keys, now: Nat, started: Nat, age: Int]

Refreshing == {"refresh", "read_token", "read_subject", "apply"}

\* Single flight: whatever releases and re-creates the Arcs of the map, two
\* tasks are never between the second lookup and the apply for one token.
SingleFlight ==
  \A s, t \in Tasks :
    tasks[s].pc \in Refreshing /\ tasks[t].pc \in Refreshing
      /\ tasks[s].key = tasks[t].key => s = t

\* Bounded staleness: once a target has been revoked for longer than the budget,
\* no request that starts then is allowed, however slow the refreshes are that
\* filled the cache.  (While the host clock is right.)
RevokedWithinBudget ==
  outcome.kind = "allowed" =>
    \A x \in {TokenTarget[outcome.key], SubjectTarget[outcome.key]} :
      authority[x] # Clear => outcome.started <= authority[x] + Budget

\* cache.rs, "Wall-clock assumption": once the cache has been given a time more
\* than the budget after an entry was observed, that entry never again yields a
\* decision, however the host clock is set back.
StaleStaysStale ==
  outcome.kind = "allowed" => outcome.age <= Budget

\* Every request is answered or dropped by its caller: no lost unlock, no task
\* waits for ever.
EveryRequestAnswered ==
  \A t \in Tasks : tasks[t].pc # "idle" ~> tasks[t].pc = "idle"

\* gate.rs: the map is bounded by the refreshes in flight.
NoLeakedLocks ==
  \A k \in Keys : key_locks[k] # None => \E t \in Holding : tasks[t].key = k
=============================================================================
