-------------------------- MODULE RevocationLedger --------------------------
(***************************************************************************)
(* The revocation ledger of src/src/revocation.rs as the replicas of       *)
(* fiducia-revocation-admin run it: every target has one bounded ledger in *)
(* Fiducia KV; the handlers `revoke` and `lift` load it, look for a replay, *)
(* append one event and compare-and-set the result against the revision    *)
(* they loaded, at most MAX_CAS_RETRIES times; `check` reads the ledger of *)
(* the token and then the ledger of its subject.                           *)
(*                                                                         *)
(* A handler takes the time once, when it starts.  Its future may be       *)
(* dropped (the 10 s TimeoutLayer, a lost connection, an error reply) while *)
(* its PUT is still on the way: the PUT may reach KV at any later time.    *)
(***************************************************************************)
EXTENDS Integers, Sequences, FiniteSets

CONSTANTS
  Targets,         \* opaque storage keys (RevocationSelector::storage_key)
  TokenTarget,     \* the target of the jti of the token that is checked
  SubjectTarget,   \* the target of the subject of that token
  Requests,        \* the mutation requests clients may send, each any number of times
  Tasks,           \* handler invocations that can be under way at once
  Checkers,        \* invocations of the check handler
  MAX_TRANSITIONS_PER_TARGET,
  MAX_CAS_RETRIES,
  MAX_ACCESS_TOKEN_TTL_SECS,
  MAX_INTERNAL_REVOCATION_TTL_SECS,
  Skew,            \* bound: how far a replica's clock is from the model's clock
  MaxTime,         \* bound: the clock stops here
  MaxOrphans,      \* bound: PUTs on the way whose handler is gone
  Nobody           \* the owner of such a PUT

Time == 0 .. MaxTime + Skew

(***************************************************************************)
(* A request: action, target, the actor and idempotency key together as    *)
(* `id`, the reason, and the window of the claims (token) or of the        *)
(* quarantine (subject, for which issued_at is 0).                         *)
(***************************************************************************)
Request == [action: {"revoke", "lift"}, target: Targets, id: STRING,
            reason: STRING, issued_at: Nat, expires_at: Nat]

ASSUME LedgerConstants ==
  /\ TokenTarget \in Targets /\ SubjectTarget \in Targets
  /\ Requests \subseteq Request
  /\ MAX_TRANSITIONS_PER_TARGET \in Nat \ {0}
  /\ MAX_CAS_RETRIES \in Nat \ {0}
  /\ MAX_ACCESS_TOKEN_TTL_SECS \in Nat
  /\ MAX_INTERNAL_REVOCATION_TTL_SECS \in Nat
  /\ Skew \in Nat /\ MaxTime \in Nat /\ MaxOrphans \in Nat
  /\ Nobody \notin Tasks

VARIABLES
  clock,      \* real time, in seconds
  revision,   \* the last revision KV gave out
  kv,         \* kv[t]: the stored ledger of t and its mod_revision
  tasks,      \* tasks[w]: the handler running in slot w
  puts,       \* PUTs on the way to KV
  outcome,    \* the answer the latest step gave to a client, if it gave one
  acks,       \* ghost: every successful answer given to a client
  checks      \* checks[c]: the check handler running in slot c

vars == <<clock, revision, kv, tasks, puts, outcome, acks, checks>>

-----------------------------------------------------------------------------
(* Records and events.  A digest is modelled by the value it is taken of:  *)
(* SHA-256 over length-prefixed parts is taken to be injective.            *)

IdempotencyHash(r) == <<r.action, r.target, r.id>>

RequestHash(r) == <<r.action, r.target, r.reason, r.issued_at, r.expires_at>>

Content(e) ==
  [sequence |-> e.sequence, action |-> e.action, target |-> e.target, at |-> e.at,
   expires_at |-> e.expires_at, idempotency_hash |-> e.idempotency_hash,
   request_hash |-> e.request_hash]

\* event_hash covers the event and the hash of the event before it: it stands
\* for the contents of all events up to this one.  RevocationEvent::new computes
\* it and nothing changes it, so an event does not carry it as a field here.
EventHash(e) == Append(e.previous_hash, Content(e))

NoHash == <<>>

\* RevocationRecord::validate, the part that depends on the window.
ValidRecord(e) ==
  /\ e.at < e.expires_at
  /\ e.expires_at - e.at <= MAX_INTERNAL_REVOCATION_TTL_SECS

IsActiveAt(e, now) == ValidRecord(e) /\ e.at <= now /\ now < e.expires_at

ValidInternalClaims(r) ==
  /\ r.issued_at < r.expires_at
  /\ r.expires_at - r.issued_at <= MAX_ACCESS_TOKEN_TTL_SECS

\* RevokeRequest::record succeeds at `now`.
RecordAccepted(r, now) ==
  /\ r.target = TokenTarget =>
       /\ ValidInternalClaims(r)
       /\ r.issued_at <= now /\ now < r.expires_at
  /\ ValidRecord([at |-> now, expires_at |-> r.expires_at])

-----------------------------------------------------------------------------
(* A ledger is the sequence of its events.                                 *)

Generation(events) == IF events = <<>> THEN 0 ELSE events[Len(events)].sequence

\* A lift clears the current record and a revoke replaces it, so the current
\* record is the last event when that is a revoke.
HasCurrent(events) == events # <<>> /\ events[Len(events)].action = "revoke"

Active(events, now) == HasCurrent(events) /\ IsActiveAt(events[Len(events)], now)

\* The expiry of the last revoke among the first n events (0: there is none).
\* The function is called on ledgers that validate, where the event before a
\* lift is the revoke it ends.
LatestExpiry(events, n) ==
  IF n = 0 THEN 0
  ELSE IF events[n].action = "revoke" THEN events[n].expires_at
  ELSE IF n > 1 THEN events[n - 1].expires_at
  ELSE 0

ValidEvent(t, events, i) ==
  LET e == events[i] IN
  /\ e.sequence = i
  /\ e.previous_hash = IF i = 1 THEN NoHash ELSE EventHash(events[i - 1])
  /\ i > 1 => events[i - 1].at <= e.at
  /\ \A j \in 1 .. i - 1 : events[j].idempotency_hash # e.idempotency_hash
  /\ e.action = "revoke" => ValidRecord(e) /\ e.target = t
  /\ e.action = "lift" =>
       /\ i > 1 /\ events[i - 1].action = "revoke"
       /\ events[i - 1].at <= e.at /\ e.at < events[i - 1].expires_at

Validate(t, events) ==
  /\ events # <<>> /\ Len(events) <= MAX_TRANSITIONS_PER_TARGET
  /\ \A i \in 1 .. Len(events) : ValidEvent(t, events, i)

\* RevocationEvent::new at the end of a ledger.
NewEvent(r, now, events) ==
  [sequence |-> Generation(events) + 1,
   action |-> r.action, target |-> r.target, at |-> now,
   expires_at |-> IF r.action = "revoke" THEN r.expires_at ELSE 0,
   idempotency_hash |-> IdempotencyHash(r), request_hash |-> RequestHash(r),
   previous_hash |-> IF events = <<>> THEN NoHash ELSE EventHash(events[Len(events)])]

EnsureCapacity(events) == Len(events) < MAX_TRANSITIONS_PER_TARGET

\* The ledger that RevocationLedger::new, append_revoke or append_lift leaves.
Appended(r, now, events) == Append(events, NewEvent(r, now, events))

\* Mutant of AppendResult: the ledger is not validated before it is written.
AppendUnvalidated(r, now, events) ==
  IF events # <<>> /\ ~EnsureCapacity(events) THEN "transition_limit"
  ELSE IF r.action = "lift" /\ ~Active(events, now) THEN "not_active"
  ELSE "append"

\* The error these return, "append" when they return Ok.
AppendResult(r, now, events) ==
  IF events # <<>> /\ ~EnsureCapacity(events) THEN "transition_limit"
  ELSE IF r.action = "lift" /\ ~Active(events, now) THEN "not_active"
  ELSE IF ~Validate(r.target, Appended(r, now, events)) THEN "invalid_ledger"
  ELSE "append"

Status(events, now) ==
  IF ~HasCurrent(events) THEN "lifted"
  ELSE IF now < events[Len(events)].at THEN "pending"
  ELSE IF Active(events, now) THEN "active"
  ELSE "expired"

Snapshot(r, events, now) ==
  [idem |-> IdempotencyHash(r), req |-> RequestHash(r), target |-> r.target,
   generation |-> Generation(events), status |-> Status(events, now),
   expires_at |-> LatestExpiry(events, Len(events))]

\* The events that carry the request's idempotency identity (at most one).
Matching(r, events) ==
  {i \in 1 .. Len(events) : events[i].idempotency_hash = IdempotencyHash(r)}

\* Mutant of ReplaySnapshot: the ledger's present generation is returned.
ReplayPresent(r, events, i) == 
  [idem |-> IdempotencyHash(r), req |-> RequestHash(r), target |-> r.target,
   generation |-> Generation(events),
   status |-> IF events[i].action = "revoke" THEN "active" ELSE "lifted",
   expires_at |-> LatestExpiry(events, i)]

ReplaySnapshot(r, events, i) ==
  [idem |-> IdempotencyHash(r), req |-> RequestHash(r), target |-> r.target,
   generation |-> events[i].sequence,
   status |-> IF events[i].action = "revoke" THEN "active" ELSE "lifted",
   expires_at |-> LatestExpiry(events, i)]

-----------------------------------------------------------------------------
(* Fiducia KV.                                                             *)

\* Mutant of Cas: an unconditional PUT.
CasIgnored(p) == TRUE

Cas(p) == kv[p.target].revision = p.prev_revision

\* A check that is under way keeps the targets that have matched ever since it
\* began (must, a ghost).
Observed(k) ==
  [c \in Checkers |->
    IF checks[c].pc \in {"token", "subject"}
      THEN [checks[c] EXCEPT !.must = {t \in @ : Active(k[t].events, checks[c].now)}]
      ELSE checks[c]]

\* Mutant of KvPut: the revision that is given to the entry is not used up.
KvPutSameRevision(p) ==
  IF Cas(p)
    THEN /\ kv' = [kv EXCEPT ![p.target] =
                     [revision |-> revision + 1, events |-> p.events]]
         /\ checks' = Observed(kv')
         /\ UNCHANGED revision
    ELSE UNCHANGED <<revision, kv, checks>>

\* KV handles PUT p: conditional on the revision, atomically.
KvPut(p) ==
  IF Cas(p)
    THEN /\ revision' = revision + 1
         /\ kv' = [kv EXCEPT ![p.target] =
                     [revision |-> revision + 1, events |-> p.events]]
         /\ checks' = Observed(kv')
    ELSE UNCHANGED <<revision, kv, checks>>

-----------------------------------------------------------------------------
(* The mutation handlers.                                                  *)

IdleTask == [pc |-> "idle"]

NoOutcome == [kind |-> "none", retried |-> FALSE, competing |-> 0]

HostTime == {n \in Time : n <= clock + Skew /\ clock <= n + Skew}

Acked(r) == \E a \in acks : a.idem = IdempotencyHash(r) /\ a.req = RequestHash(r)

\* Mutant of LoadResult: the capacity is checked before the replay.
LoadCapacityFirst(r, now, stored) ==
  IF stored.revision # 0 /\ ~Validate(r.target, stored.events) THEN "invalid_ledger"
  ELSE IF stored.revision = 0 /\ r.action = "lift" THEN "not_found"
  ELSE IF stored.revision # 0 /\ ~EnsureCapacity(stored.events) THEN "transition_limit"
  ELSE IF \E i \in Matching(r, stored.events) :
            stored.events[i].request_hash # RequestHash(r) THEN "idempotency_conflict"
  ELSE IF Matching(r, stored.events) # {} THEN "replay"
  ELSE AppendResult(r, now, stored.events)

\* What the loop body does with the ledger it loaded: an error of load_ledger,
\* replay_snapshot or append_*, "replay" or "append".
LoadResult(r, now, stored) ==
  IF stored.revision # 0 /\ ~Validate(r.target, stored.events) THEN "invalid_ledger"
  ELSE IF stored.revision = 0 /\ r.action = "lift" THEN "not_found"
  ELSE IF \E i \in Matching(r, stored.events) :
            stored.events[i].request_hash # RequestHash(r) THEN "idempotency_conflict"
  ELSE IF Matching(r, stored.events) # {} THEN "replay"
  ELSE AppendResult(r, now, stored.events)

\* Slot w answers its client and is free again.
Answer(w, kind) ==
  /\ outcome' = [kind |-> kind, retried |-> tasks[w].retried,
       competing |-> Len(kv[tasks[w].request.target].events) - tasks[w].began]
  /\ tasks' = [tasks EXCEPT ![w] = IdleTask]

\* revoke and lift up to the CAS loop: the record is built and validated, at the
\* time of this request, before anything is looked up.
Begin(w, r, now) ==
  /\ tasks[w] = IdleTask
  /\ r.action = "revoke" => RecordAccepted(r, now)
  /\ tasks' = [tasks EXCEPT ![w] =
       [pc |-> "load", request |-> r, now |-> now, attempts |-> 0,
        retried |-> Acked(r), began |-> Len(kv[r.target].events)]]
  /\ outcome' = NoOutcome
  /\ UNCHANGED <<clock, revision, kv, puts, acks, checks>>

Refuse(w, r, now) ==
  /\ tasks[w] = IdleTask
  /\ r.action = "revoke" /\ ~RecordAccepted(r, now)
  /\ outcome' = [kind |-> "contract", retried |-> Acked(r), competing |-> 0]
  /\ UNCHANGED <<clock, revision, kv, tasks, puts, acks, checks>>

\* One turn of the loop, up to the PUT.  The read of KV is one point in time;
\* what follows is local to the handler.
LoadReplays(w) ==
  /\ tasks[w].pc = "load"
  /\ LET r == tasks[w].request
         stored == kv[r.target]
     IN /\ LoadResult(r, tasks[w].now, stored) = "replay"
        /\ acks' = acks \union {ReplaySnapshot(r, stored.events, i) :
                                 i \in Matching(r, stored.events)}
  /\ Answer(w, "ok")
  /\ UNCHANGED <<clock, revision, kv, puts, checks>>

LoadFails(w) ==
  /\ tasks[w].pc = "load"
  /\ LET r == tasks[w].request
         result == LoadResult(r, tasks[w].now, kv[r.target])
     IN result \notin {"replay", "append"} /\ Answer(w, result)
  /\ UNCHANGED <<clock, revision, kv, puts, acks, checks>>

LoadAppends(w) ==
  /\ tasks[w].pc = "load"
  /\ LET r == tasks[w].request
         stored == kv[r.target]
     IN /\ LoadResult(r, tasks[w].now, stored) = "append"
        /\ puts' = puts \union
             {[owner |-> w, target |-> r.target, prev_revision |-> stored.revision,
               events |-> Appended(r, tasks[w].now, stored.events)]}
  /\ tasks' = [tasks EXCEPT ![w].pc = "put"]
  /\ outcome' = NoOutcome
  /\ UNCHANGED <<clock, revision, kv, acks, checks>>

\* KV handles the PUT of slot w, and the handler gets the reply.
PutApplied(w, p) ==
  /\ tasks[w].pc = "put" /\ p.owner = w /\ Cas(p)
  /\ KvPut(p)
  /\ puts' = puts \ {p}
  /\ acks' = acks \union {Snapshot(tasks[w].request, p.events, tasks[w].now)}
  /\ Answer(w, "ok")
  /\ UNCHANGED clock

\* Mutant of PutMismatch: one attempt too few.
PutMismatchEarly(w, p) ==
  /\ tasks[w].pc = "put" /\ p.owner = w /\ ~Cas(p)
  /\ KvPut(p)
  /\ puts' = puts \ {p}
  /\ IF tasks[w].attempts + 2 < MAX_CAS_RETRIES
       THEN /\ tasks' = [tasks EXCEPT ![w].pc = "load", ![w].attempts = @ + 1]
            /\ outcome' = NoOutcome
       ELSE Answer(w, "cas_exhausted")
  /\ UNCHANGED <<clock, acks>>

PutMismatch(w, p) ==
  /\ tasks[w].pc = "put" /\ p.owner = w /\ ~Cas(p)
  /\ KvPut(p)
  /\ puts' = puts \ {p}
  /\ IF tasks[w].attempts + 1 < MAX_CAS_RETRIES
       THEN /\ tasks' = [tasks EXCEPT ![w].pc = "load", ![w].attempts = @ + 1]
            /\ outcome' = NoOutcome
       ELSE Answer(w, "cas_exhausted")
  /\ UNCHANGED <<clock, acks>>

Orphans == {p \in puts : p.owner = Nobody}

\* The handler ends without an answer from KV: its GET or PUT failed or was cut
\* off, or the TimeoutLayer dropped it.  A PUT it sent stays on the way.
Abandon(w) ==
  /\ tasks[w].pc \in {"load", "put"}
  /\ Cardinality(Orphans) < MaxOrphans
  /\ puts' = {IF p.owner = w THEN [p EXCEPT !.owner = Nobody] ELSE p : p \in puts}
  /\ Answer(w, "unavailable")
  /\ UNCHANGED <<clock, revision, kv, acks, checks>>

\* A PUT without a handler reaches KV.
LatePut(p) ==
  /\ p.owner = Nobody
  /\ KvPut(p)
  /\ puts' = puts \ {p}
  /\ outcome' = NoOutcome
  /\ UNCHANGED <<clock, tasks, acks>>

-----------------------------------------------------------------------------
(* The check handler: two reads, one after the other.                      *)

CheckedTargets == {TokenTarget, SubjectTarget}

IdleCheck == [pc |-> "idle"]

BeginCheck(c, now) ==
  /\ checks[c].pc \notin {"token", "subject"}
  /\ checks' = [checks EXCEPT ![c] =
       [pc |-> "token", now |-> now,
        must |-> {t \in CheckedTargets : Active(kv[t].events, now)}]]
  /\ outcome' = NoOutcome
  /\ UNCHANGED <<clock, revision, kv, tasks, puts, acks>>

\* Mutant of ReadLedger: a target without a ledger ends the check.
ReadLedgerShortcut(c, t, clear) ==
  checks' = [checks EXCEPT ![c].pc =
    IF kv[t].revision = 0 THEN "clear"
    ELSE IF ~Validate(t, kv[t].events) THEN "failed"
    ELSE IF Active(kv[t].events, checks[c].now) THEN "revoked"
    ELSE clear]

\* Reads ledger t; `clear` is where a check that finds nothing goes on to.
ReadLedger(c, t, clear) ==
  checks' = [checks EXCEPT ![c].pc =
    IF kv[t].revision # 0 /\ ~Validate(t, kv[t].events) THEN "failed"
    ELSE IF Active(kv[t].events, checks[c].now) THEN "revoked"
    ELSE clear]

CheckToken(c) ==
  /\ checks[c].pc = "token"
  /\ ReadLedger(c, TokenTarget, "subject")
  /\ outcome' = NoOutcome
  /\ UNCHANGED <<clock, revision, kv, tasks, puts, acks>>

CheckSubject(c) ==
  /\ checks[c].pc = "subject"
  /\ ReadLedger(c, SubjectTarget, "clear")
  /\ outcome' = NoOutcome
  /\ UNCHANGED <<clock, revision, kv, tasks, puts, acks>>

CheckFails(c) ==
  /\ checks[c].pc \in {"token", "subject"}
  /\ checks' = [checks EXCEPT ![c] = IdleCheck]
  /\ outcome' = NoOutcome
  /\ UNCHANGED <<clock, revision, kv, tasks, puts, acks>>

Tick ==
  /\ clock < MaxTime
  /\ clock' = clock + 1
  /\ outcome' = NoOutcome
  /\ UNCHANGED <<revision, kv, tasks, puts, acks, checks>>

-----------------------------------------------------------------------------
Init ==
  /\ clock = 0
  /\ revision = 0
  /\ kv = [t \in Targets |-> [revision |-> 0, events |-> <<>>]]
  /\ tasks = [w \in Tasks |-> IdleTask]
  /\ puts = {}
  /\ outcome = NoOutcome
  /\ acks = {}
  /\ checks = [c \in Checkers |-> IdleCheck]

Mutate ==
  \E w \in Tasks :
    \/ \E r \in Requests, now \in HostTime : Begin(w, r, now) \/ Refuse(w, r, now)
    \/ LoadReplays(w) \/ LoadFails(w) \/ LoadAppends(w)
    \/ \E p \in puts : PutApplied(w, p) \/ PutMismatch(w, p)
    \/ Abandon(w)

Check ==
  \E c \in Checkers :
    \/ \E now \in HostTime : BeginCheck(c, now)
    \/ CheckToken(c) \/ CheckSubject(c) \/ CheckFails(c)

Next == Mutate \/ Check \/ Tick \/ \E p \in puts : LatePut(p)

Spec == Init /\ [][Next]_vars

-----------------------------------------------------------------------------
IdemHashes == {IdempotencyHash(r) : r \in Requests}

RequestHashes == {RequestHash(r) : r \in Requests}

EventContent ==
  [sequence: Nat, action: {"revoke", "lift"}, target: Targets, at: Nat, expires_at: Nat,
   idempotency_hash: IdemHashes, request_hash: RequestHashes]

Event ==
  [sequence: Nat, action: {"revoke", "lift"}, target: Targets, at: Nat, expires_at: Nat,
   idempotency_hash: IdemHashes, request_hash: RequestHashes,
   previous_hash: Seq(EventContent)]

RunningTask ==
  [pc: {"load", "put"}, request: Requests, now: Time, attempts: Nat,
   retried: BOOLEAN, began: Nat]

Put == [owner: Tasks \union {Nobody}, target: Targets, prev_revision: Nat,
        events: Seq(Event)]

OutcomeKinds ==
  {"none", "ok", "unavailable", "contract", "cas_exhausted", "invalid_ledger",
   "not_found", "idempotency_conflict", "transition_limit", "not_active"}

Ack == [idem: IdemHashes, req: RequestHashes, target: Targets, generation: Nat,
        status: {"active", "lifted", "pending", "expired"}, expires_at: Nat]

RunningCheck ==
  [pc: {"token", "subject", "revoked", "clear", "failed"}, now: Time,
   must: SUBSET CheckedTargets]

\* Types: every variable has the shape its Rust counterpart has.
TypeOK ==
  /\ clock \in 0 .. MaxTime
  /\ revision \in Nat
  /\ kv \in [Targets -> [revision: 0 .. revision, events: Seq(Event)]]
  /\ tasks \in [Tasks -> {IdleTask} \union RunningTask]
  /\ puts \subseteq Put
  /\ outcome \in [kind: OutcomeKinds, retried: BOOLEAN, competing: Int]
  /\ acks \subseteq Ack
  /\ checks \in [Checkers -> {IdleCheck} \union RunningCheck]

\* Every ledger in KV passes `validate`: no interleaving of replicas with
\* different clocks, late PUTs and retries stores a ledger that load_ledger
\* would then refuse for ever (503 on the target).
StoredLedgersValid ==
  \A t \in Targets : kv[t].revision # 0 => Validate(t, kv[t].events)

\* A transition a client was told of stays in the ledger, at the generation it
\* was told: nothing that was acknowledged is overwritten.
AckedDurable ==
  \A a \in acks :
    /\ a.generation \in 1 .. Len(kv[a.target].events)
    /\ LET e == kv[a.target].events[a.generation] IN
       e.idempotency_hash = a.idem /\ e.request_hash = a.req

\* All answers to one idempotency identity agree, whether they come from the
\* write itself or from replay_snapshot, before or after later transitions.
AnswersAgree ==
  \A a, b \in acks : a.idem = b.idem => a = b

\* A retry of an acknowledged request, sent while its record can still be
\* built, is answered or cut off, never refused.
RetryNotRefused ==
  outcome.retried => outcome.kind \in {"ok", "unavailable", "contract"}

\* The CAS loop gives up only after losing to MAX_CAS_RETRIES other transitions
\* of the same target.
ExhaustionMeansContention ==
  outcome.kind = "cas_exhausted" => outcome.competing >= MAX_CAS_RETRIES

\* A check that answers "not revoked" has no single target that was revoked from
\* its start to its end.
CheckSeesStandingRevocation ==
  \A c \in Checkers : checks[c].pc = "clear" => checks[c].must = {}

\* What the service promises, RevocationRegister: one history per target to
\* which legal transitions are added one at a time, and answers that describe it.
LedgerEntry(e) ==
  [action |-> e.action, at |-> e.at, expires_at |-> e.expires_at,
   idem |-> e.idempotency_hash, req |-> e.request_hash]

Register == INSTANCE RevocationRegister WITH
  Capacity <- MAX_TRANSITIONS_PER_TARGET,
  Entries <- {LedgerEntry(NewEvent(r, now, <<>>)) : r \in Requests, now \in Time},
  history <- [t \in Targets |->
               [i \in 1 .. Len(kv[t].events) |-> LedgerEntry(kv[t].events[i])]],
  answers <- acks

\* The CAS loop over Fiducia KV, with late PUTs, lost replies and retries,
\* implements that register.
ImplementsRegister == Register!Spec
=============================================================================
