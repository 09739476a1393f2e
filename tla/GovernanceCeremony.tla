------------------------- MODULE GovernanceCeremony -------------------------
(***************************************************************************)
(* The approval ceremonies of src/src/governance_ceremony: a participant   *)
(* begins a ceremony for a proposal, verifier replicas claim it under a    *)
(* fencing token (a higher token takes it over), and the holder records    *)
(* the verified assertion.  A ceremony is one record in Fiducia KV; begin  *)
(* creates it, claim and complete_verified compare-and-set it against the  *)
(* revision they loaded, at most MAX_CAS_ATTEMPTS times.                   *)
(*                                                                         *)
(* A handler takes the time when it starts; replicas' clocks differ.  Its  *)
(* future may be dropped at an await (closed connection) or KV may fail; a *)
(* PUT it sent may still reach KV later.                                   *)
(***************************************************************************)
EXTENDS Integers, FiniteSets

CONSTANTS
  Ceremonies,        \* ceremony ids
  BeginRequests, ClaimRequests, CompleteRequests,
  AllowedTenants,
  Tasks,             \* handlers that can be under way at once
  MAX_CAS_ATTEMPTS,
  TTL,               \* ttl_ms of the configuration
  MIN_TTL, MAX_TTL,  \* MIN_TTL_SECS and MAX_TTL_SECS in the clock's unit
  Skew,              \* bound: how far a replica's clock is behind the fastest one's
  MaxTime,           \* bound: the clock stops here
  MaxOrphans,        \* bound: PUTs on the way whose handler is gone
  None,              \* Option::None
  Nobody             \* the owner of a PUT whose handler is gone

(***************************************************************************)
(* Requests.  A begin request names its ceremony: ceremony_id is the       *)
(* digest of tenant, participant, proposal and idempotency key.  `session` *)
(* is the caller's verified session; `payload` is what the browser asks to *)
(* be approved (proposal and policy hashes, continuity state).             *)
(***************************************************************************)
ASSUME CeremonyConstants ==
  /\ \A r \in BeginRequests :
       /\ r.op = "begin" /\ r.ceremony \in Ceremonies
       /\ r.credential_generation \in Nat \ {0}
  /\ \A r \in ClaimRequests :
       r.op = "claim" /\ r.ceremony \in Ceremonies /\ r.fencing_token \in Nat
  /\ \A r \in CompleteRequests :
       /\ r.op = "complete" /\ r.ceremony \in Ceremonies
       /\ r.fencing_token \in Nat /\ r.credential_generation \in Nat
       /\ r.receipt # None
  /\ MAX_CAS_ATTEMPTS \in Nat \ {0} /\ MIN_TTL \in Nat \ {0} /\ MAX_TTL \in Nat
  /\ TTL \in MIN_TTL .. MAX_TTL
  /\ Skew \in Nat /\ MaxTime \in Nat \ {0} /\ MaxOrphans \in Nat
  /\ Nobody \notin Tasks

Requests == BeginRequests \union ClaimRequests \union CompleteRequests

Time == 1 .. MaxTime

VARIABLES
  clock,         \* the fastest replica's clock
  kv,            \* kv[c]: the stored record of c and its mod_revision
  tasks,         \* tasks[t]: the handler running in slot t
  puts,          \* PUTs on the way to KV
  begun,         \* ghost: every successful begin answer
  claims,        \* ghost: every successful claim answer with status claimed
  completions    \* ghost: every successful completion answer

vars == <<clock, kv, tasks, puts, begun, claims, completions>>

ghosts == <<begun, claims, completions>>

-----------------------------------------------------------------------------
(* Records.  Hashes are taken to be injective: binding_hash stands for the *)
(* binding, challenge_hash for ceremony and binding, result_hash for the   *)
(* evidence it covers, so none of them is a field.                         *)

Binding(r, now) ==
  [tenant |-> r.tenant, participant |-> r.participant, payload |-> r.payload,
   credential_generation |-> r.credential_generation,
   activation_credential |-> r.activation_credential,
   created_at |-> now, expires_at |-> now + TTL]

PendingRecord(r, now) ==
  [binding |-> Binding(r, now), status |-> "pending", claim_id |-> None,
   fencing_token |-> 0, claimed_at |-> None, terminal |-> None]

Expired(rec, now) == rec.binding.expires_at <= now

ValidClaim(rec) ==
  /\ rec.claim_id # None /\ rec.fencing_token # 0 /\ rec.claimed_at # None
  /\ rec.binding.created_at <= rec.claimed_at /\ rec.claimed_at < rec.binding.expires_at

ValidCompleted(rec) ==
  /\ ValidClaim(rec) /\ rec.terminal # None
  /\ rec.terminal.credential_id # rec.binding.activation_credential
  /\ rec.terminal.credential_generation = rec.binding.credential_generation
  /\ rec.claimed_at <= rec.terminal.completed_at
  /\ rec.terminal.completed_at < rec.binding.expires_at

\* validate_integrity and validate_record_against_config.
Valid(rec) ==
  /\ rec.binding.tenant \in AllowedTenants
  /\ rec.binding.created_at # 0
  /\ rec.binding.expires_at - rec.binding.created_at \in MIN_TTL .. MAX_TTL
  /\ rec.binding.credential_generation # 0
  /\ rec.status = "pending" =>
       /\ rec.claim_id = None /\ rec.fencing_token = 0
       /\ rec.claimed_at = None /\ rec.terminal = None
  /\ rec.status = "claimed" => ValidClaim(rec) /\ rec.terminal = None
  /\ rec.status = "completed" => ValidCompleted(rec)

Claimed(rec, r, now) ==
  [rec EXCEPT !.status = "claimed", !.claim_id = r.claim_id,
              !.fencing_token = r.fencing_token, !.claimed_at = now]

Completed(rec, r, now) ==
  [rec EXCEPT !.status = "completed",
     !.terminal = [receipt |-> r.receipt, credential_id |-> r.credential_id,
                   credential_generation |-> r.credential_generation,
                   completed_at |-> now]]

Identified(rec, r) == rec.binding.tenant = r.tenant /\ rec.binding.participant = r.participant

-----------------------------------------------------------------------------
(* What a handler does with the record it loaded: an error, "replay" or    *)
(* "put".                                                                  *)

\* begin, after its PUT found a record.
BeginResult(r, now, stored) ==
  LET rec == stored.record IN
  IF stored.revision = 0 THEN "not_found"
  ELSE IF ~Valid(rec) THEN "protected_state"
  ELSE IF rec.binding # Binding(r, now) THEN "conflict"
  ELSE IF Expired(rec, now) THEN "expired"
  ELSE IF rec.status = "completed" THEN "conflict"
  ELSE "replay"

\* Mutant of ClaimResult: the claimed record is stored without being validated.
ClaimUnvalidated(r, now, stored) ==
  LET rec == stored.record IN
  IF stored.revision = 0 THEN "not_found"
  ELSE IF ~Identified(rec, r) THEN "unauthorized"
  ELSE IF Expired(rec, now) THEN "expired"
  ELSE IF rec.terminal # None THEN "replay"
  ELSE IF rec.status = "claimed" /\ r.fencing_token <= rec.fencing_token THEN "stale_fencing"
  ELSE "put"

\* Mutant of ClaimResult: an equal fencing token takes the claim over.
ClaimEqualToken(r, now, stored) ==
  LET rec == stored.record IN
  IF stored.revision = 0 THEN "not_found"
  ELSE IF ~Identified(rec, r) THEN "unauthorized"
  ELSE IF Expired(rec, now) THEN "expired"
  ELSE IF rec.terminal # None THEN "replay"
  ELSE IF rec.status = "claimed" /\ r.fencing_token < rec.fencing_token THEN "stale_fencing"
  ELSE IF ~Valid(Claimed(rec, r, now)) THEN "protected_state"
  ELSE "put"

ClaimResult(r, now, stored) ==
  LET rec == stored.record IN
  IF stored.revision = 0 THEN "not_found"
  ELSE IF ~Valid(rec) THEN "protected_state"
  ELSE IF ~Identified(rec, r) THEN "unauthorized"
  ELSE IF Expired(rec, now) THEN "expired"
  ELSE IF rec.terminal # None THEN "replay"
  ELSE IF rec.status = "claimed" /\ r.fencing_token < rec.fencing_token THEN "stale_fencing"
  ELSE IF rec.status = "claimed" /\ r.fencing_token = rec.fencing_token
    THEN IF r.claim_id = rec.claim_id THEN "replay" ELSE "already_claimed"
  ELSE IF ~Valid(Claimed(rec, r, now)) THEN "protected_state"
  ELSE "put"

\* Mutant of CompleteResult: the claim that verified the assertion is not
\* compared with the stored one.
CompleteAnyClaim(r, b, now, stored) ==
  LET rec == stored.record IN
  IF stored.revision = 0 THEN "not_found"
  ELSE IF rec.terminal # None
    THEN IF rec.terminal.receipt = r.receipt THEN "replay" ELSE "conflict"
  ELSE IF Expired(rec, now) THEN "expired"
  ELSE IF rec.status # "claimed" THEN "not_claimed"
  ELSE IF b # rec.binding \/ ~Valid(Completed(rec, r, now)) THEN "conflict"
  ELSE "put"

\* Mutant of CompleteResult: any completion of a completed ceremony is taken for a retry.
CompleteReplays(r, b, now, stored) ==
  LET rec == stored.record IN
  IF stored.revision = 0 THEN "not_found"
  ELSE IF rec.terminal # None THEN "replay"
  ELSE IF Expired(rec, now) THEN "expired"
  ELSE IF rec.status # "claimed" THEN "not_claimed"
  ELSE IF r.fencing_token # rec.fencing_token \/ r.claim_id # rec.claim_id
    THEN "claim_mismatch"
  ELSE IF b # rec.binding \/ ~Valid(Completed(rec, r, now)) THEN "conflict"
  ELSE "put"

\* b is the binding whose hash the request carries.
CompleteResult(r, b, now, stored) ==
  LET rec == stored.record IN
  IF stored.revision = 0 THEN "not_found"
  ELSE IF ~Valid(rec) THEN "protected_state"
  ELSE IF ~Identified(rec, r) THEN "unauthorized"
  ELSE IF rec.terminal # None
    THEN IF rec.terminal.receipt = r.receipt THEN "replay" ELSE "conflict"
  ELSE IF Expired(rec, now) THEN "expired"
  ELSE IF rec.status # "claimed" THEN "not_claimed"
  ELSE IF r.fencing_token < rec.fencing_token THEN "stale_fencing"
  ELSE IF r.fencing_token # rec.fencing_token \/ r.claim_id # rec.claim_id
    THEN "claim_mismatch"
  ELSE IF b # rec.binding \/ r.credential_generation # rec.binding.credential_generation
    THEN "conflict"
  ELSE IF r.credential_id = rec.binding.activation_credential THEN "unauthorized"
  ELSE IF ~Valid(Completed(rec, r, now)) THEN "protected_state"
  ELSE "put"

-----------------------------------------------------------------------------
(* Fiducia KV.  The code only compares revisions of one path.              *)

\* Mutant of Cas: the PUT does not carry its revision.
CasIgnored(p) == p.prev_revision <= kv[p.ceremony].revision

Cas(p) == kv[p.ceremony].revision = p.prev_revision

\* KV handles PUT p: conditional on the revision, atomically.
KvPut(p) ==
  kv' = IF Cas(p)
          THEN [kv EXCEPT ![p.ceremony] =
                 [revision |-> p.prev_revision + 1, record |-> p.record]]
          ELSE kv

NewPut(t, c, prev, rec) ==
  [owner |-> t, ceremony |-> c, prev_revision |-> prev, record |-> rec]

-----------------------------------------------------------------------------
(* Handlers.                                                               *)

IdleTask == [pc |-> "idle"]

\* What a replica's clock can show.
HostTime == {n \in Time : n <= clock /\ clock <= n + Skew}

\* Slot t answers its client and is free again.
Answer(t) == tasks' = [tasks EXCEPT ![t] = IdleTask]

\* The successful answer, with rec as the stored record.  begin answers with the
\* challenge of the binding it made itself.
Succeed(t, rec, replayed) ==
  LET r == tasks[t].request IN
  /\ begun' = IF r.op = "begin"
       THEN begun \union {[ceremony |-> r.ceremony, binding |-> tasks[t].binding]} ELSE begun
  /\ claims' = IF r.op = "claim" /\ rec.status = "claimed"
       THEN claims \union {[ceremony |-> r.ceremony, claim_id |-> r.claim_id,
                            fencing_token |-> rec.fencing_token]} ELSE claims
  /\ completions' = IF r.op = "complete"
       THEN completions \union {[ceremony |-> r.ceremony, claim_id |-> r.claim_id,
              fencing_token |-> r.fencing_token, receipt |-> r.receipt,
              terminal |-> rec.terminal, replayed |-> replayed]} ELSE completions
  /\ Answer(t)

\* A request that begin_approval or begin refuses never touches KV.
Authorized(r) ==
  /\ r.session.aal = "aal2" /\ r.tenant \in r.session.orgs
  /\ r.participant = r.session.user /\ r.tenant \in AllowedTenants

\* A request that claim or complete_verified refuses never touches KV.
WellFormed(r) ==
  /\ r.op = "claim" => r.fencing_token # 0
  /\ r.op = "complete" => r.user_verified

\* begin starts with a PUT that expects no record.
Begin(t, r, now) ==
  /\ tasks[t] = IdleTask /\ Authorized(r)
  /\ tasks' = [tasks EXCEPT ![t] =
       [pc |-> "create", request |-> r, now |-> now, attempts |-> 0,
        binding |-> Binding(r, now), record |-> PendingRecord(r, now)]]
  /\ puts' = puts \union {NewPut(t, r.ceremony, 0, PendingRecord(r, now))}
  /\ UNCHANGED <<clock, kv, ghosts>>

\* The verifier names the binding it was told of when the ceremony began.
BeginMutation(t, r, b, now) ==
  /\ tasks[t] = IdleTask /\ WellFormed(r)
  /\ tasks' = [tasks EXCEPT ![t] =
       [pc |-> "load", request |-> r, now |-> now, attempts |-> 0,
        binding |-> b, record |-> None]]
  /\ UNCHANGED <<clock, kv, puts, ghosts>>

CreateApplied(t, p) ==
  /\ tasks[t].pc = "create" /\ p.owner = t /\ Cas(p)
  /\ KvPut(p) /\ puts' = puts \ {p}
  /\ Succeed(t, tasks[t].record, FALSE)
  /\ UNCHANGED clock

CreateMismatch(t, p) ==
  /\ tasks[t].pc = "create" /\ p.owner = t /\ ~Cas(p)
  /\ KvPut(p) /\ puts' = puts \ {p}
  /\ tasks' = [tasks EXCEPT ![t].pc = "load"]
  /\ UNCHANGED <<clock, ghosts>>

LoadResult(t) ==
  LET r == tasks[t].request
      stored == kv[r.ceremony]
  IN IF r.op = "begin" THEN BeginResult(r, tasks[t].now, stored)
     ELSE IF r.op = "claim" THEN ClaimResult(r, tasks[t].now, stored)
     ELSE CompleteResult(r, tasks[t].binding, tasks[t].now, stored)

LoadReplays(t) ==
  /\ tasks[t].pc = "load" /\ LoadResult(t) = "replay"
  /\ Succeed(t, kv[tasks[t].request.ceremony].record, TRUE)
  /\ UNCHANGED <<clock, kv, puts>>

LoadFails(t) ==
  /\ tasks[t].pc = "load" /\ LoadResult(t) \notin {"replay", "put"}
  /\ Answer(t)
  /\ UNCHANGED <<clock, kv, puts, ghosts>>

LoadMutates(t) ==
  /\ tasks[t].pc = "load" /\ LoadResult(t) = "put"
  /\ LET r == tasks[t].request
         stored == kv[r.ceremony]
         rec == IF r.op = "claim" THEN Claimed(stored.record, r, tasks[t].now)
                                  ELSE Completed(stored.record, r, tasks[t].now)
     IN /\ puts' = puts \union {NewPut(t, r.ceremony, stored.revision, rec)}
        /\ tasks' = [tasks EXCEPT ![t].pc = "put", ![t].record = rec]
  /\ UNCHANGED <<clock, kv, ghosts>>

PutApplied(t, p) ==
  /\ tasks[t].pc = "put" /\ p.owner = t /\ Cas(p)
  /\ KvPut(p) /\ puts' = puts \ {p}
  /\ Succeed(t, tasks[t].record, FALSE)
  /\ UNCHANGED clock

\* Mutant of Retry: one turn too many.
RetryOnceMore(t) ==
  IF tasks[t].attempts < MAX_CAS_ATTEMPTS
    THEN tasks' = [tasks EXCEPT ![t].pc = "load", ![t].attempts = @ + 1]
    ELSE Answer(t)

\* The next turn of the bounded loop.
Retry(t) ==
  IF tasks[t].attempts + 1 < MAX_CAS_ATTEMPTS
    THEN tasks' = [tasks EXCEPT ![t].pc = "load", ![t].attempts = @ + 1]
    ELSE Answer(t)    \* CasRetriesExhausted

PutMismatch(t, p) ==
  /\ tasks[t].pc = "put" /\ p.owner = t /\ ~Cas(p)
  /\ KvPut(p) /\ puts' = puts \ {p}
  /\ Retry(t)
  /\ UNCHANGED <<clock, ghosts>>

Orphans == {p \in puts : p.owner = Nobody}

\* KV does not answer t, or its future is dropped.
Abandon(t) ==
  /\ tasks[t] # IdleTask
  /\ Cardinality(Orphans) < MaxOrphans
  /\ puts' = {IF p.owner = t THEN [p EXCEPT !.owner = Nobody] ELSE p : p \in puts}
  /\ Answer(t)
  /\ UNCHANGED <<clock, kv, ghosts>>

LatePut(p) ==
  /\ p.owner = Nobody
  /\ KvPut(p) /\ puts' = puts \ {p}
  /\ UNCHANGED <<clock, tasks, ghosts>>

Tick ==
  /\ clock < MaxTime
  /\ clock' = clock + 1
  /\ UNCHANGED <<kv, tasks, puts, ghosts>>

Init ==
  /\ clock = 1
  /\ kv = [c \in Ceremonies |-> [revision |-> 0, record |-> None]]
  /\ tasks = [t \in Tasks |-> IdleTask]
  /\ puts = {}
  /\ begun = {} /\ claims = {} /\ completions = {}

Bindings(c) == {a.binding : a \in {b \in begun : b.ceremony = c}}

Next ==
  \/ \E t \in Tasks :
       \/ \E r \in BeginRequests, now \in HostTime : Begin(t, r, now)
       \/ \E r \in ClaimRequests, now \in HostTime : BeginMutation(t, r, None, now)
       \/ \E r \in CompleteRequests, now \in HostTime : \E b \in Bindings(r.ceremony) :
            BeginMutation(t, r, b, now)
       \/ LoadReplays(t) \/ LoadFails(t) \/ LoadMutates(t) \/ Abandon(t)
       \/ \E p \in puts : \/ CreateApplied(t, p) \/ CreateMismatch(t, p)
                          \/ PutApplied(t, p) \/ PutMismatch(t, p)
  \/ \E p \in puts : LatePut(p)
  \/ Tick

Spec == Init /\ [][Next]_vars

-----------------------------------------------------------------------------
(* Properties.                                                             *)

BindingType ==
  [tenant: {r.tenant : r \in BeginRequests}, participant: {r.participant : r \in BeginRequests},
   payload: {r.payload : r \in BeginRequests}, credential_generation: Nat,
   activation_credential: {r.activation_credential : r \in BeginRequests},
   created_at: Time, expires_at: Nat]

Terminal ==
  [receipt: {r.receipt : r \in CompleteRequests},
   credential_id: {r.credential_id : r \in CompleteRequests},
   credential_generation: Nat, completed_at: Time]

ClaimIds == {r.claim_id : r \in ClaimRequests}

Record ==
  [binding: BindingType, status: {"pending", "claimed", "completed"},
   claim_id: ClaimIds \union {None}, fencing_token: Nat,
   claimed_at: Time \union {None}, terminal: Terminal \union {None}]

Call ==
  [pc: {"create", "load", "put"}, request: Requests, now: Time,
   attempts: 0 .. MAX_CAS_ATTEMPTS - 1, binding: BindingType \union {None},
   record: Record \union {None}]

Put == [owner: Tasks \union {Nobody}, ceremony: Ceremonies, prev_revision: Nat,
        record: Record]

\* Types of the ceremony service's state; no loop makes more than
\* MAX_CAS_ATTEMPTS attempts.
TypeOK ==
  /\ clock \in 1 .. MaxTime
  /\ kv \in [Ceremonies -> [revision: Nat, record: Record \union {None}]]
  /\ tasks \in [Tasks -> {IdleTask} \union Call]
  /\ puts \subseteq Put
  /\ begun \subseteq [ceremony: Ceremonies, binding: BindingType]
  /\ claims \subseteq [ceremony: Ceremonies, claim_id: ClaimIds, fencing_token: Nat]
  /\ completions \subseteq
       [ceremony: Ceremonies, claim_id: {r.claim_id : r \in CompleteRequests},
        fencing_token: Nat, receipt: {r.receipt : r \in CompleteRequests},
        terminal: Terminal, replayed: BOOLEAN]

\* Every stored record passes validate_record_against_config: no mix of replica
\* clocks, takeovers and late PUTs stores one that every handler then refuses.
StoredRecordsValid ==
  \A c \in Ceremonies : kv[c].revision # 0 => Valid(kv[c].record)

\* Fencing: no claim that was granted is above the stored token, and no two
\* claimants were granted the same one.
FenceHolds ==
  \A a \in claims :
    /\ a.fencing_token <= kv[a.ceremony].record.fencing_token
    /\ \A b \in claims : a.ceremony = b.ceremony /\ a.fencing_token = b.fencing_token
                           => a.claim_id = b.claim_id

\* The stale claimant is rejected: what was recorded by a completion was
\* recorded by the last holder of the claim.
CompletedByHolder ==
  \A a \in completions : ~a.replayed =>
    /\ kv[a.ceremony].record.claim_id = a.claim_id
    /\ kv[a.ceremony].record.fencing_token = a.fencing_token

\* Answers stand: every begin that was answered told its client of the binding, and
\* so of the challenge, that is stored; every completion that was answered names the
\* receipt it was asked to record and the result that is stored.
AnswersStand ==
  /\ \A b \in begun :
       kv[b.ceremony].revision # 0 /\ kv[b.ceremony].record.binding = b.binding
  /\ \A a \in completions :
       /\ a.terminal = kv[a.ceremony].record.terminal
       /\ a.terminal.receipt = a.receipt

\* A stored ceremony keeps its binding, its token only grows, and once it is
\* completed it does not change.
RecordEvolves ==
  [][\A c \in Ceremonies :
       kv[c].revision # 0 /\ kv'[c] # kv[c] =>
         LET old == kv[c].record
             new == kv'[c].record
         IN /\ old.status # "completed"
            /\ new.binding = old.binding
            /\ new.fencing_token >= old.fencing_token]_vars

\* docs/founder-governance-ceremony-boundary.md:32, "exact begin retry": a begin
\* that repeats the stored request is not about to be answered with a conflict
\* while the ceremony is open.
BeginRetryRecovers ==
  \A t \in Tasks :
    /\ tasks[t] # IdleTask
    /\ tasks[t].pc = "load" /\ tasks[t].request.op = "begin"
    /\ LoadResult(t) = "conflict"
    => LET rec == kv[tasks[t].request.ceremony].record IN
       rec.status = "completed" \/ rec.binding.payload # tasks[t].request.payload
=============================================================================
