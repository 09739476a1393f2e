---------------------------- MODULE ApiKeyStore ----------------------------
(***************************************************************************)
(* The API-key authority: the KeyStore of src/src/keys.rs under the        *)
(* handlers of src/src/main.rs, on several replicas over Fiducia KV.       *)
(*                                                                         *)
(* A key is a record under its own KV path and an entry in the index of    *)
(* its organization; nothing makes the two writes one.  Every read and     *)
(* every conditional PUT of KV is a step, and between two steps of one     *)
(* handler those of the others happen.  A handler may be dropped at any    *)
(* await (15 s TimeoutLayer, closed connection) or fail there; a PUT it    *)
(* sent may still reach KV later.                                          *)
(*                                                                         *)
(* The production store is modelled (kv is Some): it writes its local map  *)
(* and never reads it, so the map is no variable here.  Records are the    *)
(* ones this code writes (hmac-sha256, no admin scopes).                   *)
(***************************************************************************)
EXTENDS Integers, Sequences, FiniteSets

CONSTANTS
  Keys,            \* key ids
  Orgs,
  Actors,          \* user ids
  UserOrgs,        \* UserOrgs[a]: the organizations in the session of a
  Workloads,       \* kinds of traffic; a behaviour has one
  Requests(_),     \* what clients may send in a workload, each any number of times
  Tasks,           \* handlers that can be under way at once
  MAX_CAS_RETRIES,
  MAX_VERSION,     \* u64::MAX
  MaxOrphans,      \* bound: PUTs on the way whose handler is gone
  None,            \* absent: record, organization, rotation marker
  Nobody           \* the owner of a PUT whose handler is gone

\* HMAC under the idempotency secret, taken to be injective: the digest stands
\* for what it is computed from.
DeriveIdempotency(purpose, parts) == <<purpose>> \o parts

KeyId(r, org) == DeriveIdempotency("create-key-id", <<r.actor, org, r.id>>)

CreateMarker(r, org) == DeriveIdempotency("create-marker", <<r.actor, org, r.id>>)

CreateSecret(r, org) == DeriveIdempotency("create-secret", <<r.actor, org, r.id>>)

RotationMarker(r, org) == DeriveIdempotency("rotate-marker", <<r.actor, org, r.key, r.id>>)

RotationSecret(r, org) == DeriveIdempotency("rotate-secret", <<r.actor, org, r.key, r.id>>)

(***************************************************************************)
(* What the handlers are sent.  `id` is the Idempotency-Key; `name` stands *)
(* for name, scopes and require_idempotency; org None: no org_id is given. *)
(***************************************************************************)
AllRequests == UNION {Requests(w) : w \in Workloads}

CreateRequests == {r \in AllRequests : r.op = "create"}

ASSUME StoreConstants ==
  /\ UserOrgs \in [Actors -> SUBSET Orgs]
  /\ \A r \in AllRequests :
       /\ r.op \in {"create", "rotate", "revoke", "list", "introspect"}
       /\ r.op # "introspect" => r.actor \in Actors /\ r.org \in Orgs \union {None}
       /\ r.op \in {"rotate", "revoke", "introspect"} => r.key \in Keys
  /\ \A r \in CreateRequests, org \in Orgs : KeyId(r, org) \in Keys
  /\ \A r \in AllRequests, org \in Orgs : r.op = "rotate" => RotationMarker(r, org) # None
  /\ MAX_CAS_RETRIES \in Nat \ {0} /\ MAX_VERSION \in Nat \ {0} /\ MaxOrphans \in Nat
  /\ None \notin Orgs /\ Nobody \notin Tasks

VARIABLES
  workload,
  records,      \* records[k]: the stored key record and its mod_revision
  indexes,      \* indexes[o]: the stored index of o and its mod_revision
  tasks,        \* tasks[t]: the handler running in slot t
  puts,         \* PUTs on the way to KV
  outcome,      \* the answer the latest step gave to a client, if it gave one
  disclosed,    \* ghost: every raw key given to a client, with its version
  revocations   \* ghost: the keys whose revocation was confirmed to a client

vars == <<workload, records, indexes, tasks, puts, outcome, disclosed, revocations>>

\* What only a PUT changes; the workload never does.
kvVars == <<workload, records, indexes>>
ghosts == <<disclosed, revocations>>

-----------------------------------------------------------------------------
(* Records.                                                                *)

\* The organization select_user_org returns; none when it refuses.
SelectUserOrg(actor, org) ==
  IF org # None THEN {org} \intersect UserOrgs[actor]
  ELSE IF Cardinality(UserOrgs[actor]) = 1 THEN UserOrgs[actor]
  ELSE {}

\* The record create writes.
NewRecord(r, org) ==
  [org |-> org, name |-> r.name, env |-> r.env, create_marker |-> CreateMarker(r, org),
   secret |-> CreateSecret(r, org), rotation_marker |-> None, revoked |-> FALSE,
   version |-> 1]

SameCreateRequest(rec, r, org) ==
  /\ rec.create_marker = CreateMarker(r, org)
  /\ rec.org = org /\ rec.name = r.name /\ rec.env = r.env
  /\ rec.secret = CreateSecret(r, org)

Rotated(rec, r, org) ==
  [rec EXCEPT !.secret = RotationSecret(r, org),
              !.rotation_marker = RotationMarker(r, org), !.version = @ + 1]

Revoked(rec) == [rec EXCEPT !.revoked = TRUE, !.version = @ + 1]

\* Mutant of Verify: the revoked flag is not looked at.
VerifySecretOnly(rec, raw) == rec.env = raw.env /\ rec.secret = raw.secret

\* verify: the stored record against a presented raw key.
Verify(rec, raw) == ~rec.revoked /\ rec.env = raw.env /\ rec.secret = raw.secret

Listed(k, org) == \E i \in 1 .. Len(indexes[org].ids) : indexes[org].ids[i] = k

-----------------------------------------------------------------------------
(* Fiducia KV.  The code only compares revisions of one path.              *)

\* Mutant of Cas: an unconditional PUT.
CasIgnored(p) == TRUE

Cas(p) ==
  IF p.kind = "record" THEN records[p.key].revision = p.prev_revision
                       ELSE indexes[p.org].revision = p.prev_revision

\* KV handles PUT p: conditional on the revision, atomically.
KvPut(p) ==
  IF ~Cas(p) THEN UNCHANGED kvVars
  ELSE IF p.kind = "record"
    THEN /\ records' = [records EXCEPT ![p.key] =
              [revision |-> p.prev_revision + 1, record |-> p.record]]
         /\ UNCHANGED <<workload, indexes>>
    ELSE /\ indexes' = [indexes EXCEPT ![p.org] =
              [revision |-> p.prev_revision + 1, ids |-> p.ids]]
         /\ UNCHANGED <<workload, records>>

RecordPut(t, k, prev, rec) ==
  [kind |-> "record", owner |-> t, key |-> k, prev_revision |-> prev, record |-> rec]

IndexPut(t, org, prev, ids) ==
  [kind |-> "index", owner |-> t, org |-> org, prev_revision |-> prev, ids |-> ids]

-----------------------------------------------------------------------------
(* Handlers.                                                               *)

IdleTask == [pc |-> "idle"]

NoOutcome == [kind |-> "none"]

Quiet == outcome' = NoOutcome

Goto(t, pc) == tasks' = [tasks EXCEPT ![t].pc = pc]

\* Slot t answers its client and is free again.
Answer(t, o) == outcome' = o /\ tasks' = [tasks EXCEPT ![t] = IdleTask]

Fail(t, kind) == Answer(t, [kind |-> kind, request |-> tasks[t].request])

\* The next turn of a bounded CAS loop, which begins at pc.
Retry(t, pc) ==
  IF tasks[t].attempts + 1 < MAX_CAS_RETRIES
    THEN /\ tasks' = [tasks EXCEPT ![t].pc = pc, ![t].attempts = @ + 1]
         /\ Quiet
    ELSE Fail(t, "cas_exhausted")

\* `record` is what the handler last loaded or wrote; `dead` and `known` are
\* ghosts: whether the key's revocation was confirmed, and which keys had been
\* disclosed by their creation, when the request began.
NewTask(pc, r, org, k) ==
  [pc |-> pc, request |-> r, org |-> org, key |-> k, attempts |-> 0, record |-> None,
   todo |-> <<>>, listing |-> {}, dead |-> k \in revocations,
   known |-> IF r.op = "list" THEN {d.key : d \in {e \in disclosed : e.version = 1}}
                              ELSE {}]

\* select_user_org refuses: the user is not of that organization, or has none or
\* several and names none.
Refuse(t, r) ==
  /\ tasks[t] = IdleTask
  /\ r.op # "introspect" /\ SelectUserOrg(r.actor, r.org) = {}
  /\ outcome' = [kind |-> "forbidden", request |-> r]
  /\ UNCHANGED <<kvVars, tasks, puts, ghosts>>

\* create starts with a PUT that expects no record.
BeginCreate(t, r) ==
  /\ tasks[t] = IdleTask /\ r.op = "create"
  /\ \E org \in SelectUserOrg(r.actor, r.org) :
       /\ tasks' = [tasks EXCEPT ![t] =
            [NewTask("create_put", r, org, KeyId(r, org)) EXCEPT !.record = NewRecord(r, org)]]
       /\ puts' = puts \union {RecordPut(t, KeyId(r, org), 0, NewRecord(r, org))}
  /\ Quiet
  /\ UNCHANGED <<kvVars, ghosts>>

BeginMutate(t, r) ==
  /\ tasks[t] = IdleTask /\ r.op \in {"rotate", "revoke"}
  /\ \E org \in SelectUserOrg(r.actor, r.org) :
       tasks' = [tasks EXCEPT ![t] = NewTask("load", r, org, r.key)]
  /\ Quiet
  /\ UNCHANGED <<kvVars, puts, ghosts>>

BeginIntrospect(t, r) ==
  /\ tasks[t] = IdleTask /\ r.op = "introspect"
  /\ tasks' = [tasks EXCEPT ![t] = NewTask("introspect", r, None, r.key)]
  /\ Quiet
  /\ UNCHANGED <<kvVars, puts, ghosts>>

BeginList(t, r) ==
  /\ tasks[t] = IdleTask /\ r.op = "list"
  /\ \E org \in SelectUserOrg(r.actor, r.org) :
       tasks' = [tasks EXCEPT ![t] = NewTask("list", r, org, None)]
  /\ Quiet
  /\ UNCHANGED <<kvVars, puts, ghosts>>

-----------------------------------------------------------------------------
(* create.                                                                 *)

\* create returns the raw key: the secret is derived again from the request.
Created(t) ==
  /\ disclosed' = disclosed \union
       {[key |-> tasks[t].key, secret |-> CreateSecret(tasks[t].request, tasks[t].org),
         version |-> tasks[t].record.version]}
  /\ Answer(t, [kind |-> "created", request |-> tasks[t].request])
  /\ UNCHANGED revocations

CreateApplied(t, p) ==
  /\ tasks[t].pc = "create_put" /\ p.owner = t /\ Cas(p)
  /\ KvPut(p) /\ puts' = puts \ {p}
  /\ Goto(t, "index_load") /\ Quiet
  /\ UNCHANGED ghosts

CreateMismatch(t, p) ==
  /\ tasks[t].pc = "create_put" /\ p.owner = t /\ ~Cas(p)
  /\ KvPut(p) /\ puts' = puts \ {p}
  /\ Goto(t, "create_load") /\ Quiet
  /\ UNCHANGED ghosts

\* Mutant of CreateLoad: a retry is answered without repairing the index.
CreateLoadReplays(t) ==
  /\ tasks[t].pc = "create_load"
  /\ LET stored == records[tasks[t].key] IN
     IF stored.revision # 0 /\ SameCreateRequest(stored.record, tasks[t].request, tasks[t].org)
       THEN Created(t)
       ELSE Fail(t, "idempotency_conflict") /\ UNCHANGED ghosts
  /\ UNCHANGED <<kvVars, puts>>

\* The record that is there: an earlier attempt of the same request or not.
CreateLoad(t) ==
  /\ tasks[t].pc = "create_load"
  /\ LET stored == records[tasks[t].key] IN
     IF stored.revision = 0 THEN Fail(t, "key_id_collision")
     ELSE IF ~SameCreateRequest(stored.record, tasks[t].request, tasks[t].org)
       THEN Fail(t, "idempotency_conflict")
       ELSE /\ tasks' = [tasks EXCEPT ![t].pc = "index_load", ![t].record = stored.record]
            /\ Quiet
  /\ UNCHANGED <<kvVars, puts, ghosts>>

\* index_add finds the key in the index.
IndexHasKey(t) ==
  /\ tasks[t].pc = "index_load" /\ Listed(tasks[t].key, tasks[t].org)
  /\ Created(t)
  /\ UNCHANGED <<kvVars, puts>>

\* Mutant of IndexLacksKey: the index is written with the new key alone.
IndexReplaced(t) ==
  /\ tasks[t].pc = "index_load" /\ ~Listed(tasks[t].key, tasks[t].org)
  /\ puts' = puts \union {IndexPut(t, tasks[t].org, indexes[tasks[t].org].revision,
                                   <<tasks[t].key>>)}
  /\ Goto(t, "index_put") /\ Quiet
  /\ UNCHANGED <<kvVars, ghosts>>

IndexLacksKey(t) ==
  /\ tasks[t].pc = "index_load" /\ ~Listed(tasks[t].key, tasks[t].org)
  /\ LET stored == indexes[tasks[t].org] IN
     puts' = puts \union {IndexPut(t, tasks[t].org, stored.revision,
                                   Append(stored.ids, tasks[t].key))}
  /\ Goto(t, "index_put") /\ Quiet
  /\ UNCHANGED <<kvVars, ghosts>>

IndexApplied(t, p) ==
  /\ tasks[t].pc = "index_put" /\ p.owner = t /\ Cas(p)
  /\ KvPut(p) /\ puts' = puts \ {p}
  /\ Created(t)

IndexMismatch(t, p) ==
  /\ tasks[t].pc = "index_put" /\ p.owner = t /\ ~Cas(p)
  /\ KvPut(p) /\ puts' = puts \ {p}
  /\ Retry(t, "index_load")
  /\ UNCHANGED ghosts

-----------------------------------------------------------------------------
(* rotate and revoke.                                                      *)

\* Mutants of RotateResult: the version is not checked for overflow; a revoked
\* record is rotated.
RotateOverflows(r, org, stored) ==
  LET rec == stored.record IN
  IF stored.revision = 0 \/ rec.org # org THEN "not_found"
  ELSE IF rec.rotation_marker = RotationMarker(r, org) THEN "replay"
  ELSE IF rec.revoked THEN "not_found"
  ELSE "put"

RotateRevoked(r, org, stored) ==
  LET rec == stored.record IN
  IF stored.revision = 0 \/ rec.org # org THEN "not_found"
  ELSE IF rec.rotation_marker = RotationMarker(r, org) THEN "replay"
  ELSE IF rec.version = MAX_VERSION THEN "version_overflow"
  ELSE "put"

\* What the loop body does with the record it loaded: an answer or a "put".
RotateResult(r, org, stored) ==
  LET rec == stored.record IN
  IF stored.revision = 0 \/ rec.org # org THEN "not_found"
  ELSE IF rec.rotation_marker = RotationMarker(r, org)
    THEN IF rec.secret = RotationSecret(r, org) THEN "replay" ELSE "invalid_value"
  ELSE IF rec.revoked THEN "not_found"
  ELSE IF rec.version = MAX_VERSION THEN "version_overflow"
  ELSE "put"

RevokeResult(r, org, stored) ==
  LET rec == stored.record IN
  IF stored.revision = 0 \/ rec.org # org THEN "not_found"
  ELSE IF rec.revoked THEN "replay"
  ELSE IF rec.version = MAX_VERSION THEN "version_overflow"
  ELSE "put"

LoadResult(t) ==
  LET stored == records[tasks[t].key] IN
  IF tasks[t].request.op = "rotate"
    THEN RotateResult(tasks[t].request, tasks[t].org, stored)
    ELSE RevokeResult(tasks[t].request, tasks[t].org, stored)

\* The record the handler writes.
Mutated(t, rec) ==
  IF tasks[t].request.op = "rotate" THEN Rotated(rec, tasks[t].request, tasks[t].org)
                                    ELSE Revoked(rec)

\* The handler succeeds with rec as the stored record.
Succeed(t, rec) ==
  /\ IF tasks[t].request.op = "rotate"
       THEN /\ disclosed' = disclosed \union
                 {[key |-> tasks[t].key, version |-> rec.version,
                   secret |-> RotationSecret(tasks[t].request, tasks[t].org)]}
            /\ UNCHANGED revocations
       ELSE /\ revocations' = revocations \union {tasks[t].key}
            /\ UNCHANGED disclosed
  /\ Answer(t, [kind |-> "ok", request |-> tasks[t].request])

LoadReplays(t) ==
  /\ tasks[t].pc = "load" /\ LoadResult(t) = "replay"
  /\ Succeed(t, records[tasks[t].key].record)
  /\ UNCHANGED <<kvVars, puts>>

LoadFails(t) ==
  /\ tasks[t].pc = "load" /\ LoadResult(t) \notin {"replay", "put"}
  /\ Fail(t, LoadResult(t))
  /\ UNCHANGED <<kvVars, puts, ghosts>>

LoadMutates(t) ==
  /\ tasks[t].pc = "load" /\ LoadResult(t) = "put"
  /\ LET stored == records[tasks[t].key]
         rec == Mutated(t, stored.record)
     IN /\ puts' = puts \union {RecordPut(t, tasks[t].key, stored.revision, rec)}
        /\ tasks' = [tasks EXCEPT ![t].pc = "put", ![t].record = rec]
  /\ Quiet
  /\ UNCHANGED <<kvVars, ghosts>>

PutApplied(t, p) ==
  /\ tasks[t].pc = "put" /\ p.owner = t /\ Cas(p)
  /\ KvPut(p) /\ puts' = puts \ {p}
  /\ Succeed(t, tasks[t].record)

PutMismatch(t, p) ==
  /\ tasks[t].pc = "put" /\ p.owner = t /\ ~Cas(p)
  /\ KvPut(p) /\ puts' = puts \ {p}
  /\ Retry(t, "load")
  /\ UNCHANGED ghosts

-----------------------------------------------------------------------------
(* introspect (also the first half of exchange_token) and list.            *)

IntrospectLoad(t) ==
  /\ tasks[t].pc = "introspect"
  /\ LET stored == records[tasks[t].key] IN
     IF stored.revision = 0 THEN Fail(t, "invalid")
     ELSE /\ tasks' = [tasks EXCEPT ![t].pc = "membership", ![t].record = stored.record]
          /\ Quiet
  /\ UNCHANGED <<kvVars, puts, ghosts>>

\* Mutant of Introspected: the index is not consulted.
IntrospectedUnindexed(t) ==
  IF Verify(tasks[t].record, tasks[t].request) THEN "valid" ELSE "invalid"

\* The index is read after the record.
Introspected(t) ==
  IF Listed(tasks[t].key, tasks[t].record.org) /\ Verify(tasks[t].record, tasks[t].request)
    THEN "valid" ELSE "invalid"

IntrospectIndex(t) ==
  /\ tasks[t].pc = "membership"
  /\ Answer(t, [kind |-> Introspected(t), request |-> tasks[t].request,
                dead |-> tasks[t].dead])
  /\ UNCHANGED <<kvVars, puts, ghosts>>

ListIndex(t) ==
  /\ tasks[t].pc = "list"
  /\ tasks' = [tasks EXCEPT ![t].pc = "list_load", ![t].todo = indexes[tasks[t].org].ids]
  /\ Quiet
  /\ UNCHANGED <<kvVars, puts, ghosts>>

ListLoad(t) ==
  /\ tasks[t].pc = "list_load" /\ tasks[t].todo # <<>>
  /\ LET k == Head(tasks[t].todo)
         shown == records[k].revision # 0 /\ records[k].record.org = tasks[t].org
     IN tasks' = [tasks EXCEPT ![t].todo = Tail(@),
                    ![t].listing = IF shown THEN @ \union {k} ELSE @]
  /\ Quiet
  /\ UNCHANGED <<kvVars, puts, ghosts>>

ListDone(t) ==
  /\ tasks[t].pc = "list_load" /\ tasks[t].todo = <<>>
  /\ Answer(t, [kind |-> "listed", org |-> tasks[t].org, keys |-> tasks[t].listing,
                known |-> tasks[t].known])
  /\ UNCHANGED <<kvVars, puts, ghosts>>

-----------------------------------------------------------------------------
Orphans == {p \in puts : p.owner = Nobody}

\* KV does not answer t: StoreError, or the future of t is dropped.  A PUT it
\* sent stays on the way.
Abandon(t) ==
  /\ tasks[t] # IdleTask
  /\ Cardinality(Orphans) < MaxOrphans
  /\ puts' = {IF p.owner = t THEN [p EXCEPT !.owner = Nobody] ELSE p : p \in puts}
  /\ Fail(t, "unavailable")
  /\ UNCHANGED <<kvVars, ghosts>>

LatePut(p) ==
  /\ p.owner = Nobody
  /\ KvPut(p) /\ puts' = puts \ {p}
  /\ Quiet
  /\ UNCHANGED <<tasks, ghosts>>

Init ==
  /\ workload \in Workloads
  /\ records = [k \in Keys |-> [revision |-> 0, record |-> None]]
  /\ indexes = [o \in Orgs |-> [revision |-> 0, ids |-> <<>>]]
  /\ tasks = [t \in Tasks |-> IdleTask]
  /\ puts = {}
  /\ outcome = NoOutcome
  /\ disclosed = {} /\ revocations = {}

Next ==
  \/ \E t \in Tasks, r \in Requests(workload) :
       \/ Refuse(t, r) \/ BeginCreate(t, r) \/ BeginMutate(t, r)
       \/ BeginIntrospect(t, r) \/ BeginList(t, r)
  \/ \E t \in Tasks :
       \/ CreateLoad(t) \/ IndexHasKey(t) \/ IndexLacksKey(t)
       \/ LoadReplays(t) \/ LoadFails(t) \/ LoadMutates(t)
       \/ IntrospectLoad(t) \/ IntrospectIndex(t)
       \/ ListIndex(t) \/ ListLoad(t) \/ ListDone(t) \/ Abandon(t)
  \/ \E t \in Tasks, p \in puts :
       \/ CreateApplied(t, p) \/ CreateMismatch(t, p)
       \/ IndexApplied(t, p) \/ IndexMismatch(t, p)
       \/ PutApplied(t, p) \/ PutMismatch(t, p)
  \/ \E p \in puts : LatePut(p)

Spec == Init /\ [][Next]_vars

-----------------------------------------------------------------------------
(* Properties.                                                             *)

CreateIdentities == CreateRequests \X Orgs

RotateIdentities == {r \in AllRequests : r.op = "rotate"} \X Orgs

Secrets ==
  {CreateSecret(i[1], i[2]) : i \in CreateIdentities}
    \union {RotationSecret(i[1], i[2]) : i \in RotateIdentities}

Record ==
  [org: Orgs, name: {r.name : r \in CreateRequests}, env: {r.env : r \in CreateRequests},
   create_marker: {CreateMarker(i[1], i[2]) : i \in CreateIdentities}, secret: Secrets,
   rotation_marker: {RotationMarker(i[1], i[2]) : i \in RotateIdentities} \union {None},
   revoked: BOOLEAN, version: 1 .. MAX_VERSION]

CallPcs == {"create_put", "create_load", "index_load", "index_put", "load", "put",
            "introspect", "membership", "list", "list_load"}

Call ==
  [pc: CallPcs, request: AllRequests, org: Orgs \union {None}, key: Keys \union {None},
   attempts: Nat, record: Record \union {None}, todo: Seq(Keys), listing: SUBSET Keys,
   dead: BOOLEAN, known: SUBSET Keys]

Put ==
  [kind: {"record"}, owner: Tasks \union {Nobody}, key: Keys, prev_revision: Nat,
   record: Record]
  \union
  [kind: {"index"}, owner: Tasks \union {Nobody}, org: Orgs, prev_revision: Nat,
   ids: Seq(Keys)]

\* Types of the store's state: in particular no version beyond u64::MAX is
\* written, and only derived secrets are stored.
TypeOK ==
  /\ workload \in Workloads
  /\ records \in [Keys -> [revision: Nat, record: Record \union {None}]]
  /\ indexes \in [Orgs -> [revision: Nat, ids: Seq(Keys)]]
  /\ tasks \in [Tasks -> {IdleTask} \union Call]
  /\ puts \subseteq Put
  /\ disclosed \subseteq [key: Keys, secret: Secrets, version: 1 .. MAX_VERSION]
  /\ revocations \subseteq Keys

\* A key that a create has answered with is in the index of its organization, so
\* that it can be listed and used: the index is written after the record, by
\* racing creates, failed and repeated ones, and no entry is lost.
DisclosedIsIndexed ==
  \A d \in disclosed : d.version = 1 =>
    records[d.key].revision # 0 /\ Listed(d.key, records[d.key].record.org)

\* A version names one secret: what clients were told of a version is what KV
\* holds of it, whichever replica answered and whether it wrote or replayed.
VersionNamesSecret ==
  \A d \in disclosed :
    /\ d.version <= records[d.key].record.version
    /\ d.version = records[d.key].record.version => d.secret = records[d.key].record.secret
    /\ \A e \in disclosed : d.key = e.key /\ d.version = e.version => d.secret = e.secret

\* A confirmed revocation holds: no rotation that was under way undoes it, and no
\* introspection that begins after it says valid, on any replica, with any secret
\* the key ever had.
RevocationHolds ==
  /\ \A k \in revocations : records[k].record.revoked
  /\ outcome.kind = "valid" => ~outcome.dead

\* README "unindexed partial records cannot introspect": a key that is valid is
\* one its organization can list.
ValidIsListed ==
  outcome.kind = "valid" =>
    Listed(outcome.request.key, records[outcome.request.key].record.org)

\* README "API-key lifecycle is monotonic": a stored record keeps its identity,
\* every write advances its version by one, and a revoked record is frozen.
RecordEvolves ==
  [][\A k \in Keys :
       records[k].revision # 0 /\ records'[k] # records[k] =>
         LET old == records[k].record
             new == records'[k].record
         IN /\ ~old.revoked
            /\ new.version = old.version + 1
            /\ new.org = old.org /\ new.env = old.env /\ new.name = old.name
            /\ new.create_marker = old.create_marker]_vars

\* A listing shows every key of the organization whose creation was answered
\* before it was asked for.
ListingComplete ==
  outcome.kind = "listed" =>
    \A k \in outcome.known : records[k].record.org = outcome.org => k \in outcome.keys

\* keys.rs, rotate: "Replace a key's secret without any overlap": a secret that
\* was replaced is not the stored one again.
ReplacedSecretStaysReplaced ==
  \A d, e \in disclosed :
    /\ d.key = e.key /\ d.version < e.version /\ d.secret # e.secret
    /\ records[d.key].record.version >= e.version
    => records[d.key].record.secret # d.secret
=============================================================================
