------------------------- MODULE ApiKeyStoreProofs -------------------------
(***************************************************************************)
(* Versions, revocations and the index of ApiKeyStore, for every workload, *)
(* any number of keys, organizations, handlers and late PUTs.              *)
(***************************************************************************)
EXTENDS ApiKeyStore, TLAPS, SequenceTheorems

-----------------------------------------------------------------------------
(* The inductive invariant.                                                *)

Occurs(k, ids) == \E i \in 1 .. Len(ids) : ids[i] = k

\* A record that may replace `old`.
Follows(new, old) ==
  /\ ~old.revoked /\ new.version = old.version + 1
  /\ new.org = old.org /\ new.env = old.env /\ new.name = old.name
  /\ new.create_marker = old.create_marker

\* A record of the first version was never rotated.
Dated(rec) == rec.version = 1 => rec.rotation_marker = None

Stored ==
  \A k \in Keys : records[k].revision # 0 =>
    records[k].record \in Record /\ Dated(records[k].record)

\* A PUT on the way is no newer than what is stored; if it still can be applied,
\* its record follows the stored one, or its index keeps every stored entry.
PutsFollow ==
  \A p \in puts :
    /\ p.kind = "record" =>
         /\ Dated(p.record) /\ p.prev_revision <= records[p.key].revision
         /\ p.prev_revision # 0 /\ Cas(p) => Follows(p.record, records[p.key].record)
    /\ p.kind = "index" =>
         /\ p.prev_revision <= indexes[p.org].revision
         /\ Cas(p) => \A k \in Keys : Occurs(k, indexes[p.org].ids) => Occurs(k, p.ids)

\* p is the PUT that handler u waits for.
Awaits(u, p) ==
  \/ /\ u.pc \in {"create_put", "put"} /\ p.kind = "record"
     /\ p.key = u.key /\ p.record = u.record
  \/ /\ u.pc = "index_put" /\ p.kind = "index"
     /\ p.org = u.org /\ Occurs(u.key, p.ids)

OwnersWait == \A p \in puts : p.owner # Nobody => Awaits(tasks[p.owner], p)

OnePut == \A p, q \in puts : p.owner = q.owner /\ p.owner # Nobody => p = q

Indexing == {"index_load", "index_put"}

\* What handler u knows of its own request.
Knows(u) ==
  /\ u.pc \in Indexing \union {"create_put", "create_load"} =>
       u.request.op = "create" /\ u.org \in Orgs /\ u.key \in Keys
  /\ u.pc \in Indexing \union {"create_put"} =>
       /\ u.record \in Record /\ u.record.org = u.org
       /\ u.record.secret = CreateSecret(u.request, u.org)
  /\ u.pc \in {"load", "put"} =>
       u.request.op \in {"rotate", "revoke"} /\ u.org \in Orgs /\ u.key \in Keys
  /\ u.pc = "put" =>
       /\ u.record \in Record /\ u.record.version # 1
       /\ u.request.op = "rotate" => u.record.secret = RotationSecret(u.request, u.org)
       /\ u.request.op = "revoke" => u.record.revoked
  /\ u.pc \in {"introspect", "membership"} =>
       u.request.op = "introspect" /\ u.key = u.request.key /\ u.key \in Keys
  /\ u.pc = "membership" => u.record \in Record
  /\ u.pc \in {"list", "list_load"} => u.org \in Orgs

CallsKnow == \A t \in Tasks : Knows(tasks[t])

CreatedKeys == {d.key : d \in {e \in disclosed : e.version = 1}}

\* What handler u knows of the rest of the system.
Aware(u) ==
  /\ u.pc \in Indexing =>
       records[u.key].revision # 0 /\ records[u.key].record.org = u.org
  /\ u.pc = "introspect" /\ u.dead => u.key \in revocations
  /\ u.pc = "membership" =>
       /\ records[u.key].revision # 0 /\ records[u.key].record.org = u.record.org
       /\ u.dead => u.record.revoked
  /\ u.pc \in {"list", "list_load"} => u.known \subseteq CreatedKeys
  /\ u.pc = "list_load" =>
       \A k \in u.known : records[k].record.org = u.org =>
         k \in u.listing \/ Occurs(k, u.todo)

CallsAware == \A t \in Tasks : Aware(tasks[t])

\* The secrets that clients were told, and those that they are about to be told.
Told ==
  disclosed \union
    {[key |-> tasks[t].key, secret |-> tasks[t].record.secret,
      version |-> tasks[t].record.version] :
       t \in {u \in Tasks : tasks[u].pc \in Indexing}}

\* d agrees with the stored record of its key.
Agrees(d) ==
  /\ d.key \in Keys /\ records[d.key].revision # 0
  /\ d.version <= records[d.key].record.version
  /\ d.version = records[d.key].record.version => d.secret = records[d.key].record.secret

ToldOnce ==
  \A d, e \in Told : d.key = e.key /\ d.version = e.version => d.secret = e.secret

RevocationsStand ==
  \A k \in revocations : records[k].revision # 0 /\ records[k].record.revoked

OutcomeRight ==
  /\ outcome.kind = "valid" =>
       /\ ~outcome.dead
       /\ Listed(outcome.request.key, records[outcome.request.key].record.org)
  /\ ListingComplete

IInv == /\ TypeOK /\ Stored /\ PutsFollow /\ OwnersWait /\ OnePut /\ CallsKnow /\ CallsAware
        /\ \A d \in Told : Agrees(d)
        /\ ToldOnce /\ DisclosedIsIndexed /\ RevocationsStand /\ OutcomeRight
-----------------------------------------------------------------------------
(* Requests, records and calls.                                            *)

\* The organization that is selected is one of the caller's.
LEMMA SelectedOrg ==
  ASSUME NEW actor \in Actors, NEW org, NEW o \in SelectUserOrg(actor, org)
  PROVE  o \in Orgs
BY StoreConstants DEF SelectUserOrg

\* A request of the workload is a request, and says what it is about.
LEMMA RequestsAre ==
  ASSUME TypeOK, NEW r \in Requests(workload)
  PROVE  /\ r \in AllRequests
         /\ r.op \in {"create", "rotate", "revoke", "list", "introspect"}
         /\ r.op # "introspect" => r.actor \in Actors
         /\ r.op \in {"rotate", "revoke", "introspect"} => r.key \in Keys
         /\ r.op = "create" => r \in CreateRequests
<1>1. r \in AllRequests
  BY DEF TypeOK, AllRequests
<1> QED
  BY <1>1, StoreConstants DEF CreateRequests

\* A slot holds a handler unless it is idle.
LEMMA CallsAre ==
  ASSUME TypeOK, NEW t \in Tasks
  PROVE  /\ tasks[t].pc # "idle" => tasks[t] \in Call
         /\ tasks[t] = IdleTask <=> tasks[t].pc = "idle"
<1>1. tasks[t] \in {IdleTask} \union Call
  BY DEF TypeOK
<1>2. ASSUME tasks[t] \in Call PROVE tasks[t].pc # "idle"
  BY <1>2 DEF Call, CallPcs
<1> QED
  BY <1>1, <1>2 DEF IdleTask

\* The parts of a call.
LEMMA CallParts ==
  ASSUME NEW u \in Call
  PROVE  /\ u.pc \in CallPcs /\ u.request \in AllRequests /\ u.org \in Orgs \union {None}
         /\ u.key \in Keys \union {None} /\ u.attempts \in Nat
         /\ u.record \in Record \union {None} /\ u.todo \in Seq(Keys)
         /\ u.listing \subseteq Keys /\ u.dead \in BOOLEAN /\ u.known \subseteq Keys
BY DEF Call

\* The parts of a PUT.
LEMMA PutParts ==
  ASSUME TypeOK, NEW p \in puts
  PROVE  /\ p \in Put /\ p.owner \in Tasks \union {Nobody} /\ p.prev_revision \in Nat
         /\ p.kind \in {"record", "index"}
         /\ p.kind = "record" => p.key \in Keys /\ p.record \in Record
         /\ p.kind = "index" => p.org \in Orgs /\ p.ids \in Seq(Keys)
<1>1. p \in Put
  BY DEF TypeOK
<1> QED
  BY <1>1 DEF Put

\* The PUT of a record.
LEMMA RecordPutIs ==
  ASSUME NEW t \in Tasks, NEW prev \in Nat, NEW k \in Keys, NEW rec \in Record,
         NEW p, p = RecordPut(t, k, prev, rec)
  PROVE  /\ p \in Put /\ p.kind = "record" /\ p.owner = t /\ p.key = k
         /\ p.prev_revision = prev /\ p.record = rec
BY DEF RecordPut, Put

\* The PUT of an index.
LEMMA IndexPutIs ==
  ASSUME NEW t \in Tasks, NEW prev \in Nat, NEW org \in Orgs, NEW ids \in Seq(Keys),
         NEW p, p = IndexPut(t, org, prev, ids)
  PROVE  /\ p \in Put /\ p.kind = "index" /\ p.owner = t /\ p.org = org
         /\ p.prev_revision = prev /\ p.ids = ids
BY DEF IndexPut, Put

\* The record create writes.
LEMMA NewRecordIs ==
  ASSUME NEW r \in CreateRequests, NEW org \in Orgs
  PROVE  /\ KeyId(r, org) \in Keys
         /\ NewRecord(r, org) \in Record /\ Dated(NewRecord(r, org))
         /\ NewRecord(r, org).org = org /\ NewRecord(r, org).version = 1
         /\ NewRecord(r, org).secret = CreateSecret(r, org)
<1>1. PICK s, m : s = CreateSecret(r, org) /\ m = CreateMarker(r, org)
  OBVIOUS
<1>2. /\ s \in Secrets
      /\ m \in {CreateMarker(i[1], i[2]) : i \in CreateIdentities}
  <2>1. <<r, org>> \in CreateIdentities /\ <<r, org>>[1] = r /\ <<r, org>>[2] = org
    BY DEF CreateIdentities
  <2> QED
    BY <1>1, <2>1 DEF Secrets
<1>3. 1 \in 1 .. MAX_VERSION
  BY StoreConstants
<1>4. NewRecord(r, org) =
        [org |-> org, name |-> r.name, env |-> r.env, create_marker |-> m,
         secret |-> s, rotation_marker |-> None, revoked |-> FALSE, version |-> 1]
  BY <1>1 DEF NewRecord
<1>5. NewRecord(r, org) \in Record
  BY <1>2, <1>3, <1>4 DEF Record
<1> QED
  BY <1>1, <1>4, <1>5, StoreConstants DEF Dated

\* The record rotate writes follows the one it read.
LEMMA RotatedIs ==
  ASSUME NEW rec \in Record, NEW r \in AllRequests, r.op = "rotate", NEW org \in Orgs,
         ~rec.revoked, rec.version # MAX_VERSION
  PROVE  LET new == Rotated(rec, r, org) IN
         /\ new \in Record /\ Dated(new) /\ Follows(new, rec)
         /\ new.version # 1 /\ new.secret = RotationSecret(r, org)
<1>1. PICK s, m : s = RotationSecret(r, org) /\ m = RotationMarker(r, org)
  OBVIOUS
<1>2. /\ s \in Secrets
      /\ m \in {RotationMarker(i[1], i[2]) : i \in RotateIdentities}
  <2>1. <<r, org>> \in RotateIdentities /\ <<r, org>>[1] = r /\ <<r, org>>[2] = org
    BY DEF RotateIdentities
  <2> QED
    BY <1>1, <2>1 DEF Secrets
<1>3. rec.version \in 1 .. MAX_VERSION /\ MAX_VERSION \in Nat
  BY StoreConstants DEF Record
<1>4. PICK v : v = rec.version + 1
  OBVIOUS
<1>5. v \in 1 .. MAX_VERSION /\ v # 1
  BY <1>3, <1>4
<1>6. Rotated(rec, r, org) =
        [rec EXCEPT !.secret = s, !.rotation_marker = m, !.version = v]
  BY <1>1, <1>4 DEF Rotated
<1>7. LET new == Rotated(rec, r, org) IN
      /\ new \in Record /\ new.version = v /\ new.secret = s
      /\ new.org = rec.org /\ new.env = rec.env /\ new.name = rec.name
      /\ new.create_marker = rec.create_marker
  BY <1>2, <1>5, <1>6 DEF Record
<1> QED
  BY <1>1, <1>4, <1>5, <1>7 DEF Dated, Follows

\* The record revoke writes follows the one it read.
LEMMA RevokedIs ==
  ASSUME NEW rec \in Record, ~rec.revoked, rec.version # MAX_VERSION
  PROVE  LET new == Revoked(rec) IN
         /\ new \in Record /\ Dated(new) /\ Follows(new, rec)
         /\ new.version # 1 /\ new.revoked
<1>1. rec.version \in 1 .. MAX_VERSION /\ MAX_VERSION \in Nat
  BY StoreConstants DEF Record
<1>2. PICK v : v = rec.version + 1
  OBVIOUS
<1>3. v \in 1 .. MAX_VERSION /\ v # 1
  BY <1>1, <1>2
<1>4. Revoked(rec) = [rec EXCEPT !.revoked = TRUE, !.version = v]
  BY <1>2 DEF Revoked
<1>5. LET new == Revoked(rec) IN
      /\ new \in Record /\ new.version = v /\ new.revoked
      /\ new.org = rec.org /\ new.env = rec.env /\ new.name = rec.name
      /\ new.create_marker = rec.create_marker
  BY <1>3, <1>4 DEF Record
<1> QED
  BY <1>2, <1>3, <1>5 DEF Dated, Follows
-----------------------------------------------------------------------------
(* The store.                                                              *)

Evolves(k) ==
  records[k].revision # 0 /\ records'[k] # records[k] =>
    records'[k].revision # 0 /\ Follows(records'[k].record, records[k].record)

KvTypes ==
  /\ workload \in Workloads
  /\ records \in [Keys -> [revision: Nat, record: Record \union {None}]]
  /\ indexes \in [Orgs -> [revision: Nat, ids: Seq(Keys)]]

\* What a step may do to KV: every record evolves, and no index loses an entry.
KvMoves ==
  /\ KvTypes' /\ Stored'
  /\ \A k \in Keys : Evolves(k)
  /\ \A k \in Keys, o \in Orgs : Occurs(k, indexes[o].ids) => Occurs(k, indexes'[o].ids)

\* What a PUT would do to KV if it were applied to these records and indexes.
Sound(p, recs, inds) ==
  /\ p.kind = "record" =>
       /\ Dated(p.record) /\ p.prev_revision <= recs[p.key].revision
       /\ p.prev_revision # 0 /\ recs[p.key].revision = p.prev_revision =>
            Follows(p.record, recs[p.key].record)
  /\ p.kind = "index" =>
       /\ p.prev_revision <= inds[p.org].revision
       /\ inds[p.org].revision = p.prev_revision =>
            \A k \in Keys : Occurs(k, inds[p.org].ids) => Occurs(k, p.ids)

\* PutsFollow says so of every PUT.
LEMMA PutsSound ==
  /\ PutsFollow <=> \A p \in puts : Sound(p, records, indexes)
  /\ PutsFollow' <=> \A p \in puts' : Sound(p, records', indexes')
<1>1. ASSUME NEW p PROVE /\ p.kind = "record" =>
                              (Cas(p) <=> records[p.key].revision = p.prev_revision)
                         /\ p.kind = "index" =>
                              (Cas(p) <=> indexes[p.org].revision = p.prev_revision)
                         /\ p.kind = "record" =>
                              (Cas(p)' <=> records'[p.key].revision = p.prev_revision)
                         /\ p.kind = "index" =>
                              (Cas(p)' <=> indexes'[p.org].revision = p.prev_revision)
  BY DEF Cas
<1>2. PutsFollow <=> \A p \in puts : Sound(p, records, indexes)
  BY <1>1 DEF PutsFollow, Sound
<1>3. PutsFollow' <=> \A p \in puts' : Sound(p, records', indexes')
  BY <1>1 DEF PutsFollow, Sound
<1> QED
  BY <1>2, <1>3

\* A step that leaves KV alone.
LEMMA KvSame ==
  ASSUME TypeOK, Stored, UNCHANGED kvVars
  PROVE  /\ UNCHANGED <<workload, records, indexes>> /\ KvMoves
         /\ PutsFollow => \A p \in puts : Sound(p, records', indexes')
<1>1. UNCHANGED <<workload, records, indexes>>
  BY DEF kvVars
<1>2. KvTypes' /\ Stored' /\ \A k \in Keys : Evolves(k)
  BY <1>1 DEF TypeOK, KvTypes, Stored, Evolves
<1>3. \A k \in Keys, o \in Orgs : Occurs(k, indexes[o].ids) => Occurs(k, indexes'[o].ids)
  BY <1>1
<1> QED
  BY <1>1, <1>2, <1>3, PutsSound DEF KvMoves

\* A PUT of a record stores one that follows what was stored.
LEMMA RecordPutStep ==
  ASSUME TypeOK, Stored, PutsFollow, NEW p \in puts, p.kind = "record", Cas(p), KvPut(p)
  PROVE  /\ KvMoves /\ \A q \in puts : Sound(q, records', indexes')
         /\ records'[p.key].revision # 0 /\ records'[p.key].record = p.record
         /\ records[p.key].revision # 0 => Follows(p.record, records[p.key].record)
<1>1. PICK e : e = [revision |-> p.prev_revision + 1, record |-> p.record]
  OBVIOUS
<1>2. /\ records' = [records EXCEPT ![p.key] = e] /\ UNCHANGED <<workload, indexes>>
  BY <1>1 DEF KvPut
<1>3. /\ p.key \in Keys /\ p.prev_revision \in Nat /\ p.record \in Record
      /\ records[p.key].revision = p.prev_revision
  BY PutParts DEF Cas
<1>4. /\ e \in [revision: Nat, record: Record \union {None}] /\ e.record = p.record
      /\ e.revision = p.prev_revision + 1 /\ e.revision # 0
  BY <1>1, <1>3
<1>5. KvTypes
  BY DEF TypeOK, KvTypes
<1>6. /\ KvTypes' /\ records'[p.key] = e
      /\ \A k \in Keys : k # p.key => records'[k] = records[k]
  BY <1>2, <1>3, <1>4, <1>5 DEF KvTypes
<1>7. Sound(p, records, indexes)
  BY PutsSound
<1>8. records[p.key].revision # 0 => Follows(p.record, records[p.key].record)
  BY <1>3, <1>7 DEF Sound
<1>9. Stored'
  BY <1>3, <1>4, <1>6, <1>7 DEF Stored, Sound
<1>10. \A k \in Keys : Evolves(k)
  BY <1>4, <1>6, <1>8 DEF Evolves
<1>11. KvMoves
  BY <1>2, <1>6, <1>9, <1>10 DEF KvMoves
<1>12. ASSUME NEW q \in puts PROVE Sound(q, records', indexes')
  <2>1. Sound(q, records, indexes)
    BY PutsSound
  <2>2. /\ q.prev_revision \in Nat /\ (q.kind = "record" => q.key \in Keys)
    BY PutParts
  <2>3. CASE q.kind = "record" /\ q.key = p.key
    BY <1>3, <1>4, <1>6, <2>1, <2>2, <2>3 DEF Sound
  <2>4. CASE ~(q.kind = "record" /\ q.key = p.key)
    BY <1>2, <1>6, <2>1, <2>2, <2>4 DEF Sound
  <2> QED
    BY <2>3, <2>4
<1> QED
  BY <1>4, <1>6, <1>8, <1>11, <1>12

\* A PUT of an index keeps every entry.
LEMMA IndexPutStep ==
  ASSUME TypeOK, Stored, PutsFollow, NEW p \in puts, p.kind = "index", Cas(p), KvPut(p)
  PROVE  /\ KvMoves /\ \A q \in puts : Sound(q, records', indexes')
         /\ indexes'[p.org].ids = p.ids /\ records' = records
<1>1. PICK e : e = [revision |-> p.prev_revision + 1, ids |-> p.ids]
  OBVIOUS
<1>2. /\ indexes' = [indexes EXCEPT ![p.org] = e] /\ UNCHANGED <<workload, records>>
  BY <1>1 DEF KvPut
<1>3. /\ p.org \in Orgs /\ p.prev_revision \in Nat /\ p.ids \in Seq(Keys)
      /\ indexes[p.org].revision = p.prev_revision
  BY PutParts DEF Cas
<1>4. /\ e \in [revision: Nat, ids: Seq(Keys)] /\ e.ids = p.ids
      /\ e.revision = p.prev_revision + 1
  BY <1>1, <1>3
<1>5. KvTypes
  BY DEF TypeOK, KvTypes
<1>6. /\ KvTypes' /\ indexes'[p.org] = e
      /\ \A o \in Orgs : o # p.org => indexes'[o] = indexes[o]
  BY <1>2, <1>3, <1>4, <1>5 DEF KvTypes
<1>7. Sound(p, records, indexes)
  BY PutsSound
<1>8. \A k \in Keys : Occurs(k, indexes[p.org].ids) => Occurs(k, p.ids)
  BY <1>3, <1>7 DEF Sound
<1>9. Stored' /\ \A k \in Keys : Evolves(k)
  BY <1>2 DEF Stored, Evolves
<1>10. \A k \in Keys, o \in Orgs : Occurs(k, indexes[o].ids) => Occurs(k, indexes'[o].ids)
  BY <1>4, <1>6, <1>8
<1>11. KvMoves
  BY <1>6, <1>9, <1>10 DEF KvMoves
<1>12. ASSUME NEW q \in puts PROVE Sound(q, records', indexes')
  <2>1. Sound(q, records, indexes)
    BY PutsSound
  <2>2. /\ q.prev_revision \in Nat /\ (q.kind = "index" => q.org \in Orgs)
    BY PutParts
  <2>3. CASE q.kind = "index" /\ q.org = p.org
    BY <1>3, <1>4, <1>6, <2>1, <2>2, <2>3 DEF Sound
  <2>4. CASE ~(q.kind = "index" /\ q.org = p.org)
    BY <1>2, <1>6, <2>1, <2>2, <2>4 DEF Sound
  <2> QED
    BY <2>3, <2>4
<1> QED
  BY <1>2, <1>4, <1>6, <1>11, <1>12

\* Whatever KV does with a PUT.
LEMMA KvPutStep ==
  ASSUME TypeOK, Stored, PutsFollow, NEW p \in puts, KvPut(p)
  PROVE  /\ KvMoves /\ \A q \in puts : Sound(q, records', indexes')
         /\ ~Cas(p) => UNCHANGED <<workload, records, indexes>>
<1>1. CASE ~Cas(p)
  <2>1. UNCHANGED kvVars
    BY <1>1 DEF KvPut
  <2> QED
    BY <2>1, KvSame
<1>2. CASE Cas(p)
  BY <1>2, PutParts, RecordPutStep, IndexPutStep
<1> QED
  BY <1>1, <1>2

\* A stored record stays stored: it keeps its organization and its revocation, and
\* changes only with its version.
LEMMA RecordStays ==
  ASSUME Stored, KvMoves, NEW k \in Keys, records[k].revision # 0
  PROVE  /\ records'[k].revision # 0
         /\ records[k].record \in Record /\ records'[k].record \in Record
         /\ records'[k].record.org = records[k].record.org
         /\ records[k].record.version \in Nat /\ records'[k].record.version \in Nat
         /\ \/ records'[k].record = records[k].record
            \/ records[k].record.version < records'[k].record.version
         /\ records[k].record.revoked => records'[k].record.revoked
<1>1. Evolves(k) /\ Stored'
  BY DEF KvMoves
<1>2. /\ records'[k].revision # 0
      /\ \/ records'[k].record = records[k].record
         \/ Follows(records'[k].record, records[k].record)
  BY <1>1 DEF Evolves
<1>3. records[k].record \in Record /\ records'[k].record \in Record
  BY <1>1, <1>2 DEF Stored
<1>4. records[k].record.version \in Nat /\ records'[k].record.version \in Nat
  BY <1>3, StoreConstants DEF Record
<1> QED
  BY <1>2, <1>3, <1>4 DEF Follows

\* What a handler knows of the rest of the system stays true.
LEMMA AwareKept ==
  ASSUME IInv, KvMoves, disclosed \subseteq disclosed', revocations \subseteq revocations',
         NEW u \in {IdleTask} \union Call, Knows(u), Aware(u)
  PROVE  Aware(u)'
<1>1. Stored
  BY DEF IInv
<1>2. CreatedKeys \subseteq CreatedKeys'
  BY DEF CreatedKeys
<1>3. ASSUME NEW k \in CreatedKeys
      PROVE  records'[k].record.org = records[k].record.org
  <2>1. PICK d \in disclosed : d.key = k
    BY DEF CreatedKeys
  <2>2. k \in Keys /\ records[k].revision # 0
    BY <2>1 DEF IInv, Told, Agrees
  <2> QED
    BY <1>1, <2>2, RecordStays
<1>4. u.pc \in Indexing =>
        records'[u.key].revision # 0 /\ records'[u.key].record.org = u.org
  BY <1>1, RecordStays DEF Knows, Aware
<1>5. u.pc = "introspect" /\ u.dead => u.key \in revocations'
  BY DEF Aware
<1>6. u.pc = "membership" =>
        /\ records'[u.key].revision # 0 /\ records'[u.key].record.org = u.record.org
        /\ u.dead => u.record.revoked
  BY <1>1, RecordStays DEF Knows, Aware
<1>7. u.pc \in {"list", "list_load"} => u.known \subseteq CreatedKeys'
  BY <1>2 DEF Aware
<1>8. u.pc = "list_load" =>
        \A k \in u.known : records'[k].record.org = u.org =>
          k \in u.listing \/ Occurs(k, u.todo)
  BY <1>3 DEF Aware
<1> QED
  BY <1>4, <1>5, <1>6, <1>7, <1>8 DEF Aware

\* d is what is stored of its key after the step.
Current(d) ==
  /\ d.key \in Keys /\ records[d.key].revision # 0
  /\ d.version = records[d.key].record.version
  /\ d.secret = records[d.key].record.secret

\* What was told stays in agreement, and so does what is told from the store.
LEMMA ToldStep ==
  ASSUME IInv, KvMoves, \A d \in Told' : d \in Told \/ Current(d)'
  PROVE  /\ \A d \in Told' : Agrees(d)'
         /\ ToldOnce'
<1>1. Stored
  BY DEF IInv
<1>2. ASSUME NEW d \in Told PROVE Agrees(d)'
  <2>1. /\ d.key \in Keys /\ records[d.key].revision # 0
        /\ d.version <= records[d.key].record.version
        /\ d.version = records[d.key].record.version =>
             d.secret = records[d.key].record.secret
    BY DEF IInv, Agrees
  <2>2. d.version \in Nat
    <3>1. CASE d \in disclosed
      BY <3>1, StoreConstants DEF IInv, TypeOK
    <3>2. CASE d \notin disclosed
      <4>1. PICK t \in Tasks : tasks[t].pc \in Indexing /\ d.version = tasks[t].record.version
        BY <3>2 DEF Told
      <4>2. tasks[t].record \in Record
        BY <4>1 DEF IInv, CallsKnow, Knows
      <4> QED
        BY <4>1, <4>2, StoreConstants DEF Record
    <3> QED
      BY <3>1, <3>2
  <2>3. /\ records'[d.key].revision # 0
        /\ records[d.key].record.version \in Nat /\ records'[d.key].record.version \in Nat
        /\ \/ records'[d.key].record = records[d.key].record
           \/ records[d.key].record.version < records'[d.key].record.version
    BY <1>1, <2>1, RecordStays
  <2> QED
    BY <2>1, <2>2, <2>3 DEF Agrees
<1>3. ASSUME NEW d, Current(d)' PROVE Agrees(d)'
  <2>1. records'[d.key].record \in Record
    BY <1>3 DEF Current, KvMoves, Stored
  <2>2. records'[d.key].record.version \in Nat
    BY <2>1, StoreConstants DEF Record
  <2> QED
    BY <1>3, <2>2 DEF Current, Agrees
<1>4. \A d \in Told' : Agrees(d)'
  BY <1>2, <1>3
<1>5. ToldOnce'
  <2> SUFFICES ASSUME NEW d \in Told', NEW e \in Told', d.key = e.key,
                      d.version = e.version
               PROVE  d.secret = e.secret
    BY DEF ToldOnce
  <2>1. CASE d \in Told /\ e \in Told
    BY <2>1 DEF IInv, ToldOnce
  <2>2. CASE Current(d)'
    BY <1>4, <2>2 DEF Current, Agrees
  <2>3. CASE Current(e)'
    BY <1>4, <2>3 DEF Current, Agrees
  <2> QED
    BY <2>1, <2>2, <2>3
<1> QED
  BY <1>4, <1>5

\* Entries of the index stay listed.
LEMMA IndexedKept ==
  ASSUME IInv, KvMoves, NEW d \in disclosed, d.version = 1
  PROVE  records'[d.key].revision # 0 /\ Occurs(d.key, indexes'[records'[d.key].record.org].ids)
<1>1. /\ d.key \in Keys /\ records[d.key].revision # 0
      /\ Occurs(d.key, indexes[records[d.key].record.org].ids)
  BY DEF IInv, TypeOK, DisclosedIsIndexed, Listed, Occurs
<1>2. /\ records'[d.key].revision # 0 /\ records[d.key].record \in Record
      /\ records'[d.key].record.org = records[d.key].record.org
  BY <1>1, RecordStays DEF IInv
<1>3. records[d.key].record.org \in Orgs
  BY <1>2 DEF Record
<1> QED
  BY <1>1, <1>2, <1>3 DEF KvMoves
-----------------------------------------------------------------------------
(* Handlers.                                                               *)

\* What handler u is about to tell its client.
Tells(u) ==
  [key |-> u.key, secret |-> u.record.secret, version |-> u.record.version]

Disclosure == [key: Keys, secret: Secrets, version: 1 .. MAX_VERSION]

\* d is in the index of its organization.
Indexed(d) ==
  records[d.key].revision # 0 /\ Occurs(d.key, indexes[records[d.key].record.org].ids)

\* A step of the handler in slot t, after which it is u and owns at most the PUT
\* it waits for.
LEMMA HandlerStep ==
  ASSUME IInv, KvMoves, NEW t \in Tasks, NEW u \in {IdleTask} \union Call,
         tasks' = [tasks EXCEPT ![t] = u], Knows(u), Aware(u)',
         u.pc \in Indexing => Tells(u) \in Told \/ Current(Tells(u))',
         puts' \subseteq Put, \A p \in puts' : Sound(p, records', indexes'),
         \A p \in puts' : p.owner \notin {t, Nobody} => p \in puts,
         \A p, q \in puts' : p.owner = t /\ q.owner = t => p = q,
         \A p \in puts' : p.owner = t => Awaits(u, p),
         disclosed \subseteq disclosed', revocations \subseteq revocations',
         \A d \in disclosed' : d \in disclosed \/
           (/\ d \in Disclosure /\ (d \in Told \/ Current(d)')
            /\ (d.version = 1 => Indexed(d)')),
         \A k \in revocations' : k \in revocations \/
           (k \in Keys /\ records'[k].revision # 0 /\ records'[k].record.revoked),
         OutcomeRight'
  PROVE  IInv'
<1>1. /\ TypeOK /\ Stored /\ OwnersWait /\ OnePut /\ CallsKnow /\ CallsAware
      /\ RevocationsStand
  BY DEF IInv
<1>2. tasks \in [Tasks -> {IdleTask} \union Call]
  BY <1>1 DEF TypeOK
<1>3. /\ tasks' \in [Tasks -> {IdleTask} \union Call]
      /\ tasks'[t] = u /\ \A v \in Tasks : v # t => tasks'[v] = tasks[v]
  BY <1>2
<1>4. CallsKnow'
  BY <1>1, <1>3 DEF CallsKnow
<1>5. CallsAware'
  <2>1. ASSUME NEW v \in Tasks, v # t PROVE Aware(tasks[v])'
    <3>1. PICK w : w = tasks[v]
      OBVIOUS
    <3>2. w \in {IdleTask} \union Call /\ Knows(w) /\ Aware(w)
      BY <1>1, <1>2, <3>1 DEF CallsKnow, CallsAware
    <3>3. Aware(w)'
      BY <3>2, AwareKept
    <3>4. tasks'[v] = w
      BY <1>3, <2>1, <3>1
    <3> QED
      BY <3>3, <3>4 DEF Aware
  <2>2. Aware(tasks[t])'
    BY <1>3 DEF Aware
  <2> QED
    BY <2>1, <2>2 DEF CallsAware
<1>6. OwnersWait'
  <2> SUFFICES ASSUME NEW p \in puts', p.owner # Nobody PROVE Awaits(tasks'[p.owner], p)
    BY DEF OwnersWait
  <2>1. CASE p.owner = t
    BY <1>3, <2>1
  <2>2. CASE p.owner # t
    <3>1. p \in puts /\ p.owner \in Tasks
      BY <1>1, <2>2, PutParts
    <3> QED
      BY <1>1, <1>3, <2>2, <3>1 DEF OwnersWait
  <2> QED
    BY <2>1, <2>2
<1>7. OnePut'
  BY <1>1 DEF OnePut
<1>8. PutsFollow'
  BY PutsSound
<1>9. \A d \in Told' : d \in Told \/ Current(d)'
  <2>1. ASSUME NEW d \in Told', d \notin disclosed' PROVE d \in Told \/ Current(d)'
    <3>1. PICK v \in Tasks : tasks'[v].pc \in Indexing /\ d = Tells(tasks'[v])
      BY <2>1 DEF Told, Tells
    <3>2. CASE v = t
      BY <1>3, <3>1, <3>2
    <3>3. CASE v # t
      BY <1>3, <3>1, <3>3 DEF Told, Tells
    <3> QED
      BY <3>2, <3>3
  <2>2. disclosed \subseteq Told
    BY DEF Told
  <2> QED
    BY <2>1, <2>2
<1>10. (\A d \in Told' : Agrees(d)') /\ ToldOnce'
  BY <1>9, ToldStep
<1>11. DisclosedIsIndexed'
  <2>1. ASSUME NEW d \in disclosed', d.version = 1 PROVE Indexed(d)'
    BY <2>1, IndexedKept DEF Indexed
  <2> QED
    BY <2>1 DEF DisclosedIsIndexed, Indexed, Listed, Occurs
<1>12. RevocationsStand'
  <2>1. ASSUME NEW k \in revocations
        PROVE  records'[k].revision # 0 /\ records'[k].record.revoked
    <3>1. k \in Keys /\ records[k].revision # 0 /\ records[k].record.revoked
      BY <1>1 DEF TypeOK, RevocationsStand
    <3> QED
      BY <1>1, <3>1, RecordStays
  <2> QED
    BY <2>1 DEF RevocationsStand
<1>13. TypeOK'
  <2>1. disclosed' \subseteq Disclosure /\ revocations' \subseteq Keys
    BY <1>1 DEF TypeOK, Disclosure
  <2> QED
    BY <1>3, <2>1 DEF TypeOK, KvMoves, KvTypes, Disclosure
<1>14. Stored'
  BY DEF KvMoves
<1> QED
  BY <1>4, <1>5, <1>6, <1>7, <1>8, <1>10, <1>11, <1>12, <1>13, <1>14 DEF IInv

\* An answer that is no judgement and no listing.
LEMMA OtherOutcome ==
  ASSUME outcome'.kind \notin {"valid", "listed"}
  PROVE  OutcomeRight'
BY DEF OutcomeRight, ListingComplete

\* A step of a handler that tells nobody anything and sends nothing: it goes on as
\* u, without a PUT of its own on the way.
LEMMA GoesOn ==
  ASSUME IInv, KvMoves, NEW t \in Tasks, NEW u \in {IdleTask} \union Call,
         tasks' = [tasks EXCEPT ![t] = u], Knows(u), Aware(u)',
         u.pc \in Indexing => Tells(u) \in Told \/ Current(Tells(u))',
         puts' \subseteq puts, \A p \in puts : Sound(p, records', indexes'),
         \A p \in puts' : p.owner # t, UNCHANGED ghosts,
         outcome'.kind \notin {"valid", "listed"}
  PROVE  IInv'
<1>1. disclosed' = disclosed /\ revocations' = revocations
  BY DEF ghosts
<1>2. puts' \subseteq Put
  BY DEF IInv, TypeOK
<1>3. OutcomeRight'
  BY OtherOutcome
<1> QED
  BY <1>1, <1>2, <1>3, HandlerStep

\* An idle slot knows nothing, and a handler that ends leaves nothing to know.
LEMMA IdleKnows == Knows(IdleTask) /\ Aware(IdleTask)' /\ IdleTask.pc \notin Indexing
BY DEF Knows, Aware, IdleTask, Indexing

\* A handler without a PUT on the way.
LEMMA OwnsNothing ==
  ASSUME IInv, NEW t \in Tasks, tasks[t].pc \notin {"create_put", "put", "index_put"}
  PROVE  \A p \in puts : p.owner # t
<1>1. t # Nobody
  BY StoreConstants
<1> QED
  BY <1>1 DEF IInv, OwnersWait, Awaits

\* The PUT a handler waits for is its only one.
LEMMA OwnsOne ==
  ASSUME IInv, NEW t \in Tasks, NEW p \in puts, p.owner = t
  PROVE  \A q \in puts \ {p} : q.owner # t
<1>1. t # Nobody
  BY StoreConstants
<1> QED
  BY <1>1 DEF IInv, OnePut
-----------------------------------------------------------------------------
(* The invariant, action by action: the start of a request.                *)

\* KV is empty and nothing is under way.
LEMMA InitInv == Init => IInv
<1> SUFFICES ASSUME Init PROVE IInv
  OBVIOUS
<1>1. TypeOK
  <2>1. /\ records \in [Keys -> [revision: Nat, record: Record \union {None}]]
        /\ indexes \in [Orgs -> [revision: Nat, ids: Seq(Keys)]]
    BY DEF Init
  <2> QED
    BY <2>1 DEF Init, TypeOK
<1>2. Stored /\ PutsFollow /\ OwnersWait /\ OnePut
  BY DEF Init, Stored, PutsFollow, OwnersWait, OnePut
<1>3. CallsKnow /\ CallsAware
  BY DEF Init, CallsKnow, CallsAware, Knows, Aware, IdleTask, Indexing
<1>4. Told = {}
  <2>1. \A t \in Tasks : tasks[t].pc \notin Indexing
    BY DEF Init, IdleTask, Indexing
  <2> QED
    BY <2>1 DEF Init, Told
<1>5. DisclosedIsIndexed /\ RevocationsStand /\ ToldOnce /\ \A d \in Told : Agrees(d)
  BY <1>4 DEF Init, DisclosedIsIndexed, RevocationsStand, ToldOnce
<1>6. OutcomeRight
  BY DEF Init, OutcomeRight, NoOutcome, ListingComplete
<1> QED
  BY <1>1, <1>2, <1>3, <1>5, <1>6 DEF IInv

\* A step that changes at most the outcome.
LEMMA OutcomeOnly ==
  ASSUME IInv, UNCHANGED <<workload, records, indexes, tasks, puts, disclosed, revocations>>,
         OutcomeRight'
  PROVE  IInv'
<1>1. TypeOK' /\ Stored' /\ OwnersWait' /\ OnePut' /\ CallsKnow'
  BY DEF IInv, TypeOK, Stored, OwnersWait, OnePut, CallsKnow
<1>2. PutsFollow'
  BY PutsSound DEF IInv
<1>3. CallsAware'
  BY DEF IInv, CallsAware, Aware, CreatedKeys
<1>4. Told' = Told
  BY DEF Told
<1>5. ToldOnce' /\ \A d \in Told' : Agrees(d)'
  BY <1>4 DEF IInv, ToldOnce, Agrees
<1>6. DisclosedIsIndexed' /\ RevocationsStand'
  BY DEF IInv, DisclosedIsIndexed, RevocationsStand, Listed
<1> QED
  BY <1>1, <1>2, <1>3, <1>5, <1>6 DEF IInv

\* A request that select_user_org refuses, and a step that changes nothing.
LEMMA RefuseInv ==
  ASSUME IInv, (\E t \in Tasks, r \in Requests(workload) : Refuse(t, r)) \/ UNCHANGED vars
  PROVE  IInv'
<1>1. UNCHANGED <<workload, records, indexes, tasks, puts, disclosed, revocations>>
  BY DEF Refuse, vars, kvVars, ghosts
<1>2. CASE UNCHANGED vars
  <2>1. UNCHANGED <<outcome, records, indexes>>
    BY <1>2 DEF vars
  <2>2. OutcomeRight'
    BY <2>1 DEF IInv, OutcomeRight, ListingComplete, Listed
  <2> QED
    BY <1>1, <2>2, OutcomeOnly
<1>3. CASE \E t \in Tasks, r \in Requests(workload) : Refuse(t, r)
  <2>1. outcome'.kind = "forbidden"
    BY <1>3 DEF Refuse
  <2>2. OutcomeRight'
    BY <2>1, OtherOutcome
  <2> QED
    BY <1>1, <2>2, OutcomeOnly
<1> QED
  BY <1>2, <1>3

\* The call of a new request.
LEMMA NewTaskIs ==
  ASSUME TypeOK, NEW pc \in CallPcs, NEW r \in AllRequests, NEW org \in Orgs \union {None},
         NEW k \in Keys \union {None}
  PROVE  LET u == NewTask(pc, r, org, k) IN
         /\ u \in Call /\ u.pc = pc /\ u.request = r /\ u.org = org /\ u.key = k
         /\ u.dead <=> k \in revocations
         /\ u.known = IF r.op = "list" THEN CreatedKeys ELSE {}
<1>1. PICK kn, dd : /\ kn = IF r.op = "list" THEN CreatedKeys ELSE {}
                    /\ dd = (k \in revocations)
  OBVIOUS
<1>2. kn \subseteq Keys /\ dd \in BOOLEAN
  BY <1>1 DEF TypeOK, CreatedKeys
<1>3. NewTask(pc, r, org, k) =
        [pc |-> pc, request |-> r, org |-> org, key |-> k, attempts |-> 0, record |-> None,
         todo |-> <<>>, listing |-> {}, dead |-> dd, known |-> kn]
  BY <1>1 DEF NewTask, CreatedKeys
<1>9. <<>> \in Seq(Keys)
  OBVIOUS
<1>4. PICK td \in Seq(Keys) : td = <<>>
  BY <1>9
<1>5. PICK u : u = NewTask(pc, r, org, k)
  OBVIOUS
<1>6. u = [pc |-> pc, request |-> r, org |-> org, key |-> k, attempts |-> 0,
           record |-> None, todo |-> td, listing |-> {}, dead |-> dd, known |-> kn]
  BY <1>3, <1>4, <1>5
<1>7. u \in Call
  BY <1>2, <1>4, <1>6 DEF Call
<1>8. /\ u.pc = pc /\ u.request = r /\ u.org = org /\ u.key = k
      /\ u.dead = dd /\ u.known = kn
  BY <1>6
<1> QED
  BY <1>1, <1>5, <1>7, <1>8

\* rotate, revoke, introspect and list begin by reading.
LEMMA BeginReadInv ==
  ASSUME IInv, NEW t \in Tasks, NEW r \in Requests(workload),
         BeginMutate(t, r) \/ BeginIntrospect(t, r) \/ BeginList(t, r)
  PROVE  IInv'
<1>1. /\ tasks[t] = IdleTask /\ outcome' = NoOutcome /\ puts' = puts
      /\ UNCHANGED kvVars /\ UNCHANGED ghosts
  BY DEF BeginMutate, BeginIntrospect, BeginList, Quiet
<1>2. /\ TypeOK /\ Stored /\ PutsFollow /\ tasks[t].pc = "idle"
  BY <1>1 DEF IInv, IdleTask
<1>3. /\ KvMoves /\ \A p \in puts : Sound(p, records', indexes')
      /\ UNCHANGED <<workload, records, indexes>>
  BY <1>1, <1>2, KvSame
<1>4. /\ r \in AllRequests
      /\ r.op \in {"rotate", "revoke", "introspect"} => r.key \in Keys
      /\ r.op # "introspect" => r.actor \in Actors
  BY <1>2, RequestsAre
<1>5. \E u \in Call : /\ tasks' = [tasks EXCEPT ![t] = u] /\ Knows(u) /\ Aware(u)'
                      /\ u.pc \notin Indexing
  <2>1. CASE BeginMutate(t, r)
    <3>1. PICK org \in SelectUserOrg(r.actor, r.org) :
            tasks' = [tasks EXCEPT ![t] = NewTask("load", r, org, r.key)]
      BY <2>1 DEF BeginMutate
    <3>2. r.op \in {"rotate", "revoke"} /\ r.key \in Keys /\ org \in Orgs
      BY <1>4, <2>1, SelectedOrg DEF BeginMutate
    <3>3. PICK u : u = NewTask("load", r, org, r.key)
      OBVIOUS
    <3>4. /\ u \in Call /\ u.pc = "load" /\ u.request = r /\ u.org = org /\ u.key = r.key
      BY <1>2, <1>4, <3>2, <3>3, NewTaskIs DEF CallPcs
    <3>5. Knows(u) /\ Aware(u)' /\ u.pc \notin Indexing
      BY <3>2, <3>4 DEF Knows, Aware, Indexing
    <3> QED
      BY <3>1, <3>3, <3>4, <3>5
  <2>2. CASE BeginIntrospect(t, r)
    <3>1. PICK u : u = NewTask("introspect", r, None, r.key)
      OBVIOUS
    <3>2. /\ tasks' = [tasks EXCEPT ![t] = u] /\ r.op = "introspect" /\ r.key \in Keys
      BY <1>4, <2>2, <3>1 DEF BeginIntrospect
    <3>3. /\ u \in Call /\ u.pc = "introspect" /\ u.request = r /\ u.key = r.key
          /\ u.dead <=> r.key \in revocations
      BY <1>2, <1>4, <3>1, <3>2, NewTaskIs DEF CallPcs
    <3>4. Knows(u) /\ Aware(u)' /\ u.pc \notin Indexing
      BY <1>1, <3>2, <3>3 DEF Knows, Aware, Indexing, ghosts
    <3> QED
      BY <3>2, <3>3, <3>4
  <2>3. CASE BeginList(t, r)
    <3>1. PICK org \in SelectUserOrg(r.actor, r.org) :
            tasks' = [tasks EXCEPT ![t] = NewTask("list", r, org, None)]
      BY <2>3 DEF BeginList
    <3>2. r.op = "list" /\ org \in Orgs
      BY <1>4, <2>3, SelectedOrg DEF BeginList
    <3>3. PICK u : u = NewTask("list", r, org, None)
      OBVIOUS
    <3>4. /\ u \in Call /\ u.pc = "list" /\ u.org = org /\ u.known = CreatedKeys
      BY <1>2, <1>4, <3>2, <3>3, NewTaskIs DEF CallPcs
    <3>5. CreatedKeys' = CreatedKeys
      BY <1>1 DEF CreatedKeys, ghosts
    <3>6. Knows(u) /\ Aware(u)' /\ u.pc \notin Indexing
      BY <3>2, <3>4, <3>5 DEF Knows, Aware, Indexing
    <3> QED
      BY <3>1, <3>3, <3>4, <3>6
  <2> QED
    BY <2>1, <2>2, <2>3
<1>6. \A p \in puts' : p.owner # t
  BY <1>1, <1>2, OwnsNothing
<1>7. outcome'.kind = "none"
  BY <1>1 DEF NoOutcome
<1> QED
  BY <1>1, <1>3, <1>5, <1>6, <1>7, GoesOn

\* create begins with a PUT that expects no record.
LEMMA BeginCreateInv ==
  ASSUME IInv, NEW t \in Tasks, NEW r \in Requests(workload), BeginCreate(t, r)
  PROVE  IInv'
<1>1. /\ tasks[t] = IdleTask /\ r.op = "create" /\ outcome' = NoOutcome
      /\ UNCHANGED kvVars /\ UNCHANGED <<disclosed, revocations>>
  BY DEF BeginCreate, Quiet, ghosts
<1>2. PICK org \in SelectUserOrg(r.actor, r.org) :
        /\ tasks' = [tasks EXCEPT ![t] =
             [NewTask("create_put", r, org, KeyId(r, org)) EXCEPT !.record = NewRecord(r, org)]]
        /\ puts' = puts \union {RecordPut(t, KeyId(r, org), 0, NewRecord(r, org))}
  BY DEF BeginCreate
<1>3. /\ TypeOK /\ Stored /\ PutsFollow /\ tasks[t].pc = "idle" /\ puts \subseteq Put
  BY <1>1 DEF IInv, IdleTask, TypeOK
<1>4. /\ r \in AllRequests /\ r \in CreateRequests /\ org \in Orgs
  BY <1>1, <1>3, RequestsAre, SelectedOrg
<1>5. PICK k, rec : k = KeyId(r, org) /\ rec = NewRecord(r, org)
  OBVIOUS
<1>6. /\ k \in Keys /\ rec \in Record /\ Dated(rec) /\ rec.org = org
      /\ rec.secret = CreateSecret(r, org)
  BY <1>4, <1>5, NewRecordIs
<1>7. PICK v, u, p0 : /\ v = NewTask("create_put", r, org, k)
                      /\ u = [v EXCEPT !.record = rec]
                      /\ p0 = RecordPut(t, k, 0, rec)
  OBVIOUS
<1>8. v \in Call /\ v.pc = "create_put" /\ v.request = r /\ v.org = org /\ v.key = k
  BY <1>3, <1>4, <1>6, <1>7, NewTaskIs DEF CallPcs
<1>9. /\ u \in Call /\ u.pc = "create_put" /\ u.request = r /\ u.org = org /\ u.key = k
      /\ u.record = rec
  BY <1>6, <1>7, <1>8 DEF Call
<1>10. /\ p0 \in Put /\ p0.kind = "record" /\ p0.owner = t /\ p0.key = k
       /\ p0.prev_revision = 0 /\ p0.record = rec
  <2>1. 0 \in Nat
    OBVIOUS
  <2> QED
    BY <1>6, <1>7, <2>1, RecordPutIs
<1>11. tasks' = [tasks EXCEPT ![t] = u] /\ puts' = puts \union {p0}
  BY <1>2, <1>5, <1>7
<1>12. Knows(u) /\ Aware(u)' /\ u.pc \notin Indexing
  BY <1>1, <1>4, <1>6, <1>9 DEF Knows, Aware, Indexing
<1>13. /\ KvMoves /\ \A p \in puts : Sound(p, records', indexes')
       /\ UNCHANGED <<workload, records, indexes>>
  BY <1>1, <1>3, KvSame
<1>14. Sound(p0, records', indexes')
  <2>1. records'[k].revision \in Nat
    BY <1>3, <1>6, <1>13 DEF TypeOK
  <2> QED
    BY <1>6, <1>10, <2>1 DEF Sound
<1>15. \A p \in puts : p.owner # t
  BY <1>3, OwnsNothing
<1>16. /\ puts' \subseteq Put /\ \A p \in puts' : Sound(p, records', indexes')
       /\ \A p \in puts' : p.owner \notin {t, Nobody} => p \in puts
       /\ \A p, q \in puts' : p.owner = t /\ q.owner = t => p = q
       /\ \A p \in puts' : p.owner = t => Awaits(u, p)
  <2>1. Awaits(u, p0)
    BY <1>9, <1>10 DEF Awaits
  <2> QED
    BY <1>3, <1>10, <1>11, <1>13, <1>14, <1>15, <2>1
<1>17. OutcomeRight'
  BY <1>1, OtherOutcome DEF NoOutcome
<1> QED
  BY <1>1, <1>9, <1>11, <1>12, <1>13, <1>16, <1>17, HandlerStep
-----------------------------------------------------------------------------
(* create.                                                                 *)

\* The handler in slot t ends without telling its client anything new.
LEMMA EndsInv ==
  ASSUME IInv, KvMoves, NEW t \in Tasks, tasks' = [tasks EXCEPT ![t] = IdleTask],
         puts' \subseteq puts, \A p \in puts : Sound(p, records', indexes'),
         \A p \in puts' : p.owner # t, UNCHANGED ghosts,
         outcome'.kind \notin {"valid", "listed"}
  PROVE  IInv'
BY IdleKnows, GoesOn

\* Goto changes nothing but the pc.
LEMMA GotoMoves ==
  ASSUME TypeOK, NEW t \in Tasks, tasks[t].pc # "idle", NEW pc \in CallPcs, Goto(t, pc)
  PROVE  \E v \in Call :
           /\ tasks' = [tasks EXCEPT ![t] = v] /\ v.pc = pc
           /\ v.request = tasks[t].request /\ v.org = tasks[t].org
           /\ v.key = tasks[t].key /\ v.record = tasks[t].record
<1>1. PICK u : u = tasks[t]
  OBVIOUS
<1>2. u \in Call /\ u.attempts \in Nat
  BY <1>1, CallsAre, CallParts
<1>3. PICK v : v = [u EXCEPT !.pc = pc, !.attempts = u.attempts]
  OBVIOUS
<1>4. /\ v \in Call /\ v.pc = pc /\ v.request = u.request /\ v.org = u.org
      /\ v.key = u.key /\ v.record = u.record
  BY <1>2, <1>3 DEF Call
<1>5. v = [u EXCEPT !.pc = pc]
  BY <1>2, <1>3 DEF Call
<1>6. tasks' = [tasks EXCEPT ![t] = [tasks[t] EXCEPT !.pc = pc]]
  BY DEF Goto
<1>7. tasks' = [tasks EXCEPT ![t] = v]
  BY <1>1, <1>5, <1>6
<1> QED
  BY <1>1, <1>4, <1>7

\* The record of a create is stored.
LEMMA CreateAppliedInv ==
  ASSUME IInv, NEW t \in Tasks, NEW p \in puts, CreateApplied(t, p)
  PROVE  IInv'
<1>1. /\ tasks[t].pc = "create_put" /\ p.owner = t /\ Cas(p) /\ KvPut(p)
      /\ puts' = puts \ {p} /\ Goto(t, "index_load") /\ outcome' = NoOutcome
      /\ UNCHANGED ghosts
  BY DEF CreateApplied, Quiet
<1>2. /\ TypeOK /\ Stored /\ PutsFollow /\ t # Nobody /\ Knows(tasks[t])
  BY StoreConstants DEF IInv, CallsKnow
<1>3. p.kind = "record" /\ p.key = tasks[t].key /\ p.record = tasks[t].record
  BY <1>1, <1>2 DEF IInv, OwnersWait, Awaits
<1>4. /\ KvMoves /\ \A q \in puts : Sound(q, records', indexes')
      /\ records'[p.key].revision # 0 /\ records'[p.key].record = p.record
  BY <1>1, <1>2, <1>3, RecordPutStep
<1>5. PICK v \in Call :
        /\ tasks' = [tasks EXCEPT ![t] = v] /\ v.pc = "index_load"
        /\ v.request = tasks[t].request /\ v.org = tasks[t].org
        /\ v.key = tasks[t].key /\ v.record = tasks[t].record
  BY <1>1, <1>2, GotoMoves DEF CallPcs
<1>6. /\ v.request.op = "create" /\ v.org \in Orgs /\ v.key \in Keys /\ v.record \in Record
      /\ v.record.org = v.org /\ v.record.secret = CreateSecret(v.request, v.org)
  BY <1>1, <1>2, <1>5 DEF Knows
<1>7. Knows(v)
  BY <1>5, <1>6 DEF Knows, Indexing
<1>8. Aware(v)' /\ Current(Tells(v))'
  BY <1>3, <1>4, <1>5, <1>6 DEF Aware, Current, Tells
<1>9. \A q \in puts' : q.owner # t
  BY <1>1, OwnsOne
<1> QED
  BY <1>1, <1>4, <1>5, <1>7, <1>8, <1>9, GoesOn DEF NoOutcome

\* The create finds a record under its key.
LEMMA CreateMismatchInv ==
  ASSUME IInv, NEW t \in Tasks, NEW p \in puts, CreateMismatch(t, p)
  PROVE  IInv'
<1>1. /\ tasks[t].pc = "create_put" /\ p.owner = t /\ KvPut(p)
      /\ puts' = puts \ {p} /\ Goto(t, "create_load") /\ outcome' = NoOutcome
      /\ UNCHANGED ghosts
  BY DEF CreateMismatch, Quiet
<1>2. /\ TypeOK /\ Stored /\ PutsFollow /\ Knows(tasks[t])
  BY DEF IInv, CallsKnow
<1>3. KvMoves /\ \A q \in puts : Sound(q, records', indexes')
  BY <1>1, <1>2, KvPutStep
<1>4. PICK v \in Call :
        /\ tasks' = [tasks EXCEPT ![t] = v] /\ v.pc = "create_load"
        /\ v.request = tasks[t].request /\ v.org = tasks[t].org
        /\ v.key = tasks[t].key /\ v.record = tasks[t].record
  BY <1>1, <1>2, GotoMoves DEF CallPcs
<1>5. v.request.op = "create" /\ v.org \in Orgs /\ v.key \in Keys
  BY <1>1, <1>2, <1>4 DEF Knows
<1>6. Knows(v) /\ Aware(v)' /\ v.pc \notin Indexing
  BY <1>4, <1>5 DEF Knows, Aware, Indexing
<1>7. \A q \in puts' : q.owner # t
  BY <1>1, OwnsOne
<1> QED
  BY <1>1, <1>3, <1>4, <1>6, <1>7, GoesOn DEF NoOutcome

\* The record that is there is of the same request, or of another one.
LEMMA CreateLoadInv ==
  ASSUME IInv, NEW t \in Tasks, CreateLoad(t)
  PROVE  IInv'
<1>1. /\ tasks[t].pc = "create_load" /\ puts' = puts /\ UNCHANGED kvVars /\ UNCHANGED ghosts
  BY DEF CreateLoad
<1>2. /\ TypeOK /\ Stored /\ PutsFollow /\ Knows(tasks[t]) /\ tasks[t] \in Call
  BY <1>1, CallsAre DEF IInv, CallsKnow
<1>3. /\ KvMoves /\ \A p \in puts : Sound(p, records', indexes')
      /\ UNCHANGED <<workload, records, indexes>>
  BY <1>1, <1>2, KvSame
<1>4. \A p \in puts' : p.owner # t
  BY <1>1, OwnsNothing
<1>5. PICK u, stored : u = tasks[t] /\ stored = records[u.key]
  OBVIOUS
<1>6. u \in Call /\ u.request.op = "create" /\ u.org \in Orgs /\ u.key \in Keys
  BY <1>1, <1>2, <1>5 DEF Knows
<1>7. CASE stored.revision = 0 \/ ~SameCreateRequest(stored.record, u.request, u.org)
  <2>1. tasks' = [tasks EXCEPT ![t] = IdleTask]
        /\ outcome'.kind \in {"key_id_collision", "idempotency_conflict"}
    BY <1>5, <1>7 DEF CreateLoad, Fail, Answer
  <2> QED
    BY <1>1, <1>3, <1>4, <2>1, EndsInv
<1>8. CASE stored.revision # 0 /\ SameCreateRequest(stored.record, u.request, u.org)
  <2>1. PICK v : v = [u EXCEPT !.pc = "index_load", !.record = stored.record]
    OBVIOUS
  <2>2. tasks' = [tasks EXCEPT ![t] = v] /\ outcome' = NoOutcome
    BY <1>5, <1>8, <2>1 DEF CreateLoad, Quiet
  <2>3. /\ stored.record \in Record /\ stored.record.org = u.org
        /\ stored.record.secret = CreateSecret(u.request, u.org)
    BY <1>2, <1>5, <1>6, <1>8 DEF Stored, SameCreateRequest
  <2>4. /\ v \in Call /\ v.pc = "index_load" /\ v.request = u.request /\ v.org = u.org
        /\ v.key = u.key /\ v.record = stored.record
    BY <1>6, <2>1, <2>3 DEF Call, CallPcs
  <2>5. Knows(v)
    BY <1>6, <2>3, <2>4 DEF Knows, Indexing
  <2>6. Aware(v)' /\ Current(Tells(v))'
    BY <1>3, <1>5, <1>6, <1>8, <2>3, <2>4 DEF Aware, Current, Tells
  <2> QED
    BY <1>1, <1>3, <1>4, <2>2, <2>4, <2>5, <2>6, GoesOn DEF NoOutcome
<1> QED
  BY <1>7, <1>8

\* create answers once its key is in the index.
LEMMA CreatedInv ==
  ASSUME IInv, KvMoves, NEW t \in Tasks, tasks[t].pc \in Indexing, Created(t),
         Occurs(tasks[t].key, indexes'[tasks[t].org].ids),
         puts' \subseteq puts, \A p \in puts : Sound(p, records', indexes'),
         \A p \in puts' : p.owner # t
  PROVE  IInv'
<1>1. PICK u, d0 : u = tasks[t] /\ d0 = Tells(u)
  OBVIOUS
<1>2. /\ TypeOK /\ Stored /\ Knows(u) /\ Aware(u) /\ puts \subseteq Put
  BY <1>1 DEF IInv, CallsKnow, CallsAware, TypeOK
<1>3. /\ u.key \in Keys /\ u.org \in Orgs /\ u.record \in Record
      /\ u.record.secret = CreateSecret(u.request, u.org)
      /\ records[u.key].revision # 0 /\ records[u.key].record.org = u.org
  BY <1>1, <1>2 DEF Knows, Aware
<1>4. /\ disclosed' = disclosed \union {d0} /\ revocations' = revocations
      /\ tasks' = [tasks EXCEPT ![t] = IdleTask] /\ outcome'.kind = "created"
  BY <1>1, <1>3 DEF Created, Answer, Tells
<1>5. d0 \in Disclosure /\ d0 \in Told /\ d0.key = u.key
  <2>1. u.record.secret \in Secrets /\ u.record.version \in 1 .. MAX_VERSION
    BY <1>3 DEF Record
  <2> QED
    BY <1>1, <1>3, <2>1 DEF Disclosure, Tells, Told
<1>6. Indexed(d0)'
  <2>1. records'[u.key].revision # 0 /\ records'[u.key].record.org = u.org
    BY <1>2, <1>3, RecordStays
  <2> QED
    BY <1>1, <1>5, <2>1 DEF Indexed
<1>7. OutcomeRight'
  BY <1>4, OtherOutcome
<1>8. puts' \subseteq Put
  BY <1>2
<1> QED
  BY <1>4, <1>5, <1>6, <1>7, <1>8, IdleKnows, HandlerStep

\* index_add finds the key in the index.
LEMMA IndexHasKeyInv ==
  ASSUME IInv, NEW t \in Tasks, IndexHasKey(t)
  PROVE  IInv'
<1>1. /\ tasks[t].pc = "index_load" /\ Listed(tasks[t].key, tasks[t].org) /\ Created(t)
      /\ puts' = puts /\ UNCHANGED kvVars
  BY DEF IndexHasKey
<1>2. TypeOK /\ Stored /\ PutsFollow
  BY DEF IInv
<1>3. /\ KvMoves /\ \A p \in puts : Sound(p, records', indexes')
      /\ UNCHANGED <<workload, records, indexes>>
  BY <1>1, <1>2, KvSame
<1>4. \A p \in puts' : p.owner # t
  BY <1>1, OwnsNothing
<1>5. Occurs(tasks[t].key, indexes'[tasks[t].org].ids)
  BY <1>1, <1>3 DEF Listed, Occurs
<1> QED
  BY <1>1, <1>3, <1>4, <1>5, CreatedInv DEF Indexing

\* The index that index_add wrote is stored.
LEMMA IndexAppliedInv ==
  ASSUME IInv, NEW t \in Tasks, NEW p \in puts, IndexApplied(t, p)
  PROVE  IInv'
<1>1. /\ tasks[t].pc = "index_put" /\ p.owner = t /\ Cas(p) /\ KvPut(p)
      /\ puts' = puts \ {p} /\ Created(t)
  BY DEF IndexApplied
<1>2. TypeOK /\ Stored /\ PutsFollow /\ t # Nobody
  BY StoreConstants DEF IInv
<1>3. p.kind = "index" /\ p.org = tasks[t].org /\ Occurs(tasks[t].key, p.ids)
  BY <1>1, <1>2 DEF IInv, OwnersWait, Awaits
<1>4. /\ KvMoves /\ \A q \in puts : Sound(q, records', indexes')
      /\ indexes'[p.org].ids = p.ids
  BY <1>1, <1>2, <1>3, IndexPutStep
<1>5. \A q \in puts' : q.owner # t
  BY <1>1, OwnsOne
<1> QED
  BY <1>1, <1>3, <1>4, <1>5, CreatedInv DEF Indexing

\* Append keeps every entry and adds one.
LEMMA AppendOccurs ==
  ASSUME NEW ids \in Seq(Keys), NEW k \in Keys
  PROVE  /\ Append(ids, k) \in Seq(Keys) /\ Occurs(k, Append(ids, k))
         /\ \A j \in Keys : Occurs(j, ids) => Occurs(j, Append(ids, k))
<1>1. /\ Append(ids, k) \in Seq(Keys) /\ Len(Append(ids, k)) = Len(ids) + 1
      /\ \A i \in 1 .. Len(ids) : Append(ids, k)[i] = ids[i]
      /\ Append(ids, k)[Len(ids) + 1] = k /\ Len(ids) \in Nat
  BY AppendProperties
<1>2. PICK n, s : n = Len(ids) /\ s = Append(ids, k)
  OBVIOUS
<1>3. /\ s \in Seq(Keys) /\ Len(s) = n + 1 /\ n \in Nat
      /\ \A i \in 1 .. n : s[i] = ids[i]
      /\ s[n + 1] = k
  BY <1>1, <1>2
<1>4. n + 1 \in 1 .. Len(s) /\ \A i \in 1 .. n : i \in 1 .. Len(s)
  BY <1>3
<1>5. Occurs(k, s) /\ \A j \in Keys : Occurs(j, ids) => Occurs(j, s)
  BY <1>2, <1>3, <1>4 DEF Occurs
<1> QED
  BY <1>2, <1>3, <1>5

\* index_add writes the index with the key added.
LEMMA IndexLacksKeyInv ==
  ASSUME IInv, NEW t \in Tasks, IndexLacksKey(t)
  PROVE  IInv'
<1>1. PICK u, stored, ids, p0 :
        /\ u = tasks[t] /\ stored = indexes[u.org] /\ ids = Append(stored.ids, u.key)
        /\ p0 = IndexPut(t, u.org, stored.revision, ids)
  OBVIOUS
<1>2. /\ tasks[t].pc = "index_load" /\ puts' = puts \union {p0}
      /\ Goto(t, "index_put") /\ outcome' = NoOutcome
      /\ UNCHANGED kvVars /\ UNCHANGED <<disclosed, revocations>>
  BY <1>1 DEF IndexLacksKey, Quiet, ghosts
<1>3. /\ TypeOK /\ Stored /\ PutsFollow /\ Knows(u) /\ Aware(u) /\ puts \subseteq Put
  BY <1>1 DEF IInv, CallsKnow, CallsAware, TypeOK
<1>4. /\ u.key \in Keys /\ u.org \in Orgs /\ u.record \in Record /\ u.record.org = u.org
      /\ u.request.op = "create" /\ u.record.secret = CreateSecret(u.request, u.org)
      /\ records[u.key].revision # 0 /\ records[u.key].record.org = u.org
  BY <1>1, <1>2, <1>3 DEF Knows, Aware, Indexing
<1>5. stored.revision \in Nat /\ stored.ids \in Seq(Keys)
  BY <1>1, <1>3, <1>4 DEF TypeOK
<1>6. /\ ids \in Seq(Keys) /\ Occurs(u.key, ids)
      /\ \A j \in Keys : Occurs(j, stored.ids) => Occurs(j, ids)
  BY <1>1, <1>4, <1>5, AppendOccurs
<1>7. /\ p0 \in Put /\ p0.kind = "index" /\ p0.owner = t /\ p0.org = u.org
      /\ p0.prev_revision = stored.revision /\ p0.ids = ids
  <2>1. p0 = IndexPut(t, u.org, stored.revision, ids)
    BY <1>1
  <2> QED
    BY <1>4, <1>5, <1>6, <2>1, IndexPutIs
<1>8. PICK v \in Call :
        /\ tasks' = [tasks EXCEPT ![t] = v] /\ v.pc = "index_put"
        /\ v.request = u.request /\ v.org = u.org
        /\ v.key = u.key /\ v.record = u.record
  BY <1>1, <1>2, <1>3, GotoMoves DEF CallPcs
<1>9. /\ KvMoves /\ \A p \in puts : Sound(p, records', indexes')
      /\ UNCHANGED <<workload, records, indexes>>
  BY <1>2, <1>3, KvSame
<1>10. Knows(v) /\ Aware(v)'
  <2>1. Knows(v)
    BY <1>4, <1>8 DEF Knows, Indexing
  <2>2. records'[v.key].revision # 0 /\ records'[v.key].record.org = v.org
    BY <1>4, <1>8, <1>9
  <2> QED
    BY <1>8, <2>1, <2>2 DEF Aware
<1>11. Tells(v) \in Told
  <2>1. Tells(v) = Tells(tasks[t])
    BY <1>1, <1>8 DEF Tells
  <2> QED
    BY <1>2, <2>1 DEF Told, Tells, Indexing
<1>12. Sound(p0, records', indexes')
  <2>1. indexes'[p0.org] = stored
    BY <1>1, <1>7, <1>9
  <2> QED
    BY <1>5, <1>6, <1>7, <2>1 DEF Sound
<1>13. \A p \in puts : p.owner # t
  BY <1>2, OwnsNothing
<1>14. /\ puts' \subseteq Put /\ \A p \in puts' : Sound(p, records', indexes')
       /\ \A p \in puts' : p.owner \notin {t, Nobody} => p \in puts
       /\ \A p, q \in puts' : p.owner = t /\ q.owner = t => p = q
       /\ \A p \in puts' : p.owner = t => Awaits(v, p)
  <2>1. Awaits(v, p0)
    BY <1>6, <1>7, <1>8 DEF Awaits
  <2> QED
    BY <1>2, <1>3, <1>7, <1>9, <1>12, <1>13, <2>1
<1>15. OutcomeRight'
  BY <1>2, OtherOutcome DEF NoOutcome
<1> QED
  BY <1>2, <1>8, <1>9, <1>10, <1>11, <1>14, <1>15, HandlerStep

\* A CAS loop begins its next turn, or gives up.
LEMMA RetryMoves ==
  ASSUME TypeOK, NEW t \in Tasks, tasks[t].pc # "idle", NEW pc \in CallPcs, Retry(t, pc)
  PROVE  /\ outcome'.kind \in {"none", "cas_exhausted"}
         /\ \/ tasks' = [tasks EXCEPT ![t] = IdleTask]
            \/ \E v \in Call :
                 /\ tasks' = [tasks EXCEPT ![t] = v] /\ v.pc = pc
                 /\ v.request = tasks[t].request /\ v.org = tasks[t].org
                 /\ v.key = tasks[t].key /\ v.record = tasks[t].record
<1>1. CASE ~(tasks[t].attempts + 1 < MAX_CAS_RETRIES)
  BY <1>1 DEF Retry, Fail, Answer
<1>2. CASE tasks[t].attempts + 1 < MAX_CAS_RETRIES
  <2>1. PICK u : u = tasks[t]
    OBVIOUS
  <2>2. u \in Call /\ u.attempts \in Nat
    BY <2>1, CallsAre, CallParts
  <2>3. PICK n : n = u.attempts + 1
    OBVIOUS
  <2>4. n \in Nat
    BY <2>2, <2>3
  <2>5. PICK v : v = [u EXCEPT !.pc = pc, !.attempts = n]
    OBVIOUS
  <2>6. /\ v \in Call /\ v.pc = pc /\ v.request = u.request /\ v.org = u.org
        /\ v.key = u.key /\ v.record = u.record
    BY <2>2, <2>4, <2>5 DEF Call
  <2>7. tasks' = [tasks EXCEPT ![t] = [tasks[t] EXCEPT !.pc = pc,
                                         !.attempts = tasks[t].attempts + 1]]
    BY <1>2 DEF Retry
  <2>8. tasks' = [tasks EXCEPT ![t] = v]
    BY <2>1, <2>3, <2>5, <2>7
  <2>9. outcome'.kind = "none"
    BY <1>2 DEF Retry, Quiet, NoOutcome
  <2> QED
    BY <2>1, <2>6, <2>8, <2>9
<1> QED
  BY <1>1, <1>2

\* The PUT of the index, or of a rotated or revoked record, is refused.
LEMMA MismatchInv ==
  ASSUME IInv, NEW t \in Tasks, NEW p \in puts, IndexMismatch(t, p) \/ PutMismatch(t, p)
  PROVE  IInv'
<1>1. /\ p.owner = t /\ KvPut(p) /\ ~Cas(p) /\ puts' = puts \ {p} /\ UNCHANGED ghosts
  BY DEF IndexMismatch, PutMismatch
<1>2. /\ TypeOK /\ Stored /\ PutsFollow
      /\ Knows(tasks[t]) /\ Aware(tasks[t])
  BY DEF IInv, CallsKnow, CallsAware
<1>3. /\ KvMoves /\ \A q \in puts : Sound(q, records', indexes')
      /\ UNCHANGED <<workload, records, indexes>>
  BY <1>1, <1>2, KvPutStep
<1>4. \A q \in puts' : q.owner # t
  BY <1>1, OwnsOne
<1>5. PICK pc \in {"index_load", "load"} :
        /\ Retry(t, pc)
        /\ pc = "index_load" => tasks[t].pc = "index_put"
        /\ pc = "load" => tasks[t].pc = "put"
  BY DEF IndexMismatch, PutMismatch
<1>6. /\ outcome'.kind \in {"none", "cas_exhausted"}
      /\ \/ tasks' = [tasks EXCEPT ![t] = IdleTask]
         \/ \E v \in Call :
              /\ tasks' = [tasks EXCEPT ![t] = v] /\ v.pc = pc
              /\ v.request = tasks[t].request /\ v.org = tasks[t].org
              /\ v.key = tasks[t].key /\ v.record = tasks[t].record
  BY <1>2, <1>5, RetryMoves DEF CallPcs
<1>7. CASE tasks' = [tasks EXCEPT ![t] = IdleTask]
  BY <1>1, <1>3, <1>4, <1>6, <1>7, EndsInv
<1>8. ASSUME NEW v \in Call, tasks' = [tasks EXCEPT ![t] = v], v.pc = pc,
             v.request = tasks[t].request, v.org = tasks[t].org,
             v.key = tasks[t].key, v.record = tasks[t].record
      PROVE  IInv'
  <2>1. Knows(v) /\ Aware(v)'
    BY <1>2, <1>3, <1>5, <1>8 DEF Knows, Aware, Indexing
  <2>2. v.pc \in Indexing => Tells(v) \in Told
    <3>1. Tells(v) = Tells(tasks[t])
      BY <1>8 DEF Tells
    <3> QED
      BY <1>5, <1>8, <3>1 DEF Told, Tells, Indexing
  <2> QED
    BY <1>1, <1>3, <1>4, <1>6, <1>8, <2>1, <2>2, GoesOn
<1> QED
  BY <1>6, <1>7, <1>8
-----------------------------------------------------------------------------
(* rotate and revoke.                                                      *)

\* A rotate or revoke succeeds with the record that is stored.
LEMMA SucceedInv ==
  ASSUME IInv, KvMoves, NEW t \in Tasks, tasks[t].pc \in {"load", "put"},
         NEW rec \in Record, Succeed(t, rec),
         records'[tasks[t].key].revision # 0, records'[tasks[t].key].record = rec,
         tasks[t].request.op = "rotate" =>
           rec.version # 1 /\ rec.secret = RotationSecret(tasks[t].request, tasks[t].org),
         tasks[t].request.op = "revoke" => rec.revoked,
         puts' \subseteq puts, \A p \in puts : Sound(p, records', indexes'),
         \A p \in puts' : p.owner # t
  PROVE  IInv'
<1>1. PICK u, d0 : /\ u = tasks[t]
                   /\ d0 = [key |-> u.key, secret |-> rec.secret, version |-> rec.version]
  OBVIOUS
<1>2. /\ u.request.op \in {"rotate", "revoke"} /\ u.key \in Keys /\ puts \subseteq Put
  BY <1>1 DEF IInv, CallsKnow, Knows, TypeOK
<1>3. tasks' = [tasks EXCEPT ![t] = IdleTask] /\ outcome'.kind = "ok"
  BY DEF Succeed, Answer
<1>4. OutcomeRight'
  BY <1>3, OtherOutcome
<1>5. puts' \subseteq Put
  BY <1>2
<1>6. CASE u.request.op = "rotate"
  <2>1. disclosed' = disclosed \union {d0} /\ revocations' = revocations
    BY <1>1, <1>6 DEF Succeed
  <2>2. d0 \in Disclosure /\ d0.version # 1
    <3>1. rec.secret \in Secrets /\ rec.version \in 1 .. MAX_VERSION
      BY DEF Record
    <3> QED
      BY <1>1, <1>2, <1>6, <3>1 DEF Disclosure
  <2>3. Current(d0)'
    BY <1>1, <1>2 DEF Current
  <2> QED
    BY <1>3, <1>4, <1>5, <2>1, <2>2, <2>3, IdleKnows, HandlerStep
<1>7. CASE u.request.op = "revoke"
  <2>1. disclosed' = disclosed /\ revocations' = revocations \union {u.key}
    BY <1>1, <1>7 DEF Succeed
  <2>2. u.key \in Keys /\ records'[u.key].revision # 0 /\ records'[u.key].record.revoked
    BY <1>1, <1>2, <1>7
  <2> QED
    BY <1>3, <1>4, <1>5, <2>1, <2>2, IdleKnows, HandlerStep
<1> QED
  BY <1>2, <1>6, <1>7

\* rotate or revoke finds that it was done already.
LEMMA LoadReplaysInv ==
  ASSUME IInv, NEW t \in Tasks, LoadReplays(t)
  PROVE  IInv'
<1>1. PICK u, stored, rec :
        u = tasks[t] /\ stored = records[u.key] /\ rec = stored.record
  OBVIOUS
<1>2. /\ u.pc = "load" /\ LoadResult(t) = "replay" /\ Succeed(t, rec)
      /\ puts' = puts /\ UNCHANGED kvVars
  BY <1>1 DEF LoadReplays
<1>3. /\ TypeOK /\ Stored /\ PutsFollow /\ Knows(u)
  BY <1>1 DEF IInv, CallsKnow
<1>4. /\ KvMoves /\ \A p \in puts : Sound(p, records', indexes')
      /\ UNCHANGED <<workload, records, indexes>>
  BY <1>2, <1>3, KvSame
<1>5. /\ u.request.op \in {"rotate", "revoke"} /\ u.org \in Orgs /\ u.key \in Keys
  BY <1>2, <1>3 DEF Knows
<1>6. u.request \in AllRequests
  BY <1>1, <1>2, <1>3, CallsAre, CallParts
<1>7. /\ stored.revision # 0
      /\ u.request.op = "rotate" =>
           /\ rec.rotation_marker = RotationMarker(u.request, u.org)
           /\ rec.secret = RotationSecret(u.request, u.org)
      /\ u.request.op = "revoke" => rec.revoked
  BY <1>1, <1>2, <1>5 DEF LoadResult, RotateResult, RevokeResult
<1>8. rec \in Record /\ Dated(rec)
  BY <1>1, <1>3, <1>5, <1>7 DEF Stored
<1>9. u.request.op = "rotate" => rec.version # 1
  <2>1. u.request.op = "rotate" => RotationMarker(u.request, u.org) # None
    BY <1>5, <1>6, StoreConstants
  <2> QED
    BY <1>7, <1>8, <2>1 DEF Dated
<1>10. \A p \in puts' : p.owner # t
  BY <1>1, <1>2, OwnsNothing
<1>11. records'[tasks[t].key].revision # 0 /\ records'[tasks[t].key].record = rec
  BY <1>1, <1>4, <1>7
<1> QED
  BY <1>1, <1>2, <1>4, <1>7, <1>8, <1>9, <1>10, <1>11, SucceedInv

\* rotate or revoke refuses the record it loaded.
LEMMA LoadFailsInv ==
  ASSUME IInv, NEW t \in Tasks, LoadFails(t)
  PROVE  IInv'
<1>1. /\ tasks[t].pc = "load" /\ LoadResult(t) \notin {"replay", "put"}
      /\ tasks' = [tasks EXCEPT ![t] = IdleTask] /\ outcome'.kind = LoadResult(t)
      /\ puts' = puts /\ UNCHANGED kvVars /\ UNCHANGED ghosts
  BY DEF LoadFails, Fail, Answer
<1>2. /\ TypeOK /\ Stored /\ PutsFollow
  BY DEF IInv
<1>3. LoadResult(t) \in {"not_found", "invalid_value", "version_overflow"}
  BY <1>1 DEF LoadResult, RotateResult, RevokeResult
<1>4. /\ KvMoves /\ \A p \in puts : Sound(p, records', indexes')
  BY <1>1, <1>2, KvSame
<1>5. \A p \in puts' : p.owner # t
  BY <1>1, OwnsNothing
<1> QED
  BY <1>1, <1>3, <1>4, <1>5, EndsInv

\* rotate or revoke writes a record that follows the one it loaded.
LEMMA LoadMutatesInv ==
  ASSUME IInv, NEW t \in Tasks, LoadMutates(t)
  PROVE  IInv'
<1>1. PICK u, stored, rec, p0, v :
        /\ u = tasks[t] /\ stored = records[u.key] /\ rec = Mutated(t, stored.record)
        /\ p0 = RecordPut(t, u.key, stored.revision, rec)
        /\ v = [u EXCEPT !.pc = "put", !.record = rec]
  OBVIOUS
<1>2. /\ tasks[t].pc = "load" /\ LoadResult(t) = "put" /\ puts' = puts \union {p0}
      /\ tasks' = [tasks EXCEPT ![t] = [tasks[t] EXCEPT !.pc = "put", !.record = rec]]
      /\ outcome' = NoOutcome
      /\ UNCHANGED kvVars /\ UNCHANGED <<disclosed, revocations>>
  BY <1>1 DEF LoadMutates, Quiet, ghosts
<1>3. /\ TypeOK /\ Stored /\ PutsFollow /\ Knows(u) /\ puts \subseteq Put
  BY <1>1 DEF IInv, CallsKnow, TypeOK
<1>4. /\ u.request.op \in {"rotate", "revoke"} /\ u.org \in Orgs /\ u.key \in Keys
  BY <1>1, <1>2, <1>3 DEF Knows
<1>5. u \in Call /\ u.request \in AllRequests
  BY <1>1, <1>2, <1>3, CallsAre, CallParts
<1>6. /\ stored.revision # 0 /\ ~stored.record.revoked
      /\ stored.record.version # MAX_VERSION
  BY <1>1, <1>2, <1>4 DEF LoadResult, RotateResult, RevokeResult
<1>7. stored.record \in Record /\ stored.revision \in Nat
  BY <1>1, <1>3, <1>4, <1>6 DEF Stored, TypeOK
<1>8. /\ rec \in Record /\ Dated(rec) /\ Follows(rec, stored.record) /\ rec.version # 1
      /\ u.request.op = "rotate" => rec.secret = RotationSecret(u.request, u.org)
      /\ u.request.op = "revoke" => rec.revoked
  <2>1. CASE u.request.op = "rotate"
    <3>1. rec = Rotated(stored.record, u.request, u.org)
      BY <1>1, <2>1 DEF Mutated
    <3> QED
      BY <1>4, <1>5, <1>6, <1>7, <2>1, <3>1, RotatedIs
  <2>2. CASE u.request.op = "revoke"
    <3>1. rec = Revoked(stored.record)
      BY <1>1, <2>2 DEF Mutated
    <3> QED
      BY <1>6, <1>7, <2>2, <3>1, RevokedIs
  <2> QED
    BY <1>4, <2>1, <2>2
<1>9. /\ v \in Call /\ v.pc = "put" /\ v.request = u.request /\ v.org = u.org
      /\ v.key = u.key /\ v.record = rec
  <2>1. v = [u EXCEPT !.pc = "put", !.record = rec]
    BY <1>1
  <2> QED
    BY <1>5, <1>8, <2>1 DEF Call, CallPcs
<1>10. tasks' = [tasks EXCEPT ![t] = v]
  BY <1>1, <1>2
<1>11. /\ p0 \in Put /\ p0.kind = "record" /\ p0.owner = t /\ p0.key = u.key
       /\ p0.prev_revision = stored.revision /\ p0.record = rec
  <2>1. p0 = RecordPut(t, u.key, stored.revision, rec)
    BY <1>1
  <2> QED
    BY <1>4, <1>7, <1>8, <2>1, RecordPutIs
<1>12. /\ KvMoves /\ \A p \in puts : Sound(p, records', indexes')
       /\ UNCHANGED <<workload, records, indexes>>
  BY <1>2, <1>3, KvSame
<1>13. Knows(v) /\ Aware(v)' /\ v.pc \notin Indexing
  <2>1. Knows(v)
    BY <1>4, <1>8, <1>9 DEF Knows, Indexing
  <2> QED
    BY <1>9, <2>1 DEF Aware, Indexing
<1>14. Sound(p0, records', indexes')
  <2>1. records'[p0.key] = stored
    BY <1>1, <1>11, <1>12
  <2> QED
    BY <1>7, <1>8, <1>11, <2>1 DEF Sound
<1>15. \A p \in puts : p.owner # t
  BY <1>2, OwnsNothing
<1>16. /\ puts' \subseteq Put /\ \A p \in puts' : Sound(p, records', indexes')
       /\ \A p \in puts' : p.owner \notin {t, Nobody} => p \in puts
       /\ \A p, q \in puts' : p.owner = t /\ q.owner = t => p = q
       /\ \A p \in puts' : p.owner = t => Awaits(v, p)
  <2>1. Awaits(v, p0)
    BY <1>9, <1>11 DEF Awaits
  <2> QED
    BY <1>2, <1>3, <1>11, <1>12, <1>14, <1>15, <2>1
<1>17. OutcomeRight'
  BY <1>2, OtherOutcome DEF NoOutcome
<1> QED
  BY <1>2, <1>9, <1>10, <1>12, <1>13, <1>16, <1>17, HandlerStep

\* The rotated or revoked record is stored.
LEMMA PutAppliedInv ==
  ASSUME IInv, NEW t \in Tasks, NEW p \in puts, PutApplied(t, p)
  PROVE  IInv'
<1>1. /\ tasks[t].pc = "put" /\ p.owner = t /\ Cas(p) /\ KvPut(p)
      /\ puts' = puts \ {p} /\ Succeed(t, tasks[t].record)
  BY DEF PutApplied
<1>2. /\ TypeOK /\ Stored /\ PutsFollow /\ t # Nobody /\ Knows(tasks[t])
  BY StoreConstants DEF IInv, CallsKnow
<1>3. p.kind = "record" /\ p.key = tasks[t].key /\ p.record = tasks[t].record
  BY <1>1, <1>2 DEF IInv, OwnersWait, Awaits
<1>4. /\ KvMoves /\ \A q \in puts : Sound(q, records', indexes')
      /\ records'[p.key].revision # 0 /\ records'[p.key].record = p.record
  BY <1>1, <1>2, <1>3, RecordPutStep
<1>5. PICK rec : rec = tasks[t].record
  OBVIOUS
<1>6. /\ rec \in Record /\ rec.version # 1
      /\ tasks[t].request.op = "rotate" =>
           rec.secret = RotationSecret(tasks[t].request, tasks[t].org)
      /\ tasks[t].request.op = "revoke" => rec.revoked
  BY <1>1, <1>2, <1>5 DEF Knows
<1>7. \A q \in puts' : q.owner # t
  BY <1>1, OwnsOne
<1>8. /\ Succeed(t, rec) /\ puts' \subseteq puts
      /\ records'[tasks[t].key].revision # 0 /\ records'[tasks[t].key].record = rec
  BY <1>1, <1>3, <1>4, <1>5
<1> QED
  BY <1>1, <1>4, <1>6, <1>7, <1>8, SucceedInv
-----------------------------------------------------------------------------
(* introspect and list.                                                    *)

\* introspect keeps the record it loaded.
LEMMA IntrospectLoadInv ==
  ASSUME IInv, NEW t \in Tasks, IntrospectLoad(t)
  PROVE  IInv'
<1>1. PICK u, stored : u = tasks[t] /\ stored = records[u.key]
  OBVIOUS
<1>2. /\ tasks[t].pc = "introspect" /\ puts' = puts /\ UNCHANGED kvVars /\ UNCHANGED ghosts
  BY DEF IntrospectLoad
<1>3. /\ TypeOK /\ Stored /\ PutsFollow /\ Knows(u) /\ Aware(u) /\ u \in Call
      /\ RevocationsStand
  BY <1>1, <1>2, CallsAre DEF IInv, CallsKnow, CallsAware
<1>4. /\ KvMoves /\ \A p \in puts : Sound(p, records', indexes')
      /\ UNCHANGED <<workload, records, indexes>>
  BY <1>2, <1>3, KvSame
<1>5. \A p \in puts' : p.owner # t
  BY <1>2, OwnsNothing
<1>6. u.request.op = "introspect" /\ u.key = u.request.key /\ u.key \in Keys
  BY <1>1, <1>2, <1>3 DEF Knows
<1>7. CASE stored.revision = 0
  <2>1. tasks' = [tasks EXCEPT ![t] = IdleTask] /\ outcome'.kind = "invalid"
    BY <1>1, <1>7 DEF IntrospectLoad, Fail, Answer
  <2> QED
    BY <1>2, <1>4, <1>5, <2>1, EndsInv
<1>8. CASE stored.revision # 0
  <2>1. PICK v : v = [u EXCEPT !.pc = "membership", !.record = stored.record]
    OBVIOUS
  <2>2. tasks' = [tasks EXCEPT ![t] = v] /\ outcome' = NoOutcome
    BY <1>1, <1>8, <2>1 DEF IntrospectLoad, Quiet
  <2>3. stored.record \in Record
    BY <1>1, <1>3, <1>6, <1>8 DEF Stored
  <2>4. /\ v \in Call /\ v.pc = "membership" /\ v.request = u.request
        /\ v.key = u.key /\ v.record = stored.record /\ v.dead = u.dead
    BY <1>3, <2>1, <2>3 DEF Call, CallPcs
  <2>5. Knows(v) /\ v.pc \notin Indexing
    BY <1>6, <2>3, <2>4 DEF Knows, Indexing
  <2>6. Aware(v)'
    <3>1. records'[v.key] = stored
      BY <1>1, <1>4, <2>4
    <3>2. v.dead => v.record.revoked
      BY <1>1, <1>2, <1>3, <2>4 DEF Aware, RevocationsStand
    <3> QED
      BY <1>8, <2>4, <3>1, <3>2 DEF Aware, Indexing
  <2> QED
    BY <1>2, <1>4, <1>5, <2>2, <2>4, <2>5, <2>6, GoesOn DEF NoOutcome
<1> QED
  BY <1>7, <1>8

\* introspect judges the record it loaded by the index it loads now.
LEMMA IntrospectIndexInv ==
  ASSUME IInv, NEW t \in Tasks, IntrospectIndex(t)
  PROVE  IInv'
<1>1. PICK u : u = tasks[t]
  OBVIOUS
<1>2. /\ u.pc = "membership" /\ tasks' = [tasks EXCEPT ![t] = IdleTask]
      /\ outcome'.kind = Introspected(t) /\ outcome'.request = u.request
      /\ outcome'.dead = u.dead
      /\ puts' = puts /\ UNCHANGED kvVars /\ UNCHANGED <<disclosed, revocations>>
  BY <1>1 DEF IntrospectIndex, Answer, ghosts
<1>3. /\ TypeOK /\ Stored /\ PutsFollow /\ Knows(u) /\ Aware(u) /\ puts \subseteq Put
  BY <1>1 DEF IInv, CallsKnow, CallsAware, TypeOK
<1>4. /\ KvMoves /\ \A p \in puts : Sound(p, records', indexes')
      /\ UNCHANGED <<workload, records, indexes>>
  BY <1>2, <1>3, KvSame
<1>5. \A p \in puts' : p.owner # t
  BY <1>1, <1>2, OwnsNothing
<1>6. /\ u.key = u.request.key /\ records[u.key].record.org = u.record.org
      /\ u.dead => u.record.revoked
  BY <1>2, <1>3 DEF Knows, Aware
<1>7. outcome'.kind \in {"valid", "invalid"}
      /\ (outcome'.kind = "valid" => Listed(u.key, u.record.org) /\ ~u.record.revoked)
  BY <1>1, <1>2 DEF Introspected, Verify
<1>8. OutcomeRight'
  <2>1. outcome'.kind = "valid" =>
          /\ ~outcome'.dead
          /\ \E i \in 1 .. Len(indexes'[records'[outcome'.request.key].record.org].ids) :
               indexes'[records'[outcome'.request.key].record.org].ids[i]
                 = outcome'.request.key
    BY <1>2, <1>4, <1>6, <1>7 DEF Listed
  <2> QED
    BY <1>7, <2>1 DEF OutcomeRight, ListingComplete, Listed
<1> QED
  BY <1>2, <1>3, <1>4, <1>5, <1>8, IdleKnows, HandlerStep

\* A key whose creation was answered is stored and in the index of its
\* organization.
LEMMA CreatedIndexed ==
  ASSUME IInv, NEW k \in CreatedKeys
  PROVE  /\ k \in Keys /\ records[k].revision # 0
         /\ Occurs(k, indexes[records[k].record.org].ids)
<1>1. PICK d \in disclosed : d.version = 1 /\ d.key = k
  BY DEF CreatedKeys
<1> QED
  BY <1>1 DEF IInv, TypeOK, DisclosedIsIndexed, Listed, Occurs

\* list reads the index of the organization.
LEMMA ListIndexInv ==
  ASSUME IInv, NEW t \in Tasks, ListIndex(t)
  PROVE  IInv'
<1>1. PICK u, ids, v : /\ u = tasks[t] /\ ids = indexes[u.org].ids
                       /\ v = [u EXCEPT !.pc = "list_load", !.todo = ids]
  OBVIOUS
<1>2. /\ tasks[t].pc = "list" /\ tasks' = [tasks EXCEPT ![t] = v] /\ outcome'.kind = "none"
      /\ puts' = puts /\ UNCHANGED kvVars /\ UNCHANGED ghosts
  BY <1>1 DEF ListIndex, Quiet, NoOutcome
<1>3. /\ TypeOK /\ Stored /\ PutsFollow /\ Knows(u) /\ Aware(u) /\ u \in Call
  BY <1>1, <1>2, CallsAre DEF IInv, CallsKnow, CallsAware
<1>4. /\ KvMoves /\ \A p \in puts : Sound(p, records', indexes')
      /\ UNCHANGED <<workload, records, indexes>>
  BY <1>2, <1>3, KvSame
<1>5. \A p \in puts' : p.owner # t
  BY <1>2, OwnsNothing
<1>6. u.org \in Orgs /\ ids \in Seq(Keys)
  BY <1>1, <1>2, <1>3 DEF Knows, TypeOK
<1>7. /\ v \in Call /\ v.pc = "list_load" /\ v.org = u.org /\ v.known = u.known
      /\ v.todo = ids /\ v.listing = u.listing
  <2>1. v = [u EXCEPT !.pc = "list_load", !.todo = ids]
    BY <1>1
  <2> QED
    BY <1>3, <1>6, <2>1 DEF Call, CallPcs
<1>8. Knows(v) /\ v.pc \notin Indexing
  BY <1>6, <1>7 DEF Knows, Indexing
<1>9. Aware(v)'
  <2>1. v.known \subseteq CreatedKeys /\ CreatedKeys' = CreatedKeys
    BY <1>1, <1>2, <1>3, <1>7 DEF Aware, CreatedKeys, ghosts
  <2>2. \A k \in v.known : records[k].record.org = v.org => Occurs(k, v.todo)
    BY <1>1, <1>7, <2>1, CreatedIndexed
  <2> QED
    BY <1>4, <1>7, <2>1, <2>2 DEF Aware, Indexing
<1> QED
  BY <1>2, <1>4, <1>5, <1>7, <1>8, <1>9, GoesOn

\* What is left of a sequence without its head.
LEMMA TailOccurs ==
  ASSUME NEW ids \in Seq(Keys), ids # <<>>
  PROVE  /\ Head(ids) \in Keys /\ Tail(ids) \in Seq(Keys)
         /\ \A k : Occurs(k, ids) => k = Head(ids) \/ Occurs(k, Tail(ids))
<1>1. /\ Head(ids) = ids[1] /\ Head(ids) \in Keys /\ Tail(ids) \in Seq(Keys)
      /\ Len(Tail(ids)) = Len(ids) - 1 /\ Len(ids) \in Nat
      /\ \A i \in 1 .. Len(Tail(ids)) : Tail(ids)[i] = ids[i + 1]
  BY HeadTailProperties, EmptySeq
<1>2. PICK n, s : n = Len(ids) /\ s = Tail(ids)
  OBVIOUS
<1>3. n \in Nat /\ Len(s) = n - 1 /\ \A i \in 1 .. Len(s) : s[i] = ids[i + 1]
  BY <1>1, <1>2
<1>4. ASSUME NEW k, Occurs(k, ids) PROVE k = Head(ids) \/ Occurs(k, s)
  <2>1. PICK i \in 1 .. n : ids[i] = k
    BY <1>2, <1>4 DEF Occurs
  <2>2. CASE i = 1
    BY <1>1, <2>1, <2>2
  <2>3. CASE i # 1
    <3>1. PICK j : j = i - 1
      OBVIOUS
    <3>2. j \in 1 .. Len(s) /\ i = j + 1
      BY <1>3, <2>3, <3>1
    <3> QED
      BY <1>3, <2>1, <3>2 DEF Occurs
  <2> QED
    BY <2>2, <2>3
<1> QED
  BY <1>1, <1>2, <1>4

\* list loads the record of the next entry.
LEMMA ListLoadInv ==
  ASSUME IInv, NEW t \in Tasks, ListLoad(t)
  PROVE  IInv'
<1>1. PICK u, k0, rest, shown, more :
        /\ u = tasks[t] /\ k0 = Head(u.todo) /\ rest = Tail(u.todo)
        /\ shown = (records[k0].revision # 0 /\ records[k0].record.org = u.org)
        /\ more = IF shown THEN u.listing \union {k0} ELSE u.listing
  OBVIOUS
<1>2. PICK v : v = [u EXCEPT !.todo = rest, !.listing = more]
  OBVIOUS
<1>3. /\ tasks[t].pc = "list_load" /\ tasks[t].todo # <<>>
      /\ tasks' = [tasks EXCEPT ![t] = v] /\ outcome'.kind = "none"
      /\ puts' = puts /\ UNCHANGED kvVars /\ UNCHANGED ghosts
  BY <1>1, <1>2 DEF ListLoad, Quiet, NoOutcome
<1>4. /\ TypeOK /\ Stored /\ PutsFollow /\ Knows(u) /\ Aware(u) /\ u \in Call
  BY <1>1, <1>3, CallsAre DEF IInv, CallsKnow, CallsAware
<1>5. /\ KvMoves /\ \A p \in puts : Sound(p, records', indexes')
      /\ UNCHANGED <<workload, records, indexes>>
  BY <1>3, <1>4, KvSame
<1>6. \A p \in puts' : p.owner # t
  BY <1>3, OwnsNothing
<1>7. u.org \in Orgs /\ u.todo \in Seq(Keys) /\ u.listing \subseteq Keys
  BY <1>1, <1>3, <1>4, CallParts DEF Knows
<1>8. /\ k0 \in Keys /\ rest \in Seq(Keys)
      /\ \A k : Occurs(k, u.todo) => k = k0 \/ Occurs(k, rest)
  BY <1>1, <1>3, <1>7, TailOccurs
<1>9. more \subseteq Keys /\ u.listing \subseteq more /\ (shown => k0 \in more)
  BY <1>1, <1>7, <1>8
<1>10. /\ v \in Call /\ v.pc = "list_load" /\ v.org = u.org /\ v.known = u.known
       /\ v.todo = rest /\ v.listing = more
  BY <1>1, <1>2, <1>3, <1>4, <1>8, <1>9 DEF Call
<1>11. Knows(v) /\ v.pc \notin Indexing
  BY <1>7, <1>10 DEF Knows, Indexing
<1>12. Aware(v)'
  <2>1. v.known \subseteq CreatedKeys /\ CreatedKeys' = CreatedKeys
    BY <1>1, <1>3, <1>4, <1>10 DEF Aware, CreatedKeys, ghosts
  <2>2. ASSUME NEW k \in v.known, records[k].record.org = v.org
        PROVE  k \in v.listing \/ Occurs(k, v.todo)
    <3>1. k \in u.listing \/ Occurs(k, u.todo)
      BY <1>1, <1>3, <1>4, <1>10, <2>2 DEF Aware
    <3>2. k = k0 => shown
      BY <1>1, <1>10, <2>1, <2>2, CreatedIndexed
    <3> QED
      BY <1>8, <1>9, <1>10, <3>1, <3>2
  <2> QED
    BY <1>5, <1>10, <2>1, <2>2 DEF Aware, Indexing
<1> QED
  BY <1>3, <1>5, <1>6, <1>10, <1>11, <1>12, GoesOn

\* list answers when every entry has been looked at.
LEMMA ListDoneInv ==
  ASSUME IInv, NEW t \in Tasks, ListDone(t)
  PROVE  IInv'
<1>1. PICK u : u = tasks[t]
  OBVIOUS
<1>2. /\ u.pc = "list_load" /\ u.todo = <<>> /\ tasks' = [tasks EXCEPT ![t] = IdleTask]
      /\ outcome'.kind = "listed" /\ outcome'.org = u.org /\ outcome'.keys = u.listing
      /\ outcome'.known = u.known
      /\ puts' = puts /\ UNCHANGED kvVars /\ UNCHANGED <<disclosed, revocations>>
  BY <1>1 DEF ListDone, Answer, ghosts
<1>3. /\ TypeOK /\ Stored /\ PutsFollow /\ Aware(u) /\ puts \subseteq Put
  BY <1>1 DEF IInv, CallsAware, TypeOK
<1>4. /\ KvMoves /\ \A p \in puts : Sound(p, records', indexes')
      /\ UNCHANGED <<workload, records, indexes>>
  BY <1>2, <1>3, KvSame
<1>5. \A p \in puts' : p.owner # t
  BY <1>1, <1>2, OwnsNothing
<1>6. \A k : ~Occurs(k, u.todo)
  <2>1. Len(u.todo) = 0
    BY <1>2
  <2> QED
    BY <2>1 DEF Occurs
<1>7. \A k \in u.known : records[k].record.org = u.org => k \in u.listing
  BY <1>2, <1>3, <1>6 DEF Aware
<1>8. OutcomeRight'
  BY <1>2, <1>4, <1>7 DEF OutcomeRight, ListingComplete
<1> QED
  BY <1>2, <1>3, <1>4, <1>5, <1>8, IdleKnows, HandlerStep
-----------------------------------------------------------------------------
(* Handlers that are dropped, and the PUTs they leave behind.              *)

\* A handler is dropped; its PUT stays on the way without an owner.
LEMMA AbandonInv ==
  ASSUME IInv, NEW t \in Tasks, Abandon(t)
  PROVE  IInv'
<1>1. /\ puts' = {IF p.owner = t THEN [p EXCEPT !.owner = Nobody] ELSE p : p \in puts}
      /\ tasks' = [tasks EXCEPT ![t] = IdleTask] /\ outcome'.kind = "unavailable"
      /\ UNCHANGED kvVars /\ UNCHANGED <<disclosed, revocations>>
  BY DEF Abandon, Fail, Answer, ghosts
<1>2. TypeOK /\ Stored /\ PutsFollow /\ t # Nobody
  BY StoreConstants DEF IInv
<1>3. /\ KvMoves /\ \A p \in puts : Sound(p, records', indexes')
  BY <1>1, <1>2, KvSame
<1>4. ASSUME NEW q \in puts'
      PROVE  /\ q \in Put /\ Sound(q, records', indexes')
             /\ q.owner # t /\ (q.owner # Nobody => q \in puts)
  <2>1. PICK p \in puts : q = IF p.owner = t THEN [p EXCEPT !.owner = Nobody] ELSE p
    BY <1>1, <1>4
  <2>2. p \in Put /\ Sound(p, records', indexes')
    BY <1>2, <1>3, PutParts
  <2>3. CASE p.owner # t
    BY <2>1, <2>2, <2>3
  <2>4. CASE p.owner = t
    <3>1. q = [p EXCEPT !.owner = Nobody]
      BY <2>1, <2>4
    <3>2. /\ q \in Put /\ q.owner = Nobody /\ q.kind = p.kind
          /\ q.prev_revision = p.prev_revision
          /\ q.kind = "record" => q.key = p.key /\ q.record = p.record
          /\ q.kind = "index" => q.org = p.org /\ q.ids = p.ids
      BY <2>2, <3>1 DEF Put
    <3>3. Sound(q, records', indexes')
      BY <2>2, <3>2 DEF Sound
    <3> QED
      BY <1>2, <3>2, <3>3
  <2> QED
    BY <2>3, <2>4
<1>5. OutcomeRight'
  BY <1>1, OtherOutcome
<1>6. /\ puts' \subseteq Put /\ \A p \in puts' : Sound(p, records', indexes')
      /\ \A p \in puts' : p.owner # t
      /\ \A p \in puts' : p.owner \notin {t, Nobody} => p \in puts
  BY <1>4
<1> QED
  BY <1>1, <1>3, <1>5, <1>6, IdleKnows, HandlerStep

\* A PUT without an owner reaches KV.
LEMMA LatePutInv ==
  ASSUME IInv, NEW p \in puts, LatePut(p)
  PROVE  IInv'
<1>1. /\ KvPut(p) /\ puts' = puts \ {p} /\ outcome'.kind = "none"
      /\ UNCHANGED <<tasks, disclosed, revocations>>
  BY DEF LatePut, Quiet, NoOutcome, ghosts
<1>2. /\ TypeOK /\ Stored /\ PutsFollow /\ OwnersWait /\ OnePut /\ CallsKnow /\ CallsAware
      /\ RevocationsStand
  BY DEF IInv
<1>3. KvMoves /\ \A q \in puts : Sound(q, records', indexes')
  BY <1>1, <1>2, KvPutStep
<1>4. TypeOK' /\ Stored' /\ OwnersWait' /\ OnePut' /\ CallsKnow'
  BY <1>1, <1>2, <1>3 DEF KvMoves, KvTypes, TypeOK, OwnersWait, OnePut, CallsKnow
<1>5. PutsFollow'
  BY <1>1, <1>3, PutsSound
<1>6. CallsAware'
  <2>1. ASSUME NEW t \in Tasks PROVE Aware(tasks[t])'
    <3>1. PICK u : u = tasks[t]
      OBVIOUS
    <3>2. u \in {IdleTask} \union Call /\ Knows(u) /\ Aware(u)
      BY <1>2, <3>1 DEF TypeOK, CallsKnow, CallsAware
    <3>3. Aware(u)'
      BY <1>1, <1>3, <3>2, AwareKept
    <3> QED
      BY <1>1, <3>1, <3>3 DEF Aware
  <2> QED
    BY <2>1 DEF CallsAware
<1>7. Told' = Told
  BY <1>1 DEF Told
<1>8. ToldOnce' /\ \A d \in Told' : Agrees(d)'
  BY <1>3, <1>7, ToldStep
<1>9. DisclosedIsIndexed'
  BY <1>1, <1>3, IndexedKept DEF DisclosedIsIndexed, Listed, Occurs
<1>10. RevocationsStand'
  <2>1. ASSUME NEW k \in revocations
        PROVE  records'[k].revision # 0 /\ records'[k].record.revoked
    <3>1. k \in Keys /\ records[k].revision # 0 /\ records[k].record.revoked
      BY <1>2 DEF TypeOK, RevocationsStand
    <3> QED
      BY <1>2, <1>3, <3>1, RecordStays
  <2> QED
    BY <1>1, <2>1 DEF RevocationsStand
<1>11. OutcomeRight'
  BY <1>1, OtherOutcome
<1> QED
  BY <1>4, <1>5, <1>6, <1>8, <1>9, <1>10, <1>11 DEF IInv

-----------------------------------------------------------------------------
(* Every step, and what it does to a record.                               *)

\* Every step preserves the invariant.
LEMMA InvStep == IInv /\ [Next]_vars => IInv'
<1> SUFFICES ASSUME IInv, [Next]_vars PROVE IInv'
  OBVIOUS
<1>1. CASE (\E t \in Tasks, r \in Requests(workload) : Refuse(t, r)) \/ UNCHANGED vars
  BY <1>1, RefuseInv
<1>2. ASSUME NEW t \in Tasks, NEW r \in Requests(workload),
             \/ BeginCreate(t, r) \/ BeginMutate(t, r)
             \/ BeginIntrospect(t, r) \/ BeginList(t, r)
      PROVE  IInv'
  BY <1>2, BeginCreateInv, BeginReadInv
<1>3. ASSUME NEW t \in Tasks,
             \/ CreateLoad(t) \/ IndexHasKey(t) \/ IndexLacksKey(t)
             \/ LoadReplays(t) \/ LoadFails(t) \/ LoadMutates(t)
      PROVE  IInv'
  BY <1>3, CreateLoadInv, IndexHasKeyInv, IndexLacksKeyInv, LoadReplaysInv, LoadFailsInv,
     LoadMutatesInv
<1>4. ASSUME NEW t \in Tasks,
             \/ IntrospectLoad(t) \/ IntrospectIndex(t)
             \/ ListIndex(t) \/ ListLoad(t) \/ ListDone(t) \/ Abandon(t)
      PROVE  IInv'
  BY <1>4, IntrospectLoadInv, IntrospectIndexInv, ListIndexInv, ListLoadInv, ListDoneInv,
     AbandonInv
<1>5. ASSUME NEW t \in Tasks, NEW p \in puts,
             \/ CreateApplied(t, p) \/ CreateMismatch(t, p)
             \/ IndexApplied(t, p) \/ IndexMismatch(t, p)
             \/ PutApplied(t, p) \/ PutMismatch(t, p)
      PROVE  IInv'
  BY <1>5, CreateAppliedInv, CreateMismatchInv, IndexAppliedInv, PutAppliedInv, MismatchInv
<1>6. ASSUME NEW p \in puts, LatePut(p) PROVE IInv'
  BY <1>6, LatePutInv
<1> QED
  BY <1>1, <1>2, <1>3, <1>4, <1>5, <1>6 DEF Next

\* The invariant holds in every behaviour.
LEMMA Invariance == Spec => []IInv
<1> QED
  BY InitInv, InvStep, PTL DEF Spec

\* A step leaves KV alone or has it handle a PUT.
LEMMA StepOnKv ==
  ASSUME [Next]_vars
  PROVE  records' = records \/ \E p \in puts : KvPut(p)
<1>1. CASE UNCHANGED vars
  BY <1>1 DEF vars
<1>2. ASSUME NEW t \in Tasks, NEW r \in Requests(workload),
             \/ Refuse(t, r) \/ BeginCreate(t, r) \/ BeginMutate(t, r)
             \/ BeginIntrospect(t, r) \/ BeginList(t, r)
      PROVE  records' = records
  BY <1>2 DEF Refuse, BeginCreate, BeginMutate, BeginIntrospect, BeginList, kvVars
<1>3. ASSUME NEW t \in Tasks,
             \/ CreateLoad(t) \/ IndexHasKey(t) \/ IndexLacksKey(t)
             \/ LoadReplays(t) \/ LoadFails(t) \/ LoadMutates(t)
             \/ IntrospectLoad(t) \/ IntrospectIndex(t)
             \/ ListIndex(t) \/ ListLoad(t) \/ ListDone(t) \/ Abandon(t)
      PROVE  records' = records
  BY <1>3 DEF CreateLoad, IndexHasKey, IndexLacksKey, LoadReplays, LoadFails, LoadMutates,
              IntrospectLoad, IntrospectIndex, ListIndex, ListLoad, ListDone, Abandon, kvVars
<1>4. ASSUME NEW t \in Tasks, NEW p \in puts,
             \/ CreateApplied(t, p) \/ CreateMismatch(t, p)
             \/ IndexApplied(t, p) \/ IndexMismatch(t, p)
             \/ PutApplied(t, p) \/ PutMismatch(t, p)
      PROVE  KvPut(p)
  BY <1>4 DEF CreateApplied, CreateMismatch, IndexApplied, IndexMismatch, PutApplied,
              PutMismatch
<1>5. ASSUME NEW p \in puts, LatePut(p) PROVE KvPut(p)
  BY <1>5 DEF LatePut
<1> QED
  BY <1>1, <1>2, <1>3, <1>4, <1>5 DEF Next

-----------------------------------------------------------------------------
(* The theorems.                                                           *)

\* Every variable of the key store keeps its type: no record has a version beyond
\* u64::MAX, and only secrets derived from a request are stored or told.
THEOREM TypeCorrect == Spec => []TypeOK
<1>1. IInv => TypeOK
  BY DEF IInv
<1> QED
  BY <1>1, Invariance, PTL

\* A version of a key names one secret, whoever was told it and whichever replica
\* wrote or replayed it.
THEOREM OneSecretPerVersion == Spec => []VersionNamesSecret
<1>1. IInv => VersionNamesSecret
  BY DEF IInv, Told, Agrees, ToldOnce, VersionNamesSecret
<1> QED
  BY <1>1, Invariance, PTL

\* A confirmed revocation is undone by no rotation, and no introspection that
\* begins after it says valid.
THEOREM RevocationIsFinal == Spec => []RevocationHolds
<1>1. IInv => RevocationHolds
  BY DEF IInv, RevocationsStand, OutcomeRight, RevocationHolds
<1> QED
  BY <1>1, Invariance, PTL

\* A key whose creation was answered is in the index of its organization, however
\* creates race, fail and are repeated.
THEOREM CreatedKeysIndexed == Spec => []DisclosedIsIndexed
<1>1. IInv => DisclosedIsIndexed
  BY DEF IInv
<1> QED
  BY <1>1, Invariance, PTL

\* A key that introspects as valid is one its organization can list.
THEOREM OnlyListedKeysValid == Spec => []ValidIsListed
<1>1. IInv => ValidIsListed
  BY DEF IInv, OutcomeRight, ValidIsListed
<1> QED
  BY <1>1, Invariance, PTL

\* A listing shows every key of the organization whose creation was answered
\* before it was asked for.
THEOREM ListingsComplete == Spec => []ListingComplete
<1>1. IInv => ListingComplete
  BY DEF IInv, OutcomeRight
<1> QED
  BY <1>1, Invariance, PTL

\* Every write of a stored record keeps its identity and advances its version by
\* one, and a revoked record is never written again.
THEOREM KeysEvolve == Spec => RecordEvolves
<1> DEFINE Step ==
      \A k \in Keys :
        records[k].revision # 0 /\ records'[k] # records[k] =>
          LET old == records[k].record
              new == records'[k].record
          IN /\ ~old.revoked
             /\ new.version = old.version + 1
             /\ new.org = old.org /\ new.env = old.env /\ new.name = old.name
             /\ new.create_marker = old.create_marker
<1>1. IInv /\ [Next]_vars => [Step]_vars
  <2> SUFFICES ASSUME IInv, [Next]_vars PROVE Step
    OBVIOUS
  <2>1. records' = records \/ \E p \in puts : KvPut(p)
    BY StepOnKv
  <2>2. CASE records' = records
    BY <2>2
  <2>3. ASSUME NEW p \in puts, KvPut(p) PROVE Step
    <3>1. \A k \in Keys : Evolves(k)
      BY <2>3, KvPutStep DEF IInv, KvMoves
    <3> QED
      BY <3>1 DEF Evolves, Follows
  <2> QED
    BY <2>1, <2>2, <2>3
<1> QED
  BY <1>1, Invariance, PTL DEF Spec, RecordEvolves
=============================================================================
