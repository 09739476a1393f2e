---------------------- MODULE GovernanceCeremonyProofs ----------------------
(***************************************************************************)
(* Fencing, completion and the answers of GovernanceCeremony, for every    *)
(* set of requests, any number of handlers, replicas and late PUTs, and    *)
(* every lifetime and clock skew.                                          *)
(***************************************************************************)
EXTENDS GovernanceCeremony, TLAPS

-----------------------------------------------------------------------------
(* The inductive invariant.                                                *)

\* A record that may replace `old`: a claim with a higher token, or the
\* completion of the same claim.
Follows(new, old) ==
  /\ old.status # "completed" /\ new.binding = old.binding
  /\ \/ /\ new.status = "claimed" /\ new.fencing_token > old.fencing_token
     \/ /\ new.status = "completed" /\ new.fencing_token = old.fencing_token
        /\ new.claim_id = old.claim_id

\* What is stored passes validation.
Stored ==
  \A c \in Ceremonies : kv[c].revision # 0 =>
    kv[c].record \in Record /\ Valid(kv[c].record)

\* A PUT on the way would store a valid record; if it still can be applied, one
\* that follows what is stored.
PutsFollow ==
  \A p \in puts :
    /\ Valid(p.record)
    /\ p.prev_revision <= kv[p.ceremony].revision
    /\ p.prev_revision # 0 /\ Cas(p) => Follows(p.record, kv[p.ceremony].record)

\* A PUT that has an owner is what its owner waits for.
OwnersWait ==
  \A p \in puts : p.owner # Nobody =>
    /\ tasks[p.owner].pc \in {"create", "put"}
    /\ p.ceremony = tasks[p.owner].request.ceremony
    /\ p.record = tasks[p.owner].record

OnePut == \A p, q \in puts : p.owner = q.owner /\ p.owner # Nobody => p = q

\* What a handler that waits for its PUT has asked KV to store.
Asked(k) ==
  LET r == k.request IN
  \/ /\ r.op = "claim" /\ k.record.status = "claimed"
     /\ k.record.claim_id = r.claim_id
  \/ /\ r.op = "complete" /\ k.record.status = "completed"
     /\ k.record.claim_id = r.claim_id /\ k.record.fencing_token = r.fencing_token
     /\ k.record.terminal.receipt = r.receipt

\* What handler k knows of its own request.
Knows(k) ==
  k.pc # "idle" =>
    /\ k.request.op = "begin" => k.binding = Binding(k.request, k.now)
    /\ k.pc = "create" =>
         k.request.op = "begin" /\ k.record = PendingRecord(k.request, k.now)
    /\ k.pc = "put" => Asked(k)

CallsKnow == \A t \in Tasks : Knows(tasks[t])

\* The answers given agree with what is stored.
BeginStands(b) ==
  kv[b.ceremony].revision # 0 /\ kv[b.ceremony].record.binding = b.binding

ClaimStands(a) ==
  /\ kv[a.ceremony].revision # 0
  /\ a.fencing_token <= kv[a.ceremony].record.fencing_token
  /\ a.fencing_token = kv[a.ceremony].record.fencing_token =>
       a.claim_id = kv[a.ceremony].record.claim_id

CompletionStands(a) ==
  /\ kv[a.ceremony].revision # 0 /\ kv[a.ceremony].record.status = "completed"
  /\ a.terminal = kv[a.ceremony].record.terminal /\ a.terminal.receipt = a.receipt
  /\ ~a.replayed =>
       /\ kv[a.ceremony].record.claim_id = a.claim_id
       /\ kv[a.ceremony].record.fencing_token = a.fencing_token

ClaimsDiffer ==
  \A a, b \in claims : a.ceremony = b.ceremony /\ a.fencing_token = b.fencing_token
                         => a.claim_id = b.claim_id

GhostsStand ==
  /\ \A b \in begun : BeginStands(b)
  /\ \A a \in claims : ClaimStands(a)
  /\ \A a \in completions : CompletionStands(a)
  /\ ClaimsDiffer

IInv == /\ TypeOK /\ Stored /\ PutsFollow /\ OwnersWait /\ OnePut /\ CallsKnow
        /\ GhostsStand
-----------------------------------------------------------------------------
(* Requests, records and the verdicts of the handlers.                     *)

\* What a request asks for says which set it is from.
LEMMA RequestsAre ==
  ASSUME NEW r \in Requests
  PROVE  /\ r.ceremony \in Ceremonies /\ r.op \in {"begin", "claim", "complete"}
         /\ r.op = "begin" => r \in BeginRequests
         /\ r.op = "claim" => r \in ClaimRequests /\ r.fencing_token \in Nat
         /\ r.op = "complete" =>
              /\ r \in CompleteRequests /\ r.fencing_token \in Nat
              /\ r.credential_generation \in Nat
BY CeremonyConstants DEF Requests

\* A handler that runs has a request, a time and a record.
LEMMA CallsAre ==
  ASSUME TypeOK, NEW t \in Tasks, tasks[t].pc # "idle"
  PROVE  /\ tasks[t] \in Call /\ tasks[t].request \in Requests /\ tasks[t].now \in Time
         /\ tasks[t].attempts \in 0 .. MAX_CAS_ATTEMPTS - 1
         /\ tasks[t].binding \in BindingType \union {None}
         /\ tasks[t].record \in Record \union {None}
<1>1. tasks[t] \in {IdleTask} \union Call
  BY DEF TypeOK
<1>2. tasks[t] # IdleTask
  BY DEF IdleTask
<1>3. tasks[t] \in Call
  BY <1>1, <1>2
<1> QED
  BY <1>3 DEF Call

\* A slot that is idle runs no handler.
LEMMA IdleIs ==
  ASSUME TypeOK, NEW t \in Tasks
  PROVE  tasks[t] = IdleTask <=> tasks[t].pc = "idle"
<1>1. tasks[t] \in {IdleTask} \union Call
  BY DEF TypeOK
<1>2. ASSUME tasks[t] \in Call PROVE tasks[t].pc # "idle"
  BY <1>2 DEF Call
<1> QED
  BY <1>1, <1>2 DEF IdleTask

\* The record begin makes passes validation.
LEMMA PendingIsValid ==
  ASSUME NEW r \in BeginRequests, NEW now \in Time, Authorized(r)
  PROVE  /\ Binding(r, now) \in BindingType
         /\ PendingRecord(r, now) \in Record
         /\ PendingRecord(r, now).binding = Binding(r, now)
         /\ Valid(PendingRecord(r, now))
<1>1. /\ r.credential_generation \in Nat \ {0} /\ TTL \in Nat /\ TTL \in MIN_TTL .. MAX_TTL
      /\ now \in Nat /\ now # 0 /\ MaxTime \in Nat /\ r.tenant \in AllowedTenants
  BY CeremonyConstants DEF Time, Authorized
<1>2. now + TTL \in Nat /\ (now + TTL) - now = TTL
  BY <1>1
<1>3. Binding(r, now) \in BindingType
  BY <1>1, <1>2 DEF Binding, BindingType
<1>4. /\ Binding(r, now).tenant \in AllowedTenants /\ Binding(r, now).created_at # 0
      /\ Binding(r, now).expires_at - Binding(r, now).created_at \in MIN_TTL .. MAX_TTL
      /\ Binding(r, now).credential_generation # 0
  BY <1>1, <1>2 DEF Binding
<1>5. /\ PendingRecord(r, now).binding = Binding(r, now)
      /\ PendingRecord(r, now) \in Record
  BY <1>3 DEF PendingRecord, Record
<1>6. /\ PendingRecord(r, now).status = "pending"
      /\ PendingRecord(r, now).claim_id = None /\ PendingRecord(r, now).fencing_token = 0
      /\ PendingRecord(r, now).claimed_at = None /\ PendingRecord(r, now).terminal = None
  BY DEF PendingRecord
<1> QED
  BY <1>3, <1>4, <1>5, <1>6 DEF Valid

\* What a claim writes follows what it read.
LEMMA ClaimPuts ==
  ASSUME NEW r \in ClaimRequests, NEW now \in Time, NEW stored,
         stored.revision # 0 => stored.record \in Record,
         ClaimResult(r, now, stored) = "put"
  PROVE  /\ stored.revision # 0
         /\ Claimed(stored.record, r, now) \in Record
         /\ Valid(Claimed(stored.record, r, now))
         /\ Follows(Claimed(stored.record, r, now), stored.record)
         /\ Claimed(stored.record, r, now).status = "claimed"
         /\ Claimed(stored.record, r, now).claim_id = r.claim_id
<1> DEFINE rec == stored.record
           new == Claimed(rec, r, now)
<1>1. /\ stored.revision # 0 /\ Valid(rec) /\ rec.terminal = None /\ Valid(new)
      /\ rec.status = "claimed" =>
           ~(r.fencing_token < rec.fencing_token) /\ r.fencing_token # rec.fencing_token
  BY DEF ClaimResult
<1>2. rec \in Record /\ r.fencing_token \in Nat /\ r.claim_id \in ClaimIds
  BY <1>1, CeremonyConstants DEF ClaimIds
<1>3. /\ new \in Record /\ new.status = "claimed" /\ new.claim_id = r.claim_id
      /\ new.fencing_token = r.fencing_token /\ new.binding = rec.binding
  BY <1>2 DEF Claimed, Record
<1>4. /\ rec.status \in {"pending", "claimed", "completed"} /\ rec.fencing_token \in Nat
  BY <1>2 DEF Record
<1>5. rec.status # "completed"
  BY <1>1 DEF Valid, ValidCompleted
<1>6. new.fencing_token # 0
  BY <1>1, <1>3 DEF Valid, ValidClaim
<1>7. rec.status = "pending" => rec.fencing_token = 0
  BY <1>1 DEF Valid
<1>8. r.fencing_token > rec.fencing_token
  BY <1>1, <1>2, <1>3, <1>4, <1>5, <1>6, <1>7
<1> HIDE DEF rec, new
<1>9. Follows(new, rec)
  BY <1>3, <1>5, <1>8 DEF Follows
<1> QED
  BY <1>1, <1>3, <1>9 DEF new, rec

\* What a completion writes follows what it read.
LEMMA CompletePuts ==
  ASSUME NEW r \in CompleteRequests, NEW now \in Time, NEW b, NEW stored,
         stored.revision # 0 => stored.record \in Record,
         CompleteResult(r, b, now, stored) = "put"
  PROVE  /\ stored.revision # 0
         /\ Completed(stored.record, r, now) \in Record
         /\ Valid(Completed(stored.record, r, now))
         /\ Follows(Completed(stored.record, r, now), stored.record)
         /\ Completed(stored.record, r, now).status = "completed"
         /\ Completed(stored.record, r, now).claim_id = r.claim_id
         /\ Completed(stored.record, r, now).fencing_token = r.fencing_token
         /\ Completed(stored.record, r, now).terminal.receipt = r.receipt
<1> DEFINE rec == stored.record
           new == Completed(rec, r, now)
           term == [receipt |-> r.receipt, credential_id |-> r.credential_id,
                    credential_generation |-> r.credential_generation,
                    completed_at |-> now]
<1>1. /\ stored.revision # 0 /\ rec.status = "claimed" /\ Valid(new)
      /\ r.fencing_token = rec.fencing_token /\ r.claim_id = rec.claim_id
  BY DEF CompleteResult
<1>2. rec \in Record /\ r.credential_generation \in Nat
  BY <1>1, CeremonyConstants
<1>3. term \in Terminal /\ term.receipt = r.receipt
  BY <1>2 DEF Terminal
<1>4. new = [rec EXCEPT !.status = "completed", !.terminal = term]
  BY DEF Completed
<1> HIDE DEF term, new, rec
<1>5. /\ new \in Record /\ new.status = "completed" /\ new.terminal = term
      /\ new.claim_id = rec.claim_id /\ new.fencing_token = rec.fencing_token
      /\ new.binding = rec.binding
  BY <1>2, <1>3, <1>4 DEF Record
<1>6. Follows(new, rec)
  BY <1>1, <1>5 DEF Follows
<1> QED
  BY <1>1, <1>3, <1>5, <1>6 DEF new, rec
\* A begin that is answered from the store made the stored binding.
LEMMA BeginReplays ==
  ASSUME NEW r, NEW now, NEW stored, BeginResult(r, now, stored) = "replay"
  PROVE  stored.revision # 0 /\ stored.record.binding = Binding(r, now)
BY DEF BeginResult

\* A claim that is answered from the store is of the holder.
LEMMA ClaimReplays ==
  ASSUME NEW r, NEW now, NEW stored, ClaimResult(r, now, stored) = "replay"
  PROVE  /\ stored.revision # 0
         /\ stored.record.status = "claimed" => r.claim_id = stored.record.claim_id
<1>1. /\ stored.revision # 0 /\ Valid(stored.record)
      /\ stored.record.terminal # None \/ r.claim_id = stored.record.claim_id
  BY DEF ClaimResult
<1> QED
  BY <1>1 DEF Valid

\* A completion that is answered from the store has the stored receipt.
LEMMA CompletionReplays ==
  ASSUME NEW r, NEW b, NEW now, NEW stored,
         stored.revision # 0 => stored.record \in Record,
         CompleteResult(r, b, now, stored) = "replay"
  PROVE  /\ stored.revision # 0 /\ stored.record.status = "completed"
         /\ stored.record.terminal \in Terminal
         /\ stored.record.terminal.receipt = r.receipt
<1>1. /\ stored.revision # 0 /\ Valid(stored.record) /\ stored.record.terminal # None
      /\ stored.record.terminal.receipt = r.receipt
  BY DEF CompleteResult
<1>2. /\ stored.record.status \in {"pending", "claimed", "completed"}
      /\ stored.record.terminal \in Terminal \union {None}
  BY <1>1 DEF Record
<1> QED
  BY <1>1, <1>2 DEF Valid

-----------------------------------------------------------------------------
(* The store.                                                              *)

\* What one step may do to a stored ceremony.
Evolves(c) ==
  kv[c].revision # 0 /\ kv'[c] # kv[c] =>
    kv'[c].revision # 0 /\ Follows(kv'[c].record, kv[c].record)

\* The parts of a stored ceremony and of a PUT.
LEMMA KvParts ==
  ASSUME TypeOK, Stored, NEW c \in Ceremonies
  PROVE  /\ kv[c].revision \in Nat
         /\ kv[c].revision # 0 =>
              /\ kv[c].record \in Record /\ Valid(kv[c].record)
              /\ kv[c].record.fencing_token \in Nat
<1>1. kv[c].revision \in Nat
  BY DEF TypeOK
<1>2. kv[c].revision # 0 => kv[c].record \in Record /\ Valid(kv[c].record)
  BY DEF Stored
<1> QED
  BY <1>1, <1>2 DEF Record

\* The parts of a PUT.
LEMMA PutParts ==
  ASSUME TypeOK, NEW p \in puts
  PROVE  /\ p \in Put /\ p.ceremony \in Ceremonies /\ p.prev_revision \in Nat
         /\ p.record \in Record /\ p.owner \in Tasks \union {Nobody}
<1>1. p \in Put
  BY DEF TypeOK
<1> QED
  BY <1>1 DEF Put

\* A conditional PUT stores a record that follows what was stored, and outdates
\* every other PUT for that ceremony.
LEMMA KvPutStep ==
  ASSUME TypeOK, Stored, PutsFollow, NEW p \in puts, KvPut(p), puts' \subseteq puts
  PROVE  /\ kv' \in [Ceremonies -> [revision: Nat, record: Record \union {None}]]
         /\ Stored' /\ PutsFollow'
         /\ \A c \in Ceremonies : Evolves(c)
         /\ Cas(p) => /\ kv'[p.ceremony].revision # 0
                      /\ kv'[p.ceremony].record = p.record
                      /\ kv[p.ceremony].revision # 0 =>
                           Follows(p.record, kv[p.ceremony].record)
<1>1. kv \in [Ceremonies -> [revision: Nat, record: Record \union {None}]]
  BY DEF TypeOK
<1>2. /\ p.ceremony \in Ceremonies /\ p.prev_revision \in Nat /\ p.record \in Record
      /\ Valid(p.record)
  BY PutParts DEF PutsFollow
<1>3. CASE ~Cas(p)
  <2>1. kv' = kv
    BY <1>3 DEF KvPut
  <2>2. Stored' /\ \A c \in Ceremonies : Evolves(c)
    BY <2>1 DEF Stored, Evolves
  <2>3. PutsFollow'
    BY <2>1 DEF PutsFollow, Cas
  <2> QED
    BY <1>1, <1>3, <2>1, <2>2, <2>3
<1>4. CASE Cas(p)
  <2> DEFINE e == [revision |-> p.prev_revision + 1, record |-> p.record]
  <2>1. kv' = [kv EXCEPT ![p.ceremony] = e]
    BY <1>4 DEF KvPut
  <2>2. /\ e \in [revision: Nat, record: Record \union {None}] /\ e.record = p.record
        /\ e.revision = p.prev_revision + 1 /\ e.revision # 0
    BY <1>2
  <2> HIDE DEF e
  <2>3. /\ kv' \in [Ceremonies -> [revision: Nat, record: Record \union {None}]]
        /\ kv'[p.ceremony] = e
        /\ \A c \in Ceremonies : c # p.ceremony => kv'[c] = kv[c]
    BY <1>1, <1>2, <2>1, <2>2
  <2>4. Stored'
    BY <1>2, <2>2, <2>3 DEF Stored
  <2>5. kv[p.ceremony].revision # 0 => Follows(p.record, kv[p.ceremony].record)
    BY <1>4 DEF PutsFollow, Cas
  <2>6. ASSUME NEW c \in Ceremonies PROVE Evolves(c)
    BY <2>2, <2>3, <2>5 DEF Evolves
  <2>7. PutsFollow'
    <3> SUFFICES ASSUME NEW q \in puts
                 PROVE  /\ Valid(q.record)
                        /\ q.prev_revision <= kv'[q.ceremony].revision
                        /\ q.prev_revision # 0 /\ kv'[q.ceremony].revision = q.prev_revision
                             => Follows(q.record, kv'[q.ceremony].record)
      BY DEF PutsFollow, Cas
    <3>1. /\ Valid(q.record) /\ q.prev_revision <= kv[q.ceremony].revision
          /\ q.prev_revision # 0 /\ kv[q.ceremony].revision = q.prev_revision
               => Follows(q.record, kv[q.ceremony].record)
      BY DEF PutsFollow, Cas
    <3>2. q.ceremony \in Ceremonies /\ q.prev_revision \in Nat
      BY PutParts
    <3>3. CASE q.ceremony # p.ceremony
      BY <2>3, <3>1, <3>2, <3>3
    <3>4. CASE q.ceremony = p.ceremony
      BY <1>2, <1>4, <2>2, <2>3, <3>1, <3>2, <3>4 DEF Cas
    <3> QED
      BY <3>3, <3>4
  <2> QED
    BY <1>4, <2>2, <2>3, <2>4, <2>5, <2>6, <2>7
<1> QED
  BY <1>3, <1>4

\* Answers that were given stand while the store evolves.
LEMMA AnswersKept ==
  ASSUME TypeOK, Stored, GhostsStand, Stored', \A c \in Ceremonies : Evolves(c),
         kv' \in [Ceremonies -> [revision: Nat, record: Record \union {None}]]
  PROVE  /\ \A b \in begun : BeginStands(b)'
         /\ \A a \in claims : ClaimStands(a)'
         /\ \A a \in completions : CompletionStands(a)'
<1>1. ASSUME NEW c \in Ceremonies, kv[c].revision # 0
      PROVE  /\ kv'[c].revision # 0
             /\ kv'[c] = kv[c] \/ Follows(kv'[c].record, kv[c].record)
             /\ kv[c].record.fencing_token \in Nat /\ kv'[c].record.fencing_token \in Nat
  <2>1. /\ kv'[c].revision # 0
        /\ kv'[c] = kv[c] \/ Follows(kv'[c].record, kv[c].record)
    BY <1>1 DEF Evolves
  <2>2. kv[c].record \in Record /\ kv'[c].record \in Record
    BY <1>1, <2>1 DEF Stored
  <2> QED
    BY <2>1, <2>2 DEF Record
<1>2. ASSUME NEW b \in begun PROVE BeginStands(b)'
  <2>1. b.ceremony \in Ceremonies
    BY DEF TypeOK
  <2>2. kv[b.ceremony].revision # 0 /\ kv[b.ceremony].record.binding = b.binding
    BY DEF GhostsStand, BeginStands
  <2> QED
    BY <1>1, <2>1, <2>2 DEF BeginStands, Follows
<1>3. ASSUME NEW a \in claims PROVE ClaimStands(a)'
  <2>1. a.ceremony \in Ceremonies /\ a.fencing_token \in Nat
    BY DEF TypeOK
  <2>2. /\ kv[a.ceremony].revision # 0
        /\ a.fencing_token <= kv[a.ceremony].record.fencing_token
        /\ a.fencing_token = kv[a.ceremony].record.fencing_token =>
             a.claim_id = kv[a.ceremony].record.claim_id
    BY DEF GhostsStand, ClaimStands
  <2>3. CASE kv'[a.ceremony] = kv[a.ceremony]
    BY <2>2, <2>3 DEF ClaimStands
  <2>4. CASE Follows(kv'[a.ceremony].record, kv[a.ceremony].record)
    BY <1>1, <2>1, <2>2, <2>4 DEF ClaimStands, Follows
  <2> QED
    BY <1>1, <2>1, <2>2, <2>3, <2>4
<1>4. ASSUME NEW a \in completions PROVE CompletionStands(a)'
  <2>1. a.ceremony \in Ceremonies
    BY DEF TypeOK
  <2>2. kv[a.ceremony].revision # 0 /\ kv[a.ceremony].record.status = "completed"
    BY DEF GhostsStand, CompletionStands
  <2>3. kv'[a.ceremony] = kv[a.ceremony]
    BY <1>1, <2>1, <2>2 DEF Follows
  <2> QED
    BY <2>3 DEF GhostsStand, CompletionStands
<1> QED
  BY <1>2, <1>3, <1>4
-----------------------------------------------------------------------------
(* Handlers.                                                               *)

\* A step of the handler in slot t, after which it is k and owns at most the PUT
\* it waits for.
LEMMA TaskStep ==
  ASSUME TypeOK, OwnersWait, OnePut, CallsKnow, NEW t \in Tasks,
         NEW k \in {IdleTask} \union Call, tasks' = [tasks EXCEPT ![t] = k], Knows(k),
         \A p \in puts' : p.owner \notin {t, Nobody} => p \in puts,
         \A p, q \in puts' : p.owner = t /\ q.owner = t => p = q,
         \A p \in puts' : p.owner = t =>
           /\ k.pc \in {"create", "put"} /\ p.ceremony = k.request.ceremony
           /\ p.record = k.record
  PROVE  /\ tasks' \in [Tasks -> {IdleTask} \union Call]
         /\ OwnersWait' /\ OnePut' /\ CallsKnow'
<1>1. tasks \in [Tasks -> {IdleTask} \union Call]
  BY DEF TypeOK
<1>2. /\ tasks' \in [Tasks -> {IdleTask} \union Call]
      /\ tasks'[t] = k /\ \A u \in Tasks : u # t => tasks'[u] = tasks[u]
  BY <1>1
<1>3. CallsKnow'
  BY <1>2 DEF CallsKnow
<1>4. \A p \in puts' : p.owner \notin {t, Nobody} => p.owner \in Tasks
  BY PutParts
<1>5. OwnersWait'
  <2> SUFFICES ASSUME NEW p \in puts', p.owner # Nobody
               PROVE  /\ tasks'[p.owner].pc \in {"create", "put"}
                      /\ p.ceremony = tasks'[p.owner].request.ceremony
                      /\ p.record = tasks'[p.owner].record
    BY DEF OwnersWait
  <2>1. CASE p.owner = t
    BY <1>2, <2>1
  <2>2. CASE p.owner # t
    BY <1>2, <1>4, <2>2 DEF OwnersWait
  <2> QED
    BY <2>1, <2>2
<1>6. OnePut'
  BY DEF OnePut
<1> QED
  BY <1>2, <1>3, <1>5, <1>6

\* The handler in slot t answers; no PUT of it stays behind.
LEMMA AnswerStep ==
  ASSUME TypeOK, OwnersWait, OnePut, CallsKnow, NEW t \in Tasks, Answer(t),
         puts' \subseteq puts, \A p \in puts' : p.owner # t
  PROVE  /\ tasks' \in [Tasks -> {IdleTask} \union Call]
         /\ OwnersWait' /\ OnePut' /\ CallsKnow'
<1>1. Knows(IdleTask) /\ tasks' = [tasks EXCEPT ![t] = IdleTask]
  BY DEF Knows, IdleTask, Answer
<1> QED
  BY <1>1, TaskStep

\* A successful answer agrees with what is then stored.
LEMMA SucceedStep ==
  ASSUME TypeOK, GhostsStand, NEW t \in Tasks, tasks[t].pc # "idle", NEW rec \in Record,
         NEW replayed \in BOOLEAN, Succeed(t, rec, replayed),
         \A b \in begun : BeginStands(b)', \A a \in claims : ClaimStands(a)',
         \A a \in completions : CompletionStands(a)',
         kv'[tasks[t].request.ceremony].revision # 0,
         kv'[tasks[t].request.ceremony].record = rec,
         tasks[t].request.op = "begin" =>
           tasks[t].binding \in BindingType /\ rec.binding = tasks[t].binding,
         tasks[t].request.op = "claim" /\ rec.status = "claimed" =>
           rec.claim_id = tasks[t].request.claim_id,
         tasks[t].request.op = "complete" =>
           /\ rec.status = "completed" /\ rec.terminal \in Terminal
           /\ rec.terminal.receipt = tasks[t].request.receipt
           /\ ~replayed => /\ rec.claim_id = tasks[t].request.claim_id
                           /\ rec.fencing_token = tasks[t].request.fencing_token
  PROVE  /\ GhostsStand'
         /\ begun' \subseteq [ceremony: Ceremonies, binding: BindingType]
         /\ claims' \subseteq [ceremony: Ceremonies, claim_id: ClaimIds, fencing_token: Nat]
         /\ completions' \subseteq
              [ceremony: Ceremonies, claim_id: {r.claim_id : r \in CompleteRequests},
               fencing_token: Nat, receipt: {r.receipt : r \in CompleteRequests},
               terminal: Terminal, replayed: BOOLEAN]
<1>0. PICK r, b0, c0, d0 :
        /\ r = tasks[t].request
        /\ b0 = [ceremony |-> r.ceremony, binding |-> tasks[t].binding]
        /\ c0 = [ceremony |-> r.ceremony, claim_id |-> r.claim_id,
                 fencing_token |-> rec.fencing_token]
        /\ d0 = [ceremony |-> r.ceremony, claim_id |-> r.claim_id,
                 fencing_token |-> r.fencing_token, receipt |-> r.receipt,
                 terminal |-> rec.terminal, replayed |-> replayed]
  OBVIOUS
<1>1. /\ begun' = IF r.op = "begin" THEN begun \union {b0} ELSE begun
      /\ claims' = IF r.op = "claim" /\ rec.status = "claimed"
                     THEN claims \union {c0} ELSE claims
      /\ completions' = IF r.op = "complete" THEN completions \union {d0} ELSE completions
  BY <1>0 DEF Succeed
<1>2. r \in Requests
  BY <1>0, CallsAre
<1>3. /\ r.ceremony \in Ceremonies
      /\ r.op = "begin" => r \in BeginRequests
      /\ r.op = "claim" => r \in ClaimRequests
      /\ r.op = "complete" => r \in CompleteRequests /\ r.fencing_token \in Nat
      /\ rec.fencing_token \in Nat
  BY <1>2, RequestsAre DEF Record
<1>4. r.op = "begin" =>
        b0 \in [ceremony: Ceremonies, binding: BindingType] /\ BeginStands(b0)'
  BY <1>0, <1>3 DEF BeginStands
<1>5. r.op = "claim" /\ rec.status = "claimed" =>
        /\ c0 \in [ceremony: Ceremonies, claim_id: ClaimIds, fencing_token: Nat]
        /\ ClaimStands(c0)'
  BY <1>0, <1>3 DEF ClaimStands, ClaimIds
<1>6. r.op = "complete" =>
        /\ d0 \in [ceremony: Ceremonies, claim_id: {q.claim_id : q \in CompleteRequests},
                   fencing_token: Nat, receipt: {q.receipt : q \in CompleteRequests},
                   terminal: Terminal, replayed: BOOLEAN]
        /\ CompletionStands(d0)'
  BY <1>0, <1>3 DEF CompletionStands
<1>7. ClaimsDiffer'
  <2>1. ASSUME NEW a \in claims, r.op = "claim", rec.status = "claimed",
               a.ceremony = c0.ceremony, a.fencing_token = c0.fencing_token
        PROVE  a.claim_id = c0.claim_id
    <3>1. a.claim_id = kv'[a.ceremony].record.claim_id
      BY <1>0, <2>1 DEF ClaimStands
    <3> QED
      BY <1>0, <2>1, <3>1
  <2> QED
    BY <1>1, <2>1 DEF ClaimsDiffer, GhostsStand
<1>8. GhostsStand'
  BY <1>1, <1>4, <1>5, <1>6, <1>7 DEF GhostsStand
<1> QED
  BY <1>1, <1>4, <1>5, <1>6, <1>8 DEF TypeOK
-----------------------------------------------------------------------------
(* The invariant, action by action.                                        *)

\* Nothing is stored, under way or answered.
LEMMA InitInv == Init => IInv
<1> SUFFICES ASSUME Init PROVE IInv
  OBVIOUS
<1>1. TypeOK
  <2>1. kv \in [Ceremonies -> [revision: Nat, record: Record \union {None}]]
    BY DEF Init
  <2>2. clock \in 1 .. MaxTime
    BY CeremonyConstants DEF Init
  <2> QED
    BY <2>1, <2>2 DEF Init, TypeOK
<1>2. Stored /\ CallsKnow
  BY DEF Init, Stored, CallsKnow, Knows, IdleTask
<1>3. PutsFollow /\ OwnersWait /\ OnePut /\ GhostsStand
  BY DEF Init, PutsFollow, OwnersWait, OnePut, GhostsStand, ClaimsDiffer
<1> QED
  BY <1>1, <1>2, <1>3 DEF IInv

\* What a step that writes nothing to KV and answers nobody leaves to show.
LEMMA QuietStep ==
  ASSUME IInv, UNCHANGED <<clock, kv, begun, claims, completions>>,
         tasks' \in [Tasks -> {IdleTask} \union Call], puts' \subseteq Put,
         OwnersWait', OnePut', CallsKnow', PutsFollow'
  PROVE  IInv'
<1>1. TypeOK' /\ Stored'
  BY DEF IInv, TypeOK, Stored
<1>2. GhostsStand'
  BY DEF IInv, GhostsStand, ClaimsDiffer, BeginStands, ClaimStands, CompletionStands
<1> QED
  BY <1>1, <1>2 DEF IInv

\* begin sends its first PUT.
LEMMA BeginInv ==
  ASSUME IInv, NEW t \in Tasks, NEW r \in BeginRequests, NEW now \in HostTime,
         Begin(t, r, now)
  PROVE  IInv'
<1> DEFINE k == [pc |-> "create", request |-> r, now |-> now, attempts |-> 0,
                 binding |-> Binding(r, now), record |-> PendingRecord(r, now)]
           p0 == NewPut(t, r.ceremony, 0, PendingRecord(r, now))
<1>1. /\ tasks[t] = IdleTask /\ Authorized(r)
      /\ tasks' = [tasks EXCEPT ![t] = k] /\ puts' = puts \union {p0}
      /\ UNCHANGED <<clock, kv, begun, claims, completions>>
  BY DEF Begin, ghosts
<1>2. now \in Time /\ r \in Requests /\ r.op = "begin" /\ r.ceremony \in Ceremonies
  BY CeremonyConstants DEF HostTime, Requests
<1>3. /\ Binding(r, now) \in BindingType /\ PendingRecord(r, now) \in Record
      /\ Valid(PendingRecord(r, now))
  BY <1>1, <1>2, PendingIsValid
<1>4. 0 \in 0 .. MAX_CAS_ATTEMPTS - 1
  BY CeremonyConstants
<1>5. k \in Call
  BY <1>2, <1>3, <1>4 DEF Call
<1>6. Knows(k)
  BY <1>2 DEF Knows
<1>7. /\ p0 \in Put /\ p0.owner = t /\ p0.ceremony = r.ceremony /\ p0.prev_revision = 0
      /\ p0.record = PendingRecord(r, now)
  BY <1>2, <1>3 DEF NewPut, Put
<1>8. /\ k.pc = "create" /\ k.request = r /\ k.record = PendingRecord(r, now)
  OBVIOUS
<1>9. TypeOK /\ \A p \in puts : p.owner # t
  <2>1. tasks[t].pc = "idle" /\ t # Nobody
    BY <1>1, CeremonyConstants DEF IdleTask
  <2> QED
    BY <2>1 DEF IInv, OwnersWait
<1>10. kv[r.ceremony].revision \in Nat
  BY <1>2, <1>9 DEF TypeOK
<1> HIDE DEF k, p0
<1>11. PutsFollow'
  <2>1. ASSUME NEW p \in puts
        PROVE  /\ Valid(p.record) /\ p.prev_revision <= kv[p.ceremony].revision
               /\ p.prev_revision # 0 /\ kv[p.ceremony].revision = p.prev_revision =>
                    Follows(p.record, kv[p.ceremony].record)
    BY DEF IInv, PutsFollow, Cas
  <2>2. Valid(p0.record) /\ p0.prev_revision <= kv[p0.ceremony].revision
    BY <1>3, <1>7, <1>10
  <2> SUFFICES ASSUME NEW q \in puts'
               PROVE  /\ Valid(q.record)
                      /\ q.prev_revision <= kv'[q.ceremony].revision
                      /\ q.prev_revision # 0 /\ kv'[q.ceremony].revision = q.prev_revision
                           => Follows(q.record, kv'[q.ceremony].record)
    BY DEF PutsFollow, Cas
  <2>3. q \in puts \/ q = p0
    BY <1>1
  <2>4. CASE q = p0
    BY <1>1, <1>7, <2>2, <2>4
  <2>5. CASE q \in puts
    BY <1>1, <2>1, <2>5
  <2> QED
    BY <2>3, <2>4, <2>5
<1>12. /\ tasks' \in [Tasks -> {IdleTask} \union Call]
       /\ OwnersWait' /\ OnePut' /\ CallsKnow'
  <2>1. /\ \A p \in puts' : p.owner \notin {t, Nobody} => p \in puts
        /\ \A p, q \in puts' : p.owner = t /\ q.owner = t => p = q
        /\ \A p \in puts' : p.owner = t =>
             /\ k.pc \in {"create", "put"} /\ p.ceremony = k.request.ceremony
             /\ p.record = k.record
    BY <1>1, <1>7, <1>8, <1>9
  <2> QED
    BY <1>1, <1>5, <1>6, <1>9, <2>1, TaskStep DEF IInv
<1>13. puts' \subseteq Put
  BY <1>1, <1>7, <1>9 DEF TypeOK
<1> QED
  BY <1>1, <1>11, <1>12, <1>13, QuietStep

\* claim and complete_verified begin by loading the record.
LEMMA BeginMutationInv ==
  ASSUME IInv, NEW t \in Tasks, NEW r \in ClaimRequests \union CompleteRequests,
         NEW b \in BindingType \union {None}, NEW now \in HostTime,
         BeginMutation(t, r, b, now)
  PROVE  IInv'
<1> DEFINE k == [pc |-> "load", request |-> r, now |-> now, attempts |-> 0,
                 binding |-> b, record |-> None]
<1>1. /\ tasks[t] = IdleTask /\ tasks' = [tasks EXCEPT ![t] = k]
      /\ UNCHANGED <<clock, kv, puts, begun, claims, completions>>
  BY DEF BeginMutation, ghosts
<1>2. now \in Time /\ r \in Requests /\ r.op # "begin"
  BY CeremonyConstants DEF HostTime, Requests
<1>3. 0 \in 0 .. MAX_CAS_ATTEMPTS - 1
  BY CeremonyConstants
<1>4. k \in Call /\ Knows(k)
  BY <1>2, <1>3 DEF Call, Knows
<1>5. TypeOK /\ \A p \in puts : p.owner # t
  <2>1. tasks[t].pc = "idle" /\ t # Nobody
    BY <1>1, CeremonyConstants DEF IdleTask
  <2> QED
    BY <2>1 DEF IInv, OwnersWait
<1> HIDE DEF k
<1>6. /\ tasks' \in [Tasks -> {IdleTask} \union Call]
      /\ OwnersWait' /\ OnePut' /\ CallsKnow'
  BY <1>1, <1>4, <1>5, TaskStep DEF IInv
<1>7. PutsFollow' /\ puts' \subseteq Put
  BY <1>1, <1>5 DEF IInv, PutsFollow, Cas, TypeOK
<1> QED
  BY <1>1, <1>6, <1>7, QuietStep

\* The PUT of a handler is applied, and the handler answers with what it wrote.
LEMMA AppliedInv ==
  ASSUME IInv, NEW t \in Tasks, NEW p \in puts, tasks[t].pc \in {"create", "put"},
         p.owner = t, Cas(p), KvPut(p), puts' = puts \ {p},
         Succeed(t, tasks[t].record, FALSE), UNCHANGED clock
  PROVE  IInv'
<1>1. /\ TypeOK /\ Stored /\ PutsFollow /\ OwnersWait /\ OnePut /\ CallsKnow
      /\ GhostsStand /\ t # Nobody /\ tasks[t].pc # "idle"
  BY CeremonyConstants DEF IInv
<1>2. /\ kv' \in [Ceremonies -> [revision: Nat, record: Record \union {None}]]
      /\ Stored' /\ PutsFollow' /\ \A c \in Ceremonies : Evolves(c)
      /\ kv'[p.ceremony].revision # 0 /\ kv'[p.ceremony].record = p.record
  BY <1>1, KvPutStep
<1>3. /\ \A b \in begun : BeginStands(b)'
      /\ \A a \in claims : ClaimStands(a)'
      /\ \A a \in completions : CompletionStands(a)'
  BY <1>1, <1>2, AnswersKept
<1>4. /\ p.ceremony = tasks[t].request.ceremony /\ p.record = tasks[t].record
      /\ p.record \in Record
  BY <1>1, PutParts DEF OwnersWait
<1>5. /\ tasks[t].request \in Requests /\ tasks[t].now \in Time
      /\ tasks[t].binding \in BindingType \union {None}
  BY <1>1, CallsAre
<1>6. Knows(tasks[t])
  BY <1>1 DEF CallsKnow
<1>7. tasks[t].request.op = "begin" =>
        /\ tasks[t].binding \in BindingType
        /\ tasks[t].record.binding = tasks[t].binding
  <2> SUFFICES ASSUME tasks[t].request.op = "begin"
               PROVE  /\ tasks[t].binding \in BindingType
                      /\ tasks[t].record.binding = tasks[t].binding
    OBVIOUS
  <2>1. tasks[t].binding = Binding(tasks[t].request, tasks[t].now)
    BY <1>1, <1>6 DEF Knows
  <2>2. tasks[t].pc = "create"
    BY <1>6 DEF Knows, Asked
  <2>3. tasks[t].record = PendingRecord(tasks[t].request, tasks[t].now)
    BY <1>6, <2>2 DEF Knows
  <2>4. tasks[t].record.binding = tasks[t].binding
    BY <2>1, <2>3 DEF PendingRecord
  <2> QED
    BY <1>4, <2>4 DEF Record
<1>8. tasks[t].request.op # "begin" => Asked(tasks[t])
  BY <1>6 DEF Knows
<1>9. tasks[t].request.op = "complete" =>
        /\ tasks[t].record.status = "completed" /\ tasks[t].record.terminal \in Terminal
        /\ tasks[t].record.terminal.receipt = tasks[t].request.receipt
        /\ tasks[t].record.claim_id = tasks[t].request.claim_id
        /\ tasks[t].record.fencing_token = tasks[t].request.fencing_token
  <2>1. Valid(p.record) /\ p.record.terminal \in Terminal \union {None}
    BY <1>1, <1>4 DEF PutsFollow, Record
  <2>2. p.record.status = "completed" => p.record.terminal \in Terminal
    BY <2>1 DEF Valid, ValidCompleted
  <2> QED
    BY <1>4, <1>8, <2>2 DEF Asked
<1>10. tasks[t].request.op = "claim" =>
         tasks[t].record.claim_id = tasks[t].request.claim_id
  BY <1>8 DEF Asked
<1>11. PICK rec : rec = tasks[t].record
  OBVIOUS
<1>12. /\ GhostsStand'
       /\ begun' \subseteq [ceremony: Ceremonies, binding: BindingType]
       /\ claims' \subseteq [ceremony: Ceremonies, claim_id: ClaimIds, fencing_token: Nat]
       /\ completions' \subseteq
            [ceremony: Ceremonies, claim_id: {r.claim_id : r \in CompleteRequests},
             fencing_token: Nat, receipt: {r.receipt : r \in CompleteRequests},
             terminal: Terminal, replayed: BOOLEAN]
  BY <1>1, <1>2, <1>3, <1>4, <1>7, <1>9, <1>10, <1>11, SucceedStep
<1>13. /\ tasks' \in [Tasks -> {IdleTask} \union Call]
       /\ OwnersWait' /\ OnePut' /\ CallsKnow'
  <2>1. Answer(t)
    BY DEF Succeed
  <2>2. \A q \in puts' : q.owner # t
    BY <1>1 DEF OnePut
  <2> QED
    BY <1>1, <2>1, <2>2, AnswerStep
<1>14. TypeOK'
  BY <1>1, <1>2, <1>12, <1>13 DEF TypeOK
<1> QED
  BY <1>2, <1>12, <1>13, <1>14 DEF IInv
\* The PUT of a handler is refused: the handler loads again, or gives up.
LEMMA MismatchInv ==
  ASSUME IInv, NEW t \in Tasks, NEW p \in puts, CreateMismatch(t, p) \/ PutMismatch(t, p)
  PROVE  IInv'
<1>1. /\ tasks[t].pc \in {"create", "put"} /\ p.owner = t /\ ~Cas(p)
      /\ KvPut(p) /\ puts' = puts \ {p}
      /\ UNCHANGED <<clock, begun, claims, completions>>
  BY DEF CreateMismatch, PutMismatch, ghosts
<1>2. /\ TypeOK /\ OwnersWait /\ OnePut /\ CallsKnow /\ PutsFollow /\ t # Nobody
      /\ tasks[t].pc # "idle" /\ puts \subseteq Put
  BY <1>1, CeremonyConstants DEF IInv, TypeOK
<1>3. kv' = kv /\ \A q \in puts' : q.owner # t
  BY <1>1, <1>2 DEF KvPut, OnePut
<1>4. PutsFollow' /\ puts' \subseteq Put
  BY <1>1, <1>2, <1>3 DEF PutsFollow, Cas
<1>5. tasks[t] \in Call /\ tasks[t].attempts \in 0 .. MAX_CAS_ATTEMPTS - 1
  BY <1>2, CallsAre
<1>6. ASSUME NEW n \in 0 .. MAX_CAS_ATTEMPTS - 1,
             tasks' = [tasks EXCEPT ![t] = [tasks[t] EXCEPT !.pc = "load", !.attempts = n]]
      PROVE  /\ tasks' \in [Tasks -> {IdleTask} \union Call]
             /\ OwnersWait' /\ OnePut' /\ CallsKnow'
  <2>1. PICK k : k = [tasks[t] EXCEPT !.pc = "load", !.attempts = n]
    OBVIOUS
  <2>2. /\ k \in Call /\ k.pc = "load" /\ k.request = tasks[t].request
        /\ k.binding = tasks[t].binding /\ k.now = tasks[t].now
    BY <1>5, <1>6, <2>1 DEF Call
  <2>3. Knows(k)
    BY <1>2, <2>2 DEF CallsKnow, Knows
  <2>4. tasks' = [tasks EXCEPT ![t] = k]
    BY <1>6, <2>1
  <2>5. \A q \in puts' : q.owner # t /\ q \in puts
    BY <1>1, <1>3
  <2> QED
    BY <1>2, <2>2, <2>3, <2>4, <2>5, TaskStep
<1>7. /\ tasks' \in [Tasks -> {IdleTask} \union Call]
      /\ OwnersWait' /\ OnePut' /\ CallsKnow'
  <2>1. CASE CreateMismatch(t, p)
    <3>1. tasks' = [tasks EXCEPT ![t] = [tasks[t] EXCEPT !.pc = "load"]]
      BY <2>1 DEF CreateMismatch
    <3>2. [tasks[t] EXCEPT !.pc = "load"] =
            [tasks[t] EXCEPT !.pc = "load", !.attempts = tasks[t].attempts]
      BY <1>5 DEF Call
    <3> QED
      BY <1>5, <1>6, <3>1, <3>2
  <2>2. CASE PutMismatch(t, p) /\ tasks[t].attempts + 1 < MAX_CAS_ATTEMPTS
    <3>1. tasks' = [tasks EXCEPT ![t] = [tasks[t] EXCEPT !.pc = "load",
                                           !.attempts = tasks[t].attempts + 1]]
      BY <2>2 DEF PutMismatch, Retry
    <3>2. tasks[t].attempts + 1 \in 0 .. MAX_CAS_ATTEMPTS - 1
      BY <1>5, <2>2, CeremonyConstants
    <3> QED
      BY <1>6, <3>1, <3>2
  <2>3. CASE PutMismatch(t, p) /\ ~(tasks[t].attempts + 1 < MAX_CAS_ATTEMPTS)
    <3>1. Answer(t)
      BY <2>3 DEF PutMismatch, Retry
    <3> QED
      BY <1>1, <1>2, <1>3, <3>1, AnswerStep
  <2> QED
    BY <2>1, <2>2, <2>3
<1> QED
  BY <1>1, <1>3, <1>4, <1>7, QuietStep

\* The stored record answers the request.
LEMMA LoadReplaysInv ==
  ASSUME IInv, NEW t \in Tasks, LoadReplays(t)
  PROVE  IInv'
<1>1. PICK r, stored : r = tasks[t].request /\ stored = kv[r.ceremony]
  OBVIOUS
<1>2. /\ tasks[t].pc = "load" /\ LoadResult(t) = "replay"
      /\ Succeed(t, stored.record, TRUE) /\ UNCHANGED <<clock, kv, puts>>
  BY <1>1 DEF LoadReplays
<1>3. /\ TypeOK /\ Stored /\ PutsFollow /\ OwnersWait /\ OnePut /\ CallsKnow
      /\ GhostsStand /\ t # Nobody /\ tasks[t].pc # "idle"
  BY <1>2, CeremonyConstants DEF IInv
<1>4. /\ r \in Requests /\ tasks[t].binding \in BindingType \union {None}
      /\ r.ceremony \in Ceremonies /\ r.op \in {"begin", "claim", "complete"}
  BY <1>1, <1>3, CallsAre, RequestsAre
<1>5. stored.revision # 0 => stored.record \in Record
  BY <1>1, <1>3, <1>4, KvParts
<1>6. r.op = "begin" =>
        stored.revision # 0 /\ stored.record.binding = tasks[t].binding
  <2>1. r.op = "begin" => BeginResult(r, tasks[t].now, stored) = "replay"
    BY <1>1, <1>2 DEF LoadResult
  <2>2. r.op = "begin" => tasks[t].binding = Binding(r, tasks[t].now)
    BY <1>1, <1>3 DEF CallsKnow, Knows
  <2> QED
    BY <2>1, <2>2, BeginReplays
<1>7. r.op = "claim" =>
        /\ stored.revision # 0
        /\ stored.record.status = "claimed" => stored.record.claim_id = r.claim_id
  <2>1. r.op = "claim" => ClaimResult(r, tasks[t].now, stored) = "replay"
    BY <1>1, <1>2 DEF LoadResult
  <2> QED
    BY <2>1, ClaimReplays
<1>8. r.op = "complete" =>
        /\ stored.revision # 0 /\ stored.record.status = "completed"
        /\ stored.record.terminal \in Terminal
        /\ stored.record.terminal.receipt = r.receipt
  <2>1. r.op = "complete" => CompleteResult(r, tasks[t].binding, tasks[t].now, stored) = "replay"
    BY <1>1, <1>2 DEF LoadResult
  <2> QED
    BY <1>5, <2>1, CompletionReplays
<1>9. stored.revision # 0 /\ stored.record \in Record
  BY <1>4, <1>5, <1>6, <1>7, <1>8
<1>10. stored.record.binding \in BindingType
  BY <1>9 DEF Record
<1>11. /\ \A b \in begun : BeginStands(b)'
       /\ \A a \in claims : ClaimStands(a)'
       /\ \A a \in completions : CompletionStands(a)'
  BY <1>2, <1>3 DEF GhostsStand, BeginStands, ClaimStands, CompletionStands
<1>12. PICK rec : rec = stored.record
  OBVIOUS
<1>13. kv'[r.ceremony].revision # 0 /\ kv'[r.ceremony].record = rec
  BY <1>1, <1>2, <1>9, <1>12
<1>14. /\ GhostsStand'
       /\ begun' \subseteq [ceremony: Ceremonies, binding: BindingType]
       /\ claims' \subseteq [ceremony: Ceremonies, claim_id: ClaimIds, fencing_token: Nat]
       /\ completions' \subseteq
            [ceremony: Ceremonies, claim_id: {q.claim_id : q \in CompleteRequests},
             fencing_token: Nat, receipt: {q.receipt : q \in CompleteRequests},
             terminal: Terminal, replayed: BOOLEAN]
  BY <1>1, <1>2, <1>3, <1>6, <1>7, <1>8, <1>9, <1>10, <1>11, <1>12, <1>13, SucceedStep
<1>15. /\ tasks' \in [Tasks -> {IdleTask} \union Call]
       /\ OwnersWait' /\ OnePut' /\ CallsKnow'
  <2>1. Answer(t)
    BY <1>2 DEF Succeed
  <2>2. \A q \in puts' : q.owner # t
    BY <1>2, <1>3 DEF OwnersWait
  <2> QED
    BY <1>2, <1>3, <2>1, <2>2, AnswerStep
<1>16. TypeOK' /\ Stored' /\ PutsFollow'
  BY <1>2, <1>3, <1>14, <1>15 DEF TypeOK, Stored, PutsFollow, Cas
<1> QED
  BY <1>14, <1>15, <1>16 DEF IInv

\* The handler answers with an error.
LEMMA LoadFailsInv ==
  ASSUME IInv, NEW t \in Tasks, LoadFails(t)
  PROVE  IInv'
<1>1. /\ tasks[t].pc = "load" /\ Answer(t)
      /\ UNCHANGED <<clock, kv, puts, begun, claims, completions>>
  BY DEF LoadFails, ghosts
<1>2. /\ TypeOK /\ OwnersWait /\ OnePut /\ CallsKnow /\ PutsFollow /\ t # Nobody
      /\ puts \subseteq Put
  BY CeremonyConstants DEF IInv, TypeOK
<1>3. \A q \in puts' : q.owner # t
  BY <1>1, <1>2 DEF OwnersWait
<1>4. /\ tasks' \in [Tasks -> {IdleTask} \union Call]
      /\ OwnersWait' /\ OnePut' /\ CallsKnow'
  BY <1>1, <1>2, <1>3, AnswerStep
<1>5. PutsFollow' /\ puts' \subseteq Put
  BY <1>1, <1>2 DEF PutsFollow, Cas
<1> QED
  BY <1>1, <1>4, <1>5, QuietStep

\* The handler sends a PUT that follows the record it loaded.
LEMMA LoadMutatesInv ==
  ASSUME IInv, NEW t \in Tasks, LoadMutates(t)
  PROVE  IInv'
<1>1. PICK r, stored, rec, p0, k :
        /\ r = tasks[t].request /\ stored = kv[r.ceremony]
        /\ rec = IF r.op = "claim" THEN Claimed(stored.record, r, tasks[t].now)
                                   ELSE Completed(stored.record, r, tasks[t].now)
        /\ p0 = NewPut(t, r.ceremony, stored.revision, rec)
        /\ k = [tasks[t] EXCEPT !.pc = "put", !.record = rec]
  OBVIOUS
<1>2. /\ tasks[t].pc = "load" /\ LoadResult(t) = "put"
      /\ puts' = puts \union {p0} /\ tasks' = [tasks EXCEPT ![t] = k]
      /\ UNCHANGED <<clock, kv, begun, claims, completions>>
  BY <1>1 DEF LoadMutates, ghosts
<1>3. /\ TypeOK /\ Stored /\ OwnersWait /\ OnePut /\ CallsKnow /\ PutsFollow
      /\ puts \subseteq Put /\ t # Nobody /\ tasks[t].pc # "idle"
  BY <1>2, CeremonyConstants DEF IInv, TypeOK
<1>4. /\ r \in Requests /\ tasks[t].now \in Time /\ tasks[t] \in Call
      /\ r.ceremony \in Ceremonies /\ r.op \in {"begin", "claim", "complete"}
  BY <1>1, <1>3, CallsAre, RequestsAre
<1>5. /\ stored.revision # 0 => stored.record \in Record
      /\ stored.revision \in Nat
  BY <1>1, <1>3, <1>4, KvParts
<1>6. r.op # "begin"
  BY <1>1, <1>2 DEF LoadResult, BeginResult
<1>7. /\ stored.revision # 0 /\ rec \in Record /\ Valid(rec)
      /\ Follows(rec, stored.record)
      /\ r.op = "claim" => rec.status = "claimed" /\ rec.claim_id = r.claim_id
      /\ r.op = "complete" =>
           /\ rec.status = "completed" /\ rec.claim_id = r.claim_id
           /\ rec.fencing_token = r.fencing_token /\ rec.terminal.receipt = r.receipt
  <2>1. CASE r.op = "claim"
    <3>1. r \in ClaimRequests /\ ClaimResult(r, tasks[t].now, stored) = "put"
      BY <1>1, <1>2, <1>4, <2>1, RequestsAre DEF LoadResult
    <3> QED
      BY <1>1, <1>4, <1>5, <2>1, <3>1, ClaimPuts
  <2>2. CASE r.op = "complete"
    <3>1. /\ r \in CompleteRequests
          /\ CompleteResult(r, tasks[t].binding, tasks[t].now, stored) = "put"
      BY <1>1, <1>2, <1>4, <2>2, RequestsAre DEF LoadResult
    <3> QED
      BY <1>1, <1>4, <1>5, <2>2, <3>1, CompletePuts
  <2> QED
    BY <1>4, <1>6, <2>1, <2>2
<1>8. /\ k \in Call /\ k.pc = "put" /\ k.request = r /\ k.record = rec
  BY <1>1, <1>4, <1>7 DEF Call
<1>9. Knows(k)
  BY <1>4, <1>6, <1>7, <1>8 DEF Knows, Asked
<1>10. /\ p0 \in Put /\ p0.owner = t /\ p0.ceremony = r.ceremony
       /\ p0.prev_revision = stored.revision /\ p0.record = rec
  BY <1>1, <1>4, <1>5, <1>7 DEF NewPut, Put
<1>11. \A p \in puts : p.owner # t
  BY <1>2, <1>3 DEF OwnersWait
<1>12. /\ tasks' \in [Tasks -> {IdleTask} \union Call]
       /\ OwnersWait' /\ OnePut' /\ CallsKnow'
  <2>1. /\ \A p \in puts' : p.owner \notin {t, Nobody} => p \in puts
        /\ \A p, q \in puts' : p.owner = t /\ q.owner = t => p = q
        /\ \A p \in puts' : p.owner = t =>
             /\ k.pc \in {"create", "put"} /\ p.ceremony = k.request.ceremony
             /\ p.record = k.record
    BY <1>2, <1>8, <1>10, <1>11
  <2> QED
    BY <1>2, <1>3, <1>8, <1>9, <2>1, TaskStep
<1>13. PutsFollow'
  <2> SUFFICES ASSUME NEW q \in puts'
               PROVE  /\ Valid(q.record)
                      /\ q.prev_revision <= kv'[q.ceremony].revision
                      /\ q.prev_revision # 0 /\ kv'[q.ceremony].revision = q.prev_revision
                           => Follows(q.record, kv'[q.ceremony].record)
    BY DEF PutsFollow, Cas
  <2>1. q \in puts \/ q = p0
    BY <1>2
  <2>2. CASE q = p0
    <3>1. kv'[q.ceremony] = stored
      BY <1>1, <1>2, <1>10, <2>2
    <3> QED
      BY <1>5, <1>7, <1>10, <2>2, <3>1
  <2>3. CASE q \in puts
    BY <1>2, <1>3, <2>3 DEF PutsFollow, Cas
  <2> QED
    BY <2>1, <2>2, <2>3
<1>14. puts' \subseteq Put
  BY <1>2, <1>3, <1>10
<1> QED
  BY <1>2, <1>12, <1>13, <1>14, QuietStep
\* A handler is dropped, or KV fails it: its PUT has no owner any more.
LEMMA AbandonInv ==
  ASSUME IInv, NEW t \in Tasks, Abandon(t)
  PROVE  IInv'
<1>1. /\ puts' = {IF p.owner = t THEN [p EXCEPT !.owner = Nobody] ELSE p : p \in puts}
      /\ tasks' = [tasks EXCEPT ![t] = IdleTask]
      /\ UNCHANGED <<clock, kv, begun, claims, completions>>
  BY DEF Abandon, ghosts, Answer
<1>2. /\ TypeOK /\ OwnersWait /\ OnePut /\ CallsKnow /\ PutsFollow /\ t # Nobody
  BY CeremonyConstants DEF IInv
<1>3. ASSUME NEW q \in puts'
      PROVE  \E p \in puts :
               /\ q \in Put /\ q.ceremony = p.ceremony /\ q.record = p.record
               /\ q.prev_revision = p.prev_revision
               /\ q.owner # t /\ (q.owner # Nobody => q = p)
  <2>1. PICK p \in puts : q = IF p.owner = t THEN [p EXCEPT !.owner = Nobody] ELSE p
    BY <1>1, <1>3
  <2>2. p \in Put
    BY <1>2, PutParts
  <2>3. CASE p.owner = t
    BY <1>2, <2>1, <2>2, <2>3 DEF Put
  <2>4. CASE p.owner # t
    BY <2>1, <2>2, <2>4
  <2> QED
    BY <2>3, <2>4
<1>4. /\ tasks' \in [Tasks -> {IdleTask} \union Call]
      /\ OwnersWait' /\ OnePut' /\ CallsKnow'
  <2>1. /\ \A p \in puts' : p.owner # t
        /\ \A p \in puts' : p.owner \notin {t, Nobody} => p \in puts
    BY <1>3
  <2>2. Knows(IdleTask)
    BY DEF Knows, IdleTask
  <2> QED
    BY <1>1, <1>2, <2>1, <2>2, TaskStep
<1>5. PutsFollow'
  <2> SUFFICES ASSUME NEW q \in puts'
               PROVE  /\ Valid(q.record)
                      /\ q.prev_revision <= kv'[q.ceremony].revision
                      /\ q.prev_revision # 0 /\ kv'[q.ceremony].revision = q.prev_revision
                           => Follows(q.record, kv'[q.ceremony].record)
    BY DEF PutsFollow, Cas
  <2>1. PICK p \in puts : /\ q.ceremony = p.ceremony /\ q.record = p.record
                          /\ q.prev_revision = p.prev_revision
    BY <1>3
  <2> QED
    BY <1>1, <1>2, <2>1 DEF PutsFollow, Cas
<1>6. puts' \subseteq Put
  BY <1>3
<1> QED
  BY <1>1, <1>4, <1>5, <1>6, QuietStep

\* A PUT without an owner reaches KV.
LEMMA LatePutInv ==
  ASSUME IInv, NEW p \in puts, LatePut(p)
  PROVE  IInv'
<1>1. /\ p.owner = Nobody /\ KvPut(p) /\ puts' = puts \ {p}
      /\ UNCHANGED <<clock, tasks, begun, claims, completions>>
  BY DEF LatePut, ghosts
<1>2. /\ TypeOK /\ Stored /\ PutsFollow /\ OwnersWait /\ OnePut /\ CallsKnow
      /\ GhostsStand
  BY DEF IInv
<1>3. /\ kv' \in [Ceremonies -> [revision: Nat, record: Record \union {None}]]
      /\ Stored' /\ PutsFollow' /\ \A c \in Ceremonies : Evolves(c)
  BY <1>1, <1>2, KvPutStep
<1>4. /\ \A b \in begun : BeginStands(b)'
      /\ \A a \in claims : ClaimStands(a)'
      /\ \A a \in completions : CompletionStands(a)'
  BY <1>2, <1>3, AnswersKept
<1>5. GhostsStand'
  BY <1>1, <1>2, <1>4 DEF GhostsStand, ClaimsDiffer
<1>6. TypeOK' /\ OwnersWait' /\ OnePut' /\ CallsKnow'
  BY <1>1, <1>2, <1>3 DEF TypeOK, OwnersWait, OnePut, CallsKnow
<1> QED
  BY <1>3, <1>5, <1>6 DEF IInv

\* A clock that advances, and a step that changes nothing.
LEMMA TimeInv ==
  ASSUME IInv, Tick \/ UNCHANGED vars
  PROVE  IInv'
<1>1. UNCHANGED <<kv, tasks, puts, begun, claims, completions>>
  BY DEF Tick, vars, ghosts
<1>2. clock' \in 1 .. MaxTime
  BY CeremonyConstants DEF IInv, TypeOK, Tick, vars
<1>3. TypeOK'
  BY <1>1, <1>2 DEF IInv, TypeOK
<1>4. Stored' /\ PutsFollow' /\ OwnersWait' /\ OnePut' /\ CallsKnow'
  BY <1>1 DEF IInv, Stored, PutsFollow, Cas, OwnersWait, OnePut, CallsKnow
<1>5. GhostsStand'
  BY <1>1 DEF IInv, GhostsStand, ClaimsDiffer, BeginStands, ClaimStands, CompletionStands
<1> QED
  BY <1>3, <1>4, <1>5 DEF IInv

\* Every step keeps the invariant.
LEMMA InvStep == IInv /\ [Next]_vars => IInv'
<1> SUFFICES ASSUME IInv, [Next]_vars PROVE IInv'
  OBVIOUS
<1>1. ASSUME NEW t \in Tasks, NEW r \in BeginRequests, NEW now \in HostTime,
             Begin(t, r, now)
      PROVE  IInv'
  BY <1>1, BeginInv
<1>2. ASSUME NEW t \in Tasks, NEW r \in ClaimRequests, NEW now \in HostTime,
             BeginMutation(t, r, None, now)
      PROVE  IInv'
  BY <1>2, BeginMutationInv
<1>3. ASSUME NEW t \in Tasks, NEW r \in CompleteRequests, NEW now \in HostTime,
             NEW b \in Bindings(r.ceremony), BeginMutation(t, r, b, now)
      PROVE  IInv'
  <2>1. b \in BindingType
    BY DEF IInv, TypeOK, Bindings
  <2> QED
    BY <1>3, <2>1, BeginMutationInv
<1>4. ASSUME NEW t \in Tasks, LoadReplays(t) \/ LoadFails(t) \/ LoadMutates(t) \/ Abandon(t)
      PROVE  IInv'
  BY <1>4, LoadReplaysInv, LoadFailsInv, LoadMutatesInv, AbandonInv
<1>5. ASSUME NEW t \in Tasks, NEW p \in puts, CreateApplied(t, p) \/ PutApplied(t, p)
      PROVE  IInv'
  BY <1>5, AppliedInv DEF CreateApplied, PutApplied
<1>6. ASSUME NEW t \in Tasks, NEW p \in puts, CreateMismatch(t, p) \/ PutMismatch(t, p)
      PROVE  IInv'
  BY <1>6, MismatchInv
<1>7. ASSUME NEW p \in puts, LatePut(p) PROVE IInv'
  BY <1>7, LatePutInv
<1>8. CASE Tick \/ UNCHANGED vars
  BY <1>8, TimeInv
<1> QED
  BY <1>1, <1>2, <1>3, <1>4, <1>5, <1>6, <1>7, <1>8 DEF Next

\* The invariant holds in every behaviour.
LEMMA Invariance == Spec => []IInv
<1> QED
  BY InitInv, InvStep, PTL DEF Spec

-----------------------------------------------------------------------------
(* The theorems.                                                           *)

\* Every variable of the ceremony service keeps its type, and no CAS loop makes
\* more than MAX_CAS_ATTEMPTS attempts.
THEOREM TypeCorrect == Spec => []TypeOK
<1>1. IInv => TypeOK
  BY DEF IInv
<1> QED
  BY <1>1, Invariance, PTL

\* No mix of replica clocks, takeovers and late PUTs stores a record that
\* validate_record_against_config refuses.
THEOREM NothingInvalidStored == Spec => []StoredRecordsValid
<1>1. IInv => StoredRecordsValid
  BY DEF IInv, Stored, StoredRecordsValid
<1> QED
  BY <1>1, Invariance, PTL

\* No granted claim is above the stored fencing token, and no token was granted to
\* two claimants, however many replicas claim and take over.
THEOREM FencingHolds == Spec => []FenceHolds
<1>1. IInv => FenceHolds
  BY DEF IInv, GhostsStand, ClaimStands, ClaimsDiffer, FenceHolds
<1> QED
  BY <1>1, Invariance, PTL

\* A result that was recorded was recorded by the last holder of the claim.
THEOREM HolderCompletes == Spec => []CompletedByHolder
<1>1. IInv => CompletedByHolder
  BY DEF IInv, GhostsStand, CompletionStands, CompletedByHolder
<1> QED
  BY <1>1, Invariance, PTL

\* Every answer to a begin or a completion agrees with what is stored, then and at
\* any later time.
THEOREM AnswersHold == Spec => []AnswersStand
<1>1. IInv => AnswersStand
  BY DEF IInv, GhostsStand, BeginStands, CompletionStands, AnswersStand
<1> QED
  BY <1>1, Invariance, PTL

\* A stored ceremony keeps its binding, its token only grows, and a completed one
\* does not change.
THEOREM CeremoniesEvolve == Spec => RecordEvolves
<1> DEFINE Step ==
      \A c \in Ceremonies :
        kv[c].revision # 0 /\ kv'[c] # kv[c] =>
          LET old == kv[c].record
              new == kv'[c].record
          IN /\ old.status # "completed"
             /\ new.binding = old.binding
             /\ new.fencing_token >= old.fencing_token
<1>1. IInv /\ [Next]_vars => [Step]_vars
  <2> SUFFICES ASSUME IInv, Next, NEW c \in Ceremonies, kv[c].revision # 0,
                      kv'[c] # kv[c]
               PROVE  LET old == kv[c].record
                          new == kv'[c].record
                      IN /\ old.status # "completed"
                         /\ new.binding = old.binding
                         /\ new.fencing_token >= old.fencing_token
    OBVIOUS
  <2>1. PICK p \in puts : KvPut(p) /\ puts' = puts \ {p}
    BY DEF Next, Begin, BeginMutation, LoadReplays, LoadFails, LoadMutates, Abandon,
           CreateApplied, CreateMismatch, PutApplied, PutMismatch, LatePut, Tick
  <2>2. Follows(kv'[c].record, kv[c].record) /\ kv'[c].revision # 0
    BY <2>1, KvPutStep DEF IInv, Evolves
  <2>3. kv[c].record.fencing_token \in Nat /\ kv'[c].record.fencing_token \in Nat
    <3>1. Stored'
      BY <2>1, KvPutStep DEF IInv
    <3>2. kv[c].record \in Record /\ kv'[c].record \in Record
      BY <2>2, <3>1 DEF IInv, Stored
    <3> QED
      BY <3>2 DEF Record
  <2> QED
    BY <2>2, <2>3 DEF Follows
<1> QED
  BY <1>1, Invariance, PTL DEF Spec, RecordEvolves
=============================================================================
