# A TLA+ model of fiducia-auth

`fiducia-auth` authenticates the users and machines of fiducia.cloud.  Most of
its code is stateless (parsing, signatures, routing); what can go wrong in ways a
test hardly reaches is the state that several replicas, handlers or tasks share.
This directory models that state, checks it with TLC and proves the safety
properties with TLAPS.

## 1. Inventory

| Component | Source | State | Operations | What makes it hard | What makes it correct |
|---|---|---|---|---|---|
| Fiducia KV client | `store.rs` | none; values and revisions live in KV | `get_versioned`, `put_if_revision` | an answer may be lost; a PUT may take effect after its caller is gone | a PUT is applied at most once and only to the revision it names |
| Revocation ledger | `revocation.rs`, records in `token.rs` | one hash-chained list of at most 32 events per target, in KV | `revoke`, `lift`, `check` | racing CAS loops of several replicas with different clocks, retries, full ledgers, a check that reads two ledgers | acknowledged transitions are kept, repeated requests get one answer, stored ledgers validate, a standing revocation is seen |
| Revocation administration | `bin/fiducia-revocation-admin.rs` | none | the handlers around the ledger | a timeout layer that drops a handler in the middle | as above |
| Verifier gate | `gate.rs` | map of per-token locks | `authorize` | tasks on several threads, awaits, cancellation, reference counting | one refresh per token at a time, every call returns, locks do not pile up |
| Verifier cache | `cache.rs` | entries, high-water mark | `lookup`, `record_refresh_start`, `apply_authoritative` | times presented out of order, clock steps, eviction | bounded size, bounded staleness, stale stays stale |
| Generation-aware cache | `revocation_cache.rs` | entries, high-water mark, refresh sequence numbers | `lookup`, `begin_refresh`, `apply_authoritative`, `invalidate` | refreshes that overtake one another, invalidation under a refresh, restarts, three hosts' clocks | evidence only moves forward, a revocation takes effect in bounded time |
| API-key store | `keys.rs`, `model.rs` | a record per key and an index per organisation, in KV | `create`, `rotate`, `revoke`, `introspect`, `list` | two values written one after the other, CAS loops, retries with derived secrets | revocation is final, a version names one secret, a disclosed key is indexed and listed |
| Auth server | `main.rs` | none | the handlers around the key store; `exchange_token` | a timeout layer; a key revoked between introspection and minting | as above; a token does not outlive its exchange by more than its lifetime |
| Governance ceremonies | `governance_ceremony/*.inc.rs` | a record per ceremony, in KV | `begin`, `claim`, `complete_verified` | takeover by fencing token, expiry, replicas with different clocks, retries | one challenge, monotonic fencing, one result, recorded by the last holder |
| WebAuthn adapter, configuration | `governance_ceremony/webauthn.rs`, `config.inc.rs` | the key ring each replica loaded | `seal`, `open`, start, finish and recovery of passkey calls | replicas whose rings differ while keys are rotated, state presented in another context | a live ceremony can be opened everywhere, with its own challenge only |
| Supabase sessions | `supabase.rs`, `supabase_policy.rs`, roles, surfaces and capabilities in `model.rs` | one cache of the projects' key sets (JWKS) | `verify_session` with `cached_jwks`, `forced_refresh_allowed`, `refresh_jwks` | fetches that overlap, fail and overtake one another, key rotation, a cooldown read apart from the lookup | withdrawn keys stop, new keys start in bounded time; a project's key opens only its own surfaces |
| Organisation sync | `sync.rs` | a map replaced by a poller | `start`, `pull` | failures leave it stale, by design | not modelled |
| Token minting | `token.rs` | none | `mint_token`, `jwks` | cryptography; lifetimes on the issuer's clock | records, matching rules and lifetimes are modelled |

How they interact: the ledger, the key store and the ceremonies are handlers over
KV and share nothing else.  The gate calls the ledger's `check` as its authority
and keeps the answer in its cache.  A verifier outside this repository uses the
generation-aware cache in the same way, with tokens that the auth server minted.  The
HTTP servers add a clock reading, an
authorisation guard and a timeout.  The hazards that follow from this, each at
its line, are in `PROJECT.json`.

## 2. Modules

| Module | Models |
|---|---|
| `RevocationRegister` | what the ledger promises: a register per target to which legal transitions are added atomically, and answers that describe it |
| `RevocationLedger` | the ledger service over KV; implements `RevocationRegister` |
| `RevocationLedgerProofs` | theorems about what it stores |
| `RevocationLedgerRefinement` | theorems about what it answers, and that it implements `RevocationRegister` |
| `RevocationGate` | gate and cache, with the authority abstracted to the time since which each target is revoked |
| `VerifierCache` | the generation-aware cache, as operators on the state of one cache |
| `RevocationPropagation` | issuer, authority and verifier composed: `RevocationRegister` as the authority, `VerifierCache` in the verifier |
| `ApiKeyStore` | the key store and its handlers |
| `GovernanceCeremony` | the ceremony store and its handlers |
| `ProtectedState` | the WebAuthn adapter and its envelopes while the key ring is rotated |
| `SupabaseSessions` | session verification over the key-set cache |
| `RevocationGateProofs`, `RevocationPropagationProofs`, `ApiKeyStoreProofs`, `GovernanceCeremonyProofs`, `ProtectedStateProofs`, `SupabaseSessionsProofs` | an inductive invariant of the module each is named after, and its theorems |
| `MC...` | the requests and instances TLC runs |

Common to the three stores over KV:

* A handler invocation lives in a slot of `tasks`; its `pc` says which await it is
  at.  What the code does between two awaits is one action.  A GET is the action
  that reads `kv`.  A PUT is two: the handler adds it to `puts`, and KV handles it
  (`...Applied` or `...Mismatch`), which is also when the handler learns the
  answer.
* `Abandon` ends a handler whose GET or PUT failed, was cut off or timed out, or
  whose future was dropped.  Its PUT stays in `puts` without owner, and `LatePut`
  delivers it at any later time; it may also never arrive.
* A request is a member of a small set and may be sent any number of times, by
  any number of clients at once; a retry is the same request again.
* Hashes and derived secrets are modelled by the values they are taken of, that
  is, taken to be injective: in the key store a derived secret is the tuple of
  purpose and parts, in the ledger the hash of an event is the list of the
  contents up to it.
* KV gives the ledger one global revision counter.  The key store and the
  ceremonies only compare revisions of one path, so there each path counts its own.
* `outcome` is what the latest step answered; `acks`, `disclosed`, `revocations`,
  `begun`, `claims`, `completions` are ghost variables that remember answers.
  The key store's local record cache is written in production and never read, so
  it is not modelled; the variants without KV exist for tests only.

`RevocationLedger`: `Begin` and `Refuse` are `revoke`/`lift` up to the loop (the
record is built and validated with this request's time, before any lookup);
`LoadReplays`, `LoadFails`, `LoadAppends` are the three ways a turn of the loop
goes on after `load_ledger`, with `LoadResult` following the order of the code's
early returns; `PutApplied`, `PutMismatch` end the turn.  `CheckToken` and
`CheckSubject` are the two reads of `check`.  `clock` is real time; a replica's clock
is within `Skew` of it.

`RevocationGate`: `FastLookup`, `AcquireKey`, `LockKey`, `Recheck`, `RefreshStart`,
`ReadToken`, `ReadSubject`, `Apply` or `RefreshFails`, `Unlock`, `ReleaseKey`,
`DropLock` are `authorize` step by step, one step per critical section of a mutex
or await.  `ReleaseKey` and `DropLock` are apart because the `Arc` that
`release_key` owns is dropped after the map's guard.  `Cancel` drops the future
where it can be dropped: at an await.  `StepBack` sets the host clock back.

`VerifierCache`: an operator per method of `revocation_cache.rs`.  `Accepts` is
`observe_time`'s check: below the high-water mark every method answers
`ClockRegression` and changes nothing.  `ApplyResult` has the early returns of
`apply_authoritative` in their order.

`RevocationPropagation`: `Mint` is the second half of `exchange_token`; the behaviour
starts when `introspect` has read the key as valid (real time `Skew`), and `Tick` keeps
an exchange within the request timeout.  An exchange that is dropped makes no token and
needs no action.  `RevokeToken`, `RevokeSubject` and `Lift` are accepted by
`RevocationRegister`, which the `ledger` run shows the real service to implement; that
composition is why the authority needs no KV here.  `AuthorityAnswers` is `check` on the
clock of the server that answers, which need not be the one that accepted.  `Apply`
gives an answer to the cache, at a time taken up to `Late` ago; an answer that is
presented with a time below the high-water mark is lost, which `LoseRefresh` covers.
`generation_regression` cannot be reached in this composition: authority reads are
linearizable and permits refuse the overtaken ones, so the check is a second line of
defence.  A verifier that accepts `jsonwebtoken`'s default leeway of 60 s after `exp`
has that leeway added to the bound of `RevokedKeyDiesOut`.

`ProtectedState`: `Load` is what `from_env` builds, or a replica that does not start;
`Seal`, `Opens` and `AssociatedData` are the codec; `Start` and `Finish` stand for both
kinds of ceremony, with `require_kind` built into the kind of the context.  `Finish`
takes any context, any envelope and any credential that exist, so mixing them up is
part of every behaviour.  The operators are not code: they are assumed to change the
ring one step at a time, on all replicas before the next step, and to retire a key
only when the ring has stood for a ceremony's lifetime.  They may retire the active
key; the replicas that load that ring do not start, until it is put back.

`ApiKeyStore`: `BeginCreate` to `IndexApplied` are `create` with `index_add`;
`BeginMutate`, the `Load...` and `Put...` actions are `rotate` and `revoke`;
`IntrospectLoad`/`IntrospectIndex` and `ListIndex`/`ListLoad`/`ListDone` the two
readers.  `MAX_VERSION` stands for the largest `u64`.

`GovernanceCeremony`: `Begin`, `CreateApplied`, `CreateMismatch` and the load that
follows are `begin`; `BeginMutation`, `Load...`, `Put...` are `claim` and
`complete_verified`.  `Valid` is the record validation every load and every write
goes through.  A request that is refused before KV is touched changes nothing and
has no action.  `clock` is the fastest replica's clock; others are up to `Skew`
behind.

`SupabaseSessions`: `Begin` selects the project; `CachedHit`/`CachedMiss` are
`cached_jwks`; `ForceRefresh`/`RefreshBlocked` the decision of
`forced_refresh_allowed` on what is cached by then; `FetchServed`, `FetchArrives` or
`FetchFails` are `refresh_jwks`, where the endpoint's answer and its arrival are two
moments; `FindFetched` goes on with the fetched set; `RemoteAccepts`/`RemoteFails`
are the user endpoint.  A key is the pair of its project and its `kid`, and a
signature verifies when the key found is the signer's.  `Publish` and `Withdraw` are
the projects' rotations.  Time passes only while tasks wait for the network, and a
fetch ends within the HTTP client's timeout.  Tokens that are refused before the
cache is read (unknown issuer, no `kid` without fallback) have no action.

## 3. Runs

| Run | Shows | Bounds |
|---|---|---|
| `ledger` | types; stored ledgers validate; acknowledged transitions stay; all answers to an identity agree; a retry is not refused; the loop gives up only under contention; the service implements the register | two handlers, four requests on one token (one identity used with two reasons), ledgers of two events, two attempts, one late PUT, clocks that agree |
| `ledger_check` | a check never misses a revocation that stood from its start to its end | a token and its subject, five requests, one mutation and one check at a time, ledgers of three events, clock skew 1 |
| `gate` | single flight; a revoked token is not allowed once the budget has passed | two tokens of one subject, two tasks, cache of one entry, one cancellation |
| `gate_liveness` | every call returns; a decision that was too old once is not served again although the clock steps back | one token, two tasks, one step back |
| `keys` | a revoked record stays revoked and does not authenticate; a version names one secret; records evolve one version at a time and keep their identity; a created key that was disclosed is indexed; a valid key is listed; a listing shows every key whose creation was answered before it began | two workloads, one per behaviour: one key with its owner and a user of another organisation, two rotations, versions up to 4; two keys of one organisation racing for its index, an identity used with two payloads; one late PUT |
| `sessions` | types; a withdrawn key stops opening sessions within time to live and request timeout; a surface needs a key of a project bound to it; a new key is refused only within floor and request timeout, or when the set changed between the two looks at the cache | two projects with a key each and a second one for the customers' project, four tokens (one names the other issuer, one has no `kid`), two verifications at once, two rotations, time past expiry |
| `ceremony` | stored records validate; fencing holds; completion by the last holder; no two answers disagree about the challenge or the result; records evolve | one ceremony, two verifiers, a takeover, a token used twice, clock skew 1, expiry after two units, one late PUT |
| `propagation` | a revocation that has stood for `2*Skew + Delay + Freshness + Late` is not overlooked; a token is not admitted later than one request and one lifetime after its exchange read the key; late answers never replace newer evidence | one ledger (the token's or its subject's), clocks up to 1 off in either direction, two refreshes under way, one restart or invalidation, time past every expiry |
| `protected_state` | a live ceremony can be opened on every serving replica, however far a rotation has got; it is finished and recovered with its own challenge only | two replicas, two keys, two ceremonies of both kinds, four changes of the ring: introduce, activate, retire, put back |

Two handlers are enough for every race of a CAS loop with another writer, and a
late PUT acts as a third.  Two attempts distinguish a first turn, a repetition and
exhaustion.  Ledgers of two events fill up, after a revocation and its lift or a
second revocation; a cache of one entry evicts; time
runs past every expiry and past the freshness budget.  Handlers are
interchangeable, so the store models use symmetry on `Tasks`; the liveness run
does not.  A verifier shares nothing with another one and the lookup of a second
ledger can only deny more, so one verifier and one ledger are enough for
`propagation`; two refreshes overtake each other in every way that any number can.
Clocks at the ends of their range are the worst case of the bound.  Longer ledgers,
more handlers and larger skews are left to the proofs, which have no bounds.  The two workloads
of `keys` are kept apart to keep the state space small: one races for the record, the
other for the index, and both contain creates and introspections, which read both.

Runs that show a disagreement between code and documentation (each is a finding in
`PROJECT.json`):

| Run | Shows |
|---|---|
| `gate_lock_leak` | two tasks that release a key at the same time leave its lock in the map |
| `keys_rotation_retry` | a delayed retry of an earlier rotation installs its secret again |
| `ceremony_begin_retry` | a begin repeated a moment later is a conflict, because the binding contains the time |

More are known and have no run of their own: `ClockRegression` is answered although
the host clock never moved backward, because `authorize` takes `now` before it waits
for the lock (`cache.rs:131`; `cache.rs:31-34` says that it "means a verifier host clock
moved backward"); a revoke repeated after its token
expired is refused although it was applied (`revocation.rs:566`); a create repeated
after the key was rotated is a conflict (`keys.rs:510`); a rotation of a key whose
record was written and whose index entry was not discloses a secret that does not
authenticate until the create is repeated, which is why `DisclosedIsIndexed` speaks of
the first version only and `ListingComplete` of keys whose creation was answered (a
listing may miss a key that is rotated while its create is between the two writes); every prefix of a valid
ledger passes `validate`, though `docs/revocation-ledger.md:29` says that truncated
histories are rejected; and a session whose key has long been published can be
refused when another session replaces the cached set between its lookup and its look
at the set's age (`supabase.rs:324`), which is why `RotationConverges` makes that
exception.

**Fairness.** Only `gate_liveness` assumes any.  Weak fairness of `Proceed(t)`: the
runtime polls a task that can go on, and a refresh ends because of the timeout
around it.  Strong fairness of `LockKey(t)`: tokio's `Mutex` is fair, a waiter that
finds it free again and again gets it.

## 4. Proofs

Every invariant and action property that a passing run checks is also a theorem, for
every value of the constants: any sets of handlers, replicas, keys, tokens and
requests, any limits, lifetimes, delays and clock skews.  The one exception is the
liveness property of the gate.

| Module | Theorems | Properties |
|---|---|---|
| `RevocationLedgerProofs` | `TypeCorrect`, `LedgersStayValid`, `AcknowledgedNeverLost` | `TypeOK`, `StoredLedgersValid`, `AckedDurable` |
| `RevocationLedgerRefinement` | `AllAnswersAgree`, `RetriesAnswered`, `ExhaustionIsContention`, `StandingRevocationSeen`, `ServiceImplementsRegister` | `AnswersAgree`, `RetryNotRefused`, `ExhaustionMeansContention`, `CheckSeesStandingRevocation`, `ImplementsRegister` |
| `RevocationGateProofs` | `TypeCorrect`, `RefreshesAlone`, `RevocationsTakeEffect`, `StaleForGood` | `TypeOK`, `SingleFlight`, `RevokedWithinBudget`, `StaleStaysStale` |
| `RevocationPropagationProofs` | `TypeCorrect`, `BoundedPropagation`, `KeyDiesOut`, `EvidenceForward` | `TypeOK`, `RevokedWithinBound`, `RevokedKeyDiesOut`, `EvidenceMovesForward` |
| `ApiKeyStoreProofs` | `TypeCorrect`, `OneSecretPerVersion`, `RevocationIsFinal`, `CreatedKeysIndexed`, `OnlyListedKeysValid`, `ListingsComplete`, `KeysEvolve` | `TypeOK`, `VersionNamesSecret`, `RevocationHolds`, `DisclosedIsIndexed`, `ValidIsListed`, `ListingComplete`, `RecordEvolves` |
| `GovernanceCeremonyProofs` | `TypeCorrect`, `NothingInvalidStored`, `FencingHolds`, `HolderCompletes`, `AnswersHold`, `CeremoniesEvolve` | `TypeOK`, `StoredRecordsValid`, `FenceHolds`, `CompletedByHolder`, `AnswersStand`, `RecordEvolves` |
| `ProtectedStateProofs` | `TypeCorrect`, `RotationKeepsCeremonies`, `FinishedWithOwnChallenge` | `TypeOK`, `CeremoniesSurviveRotation`, `OwnChallenge` |
| `SupabaseSessionsProofs` | `TypeCorrect`, `WithdrawnKeysExpire`, `SurfacesSeparated`, `RotationsConverge` | `TypeOK`, `WithdrawnKeyExpires`, `SurfaceNeedsItsProject`, `RotationConverges` |

The only assumptions are those on the constants (`LedgerConstants`, `GateConstants`,
`CacheConstants` and `PropagationConstants`, `StoreConstants`, `CeremonyConstants`,
`ProtectedStateConstants`, `SessionConstants`), which TLC evaluates in the runs of the
module.  They say what the sets contain and that limits are numbers, positive where
the code's are.  Those that say more: a rotation marker is a value, that is, not the
`None` of a key that was never rotated; there is a replica, and a ring is not `None`;
a verifier's refreshes do not use up its sequence numbers, which are 64 bits wide;
tasks and tokens of the gate are finitely many, for the reference counts.

Each proof has the same shape: an inductive invariant `IInv`, a lemma per action, and
the properties as consequences.  Each `IInv` was checked with TLC on the instances of
section 3 before it was proved.  What it adds to the properties, and why:

*Stores over KV* (ledger, key store, ceremonies).  None of their properties is
inductive, because a PUT on the way could replace what is stored by anything.
The invariants say of every PUT on the way that its value is valid, that the revision
it names is not newer than the stored one, and that, if it is still the stored one,
its value follows the stored one: the ledger with one event more, a key of the next
version with the same identity, an index with no entry less, a ceremony with a higher
fencing token or the completion of the same claim.  Only such a PUT is applied, so
what was acknowledged keeps its place, whether a handler, or nobody any more, waits for
the PUT.  To acknowledge the right thing, a handler must know that the PUT it waits
for is the one it made (`OwnersWait`, `OnePut`, `CallsKnow`).  In the key store the
secrets that clients were told agree with the stored record and with each other,
and so do those that are about to be told by handlers that still have the index to
write (`Told`); a listing has shown, or still has in its list, every key whose
creation had been answered when it began.

*Refinement of the register.*  On top of that, `JInv` says that the event a PUT adds
is the one its request asks for; that an answer describes the event it is about; that
a retry of an acknowledged request finds its event and has written nothing; that
each failed attempt of a handler is matched by an event that another one added since it
began; and that a check keeps the targets that were active when it began and still are.
The refinement mapping takes the stored ledger, without hashes, as the register's
history and the answers given as its answers.  Initial states map to initial states; a
PUT that is applied maps to a transition the register accepts (the PUT
carries a ledger that validates, with the event its request asks for); an answer maps to an answer; the
rest are stutters.

*Gate.*  `SingleFlight` is about locks found through a map whose entries come and go.
The invariant says that the map still holds the `Arc` of every request that has not
released it (`Anchored`): `release_key` removes an entry only while its own `Arc`
and the map's are the only ones.  Two requests for one token therefore wait for the
same mutex, and the guard excludes one of them.  The budget's proof dates what was
learnt: an entry or an answer that allows a token was read no later than the
revocation.  It holds while the clock has not been set back, which is why the theorem is
`Spec => [](steps = 0 => RevokedWithinBudget)`; the `gate` run allows no step back.
A clock that is set back can delay it, while `StaleStaysStale` holds in any case,
from the fact that the high-water mark is the latest time ever presented.

*Propagation.*  An answer to a refresh that began when the revocation was visible says
revoked, and so does a cached decision that is fresh for longer than an answer to an
earlier refresh could be (`AnswersSee`, `CacheSees`); the bound is the sum of these delays.
That evidence moves forward follows from `AnswersOrdered`: the answer to the latest
permit is not behind the evidence taken in last, although earlier permits may have been
answered later.

*Protected state.*  The rotation procedure is what makes a live ceremony readable:
what any serving replica or the configuration seals with is on every serving replica,
and once all replicas have run the configuration for a lifetime, every live ceremony
was sealed with its active key, so retiring another one loses nothing (`SettledSeals`).

*Sessions.*  A key set is dated by a time since which the project served it
(`ServedSince`): a key in it was not withdrawn before that time, a published key not
in it was not published before.  A fetched set is dated by the moment the request was
sent, a cached one by the timeout before it was stored, so a slow fetch that replaces
a newer set is covered.  From this follow both directions of rotation.  The proof
showed two corners the runs do not reach: with a time to live of zero a key is
accepted for one timeout, not less, and a project without surfaces, alone in its
registry, serves both; `WithdrawnKeyExpires` and `SurfaceNeedsItsProject` say so.

Model-checked only: `EveryRequestAnswered` (liveness under fairness is outside the
prover's reach) and the three runs that show a disagreement, which are
counterexamples.  Time, clock steps, cancellations, late PUTs and restarts are bounded
in the actions' guards by constants (`MaxTime`, `MaxOrphans`, ...); the theorems hold for
every value of them.  No module declares a recursive operator.

## 5. Not modelled

HTTP framing, header and environment parsing, status codes, logging and metrics;
signatures, HMAC and WebAuthn; the in-memory store variants used by tests; the
production entrypoint, which checks its environment once and runs the server.
Organisation sync is one task that replaces a whole map under a lock, after a first
pull before the server listens: one writer and one variable leave no interleaving to
check, and that a failed pull keeps the old map without a bound on its age is intended
(a test of `sync.rs` pins it).  The independent proof model under `conformance/` is a
test model, not part of the program.
Deletion of KV values does not occur in the code.

## 6. Plan

1. More that the proofs' invariants could say: that a request of the gate whose clock
   stepped back by at most `d` is bounded by `Budget + d`, if TLC agrees; the operators of `VerifierCache` as lemmas a second
   composition could cite.
2. When the adapter's envelopes are attached to the ceremony records
   (`docs/founder-governance-ceremony-boundary.md:124`), compose `ProtectedState` with
   `GovernanceCeremony`.
