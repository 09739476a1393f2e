--------------------------- MODULE VerifierCache ---------------------------
(***************************************************************************)
(* The generation-aware decision cache of src/src/revocation_cache.rs, as  *)
(* operators on the state c of one cache.  Its users pass the time in; an  *)
(* operation that is given a time below the high-water mark answers        *)
(* ClockRegression and changes nothing, so Accepts is the guard of every   *)
(* operation.  A key is an authority key; that it is short and has no      *)
(* control characters is not modelled.                                     *)
(***************************************************************************)
EXTENDS Integers

CONSTANTS
  Keys,         \* opaque authority keys
  Freshness,    \* freshness_secs
  MAX_SEQUENCE, \* stands for the largest u64
  None          \* no entry, no refresh, no expiry

ASSUME CacheConstants ==
  /\ Freshness \in Nat \ {0}
  /\ MAX_SEQUENCE \in Nat \ {0}
  /\ None \notin Nat

\* AuthorityDecision: NotRevoked, or Revoked with an exclusive expiry or none.
AuthorityDecision ==
  [generation: Nat, revoked: BOOLEAN, expires_at: Nat \union {None}]

CacheEntry == [decision: AuthorityDecision, fresh_until: Nat]

\* high_water is 0 where the code has None: both accept every time.
RevocationCache ==
  [high_water: Nat, next_refresh_sequence: Nat,
   latest_refresh: [Keys -> Nat \union {None}],
   entries: [Keys -> CacheEntry \union {None}]]

\* RevocationCache::new: a verifier starts, and restarts, cold.
Cold ==
  [high_water |-> 0, next_refresh_sequence |-> 1,
   latest_refresh |-> [k \in Keys |-> None],
   entries |-> [k \in Keys |-> None]]

Accepts(c, now) == now >= c.high_water

\* observe_time of a time that is accepted.
Observe(c, now) == [c EXCEPT !.high_water = now]

Expired(d, now) == d.expires_at # None /\ now >= d.expires_at

\* Mutant of LookupDecision: the decision is used for as long as it is kept.
LookupUnaged(c, k, now) ==
  LET e == c.entries[k] IN
  CASE e = None -> "cold"
    [] e # None /\ e.decision.revoked -> "revoked"
    [] OTHER -> "allow"

\* lookup, once its time is accepted.
LookupDecision(c, k, now) ==
  LET e == c.entries[k] IN
  CASE e = None -> "cold"
    [] e # None /\ e.decision.revoked ->
         IF Expired(e.decision, now) THEN "expired_needs_refresh" ELSE "revoked"
    [] OTHER -> IF now < e.fresh_until THEN "allow" ELSE "stale"

\* begin_refresh: the sequence number of the permit, and the cache after it.
PermitSequence(c) == c.next_refresh_sequence

BeginRefresh(c, k, now) ==
  [Observe(c, now) EXCEPT
     !.next_refresh_sequence = IF @ < MAX_SEQUENCE THEN @ + 1 ELSE @,
     !.latest_refresh[k] = PermitSequence(c)]

\* Mutant of ApplyResult: any permit of a refresh under way will do.
ApplyAnyPermit(c, k, sequence, d) ==
  LET e == c.entries[k] IN
  CASE e # None /\ d.generation < e.decision.generation -> "generation_regression"
    [] OTHER -> "applied"

\* apply_authoritative: which of its answers it gives.
ApplyResult(c, k, sequence, d) ==
  LET e == c.entries[k] IN
  CASE c.latest_refresh[k] = None -> "unknown_refresh"
    [] c.latest_refresh[k] # None /\ sequence # c.latest_refresh[k] ->
         "superseded_refresh"
    [] e # None /\ sequence = c.latest_refresh[k]
         /\ d.generation < e.decision.generation -> "generation_regression"
    [] OTHER -> "applied"

\* The cache after apply_authoritative: a rejected answer replaces nothing.
ApplyAuthoritative(c, k, sequence, d, now) ==
  IF ApplyResult(c, k, sequence, d) = "applied"
    THEN [Observe(c, now) EXCEPT
            !.entries[k] = [decision |-> d, fresh_until |-> now + Freshness],
            !.latest_refresh[k] = None]
    ELSE Observe(c, now)

\* invalidate: the key is cold, and refreshes of it under way are forgotten.
Invalidate(c, k, now) ==
  [Observe(c, now) EXCEPT !.entries[k] = None, !.latest_refresh[k] = None]
=============================================================================
