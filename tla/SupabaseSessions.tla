-------------------------- MODULE SupabaseSessions --------------------------
(***************************************************************************)
(* Verification of Supabase sessions, src/src/supabase.rs: the issuer of a *)
(* token selects a configured project, whose published key set (JWKS) is   *)
(* taken from a process-wide cache or fetched.  Sessions are verified by   *)
(* concurrent tasks; nothing coalesces their fetches, and between a read   *)
(* of the cache and the next step of a task the others may replace it.     *)
(*                                                                         *)
(* A key is the pair of the project that owns it and its kid.  Time is the *)
(* monotonic clock of the process.  An HTTP request ends within            *)
(* HTTP_TIMEOUT; steps that wait for nobody take no time.                  *)
(***************************************************************************)
EXTENDS Integers, FiniteSets

CONSTANTS
  Projects,      \* the registry, each project named by its issuer
  Surfaces,      \* Surfaces[p]: the surfaces p is bound to; {}: unbound
  Kids,
  KeySet,        \* the keys the projects ever have
  InitialKeys,   \* those published when the process starts
  Tokens,        \* the bearer tokens that are presented, any number of times
  Tasks,         \* verifications that can be under way at once
  TTL,           \* jwks_ttl
  FLOOR,         \* MIN_FORCED_JWKS_REFRESH_SECS
  HTTP_TIMEOUT,  \* timeout of the HTTP client
  MaxTime,       \* bound: time stops here
  MaxRotations,  \* bound: how often the projects change their key sets
  None

ASSUME SessionConstants ==
  /\ InitialKeys \subseteq KeySet /\ KeySet \subseteq Projects \X Kids
  /\ Surfaces \in [Projects -> SUBSET {"admin", "customer"}]
  \* from_spec: a project of a registry of several is bound.
  /\ Cardinality(Projects) > 1 => \A p \in Projects : Surfaces[p] # {}
  /\ Tokens \subseteq [iss: Projects \union {None}, kid: Kids \union {None},
                       signer: KeySet \union {None}, claims: BOOLEAN,
                       roles: SUBSET {"admin", "operator", "customer", "other"}]
  /\ TTL \in Nat /\ FLOOR \in Nat /\ HTTP_TIMEOUT \in Nat \ {0} /\ MaxTime \in Nat
  /\ MaxRotations \in Nat
  /\ None \notin Projects /\ None \notin Kids

VARIABLES
  mode,          \* FIDUCIA_DEPLOYMENT_MODE
  allow_remote,  \* allow_remote_userinfo
  clock,
  published,     \* published[k]: when k entered the key set of its project, or None
  withdrawn,     \* withdrawn[k]: when it left that set, or None
  jwks_cache,    \* per JWKS URL: the cached set and fetched_at, or None
  tasks,
  outcome        \* the answer the latest step gave, if it gave one

vars == <<mode, allow_remote, clock, published, withdrawn, jwks_cache, tasks, outcome>>

config == <<mode, allow_remote>>
upstream == <<published, withdrawn>>

-----------------------------------------------------------------------------
(* Configuration and policy.                                               *)

\* DeploymentMode: the policy does not tell the other three modes apart.
Modes == {"production", "other"}

\* remote_userinfo_policy_from_values: the settings with which the server starts.
RemoteUserinfoPolicy(m, allow, has_publishable_key) ==
  allow => m # "production" /\ has_publishable_key

\* ProjectRegistry::select.
Select(tok) ==
  IF \E p \in Projects : Projects = {p} /\ Surfaces[p] = {} THEN Projects
  ELSE Projects \intersect {tok.iss}

\* Mutant of CacheKey: one cached set for all projects.
CacheKeyShared(p) == CHOOSE q \in Projects : TRUE

\* The cache is keyed by the project's jwks_url.
CacheKey(p) == p

\* normalized_trusted_roles: an unknown role is dropped.
TrustedRoles(tok) == tok.roles \intersect {"admin", "operator", "customer"}

\* authorization_context: the surfaces the roles give, of those the project serves.
\* Only a session without any role is a customer's by default.
SurfaceAudiences(tok, p) ==
  LET derived ==
        {s \in {"admin"} : TrustedRoles(tok) \intersect {"admin", "operator"} # {}}
          \union {s \in {"customer"} : tok.roles = {} \/ "customer" \in TrustedRoles(tok)}
  IN IF Surfaces[p] = {} THEN derived ELSE derived \intersect Surfaces[p]

\* authorization_context: the capabilities, each with the surface it belongs to.
Capabilities(tok, p) ==
  {c \in {<<"admin", "read">>, <<"admin", "operate">>, <<"admin", "write">>,
          <<"customer", "self-service">>} :
     /\ c[1] \in SurfaceAudiences(tok, p)
     /\ c[2] = "write" => "admin" \in TrustedRoles(tok)}

-----------------------------------------------------------------------------
(* Key sets.                                                               *)

Published(k) == published[k] # None /\ withdrawn[k] = None

\* What the JWKS endpoint of p serves now.
KeysOf(p) == {k \in KeySet : k[1] = p /\ Published(k)}

Cached(p) == jwks_cache[CacheKey(p)]

Fresh(p) == Cached(p) # None /\ clock - Cached(p).fetched_at < TTL

\* Mutant of CooldownElapsed: only an expired set may be fetched again.
CooldownAtTtl(age) == age >= TTL

CooldownElapsed(age) == age >= FLOOR

ForcedRefreshAllowed(p) ==
  Cached(p) # None => CooldownElapsed(clock - Cached(p).fetched_at)

\* Mutant of Usable: an empty key set is cached like any other.
UsableAlways(keys) == TRUE

\* refresh_jwks refuses an empty set.
Usable(keys) == keys # {}

Find(keys, kid) == {k \in keys : k[2] = kid}

-----------------------------------------------------------------------------
(* Verification.                                                           *)

IdleTask == [pc |-> "idle"]

NoOutcome == [kind |-> "none"]

Quiet == outcome' = NoOutcome

Goto(t, pc) == tasks' = [tasks EXCEPT ![t].pc = pc]

Answer(t, o) == outcome' = o /\ tasks' = [tasks EXCEPT ![t] = IdleTask]

\* user_ctx_from_claims, user_ctx_from_remote_user: an identity, or an error.
UserCtx(t) ==
  LET tok == tasks[t].token IN
  [kind |-> "accepted", token |-> tok,
   capabilities |-> Capabilities(tok, tasks[t].project)]

MissingJwk(t) ==
  [kind |-> "missing_jwk", token |-> tasks[t].token, overlapped |-> tasks[t].overlapped]

Error(kind) == [kind |-> kind]

\* verify_with_jwks has failed: the user endpoint is asked where that is allowed.
JwksError(t, error) ==
  IF allow_remote
    THEN /\ tasks' = [tasks EXCEPT ![t].pc = "remote", ![t].keys = {}, ![t].sent = 0]
         /\ Quiet
    ELSE Answer(t, error)

\* The signature is checked with the key found; then the claims.
Decide(t, keys) ==
  IF tasks[t].token.signer \in Find(keys, tasks[t].token.kid) /\ tasks[t].token.claims
    THEN Answer(t, UserCtx(t))
    ELSE JwksError(t, Error("rejected"))

\* verify_session up to its first await that touches state.
Begin(t, tok) ==
  /\ tasks[t] = IdleTask
  /\ \E p \in Select(tok) :
       tasks' = [tasks EXCEPT ![t] =
         [pc |-> IF tok.kid # None THEN "cached" ELSE "remote", token |-> tok,
          project |-> p, sent |-> 0, forced |-> FALSE, keys |-> {},
          overlapped |-> FALSE]]
  /\ tok.kid = None => allow_remote
  /\ Quiet
  /\ UNCHANGED <<config, clock, upstream, jwks_cache>>

\* cached_jwks finds a set within its time to live.
CachedHit(t) ==
  /\ tasks[t].pc = "cached"
  /\ Fresh(tasks[t].project)
  /\ LET keys == Cached(tasks[t].project).keys IN
     IF Find(keys, tasks[t].token.kid) # {} THEN Decide(t, keys)
     ELSE Goto(t, "unknown_kid") /\ Quiet
  /\ UNCHANGED <<config, clock, upstream, jwks_cache>>

\* refresh_jwks sends its request.
Send(t, forced) ==
  /\ tasks' = [tasks EXCEPT ![t].pc = "fetch", ![t].sent = clock, ![t].forced = forced]
  /\ Quiet
  /\ UNCHANGED <<config, clock, upstream, jwks_cache>>

CachedMiss(t) ==
  /\ tasks[t].pc = "cached"
  /\ ~Fresh(tasks[t].project)
  /\ Send(t, FALSE)

\* The kid is not in the set: the age of what is cached now decides.
ForceRefresh(t) ==
  /\ tasks[t].pc = "unknown_kid"
  /\ ForcedRefreshAllowed(tasks[t].project)
  /\ Send(t, TRUE)

RefreshBlocked(t) ==
  /\ tasks[t].pc = "unknown_kid"
  /\ ~ForcedRefreshAllowed(tasks[t].project)
  /\ JwksError(t, MissingJwk(t))
  /\ UNCHANGED <<config, clock, upstream, jwks_cache>>

\* The endpoint answers; the answer is under way.
FetchServed(t) ==
  /\ tasks[t].pc = "fetch"
  /\ tasks' = [tasks EXCEPT ![t].pc = "served", ![t].keys = KeysOf(tasks[t].project)]
  /\ Quiet
  /\ UNCHANGED <<config, clock, upstream, jwks_cache>>

\* Mutant of FetchFails: the set in the cache is used, whatever its age.
FetchFailsServesStale(t) ==
  /\ tasks[t].pc \in {"fetch", "served"}
  /\ IF Cached(tasks[t].project) # None THEN Decide(t, Cached(tasks[t].project).keys)
     ELSE JwksError(t, Error("http"))
  /\ UNCHANGED <<config, clock, upstream, jwks_cache>>

\* The fetch fails or times out.
FetchFails(t) ==
  /\ tasks[t].pc \in {"fetch", "served"}
  /\ JwksError(t, Error("http"))
  /\ UNCHANGED <<config, clock, upstream, jwks_cache>>

\* Marks the verifications that missed their key in the set that is replaced and
\* have not looked at its age yet (ghost).
Overlap(p) ==
  [s \in Tasks |-> IF tasks[s].pc = "unknown_kid" /\ tasks[s].project = p
                     THEN [tasks[s] EXCEPT !.overlapped = TRUE] ELSE tasks[s]]

\* The answer arrives and replaces the cached set, whatever that is by now; the
\* task goes on with the set it fetched.
FetchArrives(t) ==
  /\ tasks[t].pc = "served"
  /\ LET p == tasks[t].project
         keys == tasks[t].keys
     IN IF ~Usable(keys)
          THEN JwksError(t, Error("empty_jwks")) /\ UNCHANGED jwks_cache
          ELSE /\ jwks_cache' = [jwks_cache EXCEPT ![CacheKey(p)] =
                    [fetched_at |-> clock, keys |-> keys]]
               /\ tasks' = [Overlap(p) EXCEPT ![t].pc = "find", ![t].sent = 0]
               /\ Quiet
  /\ UNCHANGED <<config, clock, upstream>>

\* verify_with_jwks goes on with the fetched set.
FindFetched(t) ==
  /\ tasks[t].pc = "find"
  /\ IF Find(tasks[t].keys, tasks[t].token.kid) # {} THEN Decide(t, tasks[t].keys)
     ELSE IF tasks[t].forced THEN JwksError(t, MissingJwk(t))
     ELSE tasks' = [tasks EXCEPT ![t].pc = "unknown_kid", ![t].keys = {}] /\ Quiet
  /\ UNCHANGED <<config, clock, upstream, jwks_cache>>

\* The user endpoint of the project: it knows the tokens the project has signed,
\* with whatever key.
RemoteAccepts(t) ==
  /\ tasks[t].pc = "remote"
  /\ LET tok == tasks[t].token IN
     /\ tok.signer # None /\ tok.signer[1] = tasks[t].project
     /\ Answer(t, IF tok.claims THEN UserCtx(t) ELSE Error("rejected"))
  /\ UNCHANGED <<config, clock, upstream, jwks_cache>>

RemoteFails(t) ==
  /\ tasks[t].pc = "remote"
  /\ Answer(t, Error("rejected"))
  /\ UNCHANGED <<config, clock, upstream, jwks_cache>>

\* The request is dropped while it waits for an answer.
Drop(t) ==
  /\ tasks[t].pc \in {"fetch", "served", "remote"}
  /\ tasks' = [tasks EXCEPT ![t] = IdleTask]
  /\ Quiet
  /\ UNCHANGED <<config, clock, upstream, jwks_cache>>

-----------------------------------------------------------------------------
(* The world.                                                              *)

\* Time passes while tasks wait for the network, no longer than the timeout.
Tick ==
  /\ clock < MaxTime
  /\ \A t \in Tasks :
       \/ tasks[t].pc \in {"idle", "remote"}
       \/ tasks[t].pc \in {"fetch", "served"} /\ clock < tasks[t].sent + HTTP_TIMEOUT
  /\ clock' = clock + 1
  /\ Quiet
  /\ UNCHANGED <<config, upstream, jwks_cache, tasks>>

Rotations ==
  Cardinality({k \in KeySet \ InitialKeys : published[k] # None})
    + Cardinality({k \in KeySet : withdrawn[k] # None})

\* A project rotates its signing keys.
Publish(k) ==
  /\ published[k] = None /\ Rotations < MaxRotations
  /\ published' = [published EXCEPT ![k] = clock]
  /\ Quiet
  /\ UNCHANGED <<config, clock, withdrawn, jwks_cache, tasks>>

Withdraw(k) ==
  /\ Published(k) /\ Rotations < MaxRotations
  /\ withdrawn' = [withdrawn EXCEPT ![k] = clock]
  /\ Quiet
  /\ UNCHANGED <<config, clock, published, jwks_cache, tasks>>

Init ==
  /\ mode \in Modes /\ allow_remote \in BOOLEAN
  /\ \E has_key \in BOOLEAN : RemoteUserinfoPolicy(mode, allow_remote, has_key)
  /\ clock = 0
  /\ published = [k \in KeySet |-> IF k \in InitialKeys THEN 0 ELSE None]
  /\ withdrawn = [k \in KeySet |-> None]
  /\ jwks_cache = [p \in Projects |-> None]
  /\ tasks = [t \in Tasks |-> IdleTask]
  /\ outcome = NoOutcome

Next ==
  \/ \E t \in Tasks :
       \/ \E tok \in Tokens : Begin(t, tok)
       \/ CachedHit(t) \/ CachedMiss(t) \/ ForceRefresh(t) \/ RefreshBlocked(t)
       \/ FetchServed(t) \/ FetchFails(t) \/ FetchArrives(t) \/ FindFetched(t)
       \/ RemoteAccepts(t) \/ RemoteFails(t) \/ Drop(t)
  \/ Tick
  \/ \E k \in KeySet : Publish(k) \/ Withdraw(k)

Spec == Init /\ [][Next]_vars

-----------------------------------------------------------------------------
Time == 0 .. MaxTime

CachedJwks == [fetched_at: Time, keys: (SUBSET KeySet) \ {{}}]

Verification ==
  [pc: {"cached", "unknown_kid", "fetch", "served", "find", "remote"}, token: Tokens,
   project: Projects, sent: Time, forced: BOOLEAN, keys: SUBSET KeySet,
   overlapped: BOOLEAN]

\* Types: in particular no empty key set is ever cached.
TypeOK ==
  /\ mode \in Modes /\ allow_remote \in BOOLEAN /\ clock \in Time
  /\ published \in [KeySet -> Time \union {None}]
  /\ withdrawn \in [KeySet -> Time \union {None}]
  /\ jwks_cache \in [Projects -> CachedJwks \union {None}]
  /\ tasks \in [Tasks -> {IdleTask} \union Verification]
  /\ outcome \in {NoOutcome} \union
       [kind: {"rejected", "http", "empty_jwks"}] \union
       [kind: {"missing_jwk"}, token: Tokens, overlapped: BOOLEAN] \union
       [kind: {"accepted"}, token: Tokens,
        capabilities: SUBSET ({"admin", "customer"} \X
                                {"read", "operate", "write", "self-service"})]

\* A key that its project withdrew stops opening sessions: in production it is
\* accepted for less than the time to live and one request timeout, although a
\* slow fetch may put an older key set in the place of a newer one.  (With a time
\* to live of zero, which the configuration takes: for one request timeout.)
WithdrawnKeyExpires ==
  outcome.kind = "accepted" /\ mode = "production" =>
    LET k == outcome.token.signer IN
    withdrawn[k] # None =>
      \/ clock - withdrawn[k] < TTL + HTTP_TIMEOUT
      \/ clock - withdrawn[k] <= HTTP_TIMEOUT

\* The signing key is the boundary between the surfaces: a session has a
\* capability of a surface only with a token signed by a project that is bound to
\* this surface, whatever issuer and roles it names and whichever sets are cached.
\* (An unbound project, which is alone in its registry, serves both surfaces.)
SurfaceNeedsItsProject ==
  outcome.kind = "accepted" =>
    LET bound == Surfaces[outcome.token.signer[1]] IN
    bound # {} => \A c \in outcome.capabilities : c[1] \in bound

\* Rotations converge: a token is refused for its unknown kid only while its key
\* has been published for at most the floor and one request timeout, unless the
\* cached set was replaced between the verification's two looks at the cache.
RotationConverges ==
  outcome.kind = "missing_jwk" /\ outcome.token.signer # None
      /\ outcome.token.signer[1] = outcome.token.iss
      /\ outcome.token.signer[2] = outcome.token.kid =>
    LET k == outcome.token.signer IN
    \/ ~Published(k)
    \/ clock - published[k] <= FLOOR + HTTP_TIMEOUT
    \/ outcome.overlapped
=============================================================================
