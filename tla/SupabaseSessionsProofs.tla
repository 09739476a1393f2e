----------------------- MODULE SupabaseSessionsProofs -----------------------
(***************************************************************************)
(* Key rotation and the boundary between the surfaces in SupabaseSessions, *)
(* for every registry of projects, any number of keys, tokens, concurrent  *)
(* verifications and rotations, and every time to live, floor and timeout. *)
(***************************************************************************)
EXTENDS SupabaseSessions, TLAPS

-----------------------------------------------------------------------------
(* The inductive invariant.                                                *)

\* The user endpoint is never asked in production.
Policy ==
  /\ mode = "production" => ~allow_remote
  /\ \A t \in Tasks : tasks[t].pc = "remote" => allow_remote

\* `keys` is what project p published at some time since `since`: a key in it was
\* not withdrawn before, a key that is published and not in it was not published
\* before.
ServedSince(keys, p, since) ==
  /\ \A k \in keys : k \in KeySet /\ k[1] = p
  /\ \A k \in keys : withdrawn[k] # None => since <= withdrawn[k]
  /\ \A k \in KeySet : k[1] = p /\ k \notin keys /\ Published(k) => since <= published[k]

CacheDated ==
  \A p \in Projects : jwks_cache[p] # None =>
    /\ jwks_cache[p].fetched_at <= clock
    /\ ServedSince(jwks_cache[p].keys, p, jwks_cache[p].fetched_at - HTTP_TIMEOUT)

\* The key that the token of u names is not known for a good reason: the cached
\* set was replaced, the key is new, or it is not in the cached set.
Unknown(u) ==
  \/ u.overlapped
  \/ \A k \in KeySet : k[1] = u.project /\ k[2] = u.token.kid /\ Published(k) =>
       clock - HTTP_TIMEOUT <= published[k]
  \/ /\ jwks_cache[u.project] # None
     /\ Find(jwks_cache[u.project].keys, u.token.kid) = {}

Timely(u) ==
  /\ u.pc # "idle" => u.project \in Select(u.token)
  /\ u.pc \in {"fetch", "served"} => u.sent <= clock /\ clock <= u.sent + HTTP_TIMEOUT
  /\ u.pc = "served" => ServedSince(u.keys, u.project, u.sent)
  /\ u.pc = "find" => ServedSince(u.keys, u.project, clock - HTTP_TIMEOUT)
  /\ u.pc = "unknown_kid" => Unknown(u)

OutcomeRight == WithdrawnKeyExpires /\ SurfaceNeedsItsProject /\ RotationConverges

IInv == /\ TypeOK /\ Policy /\ CacheDated /\ (\A t \in Tasks : Timely(tasks[t]))
        /\ OutcomeRight
-----------------------------------------------------------------------------
(* Verifications, times and key sets.                                      *)

Outcomes ==
  {NoOutcome} \union
    [kind: {"rejected", "http", "empty_jwks"}] \union
    [kind: {"missing_jwk"}, token: Tokens, overlapped: BOOLEAN] \union
    [kind: {"accepted"}, token: Tokens,
     capabilities: SUBSET ({"admin", "customer"} \X
                             {"read", "operate", "write", "self-service"})]

\* Times are natural numbers.
LEMMA TimesAre ==
  /\ 0 \in Time /\ \A x \in Time : x \in Nat
  /\ HTTP_TIMEOUT \in Nat /\ TTL \in Nat /\ FLOOR \in Nat
BY SessionConstants DEF Time

\* A slot holds a verification unless it is idle.
LEMMA TasksAre ==
  ASSUME TypeOK, NEW t \in Tasks
  PROVE  /\ tasks[t].pc # "idle" => tasks[t] \in Verification
         /\ tasks[t] = IdleTask <=> tasks[t].pc = "idle"
<1>1. tasks[t] \in {IdleTask} \union Verification
  BY DEF TypeOK
<1>2. ASSUME tasks[t] \in Verification PROVE tasks[t].pc # "idle"
  BY <1>2 DEF Verification
<1> QED
  BY <1>1, <1>2 DEF IdleTask

\* The parts of a verification.
LEMMA VerificationParts ==
  ASSUME NEW u \in Verification
  PROVE  /\ u.token \in Tokens /\ u.project \in Projects /\ u.sent \in Time
         /\ u.forced \in BOOLEAN /\ u.keys \subseteq KeySet /\ u.overlapped \in BOOLEAN
BY DEF Verification

\* A project that is selected is the one a token names that names its signer's.
LEMMA SelectIs ==
  ASSUME NEW tok \in Tokens, NEW p \in Select(tok)
  PROVE  /\ p \in Projects
         /\ tok.signer \in KeySet /\ tok.signer[1] = tok.iss => tok.signer[1] = p
<1>1. CASE \E q \in Projects : Projects = {q} /\ Surfaces[q] = {}
  <2>1. p \in Projects /\ \A q \in Projects : q = p
    BY <1>1 DEF Select
  <2>2. tok.signer \in KeySet => tok.signer[1] \in Projects
    BY SessionConstants
  <2> QED
    BY <2>1, <2>2
<1>2. CASE ~\E q \in Projects : Projects = {q} /\ Surfaces[q] = {}
  BY <1>2 DEF Select
<1> QED
  BY <1>1, <1>2

\* A set that was served since a time was served since an earlier one.
LEMMA ServedEarlier ==
  ASSUME TypeOK, NEW keys, NEW p, NEW a \in Int, NEW b \in Int, b <= a,
         ServedSince(keys, p, a)
  PROVE  ServedSince(keys, p, b)
<1>1. ASSUME NEW k \in keys, withdrawn[k] # None PROVE b <= withdrawn[k]
  <2>1. k \in KeySet /\ a <= withdrawn[k]
    BY <1>1 DEF ServedSince
  <2>2. withdrawn[k] \in Nat
    BY <1>1, <2>1, TimesAre DEF TypeOK
  <2> QED
    BY <2>1, <2>2
<1>2. ASSUME NEW k \in KeySet, k[1] = p, k \notin keys, Published(k)
      PROVE  b <= published[k]
  <2>1. a <= published[k]
    BY <1>2 DEF ServedSince
  <2>2. published[k] \in Nat
    BY <1>2, TimesAre DEF TypeOK, Published
  <2> QED
    BY <2>1, <2>2
<1> QED
  BY <1>1, <1>2 DEF ServedSince

\* What a verification knows stays true while time and keys stand still, and the
\* cached set too if it has missed its key there.
LEMMA TimelySame ==
  ASSUME UNCHANGED <<clock, published, withdrawn>>, NEW u, Timely(u),
         u.pc = "unknown_kid" =>
           u.overlapped \/ jwks_cache'[u.project] = jwks_cache[u.project]
  PROVE  Timely(u)'
<1>1. \A keys, p, since : ServedSince(keys, p, since) => ServedSince(keys, p, since)'
  BY DEF ServedSince, Published
<1>2. u.pc = "unknown_kid" /\ Unknown(u) => Unknown(u)'
  BY DEF Unknown, Published
<1>3. u.pc = "served" => ServedSince(u.keys, u.project, u.sent)'
  BY <1>1 DEF Timely
<1>4. u.pc = "find" => ServedSince(u.keys, u.project, clock - HTTP_TIMEOUT)'
  BY DEF Timely, ServedSince, Published
<1> QED
  BY <1>2, <1>3, <1>4 DEF Timely

\* And so does what is known of the cache.
LEMMA CacheSame ==
  ASSUME CacheDated, UNCHANGED <<clock, published, withdrawn, jwks_cache>>
  PROVE  CacheDated'
BY DEF CacheDated, ServedSince, Published

-----------------------------------------------------------------------------
(* Answers.                                                                *)

\* A step that gives no answer, or one that is an error.
LEMMA OtherOutcome ==
  ASSUME \/ outcome' = NoOutcome
         \/ outcome' \in [kind: {"rejected", "http", "empty_jwks"}]
  PROVE  outcome' \in Outcomes /\ OutcomeRight'
<1>1. outcome' \in Outcomes
  BY DEF Outcomes
<1>2. outcome'.kind \notin {"accepted", "missing_jwk"}
  BY DEF NoOutcome
<1> QED
  BY <1>1, <1>2 DEF OutcomeRight, WithdrawnKeyExpires, SurfaceNeedsItsProject,
                    RotationConverges

\* A session is accepted on a key of the project that was selected, which in
\* production was withdrawn recently if at all.
LEMMA AcceptedOutcome ==
  ASSUME IInv, NEW t \in Tasks, tasks[t].pc # "idle", outcome' = UserCtx(t),
         tasks[t].token.signer \in KeySet, tasks[t].token.signer[1] = tasks[t].project,
         UNCHANGED <<mode, clock, withdrawn>>,
         mode = "production" /\ withdrawn[tasks[t].token.signer] # None =>
           \/ clock - withdrawn[tasks[t].token.signer] < TTL + HTTP_TIMEOUT
           \/ clock - withdrawn[tasks[t].token.signer] <= HTTP_TIMEOUT
  PROVE  outcome' \in Outcomes /\ OutcomeRight'
<1>1. PICK u, tok, p, caps : /\ u = tasks[t] /\ tok = u.token /\ p = u.project
                             /\ caps = Capabilities(tok, p)
  OBVIOUS
<1>2. u \in Verification /\ tok \in Tokens /\ p \in Projects
  BY <1>1, TasksAre, VerificationParts DEF IInv
<1>3. outcome' = [kind |-> "accepted", token |-> tok, capabilities |-> caps]
  BY <1>1 DEF UserCtx
<1>4. /\ caps \subseteq {<<"admin", "read">>, <<"admin", "operate">>, <<"admin", "write">>,
                         <<"customer", "self-service">>}
      /\ \A c \in caps : c[1] \in SurfaceAudiences(tok, p)
  BY <1>1 DEF Capabilities
<1>5. caps \subseteq ({"admin", "customer"} \X {"read", "operate", "write", "self-service"})
  BY <1>4
<1>6. outcome' \in Outcomes
  BY <1>2, <1>3, <1>5 DEF Outcomes
<1>7. Surfaces[p] # {} => \A c \in caps : c[1] \in Surfaces[p]
  BY <1>4 DEF SurfaceAudiences
<1>8. /\ outcome'.kind = "accepted" /\ outcome'.token = tok /\ outcome'.capabilities = caps
  BY <1>3
<1>9. SurfaceNeedsItsProject'
  BY <1>1, <1>7, <1>8 DEF SurfaceNeedsItsProject
<1>10. WithdrawnKeyExpires'
  BY <1>1, <1>8 DEF WithdrawnKeyExpires
<1>11. RotationConverges'
  BY <1>8 DEF RotationConverges
<1> QED
  BY <1>6, <1>9, <1>10, <1>11 DEF OutcomeRight

\* A token is refused for a kid that is unknown for a good reason.
LEMMA MissingOutcome ==
  ASSUME IInv, NEW t \in Tasks, tasks[t].pc # "idle", outcome' = MissingJwk(t),
         UNCHANGED <<clock, published, withdrawn>>,
         \/ tasks[t].overlapped
         \/ \A k \in KeySet :
              k[1] = tasks[t].project /\ k[2] = tasks[t].token.kid /\ Published(k) =>
                clock - published[k] <= FLOOR + HTTP_TIMEOUT
  PROVE  outcome' \in Outcomes /\ OutcomeRight'
<1>1. PICK u, tok : u = tasks[t] /\ tok = u.token
  OBVIOUS
<1>2. /\ u \in Verification /\ tok \in Tokens /\ u.overlapped \in BOOLEAN
      /\ u.project \in Select(tok)
  BY <1>1, TasksAre, VerificationParts DEF IInv, Timely
<1>3. outcome' = [kind |-> "missing_jwk", token |-> tok, overlapped |-> u.overlapped]
  BY <1>1 DEF MissingJwk
<1>4. outcome' \in Outcomes
  BY <1>2, <1>3 DEF Outcomes
<1>5. /\ outcome'.kind = "missing_jwk" /\ outcome'.token = tok
      /\ outcome'.overlapped = u.overlapped
  BY <1>3
<1>6. ASSUME tok.signer # None, tok.signer[1] = tok.iss, tok.signer[2] = tok.kid
      PROVE  \/ ~Published(tok.signer)
             \/ clock - published[tok.signer] <= FLOOR + HTTP_TIMEOUT
             \/ u.overlapped
  <2>1. tok.signer \in KeySet
    BY <1>2, <1>6, SessionConstants
  <2>2. tok.signer[1] = u.project
    BY <1>2, <1>6, <2>1, SelectIs
  <2> QED
    BY <1>1, <1>6, <2>1, <2>2
<1>7. RotationConverges'
  BY <1>5, <1>6 DEF RotationConverges, Published
<1>8. WithdrawnKeyExpires' /\ SurfaceNeedsItsProject'
  BY <1>5 DEF WithdrawnKeyExpires, SurfaceNeedsItsProject
<1> QED
  BY <1>4, <1>7, <1>8 DEF OutcomeRight
-----------------------------------------------------------------------------
(* Steps of one verification.                                              *)

\* The verification in slot t goes on as u; time, keys and cache stand still.
LEMMA HandlerStep ==
  ASSUME IInv, NEW t \in Tasks, NEW u \in {IdleTask} \union Verification,
         tasks' = [tasks EXCEPT ![t] = u],
         UNCHANGED <<config, clock, upstream, jwks_cache>>,
         Timely(u), u.pc = "remote" => allow_remote,
         outcome' \in Outcomes, OutcomeRight'
  PROVE  IInv'
<1>1. UNCHANGED <<mode, allow_remote, clock, published, withdrawn, jwks_cache>>
  BY DEF config, upstream
<1>2. TypeOK /\ Policy /\ CacheDated /\ \A s \in Tasks : Timely(tasks[s])
  BY DEF IInv
<1>3. /\ tasks' \in [Tasks -> {IdleTask} \union Verification]
      /\ tasks'[t] = u /\ \A s \in Tasks : s # t => tasks'[s] = tasks[s]
  BY <1>2 DEF TypeOK
<1>4. TypeOK'
  BY <1>1, <1>2, <1>3 DEF TypeOK, Outcomes
<1>5. Policy'
  BY <1>1, <1>2, <1>3 DEF Policy
<1>6. CacheDated'
  BY <1>1, <1>2, CacheSame
<1>7. ASSUME NEW s \in Tasks PROVE Timely(tasks[s])'
  <2>1. PICK w : w = tasks'[s]
    OBVIOUS
  <2>2. Timely(w)
    BY <1>2, <1>3, <2>1
  <2>3. Timely(w)'
    BY <1>1, <2>2, TimelySame
  <2> QED
    BY <2>1, <2>3 DEF Timely, ServedSince, Unknown, Published
<1> QED
  BY <1>4, <1>5, <1>6, <1>7 DEF IInv

\* An idle slot has nothing to know.
LEMMA IdleKnows == Timely(IdleTask) /\ IdleTask.pc # "remote"
BY DEF Timely, IdleTask

\* verify_with_jwks fails: the answer, or the user endpoint where that is allowed.
LEMMA JwksErrorInv ==
  ASSUME IInv, NEW t \in Tasks, tasks[t].pc # "idle", NEW e, JwksError(t, e),
         UNCHANGED <<config, clock, upstream, jwks_cache>>,
         outcome' = e => outcome' \in Outcomes /\ OutcomeRight'
  PROVE  IInv'
<1>1. CASE ~allow_remote
  <2>1. outcome' = e /\ tasks' = [tasks EXCEPT ![t] = IdleTask]
    BY <1>1 DEF JwksError, Answer
  <2> QED
    BY <2>1, IdleKnows, HandlerStep
<1>2. CASE allow_remote
  <2>1. PICK u, v : u = tasks[t] /\ v = [u EXCEPT !.pc = "remote", !.keys = {}, !.sent = 0]
    OBVIOUS
  <2>2. tasks' = [tasks EXCEPT ![t] = v] /\ outcome' = NoOutcome
    BY <1>2, <2>1 DEF JwksError, Quiet
  <2>3. u \in Verification /\ Timely(u)
    BY <2>1, TasksAre DEF IInv
  <2>4. /\ v \in Verification /\ v.pc = "remote" /\ v.project = u.project
        /\ v.token = u.token
    BY <2>1, <2>3, TimesAre DEF Verification
  <2>5. Timely(v)
    BY <2>1, <2>3, <2>4 DEF Timely
  <2>6. outcome' \in Outcomes /\ OutcomeRight'
    BY <2>2, OtherOutcome
  <2> QED
    BY <1>2, <2>2, <2>4, <2>5, <2>6, HandlerStep
<1> QED
  BY <1>1, <1>2

\* A session is judged with keys of its project that in production were withdrawn
\* recently if at all.
LEMMA DecideInv ==
  ASSUME IInv, NEW t \in Tasks, tasks[t].pc # "idle", NEW keys, Decide(t, keys),
         UNCHANGED <<config, clock, upstream, jwks_cache>>,
         \A k \in keys : k \in KeySet /\ k[1] = tasks[t].project,
         \A k \in keys : withdrawn[k] # None =>
           \/ clock - withdrawn[k] < TTL + HTTP_TIMEOUT
           \/ clock - withdrawn[k] <= HTTP_TIMEOUT
  PROVE  IInv'
<1>1. CASE /\ tasks[t].token.signer \in Find(keys, tasks[t].token.kid)
           /\ tasks[t].token.claims
  <2>1. outcome' = UserCtx(t) /\ tasks' = [tasks EXCEPT ![t] = IdleTask]
    BY <1>1 DEF Decide, Answer
  <2>2. tasks[t].token.signer \in keys
    BY <1>1 DEF Find
  <2>3. outcome' \in Outcomes /\ OutcomeRight'
    BY <2>1, <2>2, AcceptedOutcome DEF config, upstream
  <2> QED
    BY <2>1, <2>3, IdleKnows, HandlerStep
<1>2. CASE ~(/\ tasks[t].token.signer \in Find(keys, tasks[t].token.kid)
             /\ tasks[t].token.claims)
  <2>1. PICK e : e = Error("rejected")
    OBVIOUS
  <2>2. JwksError(t, e)
    BY <1>2, <2>1 DEF Decide
  <2>3. outcome' = e => outcome' \in Outcomes /\ OutcomeRight'
    BY <2>1, OtherOutcome DEF Error
  <2> QED
    BY <2>2, <2>3, JwksErrorInv
<1> QED
  BY <1>1, <1>2

-----------------------------------------------------------------------------
(* The invariant, action by action.                                        *)

\* Nothing is cached or under way, and the settings are accepted by the policy.
LEMMA InitInv == Init => IInv
<1> SUFFICES ASSUME Init PROVE IInv
  OBVIOUS
<1>1. TypeOK
  <2>1. 0 \in Time
    BY TimesAre
  <2>2. /\ published \in [KeySet -> Time \union {None}]
        /\ withdrawn \in [KeySet -> Time \union {None}]
    BY <2>1 DEF Init
  <2> QED
    BY <2>1, <2>2 DEF Init, TypeOK
<1>2. Policy
  BY DEF Init, Policy, RemoteUserinfoPolicy, IdleTask
<1>3. CacheDated /\ \A t \in Tasks : Timely(tasks[t])
  BY IdleKnows DEF Init, CacheDated
<1>4. OutcomeRight
  BY DEF Init, NoOutcome, OutcomeRight, WithdrawnKeyExpires, SurfaceNeedsItsProject,
         RotationConverges
<1> QED
  BY <1>1, <1>2, <1>3, <1>4 DEF IInv

\* A verification begins: a token without kid goes to the user endpoint.
LEMMA BeginInv ==
  ASSUME IInv, NEW t \in Tasks, NEW tok \in Tokens, Begin(t, tok)
  PROVE  IInv'
<1>1. /\ UNCHANGED <<config, clock, upstream, jwks_cache>> /\ outcome' = NoOutcome
      /\ tok.kid = None => allow_remote
  BY DEF Begin, Quiet
<1>2. PICK p \in Select(tok) :
        tasks' = [tasks EXCEPT ![t] =
          [pc |-> IF tok.kid # None THEN "cached" ELSE "remote", token |-> tok,
           project |-> p, sent |-> 0, forced |-> FALSE, keys |-> {},
           overlapped |-> FALSE]]
  BY DEF Begin
<1>3. PICK pc : pc = IF tok.kid # None THEN "cached" ELSE "remote"
  OBVIOUS
<1>4. pc \in {"cached", "remote"} /\ (pc = "remote" => allow_remote) /\ p \in Projects
  BY <1>1, <1>3, SelectIs
<1>5. PICK u : u = [pc |-> pc, token |-> tok, project |-> p, sent |-> 0, forced |-> FALSE,
                    keys |-> {}, overlapped |-> FALSE]
  OBVIOUS
<1>6. u \in Verification /\ u.pc = pc /\ u.project = p /\ u.token = tok
  BY <1>4, <1>5, TimesAre DEF Verification
<1>7. tasks' = [tasks EXCEPT ![t] = u]
  BY <1>2, <1>3, <1>5
<1>8. Timely(u)
  BY <1>4, <1>6 DEF Timely
<1>9. outcome' \in Outcomes /\ OutcomeRight'
  BY <1>1, OtherOutcome
<1> QED
  BY <1>1, <1>4, <1>6, <1>7, <1>8, <1>9, HandlerStep

\* A fresh set is cached.
LEMMA CachedHitInv ==
  ASSUME IInv, NEW t \in Tasks, CachedHit(t)
  PROVE  IInv'
<1>1. PICK u, p, keys : u = tasks[t] /\ p = u.project /\ keys = jwks_cache[p].keys
  OBVIOUS
<1>2. /\ u.pc = "cached" /\ tasks[t].pc # "idle" /\ jwks_cache[p] # None
      /\ clock - jwks_cache[p].fetched_at < TTL
      /\ UNCHANGED <<config, clock, upstream, jwks_cache>>
      /\ IF Find(keys, u.token.kid) # {} THEN Decide(t, keys)
         ELSE Goto(t, "unknown_kid") /\ Quiet
  BY <1>1 DEF CachedHit, Fresh, Cached, CacheKey
<1>3. u \in Verification /\ Timely(u) /\ p \in Projects
  BY <1>1, <1>2, TasksAre, VerificationParts DEF IInv
<1>4. jwks_cache[p].fetched_at \in Nat /\ clock \in Nat
  BY <1>2, <1>3, TimesAre DEF IInv, TypeOK, CachedJwks
<1>5. ServedSince(keys, p, jwks_cache[p].fetched_at - HTTP_TIMEOUT)
  BY <1>1, <1>2, <1>3 DEF IInv, CacheDated
<1>6. CASE Find(keys, u.token.kid) # {}
  <2>1. \A k \in keys : k \in KeySet /\ k[1] = tasks[t].project
    BY <1>1, <1>5 DEF ServedSince
  <2>2. ASSUME NEW k \in keys, withdrawn[k] # None
        PROVE  clock - withdrawn[k] < TTL + HTTP_TIMEOUT
    <3>1. jwks_cache[p].fetched_at - HTTP_TIMEOUT <= withdrawn[k]
      BY <1>5, <2>2 DEF ServedSince
    <3>2. withdrawn[k] \in Nat
      BY <2>1, <2>2, TimesAre DEF IInv, TypeOK
    <3> QED
      BY <1>2, <1>4, <3>1, <3>2, TimesAre
  <2>3. Decide(t, keys)
    BY <1>2, <1>6
  <2> QED
    BY <1>2, <2>1, <2>2, <2>3, DecideInv
<1>7. CASE Find(keys, u.token.kid) = {}
  <2>1. PICK v : v = [u EXCEPT !.pc = "unknown_kid"]
    OBVIOUS
  <2>2. tasks' = [tasks EXCEPT ![t] = v] /\ outcome' = NoOutcome
    BY <1>1, <1>2, <1>7, <2>1 DEF Goto, Quiet
  <2>3. /\ v \in Verification /\ v.pc = "unknown_kid" /\ v.project = p
        /\ v.token = u.token
    BY <1>1, <1>3, <2>1 DEF Verification
  <2>4. Timely(v)
    BY <1>1, <1>2, <1>3, <1>7, <2>3 DEF Timely, Unknown
  <2>5. outcome' \in Outcomes /\ OutcomeRight'
    BY <2>2, OtherOutcome
  <2> QED
    BY <1>2, <2>2, <2>3, <2>4, <2>5, HandlerStep
<1> QED
  BY <1>6, <1>7

\* A request for the key set is sent.
LEMMA SendInv ==
  ASSUME IInv, NEW t \in Tasks, CachedMiss(t) \/ ForceRefresh(t)
  PROVE  IInv'
<1>1. PICK forced \in BOOLEAN : Send(t, forced)
  BY DEF CachedMiss, ForceRefresh
<1>2. tasks[t].pc # "idle"
  BY DEF CachedMiss, ForceRefresh
<1>3. PICK u, v : /\ u = tasks[t]
                  /\ v = [u EXCEPT !.pc = "fetch", !.sent = clock, !.forced = forced]
  OBVIOUS
<1>4. /\ tasks' = [tasks EXCEPT ![t] = v] /\ outcome' = NoOutcome
      /\ UNCHANGED <<config, clock, upstream, jwks_cache>>
  BY <1>1, <1>3 DEF Send, Quiet
<1>5. u \in Verification /\ Timely(u) /\ clock \in Time /\ clock \in Nat
  BY <1>2, <1>3, TasksAre, TimesAre DEF IInv, TypeOK
<1>6. /\ v \in Verification /\ v.pc = "fetch" /\ v.project = u.project
      /\ v.token = u.token /\ v.sent = clock
  BY <1>3, <1>5 DEF Verification
<1>7. clock <= clock + HTTP_TIMEOUT
  BY <1>5, TimesAre
<1>8. Timely(v)
  BY <1>2, <1>3, <1>5, <1>6, <1>7 DEF Timely
<1>9. outcome' \in Outcomes /\ OutcomeRight'
  BY <1>4, OtherOutcome
<1> QED
  BY <1>4, <1>6, <1>8, <1>9, HandlerStep

\* The kid is unknown and the cached set is younger than the floor.
LEMMA RefreshBlockedInv ==
  ASSUME IInv, NEW t \in Tasks, RefreshBlocked(t)
  PROVE  IInv'
<1>1. PICK u, p, e : u = tasks[t] /\ p = u.project /\ e = MissingJwk(t)
  OBVIOUS
<1>2. /\ u.pc = "unknown_kid" /\ tasks[t].pc # "idle" /\ JwksError(t, e)
      /\ jwks_cache[p] # None /\ ~(clock - jwks_cache[p].fetched_at >= FLOOR)
      /\ UNCHANGED <<config, clock, upstream, jwks_cache>>
  BY <1>1 DEF RefreshBlocked, ForcedRefreshAllowed, Cached, CacheKey, CooldownElapsed
<1>3. u \in Verification /\ Timely(u) /\ p \in Projects
  BY <1>1, <1>2, TasksAre, VerificationParts DEF IInv
<1>4. jwks_cache[p].fetched_at \in Nat /\ clock \in Nat
  BY <1>2, <1>3, TimesAre DEF IInv, TypeOK, CachedJwks
<1>5. ASSUME ~u.overlapped, NEW k \in KeySet, k[1] = p, k[2] = u.token.kid, Published(k)
      PROVE  clock - published[k] <= FLOOR + HTTP_TIMEOUT
  <2>1. published[k] \in Nat
    BY <1>5, TimesAre DEF IInv, TypeOK, Published
  <2>2. \/ clock - HTTP_TIMEOUT <= published[k]
        \/ Find(jwks_cache[p].keys, u.token.kid) = {}
    BY <1>1, <1>2, <1>3, <1>5 DEF Timely, Unknown
  <2>3. CASE clock - HTTP_TIMEOUT <= published[k]
    BY <1>4, <2>1, <2>3, TimesAre
  <2>4. CASE Find(jwks_cache[p].keys, u.token.kid) = {}
    <3>1. k \notin jwks_cache[p].keys
      BY <1>5, <2>4 DEF Find
    <3>2. jwks_cache[p].fetched_at - HTTP_TIMEOUT <= published[k]
      BY <1>2, <1>3, <1>5, <3>1 DEF IInv, CacheDated, ServedSince
    <3> QED
      BY <1>2, <1>4, <2>1, <3>2, TimesAre
  <2> QED
    BY <2>2, <2>3, <2>4
<1>6. outcome' = e => outcome' \in Outcomes /\ OutcomeRight'
  BY <1>1, <1>2, <1>5, MissingOutcome DEF upstream
<1> QED
  BY <1>2, <1>6, JwksErrorInv
\* The key set of the project is served as it is now.
LEMMA FetchServedInv ==
  ASSUME IInv, NEW t \in Tasks, FetchServed(t)
  PROVE  IInv'
<1>1. PICK u, p, keys, v : /\ u = tasks[t] /\ p = u.project /\ keys = KeysOf(p)
                           /\ v = [u EXCEPT !.pc = "served", !.keys = keys]
  OBVIOUS
<1>2. /\ u.pc = "fetch" /\ tasks' = [tasks EXCEPT ![t] = v] /\ outcome' = NoOutcome
      /\ UNCHANGED <<config, clock, upstream, jwks_cache>>
  BY <1>1 DEF FetchServed, Quiet
<1>3. u \in Verification /\ Timely(u) /\ keys \subseteq KeySet
  BY <1>1, <1>2, TasksAre DEF IInv, KeysOf
<1>4. /\ v \in Verification /\ v.pc = "served" /\ v.project = p /\ v.token = u.token
      /\ v.sent = u.sent /\ v.keys = keys
  BY <1>1, <1>3 DEF Verification
<1>5. ServedSince(keys, p, u.sent)
  BY <1>1 DEF KeysOf, ServedSince, Published
<1>6. Timely(v)
  BY <1>1, <1>2, <1>3, <1>4, <1>5 DEF Timely
<1>7. outcome' \in Outcomes /\ OutcomeRight'
  BY <1>2, OtherOutcome
<1> QED
  BY <1>2, <1>4, <1>6, <1>7, HandlerStep

\* A fetch fails: the cached set stays as it was.
LEMMA FetchFailsInv ==
  ASSUME IInv, NEW t \in Tasks, FetchFails(t)
  PROVE  IInv'
<1>1. PICK e : e = Error("http")
  OBVIOUS
<1>2. /\ tasks[t].pc # "idle" /\ JwksError(t, e)
      /\ UNCHANGED <<config, clock, upstream, jwks_cache>>
  BY <1>1 DEF FetchFails
<1>3. outcome' = e => outcome' \in Outcomes /\ OutcomeRight'
  BY <1>1, OtherOutcome DEF Error
<1> QED
  BY <1>2, <1>3, JwksErrorInv

\* A fetched set replaces the cached one, which may be newer; the verifications
\* that missed their key in the one that is replaced are marked.
LEMMA FetchArrivesInv ==
  ASSUME IInv, NEW t \in Tasks, FetchArrives(t)
  PROVE  IInv'
<1>1. PICK u, p, keys : u = tasks[t] /\ p = u.project /\ keys = u.keys
  OBVIOUS
<1>2. /\ u.pc = "served" /\ tasks[t].pc # "idle"
      /\ UNCHANGED <<config, clock, upstream>>
      /\ IF ~Usable(keys)
           THEN JwksError(t, Error("empty_jwks")) /\ UNCHANGED jwks_cache
           ELSE /\ jwks_cache' = [jwks_cache EXCEPT ![p] =
                     [fetched_at |-> clock, keys |-> keys]]
                /\ tasks' = [Overlap(p) EXCEPT ![t].pc = "find", ![t].sent = 0]
                /\ Quiet
  BY <1>1 DEF FetchArrives, CacheKey
<1>3. CASE ~Usable(keys)
  <2>1. PICK e : e = Error("empty_jwks")
    OBVIOUS
  <2>2. JwksError(t, e) /\ UNCHANGED <<config, clock, upstream, jwks_cache>>
    BY <1>2, <1>3, <2>1
  <2>3. outcome' = e => outcome' \in Outcomes /\ OutcomeRight'
    BY <2>1, OtherOutcome DEF Error
  <2> QED
    BY <1>2, <2>2, <2>3, JwksErrorInv
<1>4. CASE Usable(keys)
  <2>1. PICK c, v : /\ c = [fetched_at |-> clock, keys |-> keys]
                    /\ v = [u EXCEPT !.pc = "find", !.sent = 0]
    OBVIOUS
  <2>2. jwks_cache' = [jwks_cache EXCEPT ![p] = c] /\ outcome' = NoOutcome
    BY <1>2, <1>4, <2>1 DEF Quiet
  <2>3. TypeOK /\ Policy /\ CacheDated /\ \A s \in Tasks : Timely(tasks[s])
    BY DEF IInv
  <2>4. /\ u \in Verification /\ Timely(u) /\ p \in Projects /\ keys \subseteq KeySet
        /\ clock \in Time /\ clock \in Nat /\ u.sent \in Nat /\ u.token \in Tokens
    BY <1>1, <1>2, <2>3, TasksAre, VerificationParts, TimesAre DEF TypeOK
  <2>5. /\ UNCHANGED <<mode, allow_remote, clock, published, withdrawn>>
    BY <1>2 DEF config, upstream
  <2>6. /\ c \in CachedJwks /\ c.fetched_at = clock /\ c.keys = keys
    BY <1>4, <2>1, <2>4 DEF CachedJwks, Usable
  <2>7. /\ v \in Verification /\ v.pc = "find" /\ v.project = p /\ v.token = u.token
        /\ v.keys = keys
    BY <1>1, <2>1, <2>4, TimesAre DEF Verification
  <2>8. /\ DOMAIN tasks' = Tasks /\ tasks'[t] = v
        /\ \A s \in Tasks : s # t => tasks'[s] = Overlap(p)[s]
    BY <1>1, <1>2, <1>4, <2>1 DEF Overlap
  <2>9. ASSUME NEW s \in Tasks, s # t
        PROVE  /\ tasks'[s] \in {IdleTask} \union Verification
               /\ tasks'[s].pc = tasks[s].pc
               /\ \/ tasks'[s] = tasks[s]
                  \/ tasks[s].pc = "unknown_kid" /\ tasks'[s].overlapped
               /\ tasks'[s].pc = "unknown_kid" =>
                    \/ tasks'[s].overlapped
                    \/ tasks'[s].project # p /\ tasks'[s] = tasks[s]
               /\ tasks'[s].pc = "unknown_kid" =>
                    /\ tasks'[s].project = tasks[s].project
                    /\ tasks'[s].token = tasks[s].token
    <3>1. CASE tasks[s].pc = "unknown_kid" /\ tasks[s].project = p
      <4>1. tasks[s] \in Verification
        BY <2>3, <3>1, TasksAre
      <4>2. tasks'[s] = [tasks[s] EXCEPT !.overlapped = TRUE]
        BY <2>8, <2>9, <3>1 DEF Overlap
      <4> QED
        BY <3>1, <4>1, <4>2 DEF Verification
    <3>2. CASE ~(tasks[s].pc = "unknown_kid" /\ tasks[s].project = p)
      <4>1. tasks'[s] = tasks[s]
        BY <2>8, <2>9, <3>2 DEF Overlap
      <4> QED
        BY <2>3, <3>2, <4>1 DEF TypeOK
    <3> QED
      BY <3>1, <3>2
  <2>10. outcome' \in Outcomes /\ OutcomeRight'
    BY <2>2, OtherOutcome
  <2>11. TypeOK'
    <3>1. \A s \in Tasks : tasks'[s] \in {IdleTask} \union Verification
      BY <2>7, <2>8, <2>9
    <3>2. tasks' = [s \in Tasks |-> tasks'[s]]
      BY <1>2, <1>4 DEF Overlap
    <3>3. tasks' \in [Tasks -> {IdleTask} \union Verification]
      BY <3>1, <3>2
    <3>4. jwks_cache' \in [Projects -> CachedJwks \union {None}]
      BY <2>2, <2>3, <2>6 DEF TypeOK
    <3> QED
      BY <2>3, <2>5, <2>10, <3>3, <3>4 DEF TypeOK, Outcomes
  <2>12. Policy'
    <3>1. ASSUME NEW s \in Tasks, tasks'[s].pc = "remote" PROVE allow_remote
      BY <2>3, <2>7, <2>8, <2>9, <3>1 DEF Policy
    <3> QED
      BY <2>3, <2>5, <3>1 DEF Policy
  <2>13. ServedSince(keys, p, clock - HTTP_TIMEOUT)
    <3>1. ServedSince(keys, p, u.sent) /\ clock - HTTP_TIMEOUT <= u.sent
      BY <1>1, <1>2, <2>4, TimesAre DEF Timely
    <3> QED
      BY <2>3, <2>4, <3>1, TimesAre, ServedEarlier
  <2>14. CacheDated'
    <3>1. ASSUME NEW q \in Projects, jwks_cache'[q] # None
          PROVE  /\ jwks_cache'[q].fetched_at <= clock
                 /\ ServedSince(jwks_cache'[q].keys, q,
                                jwks_cache'[q].fetched_at - HTTP_TIMEOUT)
      <4>1. CASE q = p
        <5>1. jwks_cache'[q] = c
          BY <2>2, <2>3, <2>4, <4>1 DEF TypeOK
        <5> QED
          BY <2>4, <2>6, <2>13, <4>1, <5>1
      <4>2. CASE q # p
        <5>1. jwks_cache'[q] = jwks_cache[q]
          BY <2>2, <2>3, <4>2 DEF TypeOK
        <5> QED
          BY <2>3, <3>1, <5>1 DEF CacheDated
      <4> QED
        BY <4>1, <4>2
    <3> QED
      BY <2>5, <3>1 DEF CacheDated, ServedSince, Published
  <2>15. ASSUME NEW s \in Tasks PROVE Timely(tasks[s])'
    <3>1. PICK w : w = tasks'[s]
      OBVIOUS
    <3>2. ASSUME s = t PROVE Timely(w)'
      <4>1. Timely(v)
        BY <1>1, <1>2, <2>4, <2>7, <2>13 DEF Timely
      <4>2. Timely(v)'
        BY <2>5, <2>7, <4>1, TimelySame
      <4> QED
        BY <2>8, <3>1, <3>2, <4>2 DEF Timely, ServedSince, Unknown, Published
    <3>3. ASSUME s # t PROVE Timely(w)'
      <4>1. CASE tasks'[s] = tasks[s]
        <5>1. Timely(w)
          BY <2>3, <3>1, <4>1
        <5>2. w.pc = "unknown_kid" =>
                w.overlapped \/ jwks_cache'[w.project] = jwks_cache[w.project]
          BY <2>2, <2>3, <2>9, <3>1, <3>3, <4>1 DEF TypeOK
        <5> QED
          BY <2>5, <5>1, <5>2, TimelySame
      <4>2. CASE tasks[s].pc = "unknown_kid" /\ tasks'[s].overlapped
        <5>1. /\ w.pc = "unknown_kid" /\ w.overlapped
              /\ w.project \in Select(w.token)
          BY <2>3, <2>9, <3>1, <3>3, <4>2 DEF Timely
        <5> QED
          BY <5>1 DEF Timely, Unknown
      <4> QED
        BY <2>9, <3>3, <4>1, <4>2
    <3>4. Timely(w)'
      BY <3>2, <3>3
    <3> QED
      BY <3>1, <3>4 DEF Timely, ServedSince, Unknown, Published
  <2> QED
    BY <2>10, <2>11, <2>12, <2>14, <2>15 DEF IInv
<1> QED
  BY <1>3, <1>4
\* A verification goes on with the set it fetched.
LEMMA FindFetchedInv ==
  ASSUME IInv, NEW t \in Tasks, FindFetched(t)
  PROVE  IInv'
<1>1. PICK u, p, keys : u = tasks[t] /\ p = u.project /\ keys = u.keys
  OBVIOUS
<1>2. /\ u.pc = "find" /\ tasks[t].pc # "idle"
      /\ UNCHANGED <<config, clock, upstream, jwks_cache>>
      /\ IF Find(keys, u.token.kid) # {} THEN Decide(t, keys)
         ELSE IF u.forced THEN JwksError(t, MissingJwk(t))
         ELSE tasks' = [tasks EXCEPT ![t].pc = "unknown_kid", ![t].keys = {}] /\ Quiet
  BY <1>1 DEF FindFetched
<1>3. u \in Verification /\ Timely(u) /\ p \in Projects /\ clock \in Nat
  BY <1>1, <1>2, TasksAre, VerificationParts, TimesAre DEF IInv, TypeOK
<1>4. ServedSince(keys, p, clock - HTTP_TIMEOUT)
  BY <1>1, <1>2, <1>3 DEF Timely
<1>5. CASE Find(keys, u.token.kid) # {}
  <2>1. \A k \in keys : k \in KeySet /\ k[1] = tasks[t].project
    BY <1>1, <1>4 DEF ServedSince
  <2>2. ASSUME NEW k \in keys, withdrawn[k] # None
        PROVE  clock - withdrawn[k] <= HTTP_TIMEOUT
    <3>1. clock - HTTP_TIMEOUT <= withdrawn[k]
      BY <1>4, <2>2 DEF ServedSince
    <3>2. withdrawn[k] \in Nat
      BY <2>1, <2>2, TimesAre DEF IInv, TypeOK
    <3> QED
      BY <1>3, <3>1, <3>2, TimesAre
  <2>3. Decide(t, keys)
    BY <1>2, <1>5
  <2> QED
    BY <1>2, <2>1, <2>2, <2>3, DecideInv
<1>6. CASE Find(keys, u.token.kid) = {}
  <2>1. ASSUME NEW k \in KeySet, k[1] = p, k[2] = u.token.kid, Published(k)
        PROVE  clock - HTTP_TIMEOUT <= published[k] /\ published[k] \in Nat
    <3>1. k \notin keys
      BY <1>6, <2>1 DEF Find
    <3> QED
      BY <1>4, <2>1, <3>1, TimesAre DEF ServedSince, IInv, TypeOK, Published
  <2>2. CASE u.forced
    <3>1. PICK e : e = MissingJwk(t)
      OBVIOUS
    <3>2. JwksError(t, e)
      BY <1>2, <1>6, <2>2, <3>1
    <3>3. ASSUME NEW k \in KeySet, k[1] = p, k[2] = u.token.kid, Published(k)
          PROVE  clock - published[k] <= FLOOR + HTTP_TIMEOUT
      <4>1. clock - HTTP_TIMEOUT <= published[k] /\ published[k] \in Nat
        BY <2>1, <3>3
      <4> QED
        BY <1>3, <4>1, TimesAre
    <3>4. outcome' = e => outcome' \in Outcomes /\ OutcomeRight'
      BY <1>1, <1>2, <3>1, <3>3, MissingOutcome DEF upstream
    <3> QED
      BY <1>2, <3>2, <3>4, JwksErrorInv
  <2>3. CASE ~u.forced
    <3>1. PICK v : v = [u EXCEPT !.pc = "unknown_kid", !.keys = {}]
      OBVIOUS
    <3>2. tasks' = [tasks EXCEPT ![t] = v] /\ outcome' = NoOutcome
      BY <1>1, <1>2, <1>6, <2>3, <3>1 DEF Quiet
    <3>3. /\ v \in Verification /\ v.pc = "unknown_kid" /\ v.project = p
          /\ v.token = u.token
      BY <1>1, <1>3, <3>1 DEF Verification
    <3>4. Unknown(v)
      BY <2>1, <3>3 DEF Unknown
    <3>5. Timely(v)
      BY <1>1, <1>2, <1>3, <3>3, <3>4 DEF Timely
    <3>6. outcome' \in Outcomes /\ OutcomeRight'
      BY <3>2, OtherOutcome
    <3> QED
      BY <1>2, <3>2, <3>3, <3>5, <3>6, HandlerStep
  <2> QED
    BY <2>2, <2>3
<1> QED
  BY <1>5, <1>6

\* The user endpoint knows a token of its project; it is not asked in production.
LEMMA RemoteAcceptsInv ==
  ASSUME IInv, NEW t \in Tasks, RemoteAccepts(t)
  PROVE  IInv'
<1>1. PICK u, tok : u = tasks[t] /\ tok = u.token
  OBVIOUS
<1>2. /\ u.pc = "remote" /\ tasks[t].pc # "idle" /\ tok.signer # None
      /\ tok.signer[1] = u.project
      /\ UNCHANGED <<config, clock, upstream, jwks_cache>>
      /\ outcome' = IF tok.claims THEN UserCtx(t) ELSE Error("rejected")
      /\ tasks' = [tasks EXCEPT ![t] = IdleTask]
  BY <1>1 DEF RemoteAccepts, Answer
<1>3. mode # "production"
  BY <1>1, <1>2 DEF IInv, Policy
<1>4. tok \in Tokens
  BY <1>1, <1>2, TasksAre, VerificationParts DEF IInv
<1>5. tok.signer \in KeySet
  BY <1>2, <1>4, SessionConstants
<1>6. outcome' \in Outcomes /\ OutcomeRight'
  <2>1. CASE tok.claims
    BY <1>1, <1>2, <1>3, <1>5, <2>1, AcceptedOutcome DEF config, upstream
  <2>2. CASE ~tok.claims
    BY <1>2, <2>2, OtherOutcome DEF Error
  <2> QED
    BY <2>1, <2>2
<1> QED
  BY <1>2, <1>6, IdleKnows, HandlerStep

\* The user endpoint refuses, or the request is dropped.
LEMMA EndsInv ==
  ASSUME IInv, NEW t \in Tasks, RemoteFails(t) \/ Drop(t)
  PROVE  IInv'
<1>1. /\ UNCHANGED <<config, clock, upstream, jwks_cache>>
      /\ tasks' = [tasks EXCEPT ![t] = IdleTask]
      /\ outcome' = NoOutcome \/ outcome' = Error("rejected")
  BY DEF RemoteFails, Drop, Answer, Quiet
<1>2. outcome' \in Outcomes /\ OutcomeRight'
  BY <1>1, OtherOutcome DEF Error
<1> QED
  BY <1>1, <1>2, IdleKnows, HandlerStep

-----------------------------------------------------------------------------
(* The world.                                                              *)

\* Time passes only while every verification waits for the network or is over.
LEMMA TickInv ==
  ASSUME IInv, Tick
  PROVE  IInv'
<1>1. /\ clock < MaxTime /\ clock' = clock + 1 /\ outcome' = NoOutcome
      /\ UNCHANGED <<mode, allow_remote, published, withdrawn, jwks_cache, tasks>>
      /\ \A t \in Tasks :
           \/ tasks[t].pc \in {"idle", "remote"}
           \/ tasks[t].pc \in {"fetch", "served"} /\ clock < tasks[t].sent + HTTP_TIMEOUT
  BY DEF Tick, Quiet, config, upstream
<1>2. TypeOK /\ Policy /\ CacheDated /\ \A t \in Tasks : Timely(tasks[t])
  BY DEF IInv
<1>3. clock \in Nat /\ clock' \in Time /\ clock' \in Nat
  BY <1>1, <1>2, SessionConstants DEF TypeOK, Time
<1>4. outcome' \in Outcomes /\ OutcomeRight'
  BY <1>1, OtherOutcome
<1>5. TypeOK'
  BY <1>1, <1>2, <1>3, <1>4 DEF TypeOK, Outcomes
<1>6. Policy'
  BY <1>1, <1>2 DEF Policy
<1>7. CacheDated'
  <2>1. ASSUME NEW p \in Projects, jwks_cache[p] # None
        PROVE  jwks_cache[p].fetched_at <= clock'
    <3>1. jwks_cache[p].fetched_at \in Nat /\ jwks_cache[p].fetched_at <= clock
      BY <1>2, <2>1, TimesAre DEF TypeOK, CachedJwks, CacheDated
    <3> QED
      BY <1>1, <1>3, <3>1
  <2> QED
    BY <1>1, <1>2, <2>1 DEF CacheDated, ServedSince, Published
<1>8. ASSUME NEW t \in Tasks PROVE Timely(tasks[t])'
  <2>1. PICK u : u = tasks[t]
    OBVIOUS
  <2>2. Timely(u) /\ tasks'[t] = u
    BY <1>1, <1>2, <2>1
  <2>3. \/ u.pc \in {"idle", "remote"}
        \/ u.pc \in {"fetch", "served"} /\ clock < u.sent + HTTP_TIMEOUT
    BY <1>1, <2>1
  <2>4. u.pc \in {"fetch", "served"} => u.sent <= clock' /\ clock' <= u.sent + HTTP_TIMEOUT
    <3>1. ASSUME u.pc \in {"fetch", "served"}
          PROVE  u.sent \in Nat /\ u.sent <= clock /\ clock < u.sent + HTTP_TIMEOUT
      BY <1>2, <2>1, <2>2, <2>3, <3>1, TasksAre, VerificationParts, TimesAre DEF Timely
    <3> QED
      BY <1>1, <1>3, <3>1, TimesAre
  <2>5. u.pc = "served" => ServedSince(u.keys, u.project, u.sent)'
    BY <1>1, <2>2 DEF Timely, ServedSince, Published
  <2>6. u.pc \notin {"find", "unknown_kid"}
    BY <2>3
  <2>7. Timely(u)'
    BY <2>2, <2>4, <2>5, <2>6 DEF Timely
  <2> QED
    BY <2>2, <2>7 DEF Timely, ServedSince, Unknown, Published
<1> QED
  BY <1>4, <1>5, <1>6, <1>7, <1>8 DEF IInv

\* A set that was served some time ago was served then whatever the project does
\* with its keys now.
LEMMA ServedRotated ==
  ASSUME TypeOK, NEW k0 \in KeySet, Publish(k0) \/ Withdraw(k0), NEW keys, NEW p,
         NEW since, since <= clock, ServedSince(keys, p, since)
  PROVE  ServedSince(keys, p, since)'
<1>1. CASE Publish(k0)
  <2>1. withdrawn' = withdrawn /\ published' = [published EXCEPT ![k0] = clock]
    BY <1>1 DEF Publish
  <2>2. /\ published'[k0] = clock
        /\ \A k \in KeySet : k # k0 => published'[k] = published[k]
    BY <2>1 DEF TypeOK
  <2> QED
    BY <2>1, <2>2 DEF ServedSince, Published
<1>2. CASE Withdraw(k0)
  <2>1. /\ published' = published /\ withdrawn' = [withdrawn EXCEPT ![k0] = clock]
        /\ Published(k0)
    BY <1>2 DEF Withdraw
  <2>2. /\ withdrawn'[k0] = clock
        /\ \A k \in KeySet : k # k0 => withdrawn'[k] = withdrawn[k]
    BY <2>1 DEF TypeOK
  <2> QED
    BY <2>1, <2>2 DEF ServedSince, Published
<1> QED
  BY <1>1, <1>2

\* A project publishes or withdraws a key.
LEMMA RotationInv ==
  ASSUME IInv, NEW k0 \in KeySet, Publish(k0) \/ Withdraw(k0)
  PROVE  IInv'
<1>1. /\ outcome' = NoOutcome
      /\ UNCHANGED <<mode, allow_remote, clock, jwks_cache, tasks>>
      /\ \/ withdrawn' = withdrawn /\ published' = [published EXCEPT ![k0] = clock]
         \/ /\ published' = published /\ withdrawn' = [withdrawn EXCEPT ![k0] = clock]
            /\ Published(k0)
  BY DEF Publish, Withdraw, Quiet, config
<1>2. TypeOK /\ Policy /\ CacheDated /\ \A t \in Tasks : Timely(tasks[t])
  BY DEF IInv
<1>3. clock \in Nat /\ HTTP_TIMEOUT \in Nat /\ clock - HTTP_TIMEOUT <= clock
  BY <1>2, TimesAre DEF TypeOK
<1>4. outcome' \in Outcomes /\ OutcomeRight'
  BY <1>1, OtherOutcome
<1>5. TypeOK'
  <2>1. /\ published' \in [KeySet -> Time \union {None}]
        /\ withdrawn' \in [KeySet -> Time \union {None}]
    BY <1>1, <1>2 DEF TypeOK
  <2> QED
    BY <1>1, <1>2, <1>4, <2>1 DEF TypeOK, Outcomes
<1>6. Policy'
  BY <1>1, <1>2 DEF Policy
<1>7. CacheDated'
  <2>1. ASSUME NEW p \in Projects, jwks_cache[p] # None
        PROVE  /\ jwks_cache'[p].fetched_at <= clock'
               /\ ServedSince(jwks_cache[p].keys, p,
                              jwks_cache[p].fetched_at - HTTP_TIMEOUT)'
    <3>1. PICK keys, since : /\ keys = jwks_cache[p].keys
                             /\ since = jwks_cache[p].fetched_at - HTTP_TIMEOUT
      OBVIOUS
    <3>2. jwks_cache[p].fetched_at \in Nat /\ jwks_cache[p].fetched_at <= clock
      BY <1>2, <2>1, TimesAre DEF TypeOK, CachedJwks, CacheDated
    <3>3. since <= clock
      BY <1>3, <3>1, <3>2
    <3>4. ServedSince(keys, p, since)
      BY <1>2, <2>1, <3>1 DEF CacheDated
    <3>5. ServedSince(keys, p, since)'
      BY <1>2, <3>3, <3>4, ServedRotated
    <3> QED
      BY <1>1, <3>1, <3>2, <3>5 DEF ServedSince, Published
  <2> QED
    BY <1>1, <2>1 DEF CacheDated
<1>8. ASSUME NEW t \in Tasks PROVE Timely(tasks[t])'
  <2>1. PICK u, now : u = tasks[t] /\ now = clock - HTTP_TIMEOUT
    OBVIOUS
  <2>2. Timely(u) /\ tasks'[t] = u /\ clock' = clock
    BY <1>1, <1>2, <2>1
  <2>3. u.pc = "served" => ServedSince(u.keys, u.project, u.sent)'
    <3>1. u.pc = "served" => u.sent <= clock /\ ServedSince(u.keys, u.project, u.sent)
      BY <2>2 DEF Timely
    <3> QED
      BY <1>2, <3>1, ServedRotated
  <2>4. u.pc = "find" => ServedSince(u.keys, u.project, clock - HTTP_TIMEOUT)'
    <3>1. u.pc = "find" => ServedSince(u.keys, u.project, now)
      BY <2>1, <2>2 DEF Timely
    <3>2. u.pc = "find" => ServedSince(u.keys, u.project, now)'
      BY <1>2, <1>3, <2>1, <3>1, ServedRotated
    <3> QED
      BY <2>1, <2>2, <3>2 DEF ServedSince, Published
  <2>5. u.pc = "unknown_kid" => Unknown(u)'
    <3>1. ASSUME NEW k \in KeySet, Published(k)'
          PROVE  \/ Published(k) /\ published'[k] = published[k]
                 \/ published'[k] = clock
      BY <1>1, <1>2, <3>1 DEF TypeOK, Published
    <3>2. u.pc = "unknown_kid" => Unknown(u)
      BY <2>2 DEF Timely
    <3> QED
      BY <1>1, <1>3, <2>2, <3>1, <3>2 DEF Unknown
  <2>6. Timely(u)'
    BY <2>2, <2>3, <2>4, <2>5 DEF Timely
  <2> QED
    BY <2>2, <2>6 DEF Timely, ServedSince, Unknown, Published
<1> QED
  BY <1>4, <1>5, <1>6, <1>7, <1>8 DEF IInv

-----------------------------------------------------------------------------
(* Theorems.                                                               *)

\* Every step preserves the invariant.
LEMMA InvStep == IInv /\ [Next]_vars => IInv'
<1> SUFFICES ASSUME IInv, [Next]_vars PROVE IInv'
  OBVIOUS
<1>1. CASE UNCHANGED vars
  BY <1>1 DEF vars, IInv, TypeOK, Policy, CacheDated, Timely, ServedSince, Unknown,
              Published, OutcomeRight, WithdrawnKeyExpires, SurfaceNeedsItsProject,
              RotationConverges
<1>2. CASE \E t \in Tasks, tok \in Tokens : Begin(t, tok)
  BY <1>2, BeginInv
<1>3. CASE \E t \in Tasks : CachedHit(t) \/ CachedMiss(t) \/ ForceRefresh(t)
                              \/ RefreshBlocked(t)
  BY <1>3, CachedHitInv, SendInv, RefreshBlockedInv
<1>4. CASE \E t \in Tasks : FetchServed(t) \/ FetchFails(t) \/ FetchArrives(t)
                              \/ FindFetched(t)
  BY <1>4, FetchServedInv, FetchFailsInv, FetchArrivesInv, FindFetchedInv
<1>5. CASE \E t \in Tasks : RemoteAccepts(t) \/ RemoteFails(t) \/ Drop(t)
  BY <1>5, RemoteAcceptsInv, EndsInv
<1>6. CASE Tick
  BY <1>6, TickInv
<1>7. CASE \E k \in KeySet : Publish(k) \/ Withdraw(k)
  BY <1>7, RotationInv
<1> QED
  BY <1>1, <1>2, <1>3, <1>4, <1>5, <1>6, <1>7 DEF Next

\* The invariant holds in every state that is reached.
LEMMA Invariance == Spec => []IInv
BY InitInv, InvStep, PTL DEF Spec

\* Types; in particular refresh_jwks never leaves an empty key set in the cache.
THEOREM TypeCorrect == Spec => []TypeOK
<1>1. IInv => TypeOK
  BY DEF IInv
<1> QED
  BY <1>1, Invariance, PTL

\* In production a withdrawn key opens sessions for less than the time to live and
\* one request timeout, whichever fetches overtake each other and however the
\* cached set is replaced while others verify with it.
THEOREM WithdrawnKeysExpire == Spec => []WithdrawnKeyExpires
<1>1. IInv => WithdrawnKeyExpires
  BY DEF IInv, OutcomeRight
<1> QED
  BY <1>1, Invariance, PTL

\* A capability of a surface needs the signature of a project bound to it: neither
\* the issuer a token names nor its roles, nor the keys cached for other projects,
\* open a surface of another project.
THEOREM SurfacesSeparated == Spec => []SurfaceNeedsItsProject
<1>1. IInv => SurfaceNeedsItsProject
  BY DEF IInv, OutcomeRight
<1> QED
  BY <1>1, Invariance, PTL

\* A published key is refused as unknown for at most the floor between forced
\* refreshes and one request timeout, unless the cached set was replaced between
\* the two looks of that verification at the cache.
THEOREM RotationsConverge == Spec => []RotationConverges
<1>1. IInv => RotationConverges
  BY DEF IInv, OutcomeRight
<1> QED
  BY <1>1, Invariance, PTL
=============================================================================
