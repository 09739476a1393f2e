----------------------- MODULE RevocationPropagation -----------------------
(***************************************************************************)
(* How a revocation reaches a verifier, from end to end.  An API key is    *)
(* exchanged for an access token (exchange_token of src/src/main.rs,       *)
(* mint_with of src/src/token.rs); administrators revoke and lift at the   *)
(* authority, which is RevocationRegister, what the ledger service was     *)
(* shown to implement; a verifier admits a request when the token has not  *)
(* expired and its VerifierCache allows the token's ledger keys.  The      *)
(* verifier refreshes its cache over a network that delays, reorders and   *)
(* loses answers, invalidates entries and restarts.                        *)
(*                                                                         *)
(* A token has two ledgers, its own and its subject's, and both must be    *)
(* allowed.  A behaviour is about one of them, chosen at the start: the    *)
(* lookup of the other can only deny more.  Verifiers share nothing, so    *)
(* there is one.                                                           *)
(*                                                                         *)
(* Every host has its own clock.  The auth server that mints and revokes   *)
(* and the one that answers the verifier are each Skew ahead of or behind  *)
(* real time; the time a verifier passes to its cache was taken at most    *)
(* Late ago, so times can be presented out of order.                       *)
(***************************************************************************)
EXTENDS VerifierCache, Sequences, FiniteSets

CONSTANTS
  Ledger,         \* the ledger key the behaviour is about
  TTL,            \* lifetime of an access token (900 s)
  Window,         \* lifetime of a subject's revocation (at most a day)
  Capacity,       \* transitions a ledger can take
  RequestTimeout, \* the TimeoutLayer around exchange_token
  Delay,          \* a refresh takes at most this long
  Skew, Late,
  MaxTime,        \* bound: real time stops here
  MaxRefreshes,   \* bound: refreshes of one verifier process
  MaxInFlight,    \* bound: refreshes under way at once
  MaxRestarts     \* bound: restarts and invalidations

ASSUME PropagationConstants ==
  /\ Keys = {Ledger}
  /\ {TTL, Window} \subseteq Nat \ {0}
  /\ {Capacity, RequestTimeout, Delay, Skew, Late, MaxTime, MaxRefreshes,
      MaxInFlight, MaxRestarts} \subseteq Nat
  /\ MaxRefreshes < MAX_SEQUENCE

VARIABLES
  real,       \* real time
  offset,     \* how far the clocks of the auth servers are ahead
  scope,      \* whose ledger it is: the token's or its subject's
  exchange,   \* an exchange has read the API key as valid and has not answered
  token,      \* the claims of the token, or None
  history,    \* history[Ledger]: the transitions of the ledger
  cache,      \* the verifier's RevocationCache
  refreshes,  \* its refreshes under way
  newest,     \* ghost: the generation of the answer taken in last
  restarts

vars == <<real, offset, scope, exchange, token, history, cache, refreshes, newest,
          restarts>>

issuerVars == <<offset, scope, exchange, token>>
verifierVars == <<cache, refreshes, newest, restarts>>

Authority == INSTANCE RevocationRegister
  WITH Targets <- Keys, Entries <- {}, answers <- {}

\* What the clock of an auth server says (now_secs).
Clock(server) == real + offset[server]

\* What a verifier may pass to its cache.
VerifierTimes == {t \in real - Late .. real : t >= 0}

-----------------------------------------------------------------------------
(* The issuer.                                                             *)

\* Mutant of Claims: the lifetime counts from the end of the request.
ClaimsLate(now) == [iat |-> now, exp |-> now + RequestTimeout + TTL]

\* mint_with: the claims that differ between tokens of one organisation.
Claims(now) == [iat |-> now, exp |-> now + TTL]

\* exchange_token: mint_token with the time at which introspect has answered.
Mint ==
  /\ exchange
  /\ token' = Claims(Clock("admin"))
  /\ exchange' = FALSE
  /\ UNCHANGED <<real, offset, scope, history, verifierVars>>

-----------------------------------------------------------------------------
(* The authority.                                                          *)

Events == history[Ledger]

Transition(action, expires_at) ==
  [idem |-> Len(Events) + 1, req |-> Len(Events) + 1, action |-> action,
   at |-> Clock("admin"), expires_at |-> expires_at, when |-> real]

\* RevocationRecord::for_token: until the token expires.
RevokeToken ==
  /\ scope = "token" /\ token # None
  /\ token.iat <= Clock("admin") /\ Clock("admin") < token.exp
  /\ Authority!Accept(Ledger, Transition("revoke", token.exp))
  /\ UNCHANGED <<real, issuerVars, verifierVars>>

\* RevocationRecord::for_subject.
RevokeSubject ==
  /\ scope = "subject"
  /\ Authority!Accept(Ledger, Transition("revoke", Clock("admin") + Window))
  /\ UNCHANGED <<real, issuerVars, verifierVars>>

\* Mutant of Lift: the transition keeps the expiry of what it lifts.
LiftKeepsExpiry ==
  /\ Events # <<>>
  /\ Authority!Accept(Ledger,
       Transition("lift", Authority!Last(Events).expires_at))
  /\ UNCHANGED <<real, issuerVars, verifierVars>>

Lift ==
  /\ Authority!Accept(Ledger, Transition("lift", None))
  /\ UNCHANGED <<real, issuerVars, verifierVars>>

\* RevocationRecord::is_active_at of the record the ledger ends with.
ActiveAt(now) ==
  /\ Events # <<>> /\ Authority!Last(Events).action = "revoke"
  /\ Authority!Last(Events).at <= now /\ now < Authority!Last(Events).expires_at

\* The authority's answer, judged at its own time `now`.
Judgement(now) ==
  [generation |-> Len(Events), revoked |-> ActiveAt(now),
   expires_at |-> IF ActiveAt(now) THEN Authority!Last(Events).expires_at ELSE None]

-----------------------------------------------------------------------------
(* The verifier.                                                           *)

StartRefresh ==
  /\ Cardinality(refreshes) < MaxInFlight
  /\ cache.next_refresh_sequence <= MaxRefreshes
  /\ \E now \in VerifierTimes :
       /\ Accepts(cache, now)
       /\ cache' = BeginRefresh(cache, Ledger, now)
  /\ refreshes' = refreshes \union
       {[sequence |-> PermitSequence(cache), at |-> real, answer |-> None]}
  /\ UNCHANGED <<real, issuerVars, history, newest, restarts>>

AuthorityAnswers(r) ==
  /\ r.answer = None
  /\ refreshes' = (refreshes \ {r}) \union
       {[r EXCEPT !.answer = Judgement(Clock("check"))]}
  /\ UNCHANGED <<real, issuerVars, history, cache, newest, restarts>>

\* The answer reaches the cache, which takes it in or rejects it.
Apply(r) ==
  /\ r.answer # None
  /\ refreshes' = refreshes \ {r}
  /\ \E now \in VerifierTimes :
       /\ Accepts(cache, now)
       /\ cache' = ApplyAuthoritative(cache, Ledger, r.sequence, r.answer, now)
       /\ newest' = IF ApplyResult(cache, Ledger, r.sequence, r.answer) = "applied"
                     THEN r.answer.generation ELSE newest
  /\ UNCHANGED <<real, issuerVars, history, restarts>>

\* The call fails or its answer is lost; the permit is never used.
LoseRefresh(r) ==
  /\ refreshes' = refreshes \ {r}
  /\ UNCHANGED <<real, issuerVars, history, cache, newest, restarts>>

InvalidateKey ==
  /\ restarts < MaxRestarts
  /\ restarts' = restarts + 1
  /\ \E now \in VerifierTimes :
       /\ Accepts(cache, now)
       /\ cache' = Invalidate(cache, Ledger, now)
  /\ UNCHANGED <<real, issuerVars, history, refreshes, newest>>

\* The verifier's process is replaced: cache and permits are gone.
Restart ==
  /\ restarts < MaxRestarts
  /\ restarts' = restarts + 1
  /\ cache' = Cold
  /\ refreshes' = {}
  /\ newest' = 0
  /\ UNCHANGED <<real, issuerVars, history>>

\* A request with the token: offline validation, then the cache.
Authorize ==
  /\ token # None
  /\ \E now \in VerifierTimes :
       /\ now < token.exp
       /\ Accepts(cache, now)
       /\ cache' = Observe(cache, now)
  /\ UNCHANGED <<real, issuerVars, history, refreshes, newest, restarts>>

-----------------------------------------------------------------------------
\* Time passes; what is under way ends within its timeout.
Tick ==
  /\ real < MaxTime
  /\ \A r \in refreshes : real < r.at + Delay
  /\ exchange => real < Skew + RequestTimeout
  /\ real' = real + 1
  /\ UNCHANGED <<issuerVars, history, verifierVars>>

Init ==
  /\ real = Skew
  /\ offset \in [{"admin", "check"} -> {- Skew, Skew}]
  /\ exchange = TRUE /\ token = None
  /\ scope \in {"token", "subject"}
  /\ Authority!Init
  /\ cache = Cold
  /\ refreshes = {}
  /\ newest = 0
  /\ restarts = 0

Next ==
  \/ Mint \/ RevokeToken \/ RevokeSubject \/ Lift
  \/ StartRefresh
  \/ \E r \in refreshes : AuthorityAnswers(r) \/ Apply(r) \/ LoseRefresh(r)
  \/ InvalidateKey \/ Restart \/ Authorize \/ Tick

Spec == Init /\ [][Next]_vars

-----------------------------------------------------------------------------
Refresh == [sequence: Nat, at: Nat, answer: AuthorityDecision \union {None}]

Event ==
  [idem: Nat, req: Nat, action: {"revoke"}, at: Nat, expires_at: Nat, when: Nat]
    \union [idem: Nat, req: Nat, action: {"lift"}, at: Nat, expires_at: {None},
            when: Nat]

\* Types of the composed state.
TypeOK ==
  /\ real \in Nat /\ restarts \in Nat /\ newest \in Nat
  /\ scope \in {"token", "subject"}
  /\ offset \in [{"admin", "check"} -> {- Skew, Skew}]
  /\ exchange \in BOOLEAN
  /\ token \in [iat: Nat, exp: Nat] \union {None}
  /\ history \in [Keys -> Seq(Event)]
  /\ cache \in RevocationCache
  /\ refreshes \subseteq Refresh

\* The ledger ends with a revocation that is in force on every clock.
Standing ==
  /\ Events # <<>> /\ Authority!Last(Events).action = "revoke"
  /\ real + Skew < Authority!Last(Events).expires_at

\* Whether a request with the token is admitted, if its time is `now`.
Admits(now) ==
  /\ token # None /\ now < token.exp
  /\ Accepts(cache, now)
  /\ LookupDecision(cache, Ledger, now) = "allow"

Admitted == \E now \in VerifierTimes : Admits(now)

\* How long after it was accepted a revocation may go unseen: its record is dated
\* ahead of the clock that judges it, the answer is on its way, is then fresh, and
\* is asked for with a time taken earlier.
Blind == 2 * Skew + Delay + Freshness + Late

\* Bounded propagation: once a revocation of a token or of its subject has stood
\* for that long, the token is not admitted, whatever was refreshed, reordered,
\* lost, invalidated or restarted in between.
RevokedWithinBound ==
  Standing /\ real >= Authority!Last(Events).when + Blind => ~ Admitted

\* revocation_cache.rs, RefreshPermit: answers that arrive in another order than
\* they were read never take a verifier back to an earlier reading, across
\* invalidations too.
EvidenceMovesForward == [][newest' >= newest \/ Restart]_vars

\* A revoked API key dies out: a token is not admitted later than one request and
\* one lifetime after exchange_token has read its key as valid, so that a key that
\* is revoked under the exchange is worth no more than that.
RevokedKeyDiesOut ==
  Admitted => real < Skew + RequestTimeout + Skew + TTL + Late
=============================================================================
