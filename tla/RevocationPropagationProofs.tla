-------------------- MODULE RevocationPropagationProofs --------------------
(***************************************************************************)
(* The bounds of RevocationPropagation, for every value of the lifetimes,  *)
(* timeouts, clock skews and limits, and without an end of time.           *)
(***************************************************************************)
EXTENDS RevocationPropagation, TLAPS, SequenceTheorems

-----------------------------------------------------------------------------
(* The inductive invariant.                                                *)

Latest == cache.latest_refresh[Ledger]
Cached == cache.entries[Ledger]
LastEvent == Events[Len(Events)]

\* Real time is far enough from zero for every clock, and an exchange under way
\* has not timed out.
Timely ==
  /\ real >= Skew
  /\ exchange => real <= Skew + RequestTimeout

\* A token expires a lifetime after the end of its exchange, on a clock ahead.
TokenDated == token # None => token.exp <= Skew + RequestTimeout + Skew + TTL

\* The last transition was dated by a clock that is at most Skew ahead.
EventDated == Events # <<>> => LastEvent.at <= LastEvent.when + Skew

\* Refreshes under way have not timed out, and have sequence numbers given out.
RefreshesTimely ==
  \A r \in refreshes :
    /\ r.at <= real /\ real <= r.at + Delay
    /\ r.sequence < cache.next_refresh_sequence

\* No answer is ahead of the ledger; the answer of the latest permit is not
\* behind the evidence taken in last.
AnswersOrdered ==
  /\ newest <= Len(Events)
  /\ \A r \in refreshes : r.answer # None =>
       /\ r.answer.generation <= Len(Events)
       /\ Latest # None /\ r.sequence = Latest => newest <= r.answer.generation

\* The ledger ends with a revocation in force that is older than t by what clocks
\* may differ.
VisibleSince(t) ==
  /\ Events # <<>> /\ LastEvent.action = "revoke"
  /\ LastEvent.when + 2 * Skew < t
  /\ real + Skew < LastEvent.expires_at

\* An answer to a refresh that began since then says so.
AnswersSee ==
  \A r \in refreshes : r.answer # None /\ VisibleSince(r.at) => r.answer.revoked

\* And so does a cached decision that is fresh for longer than the answer to an
\* earlier refresh could be.
CacheSees ==
  Cached # None =>
    /\ Cached.fresh_until <= real + Freshness
    /\ VisibleSince(Cached.fresh_until - Delay - Freshness) => Cached.decision.revoked

IInv == /\ TypeOK /\ Timely /\ TokenDated /\ EventDated /\ RefreshesTimely
        /\ AnswersOrdered /\ AnswersSee /\ CacheSees
-----------------------------------------------------------------------------
(* The operations of the cache.                                            *)

\* The parts of a cache.
LEMMA CacheParts ==
  ASSUME NEW c \in RevocationCache
  PROVE  /\ Ledger \in Keys
         /\ c.high_water \in Nat /\ c.next_refresh_sequence \in Nat
         /\ c.latest_refresh \in [Keys -> Nat \union {None}]
         /\ c.entries \in [Keys -> CacheEntry \union {None}]
BY PropagationConstants DEF RevocationCache

\* observe_time changes the high-water mark only.
LEMMA ObserveIs ==
  ASSUME NEW c \in RevocationCache, NEW now \in Nat
  PROVE  LET d == Observe(c, now) IN
         /\ d \in RevocationCache
         /\ d.entries = c.entries /\ d.latest_refresh = c.latest_refresh
         /\ d.next_refresh_sequence = c.next_refresh_sequence
BY DEF Observe, RevocationCache

\* begin_refresh gives out the next sequence number and keeps the decisions.
LEMMA BeginRefreshIs ==
  ASSUME NEW c \in RevocationCache, NEW now \in Nat,
         c.next_refresh_sequence < MAX_SEQUENCE
  PROVE  LET d == BeginRefresh(c, Ledger, now) IN
         /\ d \in RevocationCache
         /\ d.entries = c.entries
         /\ d.latest_refresh[Ledger] = c.next_refresh_sequence
         /\ d.next_refresh_sequence = c.next_refresh_sequence + 1
<1> DEFINE o == Observe(c, now)
<1>1. /\ o \in RevocationCache /\ o.entries = c.entries
      /\ o.next_refresh_sequence = c.next_refresh_sequence
  BY ObserveIs
<1>2. /\ Ledger \in Keys /\ c.next_refresh_sequence \in Nat
      /\ o.latest_refresh \in [Keys -> Nat \union {None}]
  BY <1>1, CacheParts
<1>3. BeginRefresh(c, Ledger, now) =
        [o EXCEPT !.next_refresh_sequence = c.next_refresh_sequence + 1,
                  !.latest_refresh = [o.latest_refresh EXCEPT ![Ledger] =
                                        c.next_refresh_sequence]]
  <2>1. BeginRefresh(c, Ledger, now) =
          [o EXCEPT !.next_refresh_sequence =
                      IF o.next_refresh_sequence < MAX_SEQUENCE
                        THEN o.next_refresh_sequence + 1 ELSE o.next_refresh_sequence,
                    !.latest_refresh = [o.latest_refresh EXCEPT ![Ledger] =
                                          c.next_refresh_sequence]]
    BY DEF BeginRefresh, PermitSequence
  <2> HIDE DEF o
  <2> QED
    BY <1>1, <2>1
<1> HIDE DEF o
<1> DEFINE n == c.next_refresh_sequence + 1
           l == [o.latest_refresh EXCEPT ![Ledger] = c.next_refresh_sequence]
<1>4. n \in Nat /\ l \in [Keys -> Nat \union {None}] /\ l[Ledger] = c.next_refresh_sequence
  BY <1>2
<1>5. BeginRefresh(c, Ledger, now) =
        [o EXCEPT !.next_refresh_sequence = n, !.latest_refresh = l]
  BY <1>3
<1> HIDE DEF n, l
<1>6. LET d == BeginRefresh(c, Ledger, now) IN
      /\ d \in RevocationCache /\ d.entries = o.entries
      /\ d.latest_refresh = l /\ d.next_refresh_sequence = n
  BY <1>1, <1>4, <1>5 DEF RevocationCache
<1> QED
  BY <1>1, <1>4, <1>6 DEF n

\* invalidate forgets the decision and the permit.
LEMMA InvalidateIs ==
  ASSUME NEW c \in RevocationCache, NEW now \in Nat
  PROVE  LET d == Invalidate(c, Ledger, now) IN
         /\ d \in RevocationCache
         /\ d.entries[Ledger] = None /\ d.latest_refresh[Ledger] = None
         /\ d.next_refresh_sequence = c.next_refresh_sequence
<1> DEFINE o == Observe(c, now)
<1>1. o \in RevocationCache /\ o.next_refresh_sequence = c.next_refresh_sequence
  BY ObserveIs
<1>2. /\ Ledger \in Keys
      /\ o.latest_refresh \in [Keys -> Nat \union {None}]
      /\ o.entries \in [Keys -> CacheEntry \union {None}]
  BY <1>1, CacheParts
<1>3. Invalidate(c, Ledger, now) =
        [o EXCEPT !.entries = [o.entries EXCEPT ![Ledger] = None],
                  !.latest_refresh = [o.latest_refresh EXCEPT ![Ledger] = None]]
  BY <1>1 DEF Invalidate, RevocationCache
<1> HIDE DEF o
<1>4. /\ [o.entries EXCEPT ![Ledger] = None] \in [Keys -> CacheEntry \union {None}]
      /\ [o.latest_refresh EXCEPT ![Ledger] = None] \in [Keys -> Nat \union {None}]
  BY <1>2
<1> QED
  BY <1>1, <1>2, <1>3, <1>4 DEF RevocationCache

\* apply_authoritative takes in the answer of the latest permit, which is then
\* used up, or changes nothing but the high-water mark.
LEMMA ApplyIs ==
  ASSUME NEW c \in RevocationCache, NEW now \in Nat, NEW sequence,
         NEW answer \in AuthorityDecision
  PROVE  LET d == ApplyAuthoritative(c, Ledger, sequence, answer, now)
             applied == ApplyResult(c, Ledger, sequence, answer) = "applied" IN
         /\ d \in RevocationCache
         /\ d.next_refresh_sequence = c.next_refresh_sequence
         /\ applied =>
              /\ c.latest_refresh[Ledger] # None /\ sequence = c.latest_refresh[Ledger]
              /\ d.latest_refresh[Ledger] = None
              /\ d.entries[Ledger] = [decision |-> answer, fresh_until |-> now + Freshness]
         /\ ~applied =>
              d.entries = c.entries /\ d.latest_refresh = c.latest_refresh
<1> DEFINE o == Observe(c, now)
           e == [decision |-> answer, fresh_until |-> now + Freshness]
<1>1. /\ o \in RevocationCache /\ o.next_refresh_sequence = c.next_refresh_sequence
      /\ o.entries = c.entries /\ o.latest_refresh = c.latest_refresh
  BY ObserveIs
<1>2. CASE ApplyResult(c, Ledger, sequence, answer) # "applied"
  BY <1>1, <1>2 DEF ApplyAuthoritative
<1>3. CASE ApplyResult(c, Ledger, sequence, answer) = "applied"
  <2>1. c.latest_refresh[Ledger] # None /\ sequence = c.latest_refresh[Ledger]
    BY <1>3 DEF ApplyResult
  <2>2. /\ Ledger \in Keys
        /\ o.latest_refresh \in [Keys -> Nat \union {None}]
        /\ o.entries \in [Keys -> CacheEntry \union {None}]
    BY <1>1, CacheParts
  <2>3. ApplyAuthoritative(c, Ledger, sequence, answer, now) =
          [o EXCEPT !.entries = [o.entries EXCEPT ![Ledger] = e],
                    !.latest_refresh = [o.latest_refresh EXCEPT ![Ledger] = None]]
    BY <1>1, <1>3 DEF ApplyAuthoritative, RevocationCache
  <2>4. now + Freshness \in Nat
    BY CacheConstants
  <2>5. e \in CacheEntry
    BY <2>4 DEF CacheEntry
  <2> HIDE DEF o, e
  <2>6. /\ [o.entries EXCEPT ![Ledger] = e] \in [Keys -> CacheEntry \union {None}]
        /\ [o.latest_refresh EXCEPT ![Ledger] = None] \in [Keys -> Nat \union {None}]
    BY <2>2, <2>5
  <2>7. /\ ApplyAuthoritative(c, Ledger, sequence, answer, now) \in RevocationCache
        /\ ApplyAuthoritative(c, Ledger, sequence, answer, now).next_refresh_sequence =
             c.next_refresh_sequence
        /\ ApplyAuthoritative(c, Ledger, sequence, answer, now).entries[Ledger] = e
        /\ ApplyAuthoritative(c, Ledger, sequence, answer, now).latest_refresh[Ledger] = None
    BY <1>1, <2>2, <2>3, <2>6 DEF RevocationCache
  <2> QED
    BY <1>3, <2>1, <2>7 DEF e
<1> QED
  BY <1>2, <1>3

\* A verifier starts without decisions and permits.
LEMMA ColdIs ==
  /\ Cold \in RevocationCache
  /\ Cold.entries[Ledger] = None /\ Cold.latest_refresh[Ledger] = None
  /\ Cold.next_refresh_sequence = 1
BY PropagationConstants DEF Cold, RevocationCache

-----------------------------------------------------------------------------
(* Numbers, times and the ledger.                                          *)

\* The constants are natural numbers.
LEMMA Numbers ==
  /\ TTL \in Nat /\ Window \in Nat /\ RequestTimeout \in Nat /\ Delay \in Nat
  /\ Skew \in Nat /\ Late \in Nat /\ Freshness \in Nat /\ MaxRefreshes \in Nat
  /\ MAX_SEQUENCE \in Nat /\ MaxRefreshes < MAX_SEQUENCE /\ Ledger \in Keys
BY PropagationConstants, CacheConstants

\* The clock of an auth server is at most Skew off.
LEMMA ClockBounds ==
  ASSUME TypeOK, Timely, NEW server \in {"admin", "check"}
  PROVE  /\ Clock(server) \in Nat
         /\ real - Skew <= Clock(server) /\ Clock(server) <= real + Skew
<1>1. offset[server] = -Skew \/ offset[server] = Skew
  BY DEF TypeOK
<1>2. real \in Nat /\ real >= Skew
  BY DEF TypeOK, Timely
<1> QED
  BY <1>1, <1>2, Numbers DEF Clock

\* The times a verifier presents are natural numbers up to real time.
LEMMA VerifierTimesAre ==
  ASSUME TypeOK, NEW now \in VerifierTimes
  PROVE  now \in Nat /\ now <= real /\ real <= now + Late /\ real \in Nat
<1>1. real \in Nat
  BY DEF TypeOK
<1> QED
  BY <1>1, Numbers DEF VerifierTimes

\* The ledger is a list of events, and its last one is an event.
LEMMA EventsAre ==
  ASSUME TypeOK
  PROVE  /\ Events \in Seq(Event) /\ Len(Events) \in Nat
         /\ Events # <<>> =>
              /\ LastEvent \in Event
              /\ LastEvent.when \in Nat /\ LastEvent.at \in Nat
              /\ LastEvent.action = "revoke" => LastEvent.expires_at \in Nat
<1>1. Events \in Seq(Event)
  BY Numbers DEF Events, TypeOK
<1>2. Len(Events) \in Nat
  BY <1>1
<1>3. Events # <<>> => LastEvent \in Event
  BY <1>1 DEF LastEvent
<1> QED
  BY <1>1, <1>2, <1>3 DEF Event

\* Every step that leaves the ledger and real time alone leaves alone what is
\* visible.
LEMMA SameView ==
  ASSUME UNCHANGED <<real, history>>
  PROVE  /\ Events' = Events /\ LastEvent' = LastEvent
         /\ \A t : VisibleSince(t)' <=> VisibleSince(t)
BY DEF Events, LastEvent, VisibleSince

-----------------------------------------------------------------------------
(* The invariant, action by action.                                        *)

\* A verifier starts cold, on an empty ledger.
LEMMA InitInv == Init => IInv
<1> SUFFICES ASSUME Init PROVE IInv
  OBVIOUS
<1>1. history = [t \in Keys |-> <<>>] /\ Events = <<>>
  BY Numbers DEF Init, Authority!Init, Events
<1>2. <<>> \in Seq(Event) /\ Len(<<>>) = 0
  OBVIOUS
<1>3. history \in [Keys -> Seq(Event)]
  BY <1>1, <1>2
<1>4. TypeOK
  BY <1>3, ColdIs, Numbers DEF Init, TypeOK
<1>5. Timely /\ TokenDated /\ EventDated /\ RefreshesTimely
  BY <1>1, Numbers DEF Init, Timely, TokenDated, EventDated, RefreshesTimely
<1>6. AnswersOrdered /\ AnswersSee
  BY <1>1, <1>2 DEF Init, AnswersOrdered, AnswersSee
<1>7. CacheSees
  BY ColdIs DEF Init, CacheSees, Cached
<1> QED
  BY <1>4, <1>5, <1>6, <1>7 DEF IInv

\* exchange_token ends.
LEMMA MintInv ==
  ASSUME IInv, Mint
  PROVE  IInv'
<1>1. /\ exchange /\ token' = Claims(Clock("admin")) /\ exchange' = FALSE
      /\ UNCHANGED <<real, offset, scope, history, cache, refreshes, newest, restarts>>
  BY DEF Mint, verifierVars
<1>2. /\ Clock("admin") \in Nat /\ Clock("admin") <= real + Skew /\ real \in Nat
      /\ real <= Skew + RequestTimeout
  BY <1>1, ClockBounds DEF IInv, TypeOK, Timely
<1>3. Clock("admin") + TTL \in Nat
      /\ Clock("admin") + TTL <= Skew + RequestTimeout + Skew + TTL
  BY <1>2, Numbers
<1>4. token'.exp = Clock("admin") + TTL /\ token' \in [iat: Nat, exp: Nat]
  BY <1>1, <1>2, <1>3 DEF Claims
<1>5. TokenDated'
  BY <1>3, <1>4 DEF TokenDated
<1>6. TypeOK'
  BY <1>1, <1>4 DEF IInv, TypeOK
<1>7. Timely'
  BY <1>1 DEF IInv, Timely
<1>8. /\ Events' = Events /\ LastEvent' = LastEvent
      /\ \A t : VisibleSince(t)' <=> VisibleSince(t)
  BY <1>1, SameView
<1> QED
  BY <1>1, <1>5, <1>6, <1>7, <1>8
     DEF IInv, EventDated, RefreshesTimely, AnswersOrdered, AnswersSee, CacheSees,
         Latest, Cached

\* A transition is accepted: nothing that was answered before can have seen it.
LEMMA AcceptInv ==
  ASSUME IInv, NEW e \in Event, e.when = real, e.at <= real + Skew,
         Authority!Accept(Ledger, e), UNCHANGED <<real, issuerVars, verifierVars>>
  PROVE  IInv'
<1>1. /\ history' = [history EXCEPT ![Ledger] = Append(@, e)]
      /\ UNCHANGED <<real, offset, scope, exchange, token, cache, refreshes, newest, restarts>>
  BY DEF Authority!Accept, issuerVars, verifierVars
<1>2. /\ TypeOK /\ real \in Nat /\ Events \in Seq(Event) /\ Len(Events) \in Nat
  BY EventsAre DEF IInv, TypeOK
<1>3. history \in [Keys -> Seq(Event)]
  BY <1>2 DEF TypeOK
<1>4. Events' = Append(Events, e)
  BY <1>1, <1>3, Numbers DEF Events
<1>5. Append(Events, e) \in Seq(Event) /\ Len(Append(Events, e)) = Len(Events) + 1
      /\ Append(Events, e)[Len(Events) + 1] = e /\ Append(Events, e) # <<>>
  BY <1>2, AppendProperties
<1>6. LastEvent' = e /\ Events' # <<>> /\ Len(Events') = Len(Events) + 1
  BY <1>4, <1>5 DEF LastEvent
<1>7. TypeOK'
  <2>1. history' \in [Keys -> Seq(Event)]
    BY <1>1, <1>3, <1>5 DEF Events
  <2> QED
    BY <1>1, <1>2, <2>1 DEF TypeOK
<1>8. Timely' /\ TokenDated' /\ RefreshesTimely'
  BY <1>1 DEF IInv, Timely, TokenDated, RefreshesTimely
<1>9. EventDated'
  BY <1>6 DEF EventDated
<1>10. AnswersOrdered'
  <2>1. Latest' = Latest
    BY <1>1 DEF Latest
  <2>2. newest \in Nat /\ \A r \in refreshes : r \in Refresh
    BY <1>2 DEF TypeOK
  <2>3. ASSUME NEW r \in refreshes, r.answer # None PROVE r.answer.generation \in Nat
    BY <2>2, <2>3 DEF Refresh, AuthorityDecision
  <2>4. newest <= Len(Events) + 1
    BY <1>2, <2>2 DEF IInv, AnswersOrdered
  <2>5. ASSUME NEW r \in refreshes, r.answer # None
        PROVE  r.answer.generation <= Len(Events) + 1
    <3>1. r.answer.generation <= Len(Events)
      BY <2>5 DEF IInv, AnswersOrdered
    <3> QED
      BY <1>2, <2>3, <2>5, <3>1
  <2> QED
    BY <1>1, <1>6, <2>1, <2>4, <2>5 DEF IInv, AnswersOrdered
<1>11. ASSUME NEW t \in Int, t <= real PROVE ~VisibleSince(t)'
  BY <1>1, <1>2, <1>6, <1>11, Numbers DEF VisibleSince
<1>12. AnswersSee'
  <2>1. \A r \in refreshes : r.at \in Int /\ r.at <= real
    BY <1>2 DEF IInv, RefreshesTimely, TypeOK, Refresh
  <2> QED
    BY <1>1, <1>11, <2>1 DEF AnswersSee
<1>13. CacheSees'
  <2>1. Cached' = Cached
    BY <1>1 DEF Cached
  <2>2. ASSUME Cached # None
        PROVE  /\ Cached.fresh_until - Delay - Freshness \in Int
               /\ Cached.fresh_until - Delay - Freshness <= real
               /\ Cached.fresh_until <= real + Freshness
    <3>1. Cached \in CacheEntry
      BY <1>2, <2>2, CacheParts DEF TypeOK, Cached
    <3>2. Cached.fresh_until \in Nat /\ Cached.fresh_until <= real + Freshness
      BY <2>2, <3>1 DEF IInv, CacheSees, CacheEntry
    <3> QED
      BY <1>2, <3>2, Numbers
  <2> QED
    BY <1>1, <1>11, <2>1, <2>2 DEF CacheSees
<1> QED
  BY <1>7, <1>8, <1>9, <1>10, <1>12, <1>13 DEF IInv

\* The transitions administrators ask for.
LEMMA TransitionsInv ==
  ASSUME IInv, RevokeToken \/ RevokeSubject \/ Lift
  PROVE  IInv'
<1>1. /\ TypeOK /\ real \in Nat /\ Clock("admin") \in Nat /\ Clock("admin") <= real + Skew
      /\ Len(Events) + 1 \in Nat
  BY ClockBounds, EventsAre DEF IInv, TypeOK
<1>2. ASSUME NEW x \in Nat
      PROVE  /\ Transition("revoke", x) \in Event
             /\ Transition("revoke", x).when = real
             /\ Transition("revoke", x).at = Clock("admin")
  BY <1>1, <1>2 DEF Transition, Event
<1>3. /\ Transition("lift", None) \in Event
      /\ Transition("lift", None).when = real
      /\ Transition("lift", None).at = Clock("admin")
  BY <1>1 DEF Transition, Event
<1>4. CASE RevokeToken
  <2>1. token.exp \in Nat
    BY <1>1, <1>4 DEF TypeOK, RevokeToken
  <2> QED
    BY <1>1, <1>2, <1>4, <2>1, AcceptInv DEF RevokeToken
<1>5. CASE RevokeSubject
  <2>1. Clock("admin") + Window \in Nat
    BY <1>1, Numbers
  <2> QED
    BY <1>1, <1>2, <1>5, <2>1, AcceptInv DEF RevokeSubject
<1>6. CASE Lift
  BY <1>1, <1>3, <1>6, AcceptInv DEF Lift
<1> QED
  BY <1>4, <1>5, <1>6

\* The parts of a refresh.
LEMMA RefreshParts ==
  ASSUME TypeOK, NEW r \in refreshes
  PROVE  /\ r \in Refresh /\ r.sequence \in Nat /\ r.at \in Nat
         /\ r.answer # None =>
              /\ r.answer \in AuthorityDecision /\ r.answer.generation \in Nat
              /\ r.answer.revoked \in BOOLEAN
<1>1. r \in Refresh
  BY DEF TypeOK
<1> QED
  BY <1>1 DEF Refresh, AuthorityDecision

\* The parts of a cached decision.
LEMMA CachedParts ==
  ASSUME TypeOK, Cached # None
  PROVE  Cached \in CacheEntry /\ Cached.fresh_until \in Nat
<1>1. Cached \in CacheEntry
  BY CacheParts DEF TypeOK, Cached
<1> QED
  BY <1>1 DEF CacheEntry

\* What a step of the verifier alone leaves to show.
LEMMA VerifierStep ==
  ASSUME IInv, UNCHANGED <<real, issuerVars, history>>,
         restarts' \in Nat, newest' \in Nat, cache' \in RevocationCache,
         refreshes' \subseteq Refresh, RefreshesTimely', AnswersOrdered', AnswersSee',
         CacheSees'
  PROVE  IInv'
<1>1. UNCHANGED <<real, offset, scope, exchange, token, history>>
  BY DEF issuerVars
<1>2. Events' = Events /\ LastEvent' = LastEvent
  BY SameView
<1>3. TypeOK'
  BY <1>1 DEF IInv, TypeOK
<1>4. Timely' /\ TokenDated' /\ EventDated'
  BY <1>1, <1>2 DEF IInv, Timely, TokenDated, EventDated
<1> QED
  BY <1>3, <1>4 DEF IInv

\* begin_refresh: the new permit outdates those before it.
LEMMA StartRefreshInv ==
  ASSUME IInv, StartRefresh
  PROVE  IInv'
<1> DEFINE q == [sequence |-> cache.next_refresh_sequence, at |-> real, answer |-> None]
<1>1. PICK now \in VerifierTimes : cache' = BeginRefresh(cache, Ledger, now)
  BY DEF StartRefresh
<1>2. /\ refreshes' = refreshes \union {q}
      /\ UNCHANGED <<real, issuerVars, history, newest, restarts>>
      /\ cache.next_refresh_sequence <= MaxRefreshes
  BY DEF StartRefresh, PermitSequence
<1>3. /\ TypeOK /\ real \in Nat /\ newest \in Nat /\ restarts \in Nat
      /\ cache \in RevocationCache /\ refreshes \subseteq Refresh
  BY DEF IInv, TypeOK
<1>4. now \in Nat /\ cache.next_refresh_sequence \in Nat
  BY <1>3, VerifierTimesAre, CacheParts
<1>5. cache.next_refresh_sequence < MAX_SEQUENCE
  BY <1>2, <1>4, Numbers
<1>6. /\ cache' \in RevocationCache /\ Cached' = Cached
      /\ Latest' = cache.next_refresh_sequence
      /\ cache'.next_refresh_sequence = cache.next_refresh_sequence + 1
  BY <1>1, <1>3, <1>4, <1>5, BeginRefreshIs DEF Cached, Latest
<1>7. /\ Events' = Events /\ LastEvent' = LastEvent
      /\ \A t : VisibleSince(t)' <=> VisibleSince(t)
  BY <1>2, SameView
<1>8. q \in Refresh
  BY <1>3, <1>4 DEF Refresh
<1>9. RefreshesTimely'
  <2>1. ASSUME NEW r \in refreshes
        PROVE  /\ r.at <= real /\ real <= r.at + Delay
               /\ r.sequence < cache.next_refresh_sequence + 1
    BY <1>3, <1>4, RefreshParts DEF IInv, RefreshesTimely
  <2>2. q.at <= real /\ real <= q.at + Delay
        /\ q.sequence < cache.next_refresh_sequence + 1
    BY <1>3, <1>4, Numbers
  <2> QED
    BY <1>2, <1>6, <2>1, <2>2 DEF RefreshesTimely
<1>10. AnswersOrdered'
  <2>1. ASSUME NEW r \in refreshes PROVE r.sequence # Latest'
    BY <1>3, <1>4, <1>6, RefreshParts DEF IInv, RefreshesTimely
  <2>2. q.answer = None
    OBVIOUS
  <2> QED
    BY <1>2, <1>7, <2>1, <2>2 DEF IInv, AnswersOrdered
<1>11. AnswersSee'
  BY <1>2, <1>7 DEF IInv, AnswersSee
<1>12. CacheSees'
  BY <1>2, <1>6, <1>7 DEF IInv, CacheSees
<1> HIDE DEF q
<1> QED
  BY <1>2, <1>3, <1>6, <1>8, <1>9, <1>10, <1>11, <1>12, VerifierStep

\* The authority answers with the end of its ledger as it then is.
LEMMA AuthorityAnswersInv ==
  ASSUME IInv, NEW r \in refreshes, AuthorityAnswers(r)
  PROVE  IInv'
<1> DEFINE a == Judgement(Clock("check"))
           q == [r EXCEPT !.answer = a]
<1>1. /\ refreshes' = (refreshes \ {r}) \union {q}
      /\ UNCHANGED <<real, issuerVars, history, cache, newest, restarts>>
  BY DEF AuthorityAnswers
<1>2. /\ TypeOK /\ real \in Nat /\ newest \in Nat /\ restarts \in Nat
      /\ cache \in RevocationCache /\ refreshes \subseteq Refresh
  BY DEF IInv, TypeOK
<1>3. /\ Clock("check") \in Nat
      /\ real - Skew <= Clock("check") /\ Clock("check") <= real + Skew
  BY <1>2, ClockBounds DEF IInv
<1>4. /\ Len(Events) \in Nat
      /\ Events # <<>> =>
           /\ LastEvent.when \in Nat /\ LastEvent.at \in Nat
           /\ LastEvent.action = "revoke" => LastEvent.expires_at \in Nat
  BY <1>2, EventsAre
<1>5. ActiveAt(Clock("check")) <=>
        /\ Events # <<>> /\ LastEvent.action = "revoke"
        /\ LastEvent.at <= Clock("check") /\ Clock("check") < LastEvent.expires_at
  BY DEF ActiveAt, Authority!Last, LastEvent
<1>6. /\ a.generation = Len(Events) /\ a.revoked = ActiveAt(Clock("check"))
      /\ a \in AuthorityDecision
  <2>1. ActiveAt(Clock("check")) \in BOOLEAN
    BY DEF ActiveAt
  <2>2. (IF ActiveAt(Clock("check")) THEN Authority!Last(Events).expires_at ELSE None)
          \in Nat \union {None}
    BY <1>4, <1>5 DEF LastEvent, Authority!Last
  <2> QED
    BY <1>4, <2>1, <2>2 DEF Judgement, AuthorityDecision
<1>7. r \in Refresh /\ r.at \in Nat /\ r.at <= real
  BY <1>2, RefreshParts DEF IInv, RefreshesTimely
<1>8. VisibleSince(r.at) => a.revoked
  <2> SUFFICES ASSUME VisibleSince(r.at) PROVE ActiveAt(Clock("check"))
    BY <1>6
  <2>1. /\ Events # <<>> /\ LastEvent.action = "revoke"
        /\ LastEvent.when + 2 * Skew < r.at /\ real + Skew < LastEvent.expires_at
    BY DEF VisibleSince
  <2>2. LastEvent.at <= LastEvent.when + Skew
    BY <2>1 DEF IInv, EventDated
  <2>3. LastEvent.at <= Clock("check") /\ Clock("check") < LastEvent.expires_at
    BY <1>2, <1>3, <1>4, <1>7, <2>1, <2>2, Numbers
  <2> QED
    BY <1>5, <2>1, <2>3
<1>9. /\ Events' = Events /\ LastEvent' = LastEvent
      /\ \A t : VisibleSince(t)' <=> VisibleSince(t)
  BY <1>1, SameView
<1> HIDE DEF a
<1>10. q \in Refresh /\ q.at = r.at /\ q.sequence = r.sequence /\ q.answer = a
  BY <1>6, <1>7 DEF Refresh
<1> HIDE DEF q
<1>11. RefreshesTimely'
  BY <1>1, <1>10 DEF IInv, RefreshesTimely
<1>12. AnswersOrdered'
  <2>1. newest <= a.generation /\ a.generation <= Len(Events)
    BY <1>2, <1>4, <1>6 DEF IInv, AnswersOrdered
  <2>2. Latest' = Latest
    BY <1>1 DEF Latest
  <2> QED
    BY <1>1, <1>9, <1>10, <2>1, <2>2 DEF IInv, AnswersOrdered
<1>13. AnswersSee'
  BY <1>1, <1>8, <1>9, <1>10 DEF IInv, AnswersSee
<1>14. CacheSees'
  <2>1. Cached' = Cached
    BY <1>1 DEF Cached
  <2> QED
    BY <1>1, <1>9, <2>1 DEF IInv, CacheSees
<1> QED
  BY <1>1, <1>2, <1>10, <1>11, <1>12, <1>13, <1>14, VerifierStep
\* An answer reaches the cache: the answer of the latest permit replaces what is
\* cached, any other changes no decision.
LEMMA ApplyInv ==
  ASSUME IInv, NEW r \in refreshes, Apply(r)
  PROVE  /\ IInv'
         /\ newest' >= newest
<1>1. /\ r.answer # None /\ refreshes' = refreshes \ {r}
      /\ UNCHANGED <<real, issuerVars, history, restarts>>
  BY DEF Apply
<1> DEFINE applied == ApplyResult(cache, Ledger, r.sequence, r.answer) = "applied"
<1>2. PICK now \in VerifierTimes :
        /\ cache' = ApplyAuthoritative(cache, Ledger, r.sequence, r.answer, now)
        /\ newest' = IF applied THEN r.answer.generation ELSE newest
  BY DEF Apply
<1>3. /\ TypeOK /\ real \in Nat /\ newest \in Nat /\ restarts \in Nat
      /\ cache \in RevocationCache /\ refreshes \subseteq Refresh
  BY DEF IInv, TypeOK
<1>4. /\ r.sequence \in Nat /\ r.at \in Nat /\ r.answer \in AuthorityDecision
      /\ r.answer.generation \in Nat
      /\ r.at <= real /\ real <= r.at + Delay /\ r.answer.generation <= Len(Events)
  BY <1>1, <1>3, RefreshParts DEF IInv, RefreshesTimely, AnswersOrdered
<1>5. now \in Nat /\ now <= real
  BY <1>3, VerifierTimesAre
<1>6. /\ cache' \in RevocationCache
      /\ cache'.next_refresh_sequence = cache.next_refresh_sequence
      /\ applied =>
           /\ Latest # None /\ r.sequence = Latest /\ Latest' = None
           /\ Cached' = [decision |-> r.answer, fresh_until |-> now + Freshness]
      /\ ~applied => Cached' = Cached /\ Latest' = Latest
  BY <1>2, <1>3, <1>4, <1>5, ApplyIs DEF Latest, Cached
<1>7. /\ Events' = Events /\ LastEvent' = LastEvent
      /\ \A t : VisibleSince(t)' <=> VisibleSince(t)
  BY <1>1, SameView
<1>8. Len(Events) \in Nat
  BY <1>3, EventsAre
<1> HIDE DEF applied
<1>9. applied => newest <= r.answer.generation
  BY <1>1, <1>6 DEF IInv, AnswersOrdered
<1>10. newest' \in Nat /\ newest' >= newest /\ newest' <= Len(Events)
  BY <1>2, <1>3, <1>4, <1>8, <1>9 DEF IInv, AnswersOrdered
<1>11. RefreshesTimely'
  BY <1>1, <1>6 DEF IInv, RefreshesTimely
<1>12. AnswersOrdered'
  <2>1. CASE applied
    BY <1>1, <1>6, <1>7, <1>10, <2>1 DEF IInv, AnswersOrdered
  <2>2. CASE ~applied
    BY <1>1, <1>2, <1>6, <1>7, <1>10, <2>2 DEF IInv, AnswersOrdered
  <2> QED
    BY <2>1, <2>2
<1>13. AnswersSee'
  BY <1>1, <1>7 DEF IInv, AnswersSee
<1>14. CacheSees'
  <2>1. CASE applied
    <3>1. Cached'.fresh_until = now + Freshness /\ Cached'.decision = r.answer
      BY <1>6, <2>1
    <3>2. now + Freshness <= real + Freshness
      BY <1>3, <1>5, Numbers
    <3>3. now + Freshness - Delay - Freshness \in Int
          /\ now + Freshness - Delay - Freshness <= r.at
      BY <1>3, <1>4, <1>5, Numbers
    <3>4. ASSUME VisibleSince(now + Freshness - Delay - Freshness)
          PROVE  r.answer.revoked
      <4>1. Events # <<>> /\ LastEvent.when \in Nat
        BY <1>3, <3>4, EventsAre DEF VisibleSince
      <4>2. VisibleSince(r.at)
        BY <1>4, <3>3, <3>4, <4>1, Numbers DEF VisibleSince
      <4> QED
        BY <1>1, <4>2 DEF IInv, AnswersSee
    <3>5. VisibleSince(now + Freshness - Delay - Freshness)' => Cached'.decision.revoked
      BY <1>7, <3>1, <3>4
    <3>6. Cached'.fresh_until - Delay - Freshness = now + Freshness - Delay - Freshness
      BY <1>5, <3>1, Numbers
    <3>7. VisibleSince(Cached.fresh_until - Delay - Freshness)' =>
            Cached'.decision.revoked
      BY <3>5, <3>6 DEF VisibleSince
    <3> QED
      BY <1>1, <3>1, <3>2, <3>7 DEF CacheSees
  <2>2. CASE ~applied
    BY <1>1, <1>6, <1>7, <2>2 DEF IInv, CacheSees
  <2> QED
    BY <2>1, <2>2
<1>15. refreshes' \subseteq Refresh /\ restarts' \in Nat
  BY <1>1, <1>3
<1> QED
  BY <1>1, <1>6, <1>10, <1>11, <1>12, <1>13, <1>14, <1>15, VerifierStep

\* A refresh is lost, a key invalidated, the verifier restarted, a request judged:
\* there is no new evidence.
LEMMA ForgettingInv ==
  ASSUME IInv,
         \/ \E r \in refreshes : LoseRefresh(r)
         \/ InvalidateKey \/ Restart \/ Authorize
  PROVE  IInv'
<1>1. /\ TypeOK /\ real \in Nat /\ newest \in Nat /\ restarts \in Nat
      /\ cache \in RevocationCache /\ refreshes \subseteq Refresh
  BY DEF IInv, TypeOK
<1>2. /\ UNCHANGED <<real, issuerVars, history>>
      /\ restarts' \in Nat
  BY <1>1 DEF LoseRefresh, InvalidateKey, Restart, Authorize
<1>3. /\ Events' = Events /\ LastEvent' = LastEvent
      /\ \A t : VisibleSince(t)' <=> VisibleSince(t)
  BY <1>2, SameView
<1>4. Len(Events) \in Nat
  BY <1>1, EventsAre
<1>5. /\ refreshes' \subseteq refreshes
      /\ cache' \in RevocationCache
      /\ refreshes' # {} => cache'.next_refresh_sequence = cache.next_refresh_sequence
      /\ Latest' = Latest \/ Latest' = None
      /\ Cached' = Cached \/ Cached' = None
      /\ newest' = newest \/ (newest' = 0 /\ refreshes' = {})
  <2>1. CASE \E r \in refreshes : LoseRefresh(r)
    BY <1>1, <2>1 DEF LoseRefresh, Latest, Cached
  <2>2. CASE InvalidateKey
    <3>1. PICK now \in VerifierTimes : cache' = Invalidate(cache, Ledger, now)
      BY <2>2 DEF InvalidateKey
    <3>2. now \in Nat
      BY <1>1, VerifierTimesAre
    <3> QED
      BY <1>1, <2>2, <3>1, <3>2, InvalidateIs DEF InvalidateKey, Latest, Cached
  <2>3. CASE Restart
    BY <2>3, ColdIs DEF Restart, Latest, Cached
  <2>4. CASE Authorize
    <3>1. PICK now \in VerifierTimes : cache' = Observe(cache, now)
      BY <2>4 DEF Authorize
    <3>2. now \in Nat
      BY <1>1, VerifierTimesAre
    <3> QED
      BY <1>1, <2>4, <3>1, <3>2, ObserveIs DEF Authorize, Latest, Cached
  <2> QED
    BY <2>1, <2>2, <2>3, <2>4
<1>6. newest' \in Nat /\ newest' <= Len(Events)
  BY <1>1, <1>4, <1>5 DEF IInv, AnswersOrdered
<1>7. RefreshesTimely'
  BY <1>2, <1>5 DEF IInv, RefreshesTimely
<1>8. AnswersOrdered'
  BY <1>3, <1>5, <1>6 DEF IInv, AnswersOrdered
<1>9. AnswersSee'
  BY <1>3, <1>5 DEF IInv, AnswersSee
<1>10. CacheSees'
  BY <1>2, <1>3, <1>5 DEF IInv, CacheSees
<1> QED
  BY <1>1, <1>2, <1>5, <1>6, <1>7, <1>8, <1>9, <1>10, VerifierStep

\* Time passes: what is under way is within its timeout.
LEMMA TickInv ==
  ASSUME IInv, Tick
  PROVE  IInv'
<1>1. /\ real' = real + 1 /\ \A r \in refreshes : real < r.at + Delay
      /\ exchange => real < Skew + RequestTimeout
      /\ UNCHANGED <<offset, scope, exchange, token, history, cache, refreshes, newest,
                     restarts>>
  BY DEF Tick, issuerVars, verifierVars
<1>2. TypeOK /\ real \in Nat
  BY DEF IInv, TypeOK
<1>3. /\ Events' = Events /\ LastEvent' = LastEvent
      /\ Latest' = Latest /\ Cached' = Cached
  BY <1>1 DEF Events, LastEvent, Latest, Cached
<1>4. TypeOK'
  <2>1. real' \in Nat
    BY <1>1, <1>2
  <2> QED
    BY <1>1, <1>2, <2>1 DEF TypeOK
<1>5. Timely' /\ TokenDated' /\ EventDated'
  BY <1>1, <1>2, <1>3, Numbers DEF IInv, Timely, TokenDated, EventDated
<1>6. RefreshesTimely'
  <2>1. ASSUME NEW r \in refreshes
        PROVE  /\ r.at <= real' /\ real' <= r.at + Delay
               /\ r.sequence < cache.next_refresh_sequence
    BY <1>1, <1>2, RefreshParts, Numbers DEF IInv, RefreshesTimely
  <2> QED
    BY <1>1, <2>1 DEF RefreshesTimely
<1>7. AnswersOrdered'
  BY <1>1, <1>3 DEF IInv, AnswersOrdered
<1>8. ASSUME NEW t, VisibleSince(t)' PROVE VisibleSince(t)
  <2>1. /\ Events # <<>> /\ LastEvent.action = "revoke"
        /\ LastEvent.when + 2 * Skew < t /\ real' + Skew < LastEvent.expires_at
    BY <1>3, <1>8 DEF VisibleSince
  <2>2. real + Skew < LastEvent.expires_at
    BY <1>1, <1>2, <2>1, EventsAre, Numbers
  <2> QED
    BY <2>1, <2>2 DEF VisibleSince
<1>9. AnswersSee'
  BY <1>1, <1>8 DEF IInv, AnswersSee
<1>10. CacheSees'
  <2>1. ASSUME Cached # None PROVE Cached.fresh_until <= real' + Freshness
    BY <1>1, <1>2, <2>1, CachedParts, Numbers DEF IInv, CacheSees
  <2> QED
    BY <1>3, <1>8, <2>1 DEF IInv, CacheSees
<1> QED
  BY <1>4, <1>5, <1>6, <1>7, <1>9, <1>10 DEF IInv

\* Every step keeps the invariant.
LEMMA InvStep == IInv /\ [Next]_vars => IInv'
<1> SUFFICES ASSUME IInv, [Next]_vars PROVE IInv'
  OBVIOUS
<1>1. CASE Mint
  BY <1>1, MintInv
<1>2. CASE RevokeToken \/ RevokeSubject \/ Lift
  BY <1>2, TransitionsInv
<1>3. CASE StartRefresh
  BY <1>3, StartRefreshInv
<1>4. ASSUME NEW r \in refreshes, AuthorityAnswers(r) PROVE IInv'
  BY <1>4, AuthorityAnswersInv
<1>5. ASSUME NEW r \in refreshes, Apply(r) PROVE IInv'
  BY <1>5, ApplyInv
<1>6. CASE (\E r \in refreshes : LoseRefresh(r)) \/ InvalidateKey \/ Restart \/ Authorize
  BY <1>6, ForgettingInv
<1>7. CASE Tick
  BY <1>7, TickInv
<1>8. CASE UNCHANGED vars
  <2>1. UNCHANGED <<real, offset, scope, exchange, token, history, cache, refreshes,
                    newest, restarts>>
    BY <1>8 DEF vars
  <2>2. /\ Events' = Events /\ LastEvent' = LastEvent
        /\ \A t : VisibleSince(t)' <=> VisibleSince(t)
    BY <2>1, SameView
  <2>3. Latest' = Latest /\ Cached' = Cached /\ (TypeOK' <=> TypeOK)
    BY <2>1 DEF Latest, Cached, TypeOK
  <2> QED
    BY <2>1, <2>2, <2>3
       DEF IInv, Timely, TokenDated, EventDated, RefreshesTimely, AnswersOrdered,
           AnswersSee, CacheSees
<1> QED
  BY <1>1, <1>2, <1>3, <1>4, <1>5, <1>6, <1>7, <1>8 DEF Next

\* The invariant holds in every behaviour.
LEMMA Invariance == Spec => []IInv
<1> QED
  BY InitInv, InvStep, PTL DEF Spec

-----------------------------------------------------------------------------
(* The theorems.                                                           *)

\* Every variable of issuer, ledger and verifier keeps its type: no clock runs
\* below zero, and no sequence number leaves its range.
THEOREM TypeCorrect == Spec => []TypeOK
<1>1. IInv => TypeOK
  BY DEF IInv
<1> QED
  BY <1>1, Invariance, PTL

\* A request is allowed on a fresh decision that does not say revoked.
LEMMA AllowIsFresh ==
  ASSUME NEW now \in VerifierTimes, Admits(now)
  PROVE  /\ token # None /\ now < token.exp
         /\ Cached # None /\ ~Cached.decision.revoked /\ now < Cached.fresh_until
<1>1. token # None /\ now < token.exp /\ LookupDecision(cache, Ledger, now) = "allow"
  BY DEF Admits
<1>2. Cached # None /\ ~Cached.decision.revoked /\ now < Cached.fresh_until
  BY <1>1, Zenon DEF LookupDecision, Cached
<1> QED
  BY <1>1, <1>2

\* Bounded propagation: a revocation that has stood for twice the clock skew, a
\* refresh, the freshness of an answer and the lateness of a request's time is
\* obeyed, whatever answers were reordered or lost and however often the verifier
\* was invalidated or restarted.
THEOREM BoundedPropagation == Spec => []RevokedWithinBound
<1>1. IInv => RevokedWithinBound
  <2> SUFFICES ASSUME IInv, Standing, real >= Authority!Last(Events).when + Blind,
                      Admitted
               PROVE  FALSE
    BY DEF RevokedWithinBound
  <2>1. PICK now \in VerifierTimes : Admits(now)
    BY DEF Admitted
  <2>2. Cached # None /\ ~Cached.decision.revoked /\ now < Cached.fresh_until
    BY <2>1, AllowIsFresh
  <2>3. TypeOK
    BY DEF IInv
  <2>4. now \in Nat /\ real \in Nat /\ real <= now + Late /\ Cached.fresh_until \in Nat
    BY <2>2, <2>3, VerifierTimesAre, CachedParts
  <2>5. /\ Events # <<>> /\ LastEvent.action = "revoke"
        /\ real + Skew < LastEvent.expires_at
        /\ real >= LastEvent.when + Blind
    BY DEF Standing, Authority!Last, LastEvent
  <2>6. LastEvent.when \in Nat
    BY <2>3, <2>5, EventsAre
  <2>7. LastEvent.when + 2 * Skew < Cached.fresh_until - Delay - Freshness
    BY <2>2, <2>4, <2>5, <2>6, Numbers DEF Blind
  <2>8. VisibleSince(Cached.fresh_until - Delay - Freshness)
    BY <2>5, <2>7 DEF VisibleSince
  <2> QED
    BY <2>2, <2>8 DEF IInv, CacheSees
<1> QED
  BY <1>1, Invariance, PTL

\* A token minted from a key that was revoked under its exchange is not admitted
\* for longer than the rest of the request, a lifetime and what clocks differ.
THEOREM KeyDiesOut == Spec => []RevokedKeyDiesOut
<1>1. IInv => RevokedKeyDiesOut
  <2> SUFFICES ASSUME IInv, Admitted
               PROVE  real < Skew + RequestTimeout + Skew + TTL + Late
    BY DEF RevokedKeyDiesOut
  <2>1. PICK now \in VerifierTimes : Admits(now)
    BY DEF Admitted
  <2>2. token # None /\ now < token.exp
    BY <2>1, AllowIsFresh
  <2>3. TypeOK /\ token.exp <= Skew + RequestTimeout + Skew + TTL
    BY <2>2 DEF IInv, TokenDated
  <2>4. now \in Nat /\ real \in Nat /\ real <= now + Late /\ token.exp \in Nat
    BY <2>2, <2>3, VerifierTimesAre DEF TypeOK
  <2> QED
    BY <2>2, <2>3, <2>4, Numbers
<1> QED
  BY <1>1, Invariance, PTL

\* A verifier process never replaces its evidence by an earlier reading of the
\* ledger, in whatever order the answers arrive.
THEOREM EvidenceForward == Spec => EvidenceMovesForward
<1>1. IInv /\ [Next]_vars => [newest' >= newest \/ Restart]_vars
  <2> SUFFICES ASSUME IInv, Next PROVE newest' >= newest \/ Restart
    OBVIOUS
  <2>1. newest \in Nat
    BY DEF IInv, TypeOK
  <2>2. ASSUME NEW r \in refreshes, Apply(r) PROVE newest' >= newest
    BY <2>2, ApplyInv
  <2>3. ASSUME ~(\E r \in refreshes : Apply(r)), ~Restart PROVE newest' = newest
    BY <2>3 DEF Next, Mint, RevokeToken, RevokeSubject, Lift, StartRefresh,
                AuthorityAnswers, LoseRefresh, InvalidateKey, Authorize, Tick,
                verifierVars
  <2> QED
    BY <2>1, <2>2, <2>3
<1> QED
  BY <1>1, Invariance, PTL DEF Spec, EvidenceMovesForward
=============================================================================
