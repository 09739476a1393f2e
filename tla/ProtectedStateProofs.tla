------------------------ MODULE ProtectedStateProofs ------------------------
(***************************************************************************)
(* Rotation of the key ring never locks a live ceremony out, and a         *)
(* ceremony is finished with its own challenge, for any number of          *)
(* replicas, keys, ceremonies and changes of the ring.                     *)
(***************************************************************************)
EXTENDS ProtectedState, TLAPS, FiniteSetTheorems

-----------------------------------------------------------------------------
(* The inductive invariant.                                                *)

\* Envelopes are what Seal made in their context.
Sealed ==
  \A f \in envelopes :
    /\ f.envelope.version > 0 /\ f.envelope.kind = f.context.kind
    /\ f.envelope.sealed_with =
         AssociatedData(f.context, f.envelope.key_id, f.envelope.version)

\* No ceremony lives longer than a lifetime from now.
Lifetime == \A f \in envelopes : f.context.expires_at <= now + TTL

\* The rings that serve were configured at some time.
RingsLoaded ==
  \A r \in Serving : ring[r].version > 0 /\ ring[r].version <= config.version

\* The keys of the configuration, with the active one even if it was retired.
Wanted == config.keys \union {config.active}

\* What any replica or the configuration seals with, every replica can open.
ActiveKnown ==
  /\ \A r, s \in Serving : ring[s].active \in ring[r].keys
  /\ \A s \in Serving : config.active \in ring[s].keys /\ ring[s].active \in Wanted

\* The keys of live ceremonies are on every replica and in the configuration.
LiveKeysKnown ==
  \A f \in envelopes : now < f.context.expires_at =>
    /\ f.envelope.key_id \in Wanted
    /\ \A r \in Serving : f.envelope.key_id \in ring[r].keys

\* Once all replicas run the configuration, only its active key seals.
SettledSeals ==
  Settled => \A f \in envelopes :
    f.context.expires_at > settled + TTL => f.envelope.key_id = config.active

IInv == /\ TypeOK /\ IsFiniteSet(envelopes) /\ config.version > 0
        /\ Sealed /\ Lifetime /\ RingsLoaded /\ ActiveKnown /\ LiveKeysKnown
        /\ SettledSeals /\ OwnChallenge
-----------------------------------------------------------------------------
(* Facts about the codec and the rings.                                    *)

\* Sealing makes an envelope that opens in its context wherever its key is known.
LEMMA SealOpens ==
  ASSUME NEW k \in Ring, NEW context \in Context, NEW challenge \in Nat
  PROVE  LET e == Seal(k, context, challenge) IN
         /\ e \in Envelope
         /\ e.key_id = k.active /\ e.version = k.version /\ e.kind = context.kind
         /\ e.sealed_with = AssociatedData(context, e.key_id, e.version)
BY DEF Seal, Ring, Context, Envelope, AssociatedData

\* The associated data names its context.
LEMMA AssociatedDataInjective ==
  ASSUME NEW c \in Context, NEW d \in Context, NEW i, NEW j, NEW v, NEW w,
         AssociatedData(c, i, v) = AssociatedData(d, j, w)
  PROVE  c = d
<1>1. c.binding = d.binding /\ c.kind = d.kind /\ c.expires_at = d.expires_at
  BY DEF AssociatedData
<1> QED
  BY <1>1 DEF Context

\* When all replicas run the configuration, it is a valid one and all serve.
LEMMA SettledServes ==
  ASSUME TypeOK, Settled
  PROVE  /\ Serving = Replicas
         /\ \A r \in Replicas : ring[r] = config
         /\ config.active \in config.keys
<1>1. \A r \in Replicas : ring[r] = config /\ ring[r] # None
  BY ProtectedStateConstants DEF TypeOK, Settled
<1>2. Serving = Replicas
  BY <1>1 DEF Serving
<1>3. PICK r \in Replicas : TRUE
  BY ProtectedStateConstants
<1> QED
  BY <1>1, <1>2, <1>3 DEF TypeOK

\* A ring that serves is a ring.
LEMMA ServingRing ==
  ASSUME TypeOK, NEW r \in Serving
  PROVE  /\ r \in Replicas /\ ring[r] \in Ring
         /\ ring[r].keys \subseteq KeyIds /\ ring[r].active \in KeyIds
         /\ ring[r].version \in Nat
<1>1. r \in Replicas /\ ring[r] \in Ring
  BY DEF Serving, TypeOK
<1> QED
  BY <1>1 DEF Ring

-----------------------------------------------------------------------------
\* The invariant holds initially.
LEMMA InitInv == Init => IInv
<1> SUFFICES ASSUME Init PROVE IInv
  OBVIOUS
<1>1. /\ config \in Ring /\ config.version = 1 /\ config.keys = {FirstKey}
      /\ config.active = FirstKey
  BY ProtectedStateConstants DEF Init, Ring
<1>2. ValidRing(config) /\ Load(config) = config
  BY <1>1 DEF ValidRing, Load
<1>3. /\ ring = [r \in Replicas |-> config] /\ envelopes = {} /\ outcome = NoOutcome
      /\ now = 0 /\ settled = 0
  BY <1>2 DEF Init
<1>4. \A r \in Serving : ring[r] = config
  BY <1>3 DEF Serving
<1>5. TypeOK
  BY <1>1, <1>3, <1>4 DEF TypeOK
<1>6. IsFiniteSet(envelopes)
  BY <1>3, FS_EmptySet
<1>7. RingsLoaded /\ ActiveKnown
  BY <1>1, <1>4 DEF RingsLoaded, ActiveKnown, Wanted
<1>8. OwnChallenge
  BY <1>3 DEF OwnChallenge, NoOutcome
<1> QED
  BY <1>1, <1>3, <1>5, <1>6, <1>7, <1>8
     DEF IInv, Sealed, Lifetime, LiveKeysKnown, SettledSeals

\* Starting a ceremony keeps the invariant.
LEMMA StartInv ==
  ASSUME IInv, NEW r \in Replicas, NEW b \in Bindings, NEW kind \in Kinds,
         Start(r, b, kind)
  PROVE  IInv'
<1> DEFINE context == [binding |-> b, kind |-> kind, expires_at |-> now + TTL]
           challenge == Cardinality(envelopes) + 1
           e == Seal(ring[r], context, challenge)
           new == [context |-> context, envelope |-> e]
<1>1. /\ r \in Serving /\ envelopes' = envelopes \union {new} /\ outcome' = NoOutcome
      /\ UNCHANGED <<now, config, ring, settled>>
  BY DEF Start, Quiet
<1>t. /\ TypeOK /\ now \in Nat /\ TTL \in Nat /\ settled \in Nat
      /\ ring[r] \in Ring /\ ring[r].version > 0
  BY <1>1, ServingRing, ProtectedStateConstants DEF IInv, TypeOK, RingsLoaded
<1>2. challenge \in Nat
  BY FS_CardinalityType DEF IInv
<1>3. context \in Context /\ context.expires_at = now + TTL /\ context.kind = kind
  BY <1>t DEF Context
<1> HIDE DEF context, challenge
<1>4. /\ e \in Envelope
      /\ e.key_id = ring[r].active /\ e.version = ring[r].version /\ e.kind = context.kind
      /\ e.sealed_with = AssociatedData(context, e.key_id, e.version)
  BY <1>t, <1>2, <1>3, SealOpens
<1> HIDE DEF e
<1>5. new.context = context /\ new.envelope = e
      /\ new \in [context: Context, envelope: Envelope]
  BY <1>3, <1>4
<1> HIDE DEF new
<1>6. Serving' = Serving /\ Wanted' = Wanted /\ (Settled' <=> Settled)
  BY <1>1 DEF Serving, Wanted, Settled
<1>7. TypeOK'
  BY <1>1, <1>5, <1>6, <1>t DEF TypeOK
<1>8. IsFiniteSet(envelopes')
  BY <1>1, FS_AddElement DEF IInv
<1>9. Sealed'
  BY <1>1, <1>t, <1>4, <1>5 DEF IInv, Sealed
<1>10. Lifetime'
  <2>1. new.context.expires_at <= now + TTL
    BY <1>t, <1>3, <1>5
  <2> QED
    BY <1>1, <2>1 DEF IInv, Lifetime
<1>11. RingsLoaded' /\ ActiveKnown'
  BY <1>1, <1>6 DEF IInv, RingsLoaded, ActiveKnown
<1>12. LiveKeysKnown'
  <2>1. /\ new.envelope.key_id \in Wanted
        /\ \A s \in Serving : new.envelope.key_id \in ring[s].keys
    BY <1>1, <1>4, <1>5 DEF IInv, ActiveKnown
  <2> QED
    BY <1>1, <1>6, <2>1 DEF IInv, LiveKeysKnown
<1>13. SettledSeals'
  <2>1. Settled => new.envelope.key_id = config.active
    BY <1>4, <1>5 DEF Settled
  <2> QED
    BY <1>1, <1>6, <2>1 DEF IInv, SettledSeals
<1>14. OwnChallenge'
  BY <1>1 DEF OwnChallenge, NoOutcome
<1> QED
  BY <1>1, <1>7, <1>8, <1>9, <1>10, <1>11, <1>12, <1>13, <1>14 DEF IInv

\* Steps that change nothing but the answer keep the invariant if the answer is
\* of the right type and has a challenge of its own ceremony.
LEMMA AnswerInv ==
  ASSUME IInv, UNCHANGED <<now, config, ring, settled, envelopes>>,
         outcome' \in {NoOutcome} \union
           [kind: {"finished", "recovered"}, context: Context, challenge: Nat],
         OwnChallenge'
  PROVE  IInv'
<1>1. Serving' = Serving /\ Wanted' = Wanted /\ (Settled' <=> Settled)
  BY DEF Serving, Wanted, Settled
<1>2. TypeOK'
  BY <1>1 DEF IInv, TypeOK
<1> QED
  BY <1>1, <1>2 DEF IInv, Sealed, Lifetime, RingsLoaded, ActiveKnown, LiveKeysKnown,
                    SettledSeals

\* An envelope that opens in a context was sealed in that context.
LEMMA OpensOwn ==
  ASSUME IInv, NEW r \in Serving, NEW f \in envelopes, NEW g \in envelopes,
         Opens(ring[r], f.context, g.envelope)
  PROVE  /\ g.context = f.context
         /\ f.context \in Context /\ g.envelope.challenge \in Nat
<1>1. f.context \in Context /\ g.context \in Context /\ g.envelope \in Envelope
  BY DEF IInv, TypeOK
<1>2. AssociatedData(f.context, g.envelope.key_id, g.envelope.version) =
      AssociatedData(g.context, g.envelope.key_id, g.envelope.version)
  BY DEF Opens, IInv, Sealed
<1>3. g.context = f.context
  BY <1>1, <1>2, AssociatedDataInjective
<1> QED
  BY <1>1, <1>3 DEF Envelope

\* Finishing and recovering keep the invariant.
LEMMA FinishInv ==
  ASSUME IInv, NEW r \in Replicas, NEW f \in envelopes, NEW g \in envelopes, NEW challenge,
         Finish(r, f.context, g.envelope, challenge) \/ Recover(r, f.context, g.envelope)
  PROVE  IInv'
<1>1. r \in Serving /\ UNCHANGED <<now, config, ring, settled, envelopes>>
  BY DEF Finish, Recover
<1>2. \/ outcome' = NoOutcome
      \/ /\ Opens(ring[r], f.context, g.envelope)
         /\ \E kind \in {"finished", "recovered"} :
              outcome' = [kind |-> kind, context |-> f.context,
                          challenge |-> g.envelope.challenge]
  BY DEF Finish, Recover
<1>3. CASE outcome' = NoOutcome
  BY <1>1, <1>3, AnswerInv DEF OwnChallenge, NoOutcome
<1>4. ASSUME Opens(ring[r], f.context, g.envelope), NEW kind \in {"finished", "recovered"},
             outcome' = [kind |-> kind, context |-> f.context,
                         challenge |-> g.envelope.challenge]
      PROVE  IInv'
  <2>1. /\ g.context = f.context
        /\ f.context \in Context /\ g.envelope.challenge \in Nat
    BY <1>1, <1>4, OpensOwn
  <2>2. OwnChallenge'
    BY <1>1, <1>4, <2>1 DEF OwnChallenge
  <2>3. outcome' \in [kind: {"finished", "recovered"}, context: Context, challenge: Nat]
    BY <1>4, <2>1
  <2> QED
    BY <1>1, <2>2, <2>3, AnswerInv
<1> QED
  BY <1>2, <1>3, <1>4

-----------------------------------------------------------------------------
(* The operators.                                                          *)

\* A change of the ring keeps the invariant when every replica knows the new
\* active key, and the new ring those the replicas seal with and those that live
\* ceremonies were sealed with.
LEMMA ChangeInv ==
  ASSUME IInv, NEW keys \in SUBSET KeyIds, NEW active \in KeyIds, Change(keys, active),
         \A s \in Serving : active \in ring[s].keys /\ ring[s].active \in keys \union {active},
         \A f \in envelopes : now < f.context.expires_at =>
           f.envelope.key_id \in keys \union {active}
  PROVE  IInv'
<1>1. /\ config' = [keys |-> keys, active |-> active, version |-> config.version + 1]
      /\ outcome' = NoOutcome /\ UNCHANGED <<now, ring, settled, envelopes>>
  BY DEF Change, Quiet
<1>2. config \in Ring /\ config.version \in Nat
  BY DEF IInv, TypeOK, Ring
<1>3. /\ config'.keys = keys /\ config'.active = active
      /\ config'.version = config.version + 1
      /\ config' \in Ring
  BY <1>1, <1>2 DEF Ring
<1>4. Serving' = Serving /\ Wanted' = keys \union {active}
  BY <1>1, <1>3 DEF Serving, Wanted
<1>5. TypeOK'
  BY <1>1, <1>3, <1>4 DEF IInv, TypeOK
<1>6. RingsLoaded'
  <2> SUFFICES ASSUME NEW r \in Serving
               PROVE  ring[r].version > 0 /\ ring[r].version <= config.version + 1
    BY <1>1, <1>3, <1>4 DEF RingsLoaded
  <2>1. ring[r].version \in Nat /\ ring[r].version > 0 /\ ring[r].version <= config.version
    BY ServingRing DEF IInv, RingsLoaded
  <2> QED
    BY <1>2, <2>1
<1>7. ~Settled'
  <2> SUFFICES ASSUME Settled' PROVE FALSE
    OBVIOUS
  <2>1. PICK r \in Replicas : ring[r] = config'
    BY <1>1, ProtectedStateConstants DEF Settled
  <2>2. r \in Serving
    BY <1>3, <2>1, ProtectedStateConstants DEF Serving
  <2>3. ring[r].version <= config.version
    BY <2>2 DEF IInv, RingsLoaded
  <2> QED
    BY <1>2, <1>3, <2>1, <2>3
<1>8. ActiveKnown'
  BY <1>1, <1>3, <1>4 DEF IInv, ActiveKnown
<1>9. LiveKeysKnown'
  BY <1>1, <1>4 DEF IInv, LiveKeysKnown
<1>10. OwnChallenge'
  BY <1>1 DEF OwnChallenge, NoOutcome
<1>11. config'.version > 0
  BY <1>2, <1>3
<1>12. Sealed' /\ Lifetime' /\ IsFiniteSet(envelopes')
  BY <1>1 DEF IInv, Sealed, Lifetime
<1> QED
  BY <1>5, <1>6, <1>7, <1>8, <1>9, <1>10, <1>11, <1>12 DEF IInv, SettledSeals

\* Introducing and activating a key keep the invariant.
LEMMA IntroduceInv ==
  ASSUME IInv, NEW k \in KeyIds, Introduce(k) \/ Activate(k)
  PROVE  IInv'
<1>1. /\ Serving = Replicas /\ \A r \in Replicas : ring[r] = config
      /\ config.active \in config.keys
  BY SettledServes DEF IInv, Introduce, Activate
<1>2. config.keys \in SUBSET KeyIds /\ config.active \in KeyIds
  BY DEF IInv, TypeOK, Ring
<1>3. \A f \in envelopes : now < f.context.expires_at => f.envelope.key_id \in config.keys
  BY <1>1 DEF IInv, LiveKeysKnown, Wanted
<1>4. CASE Introduce(k)
  <2>1. Change(config.keys \union {k}, config.active)
    BY <1>4 DEF Introduce
  <2> QED
    BY <1>1, <1>2, <1>3, <2>1, ChangeInv
<1>5. CASE Activate(k)
  <2>1. k \in config.keys /\ Change(config.keys, k)
    BY <1>5 DEF Activate
  <2> QED
    BY <1>1, <1>2, <1>3, <2>1, ChangeInv
<1> QED
  BY <1>4, <1>5

\* Retiring a key keeps the invariant: the ceremonies that live when the ring has
\* stood for a lifetime were all sealed with the active key.
LEMMA RetireInv ==
  ASSUME IInv, NEW k \in KeyIds, Retire(k)
  PROVE  IInv'
<1>1. /\ Serving = Replicas /\ \A r \in Replicas : ring[r] = config
      /\ config.active \in config.keys /\ Settled /\ now >= settled + TTL
      /\ Change(config.keys \ {k}, config.active)
  BY SettledServes DEF IInv, Retire
<1>2. config.keys \in SUBSET KeyIds /\ config.active \in KeyIds
  BY DEF IInv, TypeOK, Ring
<1>3. \A f \in envelopes : now < f.context.expires_at => f.envelope.key_id = config.active
  <2> SUFFICES ASSUME NEW f \in envelopes, now < f.context.expires_at
               PROVE  f.envelope.key_id = config.active
    OBVIOUS
  <2>1. f.context \in Context
    BY DEF IInv, TypeOK
  <2>2. f.context.expires_at \in Nat
    BY <2>1 DEF Context
  <2>3. now \in Nat /\ settled \in Nat /\ TTL \in Nat
    BY ProtectedStateConstants DEF IInv, TypeOK
  <2>4. f.context.expires_at > settled + TTL
    BY <1>1, <2>2, <2>3
  <2> QED
    BY <1>1, <2>4 DEF IInv, SettledSeals
<1> QED
  BY <1>1, <1>2, <1>3, ChangeInv

\* Putting the active key back keeps the invariant.
LEMMA PutBackInv ==
  ASSUME IInv, PutBack
  PROVE  IInv'
<1>1. Change(config.keys \union {config.active}, config.active)
  BY DEF PutBack
<1>2. config.keys \in SUBSET KeyIds /\ config.active \in KeyIds
  BY DEF IInv, TypeOK, Ring
<1>3. \A s \in Serving : config.active \in ring[s].keys /\ ring[s].active \in Wanted
  BY DEF IInv, ActiveKnown
<1>4. \A f \in envelopes : now < f.context.expires_at => f.envelope.key_id \in Wanted
  BY DEF IInv, LiveKeysKnown
<1>5. Wanted \union {config.active} = Wanted /\ Wanted \in SUBSET KeyIds
  BY <1>2 DEF Wanted
<1> QED
  BY <1>1, <1>2, <1>3, <1>4, <1>5, ChangeInv DEF Wanted

\* A replica that restarts with the configuration keeps the invariant.
LEMMA DeployInv ==
  ASSUME IInv, NEW r \in Replicas, Deploy(r)
  PROVE  IInv'
<1>1. /\ ring' = [ring EXCEPT ![r] = Load(config)] /\ outcome' = NoOutcome
      /\ settled' = IF \A s \in Replicas : ring'[s] = config THEN now ELSE settled
      /\ UNCHANGED <<now, config, envelopes>>
  BY DEF Deploy, Quiet
<1>t. /\ config \in Ring /\ config.version \in Nat /\ now \in Nat /\ TTL \in Nat
      /\ ring \in [Replicas -> Ring \union {None}] /\ settled \in Nat
  BY ProtectedStateConstants DEF IInv, TypeOK, Ring
<1>2. /\ \A s \in Replicas : s # r => ring'[s] = ring[s]
      /\ ring'[r] = Load(config)
  BY <1>1, <1>t
<1>3. ring'[r] = None \/ (ring'[r] = config /\ config.active \in config.keys)
  BY <1>2 DEF Load, ValidRing
<1>4. ASSUME NEW s \in Serving'
      PROVE  \/ s \in Serving /\ ring'[s] = ring[s]
             \/ ring'[s] = config /\ config.active \in config.keys
  BY <1>2, <1>3, <1>4 DEF Serving
<1>5. Wanted' = Wanted
  BY <1>1 DEF Wanted
<1>6. config.active \in config.keys => Wanted = config.keys
  BY DEF Wanted
<1>7. TypeOK'
  <2>1. ring' \in [Replicas -> Ring \union {None}]
    BY <1>1, <1>t DEF Load
  <2>2. \A s \in Serving' : ring'[s].active \in ring'[s].keys
    BY <1>4 DEF IInv, TypeOK
  <2>3. settled' \in Nat
    BY <1>1, <1>t
  <2> QED
    BY <1>1, <2>1, <2>2, <2>3 DEF IInv, TypeOK
<1>8. RingsLoaded'
  <2> SUFFICES ASSUME NEW s \in Serving'
               PROVE  ring'[s].version > 0 /\ ring'[s].version <= config.version
    BY <1>1 DEF RingsLoaded
  <2>1. CASE ring'[s] = config
    BY <1>t, <2>1 DEF IInv
  <2>2. CASE s \in Serving /\ ring'[s] = ring[s]
    BY <2>2 DEF IInv, RingsLoaded
  <2> QED
    BY <1>4, <2>1, <2>2
<1>9. ActiveKnown'
  <2>1. ASSUME NEW s \in Serving'
        PROVE  config.active \in ring'[s].keys /\ ring'[s].active \in Wanted
    BY <1>4, <1>6 DEF IInv, ActiveKnown
  <2>2. ASSUME NEW s \in Serving', NEW q \in Serving'
        PROVE  ring'[s].active \in ring'[q].keys
    <3>1. CASE ring'[s] = config
      BY <2>1, <3>1
    <3>2. CASE s \in Serving /\ ring'[s] = ring[s]
      <4>1. CASE ring'[q] = config /\ config.active \in config.keys
        BY <1>6, <2>1, <4>1
      <4>2. CASE q \in Serving /\ ring'[q] = ring[q]
        BY <3>2, <4>2 DEF IInv, ActiveKnown
      <4> QED
        BY <1>4, <4>1, <4>2
    <3> QED
      BY <1>4, <3>1, <3>2
  <2> QED
    BY <1>1, <1>5, <2>1, <2>2 DEF ActiveKnown
<1>10. LiveKeysKnown'
  <2> SUFFICES ASSUME NEW f \in envelopes, now < f.context.expires_at
               PROVE  /\ f.envelope.key_id \in Wanted
                      /\ \A s \in Serving' : f.envelope.key_id \in ring'[s].keys
    BY <1>1, <1>5 DEF LiveKeysKnown
  <2>1. /\ f.envelope.key_id \in Wanted
        /\ \A s \in Serving : f.envelope.key_id \in ring[s].keys
    BY DEF IInv, LiveKeysKnown
  <2> QED
    BY <1>4, <1>6, <2>1
<1>11. SettledSeals'
  <2> SUFFICES ASSUME Settled', NEW f \in envelopes, f.context.expires_at > settled' + TTL
               PROVE  FALSE
    BY <1>1 DEF SettledSeals
  <2>1. settled' = now
    BY <1>1 DEF Settled
  <2>2. f.context \in Context /\ f.context.expires_at <= now + TTL
    BY DEF IInv, TypeOK, Lifetime
  <2>3. f.context.expires_at \in Nat
    BY <2>2 DEF Context
  <2> QED
    BY <1>t, <2>1, <2>2, <2>3
<1>12. OwnChallenge'
  BY <1>1 DEF OwnChallenge, NoOutcome
<1>13. Sealed' /\ Lifetime' /\ IsFiniteSet(envelopes') /\ config'.version > 0
  BY <1>1 DEF IInv, Sealed, Lifetime
<1> QED
  BY <1>7, <1>8, <1>9, <1>10, <1>11, <1>12, <1>13 DEF IInv

\* Time passing keeps the invariant.
LEMMA TickInv ==
  ASSUME IInv, Tick
  PROVE  IInv'
<1>1. now' = now + 1 /\ outcome' = NoOutcome /\ UNCHANGED <<config, ring, settled, envelopes>>
  BY DEF Tick, Quiet
<1>2. Serving' = Serving /\ Wanted' = Wanted /\ (Settled' <=> Settled)
  BY <1>1 DEF Serving, Wanted, Settled
<1>3. now \in Nat /\ TTL \in Nat
  BY ProtectedStateConstants DEF IInv, TypeOK
<1>4. TypeOK'
  BY <1>1, <1>2, <1>3 DEF IInv, TypeOK
<1>5. \A f \in envelopes : f.context.expires_at \in Nat
  <2>1. \A f \in envelopes : f.context \in Context
    BY DEF IInv, TypeOK
  <2> QED
    BY <2>1 DEF Context
<1>6. Lifetime'
  BY <1>1, <1>3, <1>5 DEF IInv, Lifetime
<1>7. LiveKeysKnown'
  <2>1. \A f \in envelopes : now' < f.context.expires_at => now < f.context.expires_at
    BY <1>1, <1>3, <1>5
  <2> QED
    BY <1>1, <1>2, <2>1 DEF IInv, LiveKeysKnown
<1>8. OwnChallenge'
  BY <1>1 DEF OwnChallenge, NoOutcome
<1> QED
  BY <1>1, <1>2, <1>4, <1>6, <1>7, <1>8
     DEF IInv, Sealed, RingsLoaded, ActiveKnown, SettledSeals

-----------------------------------------------------------------------------
\* Every step keeps the invariant.
LEMMA InvStep == IInv /\ [Next]_vars => IInv'
<1> SUFFICES ASSUME IInv, [Next]_vars PROVE IInv'
  OBVIOUS
<1>1. CASE UNCHANGED vars
  <2>1. UNCHANGED <<now, config, ring, settled, envelopes, outcome>>
    BY <1>1 DEF vars
  <2>2. OwnChallenge'
    BY <2>1 DEF IInv, OwnChallenge
  <2>3. outcome' \in {NoOutcome} \union
          [kind: {"finished", "recovered"}, context: Context, challenge: Nat]
    BY <2>1 DEF IInv, TypeOK
  <2> QED
    BY <2>1, <2>2, <2>3, AnswerInv
<1> QED
  BY <1>1, StartInv, FinishInv, IntroduceInv, RetireInv, PutBackInv, DeployInv, TickInv
     DEF Next

\* Every behaviour of the adapter satisfies the inductive invariant.
LEMMA Invariance == Spec => []IInv
<1> QED
  BY InitInv, InvStep, PTL DEF Spec

\* The state has its types, and a replica that serves can seal.
THEOREM TypeCorrect == Spec => []TypeOK
<1>1. IInv => TypeOK
  BY DEF IInv
<1> QED
  BY <1>1, Invariance, PTL

\* A live ceremony can be opened on every replica that serves, in every phase of
\* every rotation that the operators' procedure allows.
THEOREM RotationKeepsCeremonies == Spec => []CeremoniesSurviveRotation
<1>1. IInv => CeremoniesSurviveRotation
  BY DEF IInv, CeremoniesSurviveRotation, Opens, Sealed, LiveKeysKnown
<1> QED
  BY <1>1, Invariance, PTL

\* finish_* and recover_client_options use a challenge made for that ceremony.
THEOREM FinishedWithOwnChallenge == Spec => []OwnChallenge
<1>1. IInv => OwnChallenge
  BY DEF IInv
<1> QED
  BY <1>1, Invariance, PTL
=============================================================================
