--------------------------- MODULE ProtectedState ---------------------------
(***************************************************************************)
(* The WebAuthn adapter of src/src/governance_ceremony/webauthn.rs and its *)
(* protected envelopes, on several replicas while the operators rotate the *)
(* key ring of config.inc.rs.  start_* makes a challenge and seals it with *)
(* the library's state under the active key of its replica; finish_* and   *)
(* recover_client_options open an envelope on any replica, with the        *)
(* context of the ceremony as the caller knows it.  Opening changes        *)
(* nothing: an envelope may be opened again and again.                     *)
(*                                                                         *)
(* The cipher is ideal: a ciphertext opens under the key and with the      *)
(* associated data it was made with, and not otherwise; a hash is its      *)
(* argument.  webauthn-rs accepts a credential that answers the challenge  *)
(* of the state it is given.  How the operators rotate is not in the code: *)
(* one change of the ring at a time, on all replicas before the next, and  *)
(* a key is retired when the ring has stood for the lifetime of a          *)
(* ceremony.  They may retire the wrong key.                               *)
(***************************************************************************)
EXTENDS Integers, FiniteSets

CONSTANTS
  Replicas,
  KeyIds,       \* protected-state keys; an identifier names one secret
  FirstKey,     \* the key of the first ring
  Bindings,     \* tenant, ceremony and binding hash of a ceremony
  TTL,          \* lifetime of a ceremony
  MaxTime,      \* bound: real time stops here
  MaxStarts,    \* bound: envelopes that are sealed
  MaxVersion,   \* bound: changes of the ring
  None          \* a replica that is not serving

\* A key ring: its keys, the one that seals, and the version of the configuration.
Ring == [keys: SUBSET KeyIds, active: KeyIds, version: Nat]

ASSUME ProtectedStateConstants ==
  /\ FirstKey \in KeyIds
  /\ Replicas # {} /\ None \notin Ring
  /\ TTL \in Nat \ {0}
  /\ {MaxTime, MaxStarts, MaxVersion} \subseteq Nat

Kinds == {"registration", "authentication"}

VARIABLES
  now,
  config,    \* the key ring the operators want
  ring,      \* ring[r]: the ring replica r has loaded, or None
  settled,   \* since when all replicas have run `config`
  envelopes, \* what start_* returned
  outcome    \* what the latest finish answered

vars == <<now, config, ring, settled, envelopes, outcome>>

NoOutcome == [kind |-> "none"]

Quiet == outcome' = NoOutcome

-----------------------------------------------------------------------------
(* The codec.                                                              *)

\* ProtectedStateCodec::new of a parsed configuration.
ValidRing(k) == k.version > 0 /\ k.active \in k.keys

\* Mutant of Load: the active key is not looked for.
LoadUnchecked(k) == k

\* GovernanceConfig::from_env and CeremonyAppState::from_env: a replica that
\* cannot build the codec does not start.
Load(k) == IF ValidRing(k) THEN k ELSE None

\* Mutant of AssociatedData: the expiry is left out.
AssociatedDataUndated(context, key_id, version) ==
  [key_id |-> key_id, version |-> version, binding |-> context.binding,
   kind |-> context.kind, expires_at |-> 0]

AssociatedData(context, key_id, version) ==
  [key_id |-> key_id, version |-> version, binding |-> context.binding,
   kind |-> context.kind, expires_at |-> context.expires_at]

\* seal, on a replica with ring k.
Seal(k, context, challenge) ==
  [key_id |-> k.active, version |-> k.version, kind |-> context.kind,
   sealed_with |-> AssociatedData(context, k.active, k.version),
   challenge |-> challenge]

\* Mutant of Opens: the associated data has the reader's own version.
OpensOwnVersion(k, context, e) ==
  /\ e.kind = context.kind /\ e.key_id \in k.keys
  /\ e.sealed_with = AssociatedData(context, e.key_id, k.version)

\* open: whether it returns the bundle, on a replica with ring k.
Opens(k, context, e) ==
  /\ e.version > 0 /\ e.kind = context.kind
  /\ e.key_id \in k.keys
  /\ e.sealed_with = AssociatedData(context, e.key_id, e.version)

-----------------------------------------------------------------------------
(* The adapter.                                                            *)

Serving == {r \in Replicas : ring[r] # None}

\* start_registration and start_authentication: a new challenge, sealed.
Start(r, binding, kind) ==
  /\ r \in Serving
  /\ Cardinality(envelopes) < MaxStarts
  /\ LET context == [binding |-> binding, kind |-> kind, expires_at |-> now + TTL]
         challenge == Cardinality(envelopes) + 1
     IN envelopes' = envelopes \union
          {[context |-> context, envelope |-> Seal(ring[r], context, challenge)]}
  /\ Quiet
  /\ UNCHANGED <<now, config, ring, settled>>

\* finish_registration and finish_authentication: in the ceremony `context`, with
\* an envelope of this or another ceremony and a credential for one of the
\* challenges.  The expiry is the ceremony store's business.
Finish(r, context, e, challenge) ==
  /\ r \in Serving
  /\ outcome' =
       IF Opens(ring[r], context, e) /\ challenge = e.challenge
         THEN [kind |-> "finished", context |-> context, challenge |-> challenge]
         ELSE NoOutcome
  /\ UNCHANGED <<now, config, ring, settled, envelopes>>

\* recover_client_options: the options of the stored challenge.
Recover(r, context, e) ==
  /\ r \in Serving
  /\ Opens(ring[r], context, e)
  /\ outcome' = [kind |-> "recovered", context |-> context, challenge |-> e.challenge]
  /\ UNCHANGED <<now, config, ring, settled, envelopes>>

-----------------------------------------------------------------------------
(* The operators.                                                          *)

Settled == \A r \in Replicas : ring[r] = config

Change(keys, active) ==
  /\ config.version < MaxVersion
  /\ config' = [keys |-> keys, active |-> active, version |-> config.version + 1]
  /\ Quiet
  /\ UNCHANGED <<now, ring, settled, envelopes>>

Introduce(k) == Settled /\ k \notin config.keys /\ Change(config.keys \union {k}, config.active)

Activate(k) == Settled /\ k \in config.keys /\ Change(config.keys, k)

Retire(k) ==
  /\ Settled /\ now >= settled + TTL
  /\ Change(config.keys \ {k}, config.active)

\* The active key was retired: it is put back.
PutBack == ~ ValidRing(config) /\ Change(config.keys \union {config.active}, config.active)

\* A replica restarts with the present configuration.
Deploy(r) ==
  /\ ring[r] # config
  /\ ring' = [ring EXCEPT ![r] = Load(config)]
  /\ settled' = IF \A s \in Replicas : ring'[s] = config THEN now ELSE settled
  /\ Quiet
  /\ UNCHANGED <<now, config, envelopes>>

Tick ==
  /\ now < MaxTime
  /\ now' = now + 1
  /\ Quiet
  /\ UNCHANGED <<config, ring, settled, envelopes>>

Init ==
  /\ now = 0 /\ settled = 0
  /\ config = [keys |-> {FirstKey}, active |-> FirstKey, version |-> 1]
  /\ ring = [r \in Replicas |-> Load(config)]
  /\ envelopes = {}
  /\ outcome = NoOutcome

Next ==
  \/ \E r \in Replicas, b \in Bindings, k \in Kinds : Start(r, b, k)
  \/ \E r \in Replicas, f, g, h \in envelopes :
       Finish(r, f.context, g.envelope, h.envelope.challenge)
  \/ \E r \in Replicas, f, g \in envelopes : Recover(r, f.context, g.envelope)
  \/ \E k \in KeyIds : Introduce(k) \/ Activate(k) \/ Retire(k)
  \/ PutBack
  \/ \E r \in Replicas : Deploy(r)
  \/ Tick

Spec == Init /\ [][Next]_vars

-----------------------------------------------------------------------------
Context == [binding: Bindings, kind: Kinds, expires_at: Nat]

Envelope ==
  [key_id: KeyIds, version: Nat, kind: Kinds, challenge: Nat,
   sealed_with: [key_id: KeyIds, version: Nat, binding: Bindings, kind: Kinds,
                 expires_at: Nat]]

\* Types of the state; a replica that serves has a ring it can seal with.
TypeOK ==
  /\ now \in Nat /\ settled \in Nat
  /\ config \in Ring
  /\ ring \in [Replicas -> Ring \union {None}]
  /\ \A r \in Serving : ring[r].active \in ring[r].keys
  /\ envelopes \subseteq [context: Context, envelope: Envelope]
  /\ outcome \in {NoOutcome} \union
       [kind: {"finished", "recovered"}, context: Context, challenge: Nat]

\* An envelope can be opened on every replica that serves, for as long as its
\* ceremony lives: whichever replica sealed it, under whichever ring, and however
\* far a rotation has got when it is finished or recovered.
CeremoniesSurviveRotation ==
  \A f \in envelopes, r \in Serving :
    now < f.context.expires_at => Opens(ring[r], f.context, f.envelope)

\* A ceremony is finished, and its options are recovered, with a challenge that
\* was made for it: not with that of another ceremony or kind, nor with that of a
\* start at another time under the same binding.
OwnChallenge ==
  outcome.kind \in {"finished", "recovered"} =>
    \E f \in envelopes : /\ f.context = outcome.context
                         /\ f.envelope.challenge = outcome.challenge
=============================================================================
