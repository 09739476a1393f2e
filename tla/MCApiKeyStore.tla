---------------------------- MODULE MCApiKeyStore ----------------------------
EXTENDS ApiKeyStore, TLC

CONSTANTS ada, bob, acme, beta   \* two users, two organizations

MCUserOrgs == [a \in Actors |-> IF a = ada THEN {acme} ELSE {beta}]

Create(id, name) ==
  [op |-> "create", actor |-> ada, org |-> acme, id |-> id, name |-> name, env |-> "live"]

Key1 == KeyId(Create("i1", "n1"), acme)

Key2 == KeyId(Create("i2", "n1"), acme)

Rotate(actor, org, id) ==
  [op |-> "rotate", actor |-> actor, org |-> org, id |-> id, key |-> Key1]

Revoke(actor, org) == [op |-> "revoke", actor |-> actor, org |-> org, key |-> Key1]

Introspect(secret) ==
  [op |-> "introspect", key |-> Key1, env |-> "live", secret |-> secret]

\* Keys that can come into being: one per create identity.
MCKeys == {DeriveIdempotency("create-key-id", <<ada, org, id>>) :
            org \in Orgs, id \in {"i1", "i2"}}

\* One key through its life, another organization trying to rotate and revoke it.
LifecycleRequests ==
  {Create("i1", "n1"), Rotate(ada, None, "a"), Rotate(ada, acme, "b"),
   Rotate(bob, beta, "b"), Revoke(ada, acme), Revoke(bob, acme),
   Introspect(CreateSecret(Create("i1", "n1"), acme)),
   Introspect(RotationSecret(Rotate(ada, acme, "a"), acme))}

\* Creates that race for the index, one identity used for two payloads.
IndexRequests ==
  {Create("i1", "n1"), Create("i1", "n2"), Create("i2", "n1"),
   [op |-> "list", actor |-> ada, org |-> None],
   Introspect(CreateSecret(Create("i1", "n1"), acme))}

MCRequests(w) == IF w = "index" THEN IndexRequests ELSE LifecycleRequests

Symmetric == Permutations(Tasks)
=============================================================================
