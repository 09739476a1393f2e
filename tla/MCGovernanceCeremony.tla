----------------------- MODULE MCGovernanceCeremony -----------------------
EXTENDS GovernanceCeremony, TLC

CONSTANT cer

Approve(payload, aal) ==
  [op |-> "begin", ceremony |-> cer, tenant |-> "acme", participant |-> "ada",
   payload |-> payload, credential_generation |-> 1, activation_credential |-> "new",
   session |-> [user |-> "ada", orgs |-> {"acme"}, aal |-> aal]]

\* The participant's request, and one whose session lacks the second factor.
MCBegins == {Approve("p1", "aal2"), Approve("p1", "aal1")}

OneBegin == {Approve("p1", "aal2")}

Claim(participant, id, token) ==
  [op |-> "claim", ceremony |-> cer, tenant |-> "acme", participant |-> participant,
   claim_id |-> id, fencing_token |-> token]

\* Two verifiers, one of them taking over; a token used twice; no token.
MCClaims ==
  {Claim("ada", "v1", 1), Claim("ada", "v2", 1), Claim("ada", "v2", 2),
   Claim("ada", "v1", 0)}

Complete(id, token, credential, receipt, verified) ==
  [op |-> "complete", ceremony |-> cer, tenant |-> "acme", participant |-> "ada",
   claim_id |-> id, fencing_token |-> token, credential_generation |-> 1,
   credential_id |-> credential, receipt |-> receipt, user_verified |-> verified]

MCCompletes ==
  {Complete("v1", 1, "key", "a", TRUE), Complete("v2", 2, "key", "b", TRUE),
   Complete("v1", 1, "key", "a", FALSE)}

Symmetric == Permutations(Tasks)
===========================================================================
