------------------------ MODULE MCRevocationLedger ------------------------
EXTENDS RevocationLedger, TLC

Revoke(t, id, reason, iat, exp) ==
  [action |-> "revoke", target |-> t, id |-> id, reason |-> reason,
   issued_at |-> iat, expires_at |-> exp]

Lift(t, id) ==
  [action |-> "lift", target |-> t, id |-> id, reason |-> "appeal",
   issued_at |-> 0, expires_at |-> 0]

Symmetric == Permutations(Tasks)

\* Two revokes and a lift of one token, and a second use of k1 with another reason.
MCRequests ==
  { Revoke(TokenTarget, "k1", "leak", 0, 1),
    Revoke(TokenTarget, "k1", "typo", 0, 2),
    Revoke(TokenTarget, "k2", "leak", 0, 2),
    Lift(TokenTarget, "k1") }

\* A token and its subject, each revoked and lifted; the token twice.
CheckRequests ==
  { Revoke(TokenTarget, "k1", "leak", 0, 2),
    Revoke(TokenTarget, "k2", "leak", 1, 2),
    Lift(TokenTarget, "k1"),
    Revoke(SubjectTarget, "k1", "fraud", 0, 2),
    Lift(SubjectTarget, "k1") }
===========================================================================
