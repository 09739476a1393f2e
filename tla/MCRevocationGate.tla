------------------------- MODULE MCRevocationGate -------------------------
EXTENDS RevocationGate, TLC

CONSTANTS k1, k2, tok1, sub

\* Two tokens of one subject; the second is only ever revoked with the subject.
MCTokenTarget == [k \in Keys |-> IF k = k1 THEN tok1 ELSE sub]

MCSubjectTarget == [k \in Keys |-> sub]

Symmetric == Permutations(Tasks) \union Permutations(Locks)
===========================================================================
