------------------------ MODULE MCSupabaseSessions ------------------------
EXTENDS SupabaseSessions, TLC

CONSTANTS cust, adm, k1, k2

MCSurfaces == [p \in Projects |-> IF p = adm THEN {"admin"} ELSE {"customer"}]

MCKeySet == {<<cust, k1>>, <<cust, k2>>, <<adm, k1>>}

MCInitialKeys == {<<cust, k1>>, <<adm, k1>>}

Token(iss, kid, signer, roles) ==
  [iss |-> iss, kid |-> kid, signer |-> signer, claims |-> TRUE, roles |-> roles]

\* A customer session under the project's second key that carries an operator's
\* role, an administrator's session, a token that names the other issuer, and one
\* without kid whose claims are refused.
MCTokens ==
  {Token(cust, k2, <<cust, k2>>, {"operator"}),
   Token(adm, k1, <<adm, k1>>, {"admin"}),
   Token(adm, k1, <<cust, k1>>, {"admin"}),
   [Token(cust, None, <<cust, k1>>, {}) EXCEPT !.claims = FALSE]}

Symmetric == Permutations(Tasks)
===========================================================================
