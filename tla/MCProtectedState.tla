-------------------------- MODULE MCProtectedState --------------------------
EXTENDS ProtectedState, TLC

Symmetric == Permutations(Replicas) \union Permutations(Bindings)
=============================================================================
