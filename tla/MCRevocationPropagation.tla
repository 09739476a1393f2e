---------------------- MODULE MCRevocationPropagation ----------------------
EXTENDS RevocationPropagation, TLC
============================================================================
