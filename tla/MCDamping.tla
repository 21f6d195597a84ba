------------------------------ MODULE MCDamping -----------------------------
EXTENDS DampingProof
=============================================================================
