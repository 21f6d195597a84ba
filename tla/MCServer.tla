------------------------------ MODULE MCServer ------------------------------
EXTENDS ServerProof
=============================================================================
