------------------------------ MODULE MCSession -----------------------------
EXTENDS Session
=============================================================================
