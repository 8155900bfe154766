------------------------------ MODULE MCSr25519 ------------------------------
EXTENDS Sr25519

MCMessages == 0..1
=============================================================================
