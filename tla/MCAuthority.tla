---------------------------- MODULE MCAuthority ----------------------------
EXTENDS Authority, TLC
CONSTANTS p1, p2
=============================================================================
