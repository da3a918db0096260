------------------------- MODULE MCRunRecovery -------------------------
EXTENDS RunRecovery
=============================================================================
