--------------------------- MODULE MCExactChecker ---------------------------
EXTENDS ExactChecker
=============================================================================
