------------------------------- MODULE MCJudge ------------------------------
EXTENDS Judge
=============================================================================
