--------------------------- MODULE MCJudgeRuntime ---------------------------
EXTENDS JudgeRuntime
=============================================================================
