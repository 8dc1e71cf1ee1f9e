-------------------------- MODULE MCExecutorPort --------------------------
EXTENDS ExecutorPort

\* No result at all, and a verdict that only the timer gives.
ArbitraryResults == {NoResult, [status |-> "time_limit_exceeded", elapsed |-> 0]}
=============================================================================
