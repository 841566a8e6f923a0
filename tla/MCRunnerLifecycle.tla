------------------------- MODULE MCRunnerLifecycle -------------------------
EXTENDS RunnerLifecycle
=============================================================================
