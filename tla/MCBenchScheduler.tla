-------------------------- MODULE MCBenchScheduler --------------------------
EXTENDS BenchScheduler, TLC
=============================================================================
