------------------------- MODULE MCBenchdSessions -------------------------
(* Small instances of BenchdSessions for TLC.                              *)
EXTENDS BenchdSessions

\* Bound: the n-th lock.acquire is one of the n-th job of a fixed order.
JobOrder == CHOOSE f \in [1..MaxAcquires -> Jobs] :
              \A m, n \in 1..MaxAcquires : f[m] = f[n] => m = n

InOrder ==
  acquires' # acquires =>
    JobOrder[acquires'] = IF Free THEN holder'.job ELSE queue'[Len(queue')].job

\* SessionsFairSpec within the bound.
OrderedSpec ==
  /\ SessionsInit /\ [][SessionsNext /\ InOrder]_allVars
  /\ WF_allVars(\E k \in killers : KillNext(k))
  /\ \A s \in Ids : WF_allVars(ValidateDone(s))
  /\ \A k \in Timers : WF_allVars(JobTimeout(k))
=============================================================================
