---------------------------- MODULE Registration ----------------------------
(***************************************************************************)
(* What bench-web promises about a runner that registers: it is up only    *)
(* after presenting the credential issued last, and no credential counts   *)
(* twice.  RunnerLifecycle implements this with its callback tokens.       *)
(***************************************************************************)
EXTENDS Naturals

VARIABLES
  cred,     \* the credential that is expected, 0 for none
  issued,   \* the number of credentials issued; the last one has this number
  spent,    \* credentials that were accepted
  up        \* the runner counts as registered

vars == <<cred, issued, spent, up>>

Init == cred = 0 /\ issued = 0 /\ spent = {} /\ up = FALSE

Issue ==
  /\ issued' = issued + 1
  /\ cred' = issued + 1
  /\ UNCHANGED <<spent, up>>

\* An issued credential that nobody will ask for.
Waste ==
  /\ issued' = issued + 1
  /\ UNCHANGED <<cred, spent, up>>

Accept ==
  /\ cred # 0
  /\ cred \notin spent
  /\ spent' = spent \cup {cred}
  /\ cred' = 0
  /\ up' = TRUE
  /\ UNCHANGED issued

\* The runner is down, failed, disabled or removed.
Down ==
  /\ up' = FALSE
  /\ cred' \in {cred, 0}
  /\ UNCHANGED <<issued, spent>>

Next == Issue \/ Waste \/ Accept \/ Down

Spec == Init /\ [][Next]_vars
=============================================================================
