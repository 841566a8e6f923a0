------------------------------ MODULE JobLock ------------------------------
(***************************************************************************)
(* What the machine-wide job lock promises, whatever implements it: jobs   *)
(* take numbered tickets, one ticket at a time owns the machine, a ticket  *)
(* that waits may be given up, and when the owner is done the lowest       *)
(* ticket that still waits becomes the owner in the same step.             *)
(* BenchdLock implements it (ImplementsJobLock).                           *)
(***************************************************************************)
EXTENDS Integers

CONSTANT MaxArrivals  \* bound: tickets taken

VARIABLES
  arrived,  \* tickets taken so far
  owner,    \* the ticket that owns the machine, or 0
  waiting   \* the tickets that wait

vars == <<arrived, owner, waiting>>

TypeOK ==
  /\ arrived \in Nat
  /\ owner \in Nat
  /\ waiting \subseteq Nat

Init == arrived = 0 /\ owner = 0 /\ waiting = {}

Arrive ==
  /\ arrived < MaxArrivals
  /\ arrived' = arrived + 1
  /\ \/ owner = 0 /\ owner' = arrived' /\ UNCHANGED waiting
     \/ owner # 0 /\ waiting' = waiting \cup {arrived'} /\ UNCHANGED owner

GiveUp == \E gone \in SUBSET waiting :
  /\ waiting' = waiting \ gone
  /\ UNCHANGED <<arrived, owner>>

Finish ==
  /\ owner # 0
  /\ \/ waiting = {} /\ owner' = 0 /\ UNCHANGED waiting
     \/ \E t \in waiting :
          /\ \A u \in waiting : t <= u
          /\ owner' = t
          /\ waiting' = waiting \ {t}
  /\ UNCHANGED arrived

Next == Arrive \/ GiveUp \/ Finish

Spec == Init /\ [][Next]_vars

FairSpec == Spec /\ WF_vars(Finish)
=============================================================================
