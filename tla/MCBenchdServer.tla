-------------------------- MODULE MCBenchdServer --------------------------
(* Small instances of BenchdLock and BenchdServer for TLC: a behaviour     *)
(* takes the steps of the lock alone, with its timers fair, or those of    *)
(* the server with its throttle snapshots.                                 *)
EXTENDS BenchdServer

VARIABLE part

CONSTANTS
  Peer,            \* bound: the one connection of the behaviours with snapshots
  ServerAcquires,  \* bound: lock.acquire messages in them
  Hot              \* the cores that were throttled before the daemon's start

lockAndServerVars == <<part, serverVars>>

LockAndServerInit ==
  /\ part \in {"lock", "server"}
  /\ ServerInit
  /\ throttleCount = [k \in Cores |-> IF k \in Hot THEN 1 ELSE 0]

OfLock(A) == part = "lock" /\ A /\ UNCHANGED <<part, throttleVars>>
OfServer(A) ==
  /\ part = "server" /\ A /\ UNCHANGED part
  /\ acquires' <= ServerAcquires
  /\ \A c \in Clients \ {Peer} : conn'[c] = "closed"

LockAndServerNext == OfLock(Next) \/ OfServer(ServerNext)

\* The fairness of FairSpec, in either part.
LockAndServerSpec ==
  /\ LockAndServerInit /\ [][LockAndServerNext]_lockAndServerVars
  /\ \A k \in Timers : /\ WF_lockAndServerVars(OfLock(TimerFires(k)))
                       /\ WF_lockAndServerVars(OfServer(TimeoutEvent(k)))
=============================================================================
