---------------------------- MODULE BenchdServer ----------------------------
(***************************************************************************)
(* handleMessage of packages/benchd/src/server.ts around the lock: the     *)
(* token gate in front of the privileged messages, and the snapshots of    *)
(* the kernel's per-core thermal throttle counters that status.update      *)
(* reports from.  A counter is a file of its own: any of them may be       *)
(* unreadable at any reading.                                              *)
(***************************************************************************)
EXTENDS BenchdLock

CONSTANTS
  Cores,        \* the cores that have a thermal_throttle directory
  NoSnapshot,   \* throttleBaseline = null, lastThrottleResult = null
  MaxThrottle   \* bound: throttle events the kernel counts on a core

ASSUME ThrottleAssumption == MaxThrottle \in Nat

VARIABLES
  throttleCount,       \* [Cores -> core_throttle_count], from before the daemon's start on
  throttleBaseline,    \* the snapshot the next diff is taken from, by core
  lastThrottleResult,  \* the throttled cores and their events, or none
  reported,            \* history: the events in all the results so far, by core
  blind,               \* history: cores a diff counted from 0, as the snapshot lacked them
  snapGrant,           \* history: how many grants there were at the snapshot
  unread               \* history: tokens at whose release no core could be read

throttleVars == <<throttleCount, throttleBaseline, lastThrottleResult, reported, blind,
                  snapGrant, unread>>
serverVars == <<vars, throttleVars>>

\* A Map from some of the cores, never an empty one.
CoreMap(S) == UNION {[R -> S] : R \in (SUBSET Cores) \ {{}}}

ASSUME NoSnapshotAssumption == NoSnapshot \notin CoreMap(0..MaxThrottle)

ThrottleTypeOK ==
  /\ throttleCount \in [Cores -> 0..MaxThrottle]
  /\ throttleBaseline \in CoreMap(0..MaxThrottle) \cup {NoSnapshot}
  /\ lastThrottleResult \in CoreMap(1..MaxThrottle) \cup {NoSnapshot}
  /\ reported \in [Cores -> Nat]
  /\ blind \subseteq Cores
  /\ snapGrant \in 0..Len(grants)
  /\ unread \subseteq 1..Len(grants)

ServerTypeOK == TypeOK /\ ThrottleTypeOK

ServerInit ==
  /\ Init
  /\ throttleCount \in [Cores -> 0..MaxThrottle]
  /\ throttleBaseline = NoSnapshot
  /\ lastThrottleResult = NoSnapshot
  /\ reported = [k \in Cores |-> 0]
  /\ blind = {}
  /\ snapGrant = 0
  /\ unread = {}

\* readThrottleCounts, when the cores in R can be read: null without any.
ReadThrottleCounts(R) ==
  IF R = {} THEN NoSnapshot ELSE [k \in R |-> throttleCount[k]]

\* What the diff makes of core k: what it counted since the snapshot, or all it
\* ever counted if the snapshot lacks it.
Delta(k) ==
  throttleCount[k] - IF k \in DOMAIN throttleBaseline THEN throttleBaseline[k] ELSE 0

\* The result of a diff over the cores in R, if one of them was throttled.
Throttled(R) == {k \in R : Delta(k) > 0}
DiffResult(R) ==
  /\ lastThrottleResult' = IF Throttled(R) = {} THEN lastThrottleResult
                           ELSE [k \in Throttled(R) |-> Delta(k)]
  /\ reported' = [k \in Cores |-> reported[k] + IF k \in Throttled(R) THEN Delta(k) ELSE 0]
  /\ blind' = blind \cup (R \ DOMAIN throttleBaseline)

\* Faults: the snapshot stays after the diff, or after one that found nothing.
DiffKeepsBaseline(R) ==
  IF throttleBaseline = NoSnapshot \/ R = {}
  THEN UNCHANGED <<throttleBaseline, lastThrottleResult, reported, blind>>
  ELSE DiffResult(R) /\ UNCHANGED throttleBaseline
DiffKeepsQuiet(R) ==
  IF throttleBaseline = NoSnapshot \/ R = {}
  THEN UNCHANGED <<throttleBaseline, lastThrottleResult, reported, blind>>
  ELSE DiffResult(R) /\ throttleBaseline' = IF Throttled(R) = {} THEN throttleBaseline ELSE NoSnapshot

\* diffThrottleCounts: without a snapshot, or with no core readable now, it
\* returns, and what there is of a snapshot stays; else it reports, and drops
\* the snapshot.
DiffThrottleCounts(R) ==
  IF throttleBaseline = NoSnapshot \/ R = {}
  THEN UNCHANGED <<throttleBaseline, lastThrottleResult, reported, blind>>
  ELSE DiffResult(R) /\ throttleBaseline' = NoSnapshot

\* case "lock.acquire": whatever acquire did, granting or queueing, there is a
\* new snapshot, and the last result is dropped.
AcquireMsg(c, j, R) ==
  /\ Acquire(c, j)
  /\ throttleBaseline' = ReadThrottleCounts(R)
  /\ lastThrottleResult' = NoSnapshot
  /\ snapGrant' = Len(grants')
  /\ UNCHANGED <<throttleCount, reported, blind, unread>>

\* case "lock.release": the gate passes the holder's token only, the diff comes
\* first, then release itself accepts, or refuses another job's name.
ReleaseMsg(c, j, t, R) ==
  /\ ValidateToken(t)
  /\ DiffThrottleCounts(R)
  /\ \/ Release(c, j, t)
     \/ conn[c] # "closed" /\ holder.job # j /\ UNCHANGED vars
  /\ unread' = IF R = {} THEN unread \cup {t} ELSE unread
  /\ UNCHANGED <<throttleCount, snapGrant>>

\* case "action.checkin", behind the same gate.
CheckinMsg(c, t) ==
  /\ ValidateToken(t)
  /\ MarkActionInvoked(c, t)
  /\ UNCHANGED throttleVars

\* The timeout of a job takes no diff and leaves the snapshot as it is.
TimeoutEvent(k) ==
  /\ TimerFires(k)
  /\ UNCHANGED throttleVars

\* The kernel throttles a core.
CoreThrottles(k) ==
  /\ throttleCount[k] < MaxThrottle
  /\ throttleCount' = [throttleCount EXCEPT ![k] = @ + 1]
  /\ UNCHANGED <<vars, throttleBaseline, lastThrottleResult, reported, blind, snapGrant,
                 unread>>

\* Messages and events that do not touch the snapshots.
OtherEvent ==
  /\ \E c \in Clients : \/ Connect(c) \/ PeerLeaves(c) \/ HandleDisconnect(c)
                        \/ SetCurrentTimeout(c)
  /\ UNCHANGED throttleVars

ServerNext ==
  \/ \E c \in Clients, j \in Jobs, R \in SUBSET Cores : AcquireMsg(c, j, R)
  \/ \E c \in Clients, j \in Jobs, t \in known, R \in SUBSET Cores : ReleaseMsg(c, j, t, R)
  \/ \E c \in Clients, t \in known : CheckinMsg(c, t)
  \/ \E k \in timers : TimeoutEvent(k)
  \/ \E k \in Cores : CoreThrottles(k)
  \/ OtherEvent

ServerSpec == ServerInit /\ [][ServerNext]_serverVars

-----------------------------------------------------------------------------
(* Safety.                                                                 *)

\* No event of a core is reported in two results, whatever acquires, releases
\* and timeouts come in between: the spans that the diffs cover are disjoint.
\* It takes a core that was readable at the snapshot of each diff, as the diff
\* takes a core that the snapshot lacks from 0.
EventsReportedOnce ==
  \A k \in Cores \ blind : reported[k] <= throttleCount[k]

\* No job is told of another's throttling on a core that the snapshot holds,
\* unless that other was ended by its timeout or no core could be read at its
\* release: a snapshot from before the current grant has outlived no release
\* that was measured.
NoForeignEvents ==
  throttleBaseline # NoSnapshot =>
    \A t \in snapGrant..Len(grants) : t \in released => t \in unread

\* What the daemon tells of throttling, it tells once, and of the job that is
\* released.
ThrottleAccounted == ServerTypeOK /\ EventsReportedOnce /\ NoForeignEvents

-----------------------------------------------------------------------------
(* Promised by a comment, and not what the code does.                      *)

\* "Snapshot throttle counts when lock is granted": the snapshot there is while
\* a job holds the lock was not taken before its grant.
SnapshotIsGrants == ~Free /\ throttleBaseline # NoSnapshot => snapGrant = Len(grants)
=============================================================================
