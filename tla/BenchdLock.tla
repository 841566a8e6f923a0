----------------------------- MODULE BenchdLock -----------------------------
(***************************************************************************)
(* The machine-wide job lock of benchd: class LockManager of               *)
(* packages/benchd/src/lock.ts, driven by the connections server.ts hands  *)
(* it.  benchd is a single-threaded event loop and every method of         *)
(* LockManager is synchronous, so one event (a message, a 'close', a       *)
(* timer) is one step.  What interleaves is the order of the events.       *)
(*                                                                         *)
(* A connection may be lost at the peer's end before the daemon handles    *)
(* its 'close' event: it is then "gone", and whatever is sent to it is     *)
(* lost.  Job tokens are drawn by randomBytes(32): here the n-th grant     *)
(* draws the token n.                                                      *)
(***************************************************************************)
EXTENDS Integers, Sequences

CONSTANTS
  Clients,      \* slots for socket connections to the daemon
  Jobs,         \* job identities a lock request can carry (jobId, owner, runId)
  NoHolder,     \* LockManager.holder = null
  MaxAcquires,  \* bound: lock.acquire messages handled
  MaxRearms     \* bound: lock.setTimeout messages that re-arm the timer

ASSUME LockAssumption ==
  /\ MaxAcquires \in Nat
  /\ MaxRearms \in Nat

VARIABLES
  conn,        \* [Clients -> state of the slot's connection]
  holder,      \* the ActiveLock, or NoHolder
  queue,       \* the QueuedLocks, oldest first
  timers,      \* timeout timers armed in the event loop, by the number they were armed under
  arms,        \* number of timers armed so far
  acquires,    \* number of lock.acquire messages handled; the last one's rid
  grants,      \* rids granted so far; grants[t] is the request that got token t
  withdrawn,   \* rids removed from the queue because their client disconnected
  known,       \* tokens whose lock.acquired reached a live peer
  checkedIn,   \* tokens for which action.checkin was acknowledged
  released,    \* tokens for which lock.released was sent
  violations   \* violation events broadcast, in order

lockVars == <<holder, queue, timers, arms, acquires, grants, withdrawn,
              known, checkedIn, released, violations>>
vars == <<conn, lockVars>>

-----------------------------------------------------------------------------
(* Types.                                                                  *)

ConnState == {"closed", "open", "gone"}

\* A lock.acquire message: rid stands for its requestId, drawn in arrival order.
Request == [rid : Nat \ {0}, client : Clients, job : Jobs]

ActiveLock == [rid : Nat \ {0}, client : Clients, job : Jobs,
               token : Nat \ {0}, timer : Nat \ {0}, actionInvoked : BOOLEAN]

\* "No lock" is no lock.
ASSUME NoHolderAssumption == NoHolder \notin ActiveLock

Reason == {"action_not_used", "job_timeout"}

Violation == [token : Nat \ {0}, job : Jobs, reason : Reason]

\* The type invariant: LockManager's fields and the messages it has sent.
TypeOK ==
  /\ conn \in [Clients -> ConnState]
  /\ holder \in ActiveLock \cup {NoHolder}
  /\ queue \in Seq(Request)
  /\ timers \subseteq Nat \ {0}
  /\ arms \in Nat
  /\ acquires \in Nat
  /\ grants \in Seq(Nat \ {0})
  /\ withdrawn \subseteq Nat \ {0}
  /\ known \subseteq Nat \ {0}
  /\ checkedIn \subseteq Nat \ {0}
  /\ released \subseteq Nat \ {0}
  /\ violations \in Seq(Violation)

Init ==
  /\ conn = [c \in Clients |-> "closed"]
  /\ holder = NoHolder
  /\ queue = <<>>
  /\ timers = {}
  /\ arms = 0
  /\ acquires = 0
  /\ grants = <<>>
  /\ withdrawn = {}
  /\ known = {}
  /\ checkedIn = {}
  /\ released = {}
  /\ violations = <<>>

-----------------------------------------------------------------------------
(* The private methods: grantLock, clearTimeout and grantNext.             *)

Free == holder = NoHolder

\* Fault: any token passes while some job holds the lock.
AnyToken(t) == ~Free

\* A token is valid only while its grant holds the lock (validateToken).
ValidateToken(t) == ~Free /\ holder.token = t

\* Fault: a grant that ends leaves its timer armed.
LeaveTimeout == timers

\* clearTimeout: what is left of the armed timers once the holder's is cleared.
ClearTimeout == timers \ {holder.timer}

\* Fault: the token of the previous grant is used again.
ReuseToken == Len(grants)

\* randomBytes: a token no earlier grant has drawn.
DrawToken == Len(grants) + 1

\* Fault: a grant starts without its timeout.
NoTimer(armed) == armed

\* setTimeout: a timer of its own next to the ones armed.
ArmTimer(armed) == armed \cup {arms + 1}

\* grantLock: a fresh token, the check-in flag down, a fresh timer armed next
\* to `armed`, and lock.acquired sent, which reaches the peer if it is there.
GrantLock(req, armed) ==
  /\ holder' = [rid |-> req.rid, client |-> req.client, job |-> req.job,
                token |-> DrawToken, timer |-> arms + 1, actionInvoked |-> FALSE]
  /\ arms' = arms + 1
  /\ timers' = ArmTimer(armed)
  /\ grants' = Append(grants, req.rid)
  /\ known' = IF conn[req.client] = "open" THEN known \cup {DrawToken} ELSE known

\* Faults: the queue is forgotten; its newest entry is granted; the entry that
\* is granted stays in it.
GrantNone(armed) ==
  holder' = NoHolder /\ timers' = armed /\ UNCHANGED <<queue, arms, grants, known>>
GrantNewest(armed) ==
  \/ queue = <<>> /\ GrantNone(armed)
  \/ /\ queue # <<>>
     /\ queue' = SubSeq(queue, 1, Len(queue) - 1)
     /\ GrantLock(queue[Len(queue)], armed)
GrantAndKeep(armed) ==
  \/ queue = <<>> /\ GrantNone(armed)
  \/ queue # <<>> /\ GrantLock(Head(queue), armed) /\ UNCHANGED queue

\* grantNext, after the holder was set to null: the oldest entry of the queue
\* is granted, if there is one.
GrantNext(armed) ==
  \/ /\ queue = <<>>
     /\ holder' = NoHolder
     /\ timers' = armed
     /\ UNCHANGED <<queue, arms, grants, known>>
  \/ /\ queue # <<>>
     /\ queue' = Tail(queue)
     /\ GrantLock(Head(queue), armed)

-----------------------------------------------------------------------------
(* The events.                                                             *)

\* A runner, a hook or another client connects.
Connect(c) ==
  /\ conn[c] = "closed"
  /\ conn' = [conn EXCEPT ![c] = "open"]
  /\ UNCHANGED lockVars

\* The peer closes its end or dies; the daemon does not know yet.
PeerLeaves(c) ==
  /\ conn[c] = "open"
  /\ conn' = [conn EXCEPT ![c] = "gone"]
  /\ UNCHANGED lockVars

\* Fault: a disconnected client's entries stay in the queue.
DisconnectKeepsQueue(c) ==
  /\ conn[c] = "gone"
  /\ conn' = [conn EXCEPT ![c] = "closed"]
  /\ UNCHANGED lockVars

\* The 'close' event: handleDisconnect drops the client's queue entries and
\* keeps the order of the others; `keep` lists the positions that stay.  A
\* holder that disconnects keeps the lock.
HandleDisconnect(c) ==
  /\ conn[c] = "gone"
  /\ conn' = [conn EXCEPT ![c] = "closed"]
  /\ \E n \in 0..Len(queue) : \E keep \in [1..n -> 1..Len(queue)] :
       /\ \A i, j \in 1..n : i < j => keep[i] < keep[j]
       /\ \A k \in 1..Len(queue) :
            queue[k].client # c <=> \E i \in 1..n : keep[i] = k
       /\ queue' = [i \in 1..n |-> queue[keep[i]]]
  /\ withdrawn' = withdrawn \cup
       {queue[k].rid : k \in {k \in 1..Len(queue) : queue[k].client = c}}
  /\ UNCHANGED <<holder, timers, arms, acquires, grants, known, checkedIn,
                 released, violations>>

\* acquire: a free lock is granted at once, otherwise the request is queued.
\* The message may still be handled after its sender has gone.
Acquire(c, j) ==
  /\ conn[c] # "closed"
  /\ acquires < MaxAcquires
  /\ acquires' = acquires + 1
  /\ LET req == [rid |-> acquires + 1, client |-> c, job |-> j]
     IN \/ /\ Free
           /\ GrantLock(req, timers)
           /\ UNCHANGED queue
        \/ /\ ~Free
           /\ queue' = Append(queue, req)
           /\ UNCHANGED <<holder, timers, arms, grants, known>>
  /\ UNCHANGED <<conn, withdrawn, checkedIn, released, violations>>

\* release, when it is accepted: the job is the holder's and so is the token,
\* on whatever connection the message comes (the job-completed hook opens its
\* own).  A refused release answers an error and changes nothing.
Release(c, j, t) ==
  /\ conn[c] # "closed"
  /\ ~Free
  /\ holder.job = j
  /\ holder.token = t
  /\ released' = released \cup {t}
  /\ violations' = IF holder.actionInvoked
                   THEN violations
                   ELSE Append(violations, [token |-> holder.token, job |-> j,
                                            reason |-> "action_not_used"])
  /\ GrantNext(ClearTimeout)
  /\ UNCHANGED <<conn, acquires, withdrawn, checkedIn>>

\* A timer that is armed fires and calls forceRelease, which acts on whoever
\* holds the lock at that moment.
TimerFires(k) ==
  /\ k \in timers
  /\ IF Free
     THEN /\ timers' = timers \ {k}
          /\ UNCHANGED <<holder, queue, arms, grants, known, violations>>
     ELSE /\ violations' = Append(violations,
                             [token |-> holder.token, job |-> holder.job,
                              reason |-> "job_timeout"])
          /\ GrantNext(ClearTimeout \ {k})
  /\ UNCHANGED <<conn, acquires, withdrawn, checkedIn, released>>

\* markActionInvoked: action.checkin with the holder's token.
MarkActionInvoked(c, t) ==
  /\ conn[c] # "closed"
  /\ ValidateToken(t)
  /\ holder' = [holder EXCEPT !.actionInvoked = TRUE]
  /\ checkedIn' = checkedIn \cup {t}
  /\ UNCHANGED <<conn, queue, timers, arms, acquires, grants, withdrawn, known,
                 released, violations>>

\* setCurrentTimeout: lock.setTimeout names neither a job nor a token; it
\* re-arms the timer of whoever holds the lock.
SetCurrentTimeout(c) ==
  /\ conn[c] # "closed"
  /\ ~Free
  /\ arms - Len(grants) < MaxRearms
  /\ arms' = arms + 1
  /\ timers' = ArmTimer(ClearTimeout)
  /\ holder' = [holder EXCEPT !.timer = arms + 1]
  /\ UNCHANGED <<conn, queue, acquires, grants, withdrawn, known, checkedIn,
                 released, violations>>

-----------------------------------------------------------------------------
(* The specification.  A token is used only by those who were sent it.     *)

Next ==
  \/ \E c \in Clients : Connect(c) \/ PeerLeaves(c) \/ HandleDisconnect(c)
  \/ \E c \in Clients, j \in Jobs : Acquire(c, j)
  \/ \E c \in Clients, j \in Jobs, t \in known : Release(c, j, t)
  \/ \E c \in Clients, t \in known : MarkActionInvoked(c, t)
  \/ \E c \in Clients : SetCurrentTimeout(c)
  \/ \E k \in timers : TimerFires(k)

Spec == Init /\ [][Next]_vars

\* The event loop fires an armed timer that nothing clears.  Nothing else is
\* fair: a job may never release and a peer may never close.
Timers == 1..(MaxAcquires + MaxRearms)

FairSpec == Spec /\ \A k \in Timers : WF_vars(TimerFires(k))

-----------------------------------------------------------------------------
(* Safety.                                                                 *)

Rids(s) == {s[i].rid : i \in 1..Len(s)}
Granted == {grants[t] : t \in 1..Len(grants)}

\* The tokens whose grant is over.
Ended == (1..Len(grants)) \ (IF Free THEN {} ELSE {holder.token})

\* The only timer left armed is the current holder's, none when the lock is
\* free: no timer of an earlier grant can force-release a later job
\* (clearTimeout in release, forceRelease and setCurrentTimeout).
TimerIsHolders == timers = IF Free THEN {} ELSE {holder.timer}

\* A request never waits for a free lock: whatever ended the last grant has
\* granted the next request of the queue (grantNext).
NoIdleLock == Free => queue = <<>>

\* Only connections the daemon still knows are in the queue, so a request
\* whose disconnection was handled is never granted (handleDisconnect).
QueueConnected == \A i \in 1..Len(queue) : conn[queue[i].client] # "closed"

\* Grants are made in the order the requests arrived, and all that wait
\* arrived after all that were granted (the FIFO queue of LockManager).
FifoOrder ==
  /\ \A t, u \in 1..Len(grants) : t < u => grants[t] < grants[u]
  /\ \A i, k \in 1..Len(queue) : i < k => queue[i].rid < queue[k].rid
  /\ \A t \in 1..Len(grants), i \in 1..Len(queue) : grants[t] < queue[i].rid

\* No request is lost or answered twice: each one handled was granted, was
\* withdrawn with its connection, or waits, and never two of these.
EveryRequestOnce ==
  /\ Granted \cup withdrawn \cup Rids(queue) = 1..acquires
  /\ Granted \cap withdrawn = {}
  /\ (Granted \cup withdrawn) \cap Rids(queue) = {}

\* The queue is sound: nobody waits for nothing, for the dead, out of turn or
\* twice.
QueueIsSound == TypeOK /\ NoIdleLock /\ QueueConnected /\ FifoOrder /\ EveryRequestOnce

\* The current holder's token is the latest one drawn and belongs to the
\* latest request granted; older tokens validate nothing (validateToken).
HolderIsLatestGrant ==
  ~Free => /\ holder.token = Len(grants)
           /\ holder.rid = grants[Len(grants)]

\* The violations broadcast are exactly the ones earned: one for each ended
\* grant that timed out, one for each released without a check-in, and none
\* for a grant that is running or that checked in and released.
ViolationsAreEarned ==
  /\ \A i, k \in 1..Len(violations) :
       i < k => violations[i].token < violations[k].token
  /\ {<<violations[i].token, violations[i].reason>> : i \in 1..Len(violations)}
       = {<<t, "job_timeout">> : t \in Ended \ released}
         \cup {<<t, "action_not_used">> : t \in released \ checkedIn}

-----------------------------------------------------------------------------
(* Liveness, under FairSpec.                                               *)

\* Every queued request is granted or leaves with its connection: the timeout
\* of the jobs before it bounds the wait.
QueuedIsServed ==
  \A r \in 1..MaxAcquires :
    r \in Rids(queue) ~> r \in Granted \cup withdrawn

\* No grant lasts forever, even when its token was lost with the connection
\* and no job-completed hook will ever release it.
GrantEnds == \A t \in 1..MaxAcquires : (t = Len(grants)) ~> (t \in Ended)

\* The lock goes round: grants end and the queue moves up.
LockGoesRound == GrantEnds /\ QueuedIsServed

-----------------------------------------------------------------------------
(* The abstract lock.                                                      *)

\* The lock implements JobLock: tickets are rids, the array is the set of the
\* tickets in it.
Abstract == INSTANCE JobLock WITH
              MaxArrivals <- MaxAcquires,
              arrived <- acquires,
              owner <- IF Free THEN 0 ELSE holder.rid,
              waiting <- Rids(queue)

\* Every behaviour of the LockManager is one of JobLock, and the event loop's
\* timers give JobLock its fairness.
ImplementsJobLock == Abstract!FairSpec
=============================================================================
