--------------------------- MODULE BenchdSessions ---------------------------
(***************************************************************************)
(* The benchmark sessions of the lock's jobs: CgroupManager of             *)
(* packages/benchd/src/cgroup.ts and its use in server.ts (exec.prepare,   *)
(* exec.validate, the job timeout, the tmpfs), together with the process   *)
(* that bench-exec becomes once its session is validated.                  *)
(*                                                                         *)
(* prepare, validate and killAll are async: they await file writes, and    *)
(* the lock can change hands at each await.  The n-th session has the id   *)
(* n; entries of the sessions Map are visited in insertion order, entries  *)
(* added while a loop runs included.                                       *)
(*                                                                         *)
(* bench-exec sends the pid it knows itself by.  runner-ctl starts the     *)
(* runners' containers without --pid=host, so to the daemon that pid is    *)
(* nobody's, or another process's, bench-execs of other sessions among     *)
(* them; it is its own where the pid namespace is shared.                  *)
(***************************************************************************)
EXTENDS BenchdLock

CONSTANT MaxSessions   \* bound: exec.prepare messages handled

ASSUME SessionsAssumption == MaxSessions \in Nat

VARIABLES
  opened,     \* opened[s] is the token that exec.prepare s came with
  sessions,   \* the sessions Map: ids in insertion order
  preparing,  \* ids whose prepare awaits its writes
  proc,       \* [1..MaxSessions -> state of the session's bench-exec]
  cgroup,     \* [1..MaxSessions -> id of the session in whose cgroup the
              \* bench-exec is, or 0]
  killers,    \* the killAll loops under way: [token, position in sessions whose
              \* cgroup.kill is being written, and, as history, the ids whose
              \* bench-exec was in some cgroup when the loop began]
  spared,     \* history: ids a cgroup.kill was to end that failed, or that were
              \* moved while a loop ran
  tmpfs       \* ids with files under the benchmark tmpfs

cgroupVars == <<opened, sessions, preparing, proc, cgroup, killers, spared, tmpfs>>
allVars == <<vars, cgroupVars>>

Ids == 1..MaxSessions

\* A bench-exec that awaits exec.validated is "asking"; then it runs the command.
ProcState == {"none", "asking", "running", "dead"}

SessionsTypeOK ==
  /\ TypeOK
  /\ opened \in Seq(Nat) /\ Len(opened) <= MaxSessions
  /\ sessions \in Seq(Ids) /\ Len(sessions) <= Len(opened)
  /\ preparing \subseteq Ids
  /\ proc \in [Ids -> ProcState]
  /\ cgroup \in [Ids -> Ids \cup {0}]
  /\ killers \subseteq [token : Nat, at : Ids, captured : SUBSET Ids]
  /\ spared \subseteq Ids
  /\ tmpfs \subseteq Ids

SessionsInit ==
  /\ Init
  /\ opened = <<>>
  /\ sessions = <<>>
  /\ preparing = {}
  /\ proc = [s \in Ids |-> "none"]
  /\ cgroup = [s \in Ids |-> 0]
  /\ killers = {}
  /\ spared = {}
  /\ tmpfs = {}

Opened == 1..Len(opened)
Active(s) == proc[s] \in {"asking", "running"}

-----------------------------------------------------------------------------
(* exec.prepare and exec.validate.                                         *)

\* prepare up to its first await, behind the token gate.
Prepare(t) ==
  /\ ValidateToken(t)
  /\ Len(opened) < MaxSessions
  /\ opened' = Append(opened, t)
  /\ preparing' = preparing \cup {Len(opened) + 1}
  /\ UNCHANGED <<vars, sessions, proc, cgroup, killers, spared, tmpfs>>

\* Fault: the session is registered while its writes go on.
PrepareEarly(s) ==
  /\ s \in preparing
  /\ sessions' = Append(sessions, s)
  /\ UNCHANGED <<vars, opened, preparing, proc, cgroup, killers, spared, tmpfs>>

\* The writes succeed: the session is registered and the job learns its id,
\* whether or not the job still holds the lock.
PrepareDone(s) ==
  /\ s \in preparing
  /\ preparing' = preparing \ {s}
  /\ sessions' = Append(sessions, s)
  /\ UNCHANGED <<vars, opened, proc, cgroup, killers, spared, tmpfs>>

\* A write fails: cgroup.setup_failed, and nothing is registered.
PrepareFails(s) ==
  /\ s \in preparing
  /\ preparing' = preparing \ {s}
  /\ UNCHANGED <<vars, opened, sessions, proc, cgroup, killers, spared, tmpfs>>

\* Fault: the token of another job passes the gate.
ValidateAny(s) ==
  /\ s \in {sessions[i] : i \in 1..Len(sessions)}
  /\ proc[s] = "none"
  /\ proc' = [proc EXCEPT ![s] = "asking"]
  /\ UNCHANGED <<vars, opened, sessions, preparing, cgroup, killers, spared, tmpfs>>

\* validate up to its await: bench-exec presents its job's token, which the
\* gate checks now and never again, and its session is found.
Validate(s) ==
  /\ s \in {sessions[i] : i \in 1..Len(sessions)}
  /\ proc[s] = "none"
  /\ ValidateToken(opened[s])
  /\ proc' = [proc EXCEPT ![s] = "asking"]
  /\ UNCHANGED <<vars, opened, sessions, preparing, cgroup, killers, spared, tmpfs>>

\* The write to cgroup.procs is over and exec.validated sent.  The write moves
\* the process that the daemon knows by the pid, this bench-exec or another's,
\* or one that is none of these; if it fails, that is logged, no more.
ValidateDone(s) ==
  /\ proc[s] = "asking"
  /\ proc' = [proc EXCEPT ![s] = "running"]
  /\ \/ \E u \in Opened :
          /\ Active(u)
          /\ cgroup' = [cgroup EXCEPT ![u] = s]
          /\ spared' = IF cgroup[u] # 0 THEN spared \cup {u} ELSE spared
     \/ UNCHANGED <<cgroup, spared>>
  /\ UNCHANGED <<vars, opened, sessions, preparing, killers, tmpfs>>

-----------------------------------------------------------------------------
(* The benchmark process.                                                  *)

\* The command writes temporary files under TMPDIR.
WriteTmpfs(s) ==
  /\ proc[s] = "running"
  /\ tmpfs' = tmpfs \cup {s}
  /\ UNCHANGED <<vars, opened, sessions, preparing, proc, cgroup, killers, spared>>

\* The command ends, or the runner cancels the step.
ProcessEnds(s) ==
  /\ Active(s)
  /\ proc' = [proc EXCEPT ![s] = "dead"]
  /\ cgroup' = [cgroup EXCEPT ![s] = 0]
  /\ UNCHANGED <<vars, opened, sessions, preparing, killers, spared, tmpfs>>

-----------------------------------------------------------------------------
(* The end of a job.                                                       *)

\* The job-completed hook runs after the job's steps: its processes are gone.
\* server.ts cleans the tmpfs once release has returned, also when release
\* refused the name of another job.
ReleaseJob(c, j, t) ==
  /\ ValidateToken(t)
  /\ \A s \in Opened : opened[s] = t => ~Active(s)
  /\ \/ Release(c, j, t)
     \/ conn[c] # "closed" /\ holder.job # j /\ UNCHANGED vars
  /\ tmpfs' = {}
  /\ UNCHANGED <<opened, sessions, preparing, proc, cgroup, killers, spared>>

\* The timer fires: handleJobTimeout starts killAll, which is not awaited, and
\* cleans the tmpfs; then the lock passes on.  The loop over the Map runs up to
\* its first write, or to its end if there is no session.
JobTimeout(k) ==
  /\ TimerFires(k)
  /\ killers' = IF sessions = <<>> THEN killers
                ELSE killers \cup {[token |-> holder.token, at |-> 1,
                                    captured |-> {s \in Ids : cgroup[s] # 0}]}
  /\ tmpfs' = {}
  /\ UNCHANGED <<opened, sessions, preparing, proc, cgroup, spared>>

\* A write to cgroup.kill ends whatever is in session s's cgroup, or it fails
\* and leaves it alive.
Members(s) == {u \in Ids : cgroup[u] = s}
KillWorks(s) ==
  /\ proc' = [u \in Ids |-> IF u \in Members(s) THEN "dead" ELSE proc[u]]
  /\ cgroup' = [u \in Ids |-> IF u \in Members(s) THEN 0 ELSE cgroup[u]]
  /\ UNCHANGED spared
KillFails(s) == spared' = spared \cup Members(s) /\ UNCHANGED <<proc, cgroup>>

\* The loop goes on to the next entry of the Map as it is by now, or ends.
GoOn(k) ==
  killers' = (killers \ {k}) \cup
               (IF k.at < Len(sessions) THEN {[k EXCEPT !.at = @ + 1]} ELSE {})

\* Faults: the loop ends with its first write, or with one that fails.
KillFirst(k) ==
  /\ k \in killers
  /\ KillWorks(sessions[k.at]) \/ KillFails(sessions[k.at])
  /\ killers' = killers \ {k}
  /\ UNCHANGED <<vars, opened, sessions, preparing, tmpfs>>
KillUncaught(k) ==
  /\ k \in killers
  /\ \/ KillWorks(sessions[k.at]) /\ GoOn(k)
     \/ KillFails(sessions[k.at]) /\ killers' = killers \ {k}
  /\ UNCHANGED <<vars, opened, sessions, preparing, tmpfs>>

\* One turn of killAll's loop: a failing write is caught and logged.
KillNext(k) ==
  /\ k \in killers
  /\ KillWorks(sessions[k.at]) \/ KillFails(sessions[k.at])
  /\ GoOn(k)
  /\ UNCHANGED <<vars, opened, sessions, preparing, tmpfs>>

\* The messages and events that concern the lock alone.
LockEvent ==
  /\ \/ \E c \in Clients : Connect(c) \/ PeerLeaves(c) \/ HandleDisconnect(c)
     \/ \E c \in Clients, j \in Jobs : Acquire(c, j)
     \/ \E c \in Clients, t \in known : MarkActionInvoked(c, t)
  /\ UNCHANGED cgroupVars

SessionsNext ==
  \/ LockEvent
  \/ \E t \in known : Prepare(t)
  \/ \E s \in preparing : PrepareDone(s) \/ PrepareFails(s)
  \/ \E s \in Opened : Validate(s) \/ ValidateDone(s) \/ WriteTmpfs(s) \/ ProcessEnds(s)
  \/ \E c \in Clients, j \in Jobs, t \in known : ReleaseJob(c, j, t)
  \/ \E k \in timers : JobTimeout(k)
  \/ \E k \in killers : KillNext(k)

SessionsSpec == SessionsInit /\ [][SessionsNext]_allVars

\* File writes complete and timers fire; a job may run forever.
SessionsFairSpec ==
  /\ SessionsSpec
  /\ WF_allVars(\E k \in killers : KillNext(k))
  /\ \A s \in Ids : WF_allVars(ValidateDone(s))
  /\ \A k \in Timers : WF_allVars(JobTimeout(k))

-----------------------------------------------------------------------------
(* Safety and liveness.                                                    *)

Running(s) == proc[s] = "running"

TimedOut == {violations[i].token : i \in {i \in 1..Len(violations) :
                                            violations[i].reason = "job_timeout"}}

\* Two benchmarks never run at once, and the tmpfs holds the files of the
\* current job only, as long as every grant before this one was released.
ReleasedJobsAreExclusive ==
  TimedOut = {} =>
    /\ \A s, u \in Opened : Running(s) /\ Running(u) => opened[s] = opened[u]
    /\ \A s \in tmpfs : ValidateToken(opened[s])

\* The sessions, the cgroups and the tmpfs have their types and belong to one
\* job at a time, as long as every job gave its lock back.
SessionsAreSound == SessionsTypeOK /\ ReleasedJobsAreExclusive

\* What was in a cgroup when a job timed out dies, unless the write to the kill
\* file of its own cgroup failed or it was moved to another one: however many
\* sessions killAll visits before, whatever fails there or is added meanwhile.
CapturedIsKilled ==
  \A s \in Ids : (\E k \in killers : s \in k.captured) ~> proc[s] = "dead" \/ s \in spared

-----------------------------------------------------------------------------
(* Promised by the documentation, and not what the code does.              *)

\* "One job at a time" across the whole machine: two jobs' benchmarks never run
\* at the same time.
OneJobRuns == \A s, u \in Opened : Running(s) /\ Running(u) => opened[s] = opened[u]
=============================================================================
