---------------------------- MODULE JobLifecycle ----------------------------
(***************************************************************************)
(* A job from its first hook to its last, on every runner of the machine:  *)
(* the hooks job-started.ts and job-completed.ts, the action               *)
(* (packages/action/src/index.ts), bench-exec, and the weekly script       *)
(* bench-runner-update.sh that takes the same lock, against what           *)
(* server.ts and lock.ts answer them.  Each of their requests has a        *)
(* connection of its own and the daemon handles it in one step; between    *)
(* two requests the lock may be lost to the timeout or to a restart of     *)
(* the daemon.  BenchdLock has the details of the lock itself,             *)
(* BenchdSessions those of the cgroups.                                    *)
(***************************************************************************)
EXTENDS Naturals, Sequences

CONSTANTS
  Runners,      \* the runner containers
  Script,       \* bench-runner-update.sh
  NoHolder,     \* the lock is free
  MaxJobs,      \* bound: jobs that take the lock or ask for it, the script's included
  MaxCrashes,   \* bound: crashes of benchd
  MaxDeaths     \* bound: containers that die in the middle of a job

ASSUME JobsAssumption ==
  /\ Script \notin Runners
  /\ {MaxJobs, MaxCrashes, MaxDeaths} \subseteq Nat

VARIABLES
  up,         \* benchd listens
  holder,     \* the ActiveLock, or NoHolder
  queue,      \* the queued requests
  tokens,     \* job tokens drawn
  sessions,   \* session ids exec.prepare has registered; one per job token
  tmp,        \* the session directories on the tmpfs
  pc,         \* where each runner is in its job, and the script
  job,        \* the job each of them runs
  jobs,       \* jobs started
  mail,       \* the token of a lock.acquired that its hook has not read yet
  file,       \* each runner's JOB_TOKEN_PATH: a token, or 0 without one
  act,        \* the token the action has read
  scratch,    \* the action was told of the tmpfs
  checkedIn,  \* jobs whose action.checkin was acknowledged
  released,   \* jobs whose lock.release was accepted
  struck,     \* jobs with the violation action_not_used
  lost,       \* jobs that lost the lock to the timeout or a restart after bench-exec's token check
  crashes, deaths

daemon == <<up, holder, queue, tokens, sessions>>
told == <<checkedIn, released, struck, lost>>
bounds == <<crashes, deaths>>
vars == <<daemon, tmp, pc, job, jobs, mail, file, act, scratch, told, bounds>>

Actors == Runners \cup {Script}
Jobs == 1..MaxJobs
Grants == [by : Actors, job : Jobs, token : 1..MaxJobs, invoked : BOOLEAN]
Free == holder = NoHolder

ASSUME NoHolderAssumption == NoHolder \notin Grants

\* bench-exec from the check of its token to the end of the command.
InExec == {"joining", "validated", "running"}
InAction == {"read", "checked", "configured", "cooled", "ready", "spawned"} \cup InExec

\* The type invariant: what the daemon, the runners and the files hold.
JobsTypeOK ==
  /\ up \in BOOLEAN
  /\ holder \in Grants \cup {NoHolder}
  /\ queue \in Seq([by : Actors, job : Jobs])
  /\ tokens \in 0..MaxJobs
  /\ sessions \subseteq 1..tokens
  /\ tmp \subseteq 1..tokens
  /\ pc \in [Actors -> {"idle", "asking", "steps", "after", "building", "gone"} \cup InAction]
  /\ job \in [Actors -> 0..jobs]
  /\ jobs \in 0..MaxJobs
  /\ mail \in [Runners -> 0..tokens]
  /\ file \in [Runners -> 0..tokens]
  /\ act \in [Runners -> 0..tokens]
  /\ scratch \in [Runners -> BOOLEAN]
  /\ checkedIn \subseteq 1..jobs /\ released \subseteq 1..jobs
  /\ struck \subseteq 1..jobs /\ lost \subseteq 1..jobs
  /\ crashes \in 0..MaxCrashes /\ deaths \in 0..MaxDeaths

Init ==
  /\ up = TRUE /\ holder = NoHolder /\ queue = <<>> /\ tokens = 0
  /\ sessions = {} /\ tmp = {}
  /\ pc = [a \in Actors |-> "idle"] /\ job = [a \in Actors |-> 0] /\ jobs = 0
  /\ mail = [r \in Runners |-> 0] /\ file = [r \in Runners |-> 0]
  /\ act = [r \in Runners |-> 0] /\ scratch = [r \in Runners |-> FALSE]
  /\ checkedIn = {} /\ released = {} /\ struck = {} /\ lost = {}
  /\ crashes = 0 /\ deaths = 0

-----------------------------------------------------------------------------
(* What the daemon does with a request.                                    *)

\* Fault: any token passes while a job holds the lock.
AnyToken(t) == up /\ ~Free

\* The gate of handleMessage for the requests that need a job token.
Valid(t) == up /\ ~Free /\ t # 0 /\ holder.token = t

\* grantLock: lock.acquired reaches a hook that still waits for it.
Grant(e, waits) ==
  /\ tokens' = tokens + 1
  /\ holder' = [by |-> e.by, job |-> e.job, token |-> tokens + 1, invoked |-> FALSE]
  /\ mail' = [r \in Runners |-> IF r = e.by /\ waits THEN tokens + 1 ELSE mail[r]]

\* The client of a queued request is still there.
Waits(e) == pc[e.by] = "asking" /\ job[e.by] = e.job

\* Fault: the request that is granted stays in the queue.
GrantAndKeep ==
  \/ queue = <<>> /\ holder' = NoHolder /\ UNCHANGED <<queue, tokens, mail>>
  \/ queue # <<>> /\ Grant(Head(queue), Waits(Head(queue))) /\ UNCHANGED queue

\* grantNext, after the holder was set to null.
GrantNext ==
  \/ /\ queue = <<>>
     /\ holder' = NoHolder
     /\ UNCHANGED <<queue, tokens, mail>>
  \/ /\ queue # <<>>
     /\ queue' = Tail(queue)
     /\ Grant(Head(queue), Waits(Head(queue)))

\* lock.acquire of a new job: granted when the lock is free, queued otherwise.
Acquire(a) ==
  /\ jobs < MaxJobs
  /\ jobs' = jobs + 1
  /\ job' = [job EXCEPT ![a] = jobs + 1]
  /\ IF Free THEN Grant([by |-> a, job |-> jobs + 1], TRUE) /\ UNCHANGED queue
     ELSE /\ queue' = Append(queue, [by |-> a, job |-> jobs + 1])
          /\ UNCHANGED <<holder, tokens, mail>>

\* lock.release past the gate: a job whose action never checked in is struck,
\* the tmpfs is cleaned, the next job is granted.
Release ==
  /\ released' = released \cup {holder.job}
  /\ struck' = IF holder.invoked THEN struck ELSE struck \cup {holder.job}
  /\ tmp' = {}
  /\ GrantNext

\* The holder's job, if its bench-exec has passed the check of its token.
Overtaken == {job[r] : r \in {r \in Runners : pc[r] \in InExec /\ ~Free /\ holder.job = job[r]}}

\* forceRelease by the timer: the job's processes are killed if its cgroup
\* has caught them, the tmpfs is cleaned, the next job is granted.
Timeout ==
  /\ up /\ ~Free
  /\ lost' = lost \cup Overtaken
  /\ tmp' = {}
  /\ \E killed \in SUBSET {r \in Runners : pc[r] \in InExec} :
       pc' = [a \in Actors |-> IF a \in killed THEN "after" ELSE pc[a]]
  /\ GrantNext
  /\ UNCHANGED <<up, sessions, job, jobs, file, act, scratch, checkedIn, released, struck, bounds>>

\* handleDisconnect: a queued request goes with its connection.
Disconnected ==
  /\ up
  /\ \E k \in 1..Len(queue) :
       /\ ~Waits(queue[k])
       /\ queue' = SubSeq(queue, 1, k - 1) \o SubSeq(queue, k + 1, Len(queue))
  /\ UNCHANGED <<up, holder, tokens, sessions, tmp, pc, job, jobs, mail, file, act, scratch,
                 told, bounds>>

\* Fault: a hook that waits for the lock is not told that its connection closed.
HooksHang == pc

\* The 'close' handler of BenchdClient rejects the pending request of every
\* hook and every bench-exec that waits; the job fails and only its last hook
\* still runs.
RejectPending ==
  [a \in Actors |-> IF \/ pc[a] = "joining"
                       \/ a \in Runners /\ pc[a] = "asking" /\ mail[a] = 0
                    THEN "after" ELSE pc[a]]

\* benchd dies: it keeps nothing on disk.
Crash ==
  /\ up /\ crashes < MaxCrashes
  /\ crashes' = crashes + 1
  /\ up' = FALSE
  /\ lost' = lost \cup Overtaken
  /\ holder' = NoHolder /\ queue' = <<>> /\ sessions' = {}
  /\ pc' = RejectPending
  /\ UNCHANGED <<tokens, tmp, job, jobs, mail, file, act, scratch,
                 checkedIn, released, struck, deaths>>

\* systemd starts it again.
Restart ==
  /\ ~up
  /\ up' = TRUE
  /\ UNCHANGED <<holder, queue, tokens, sessions, tmp, pc, job, jobs, mail, file, act,
                 scratch, told, bounds>>

-----------------------------------------------------------------------------
(* The hooks.                                                              *)

Goes(a, to) == pc' = [pc EXCEPT ![a] = to]

\* What the processes of a job knew ends with them.
Forgets(r) ==
  /\ job' = [job EXCEPT ![r] = 0]
  /\ act' = [act EXCEPT ![r] = 0]
  /\ scratch' = [scratch EXCEPT ![r] = FALSE]

\* job-started: connect and ask; without the daemon the hook and its job fail.
AskLock(r) ==
  /\ pc[r] = "idle"
  /\ IF up
     THEN Goes(r, "asking") /\ Acquire(r)
     ELSE /\ jobs < MaxJobs
          /\ jobs' = jobs + 1 /\ job' = [job EXCEPT ![r] = jobs + 1]
          /\ Goes(r, "after")
          /\ UNCHANGED <<holder, queue, tokens, mail>>
  /\ UNCHANGED <<up, sessions, tmp, file, act, scratch, told, bounds>>

\* lock.acquired: the token goes to its file, and a write that fails is only
\* a warning: the file of an earlier job stays.
WriteToken(r) ==
  /\ pc[r] = "asking" /\ mail[r] # 0
  /\ \E t \in {mail[r], file[r]} : file' = [file EXCEPT ![r] = t]
  /\ mail' = [mail EXCEPT ![r] = 0]
  /\ Goes(r, "steps")
  /\ UNCHANGED <<daemon, tmp, job, jobs, act, scratch, told, bounds>>

\* job-completed: release with the token of the file.  An error answer, and a
\* daemon that is not there, throw before the file is removed.
JobCompleted(r) ==
  /\ pc[r] = "after"
  /\ Goes(r, "idle")
  /\ IF Valid(file[r])
     THEN Release /\ file' = [file EXCEPT ![r] = 0]
     ELSE UNCHANGED <<holder, queue, tokens, mail, tmp, released, struck, file>>
  /\ Forgets(r)
  /\ UNCHANGED <<up, sessions, jobs, checkedIn, lost, bounds>>

\* The container dies with its job, or is replaced: no hook runs, the file is gone.
RunnerDies(r) ==
  /\ pc[r] # "idle" /\ deaths < MaxDeaths
  /\ deaths' = deaths + 1
  /\ Goes(r, "idle")
  /\ mail' = [mail EXCEPT ![r] = 0]
  /\ file' = [file EXCEPT ![r] = 0]
  /\ Forgets(r)
  /\ UNCHANGED <<daemon, tmp, jobs, told, crashes>>

-----------------------------------------------------------------------------
(* The action and bench-exec.                                              *)

\* The job's steps end, without the action, after it, or when the job is
\* cancelled in the middle of it.
StepsEnd(r) ==
  /\ pc[r] \in {"steps"} \cup InAction
  /\ Goes(r, "after")
  /\ UNCHANGED <<daemon, tmp, job, jobs, mail, file, act, scratch, told, bounds>>

\* The action reads the token file; without a token it fails.
ReadToken(r) ==
  /\ pc[r] = "steps"
  /\ act' = [act EXCEPT ![r] = file[r]]
  /\ Goes(r, IF file[r] = 0 THEN "after" ELSE "read")
  /\ UNCHANGED <<daemon, tmp, job, jobs, mail, file, scratch, told, bounds>>

\* Fault: the holder counts as checked in whoever sends the token.
CheckInAnyone(r) ==
  /\ pc[r] = "read"
  /\ IF up /\ ~Free
     THEN /\ holder' = [holder EXCEPT !.invoked = TRUE]
          /\ checkedIn' = checkedIn \cup {job[r]}
          /\ Goes(r, "checked")
     ELSE Goes(r, "after") /\ UNCHANGED <<holder, checkedIn>>
  /\ UNCHANGED <<up, queue, tokens, sessions, tmp, job, jobs, mail, file, act, scratch,
                 released, struck, lost, bounds>>

\* action.checkin: only an error answer fails the action.
CheckIn(r) ==
  /\ pc[r] = "read"
  /\ IF Valid(act[r])
     THEN /\ holder' = [holder EXCEPT !.invoked = TRUE]
          /\ checkedIn' = checkedIn \cup {job[r]}
          /\ Goes(r, "checked")
     ELSE Goes(r, "after") /\ UNCHANGED <<holder, checkedIn>>
  /\ UNCHANGED <<up, queue, tokens, sessions, tmp, job, jobs, mail, file, act, scratch,
                 released, struck, lost, bounds>>

\* config.get, unless the cores are an input: the fallback has no tmpfs.
GetConfig(r) ==
  /\ pc[r] = "checked"
  /\ \E b \in IF up THEN BOOLEAN ELSE {FALSE} : scratch' = [scratch EXCEPT ![r] = b]
  /\ Goes(r, "configured")
  /\ UNCHANGED <<daemon, tmp, job, jobs, mail, file, act, told, bounds>>

\* thermal.wait: a timeout, an error and a daemon that is gone only warn.
Cooled(r) ==
  /\ pc[r] = "configured"
  /\ Goes(r, "cooled")
  /\ UNCHANGED <<daemon, tmp, job, jobs, mail, file, act, scratch, told, bounds>>

\* exec.prepare registers a session; anything else fails the action.
Prepare(r) ==
  /\ pc[r] = "cooled"
  /\ IF Valid(act[r])
     THEN sessions' = sessions \cup {act[r]} /\ Goes(r, "ready")
     ELSE Goes(r, "after") /\ UNCHANGED sessions
  /\ UNCHANGED <<up, holder, queue, tokens, tmp, job, jobs, mail, file, act, scratch,
                 told, bounds>>

\* The action makes the session's directory and spawns bench-exec.
Spawn(r) ==
  /\ pc[r] = "ready"
  /\ tmp' = IF scratch[r] THEN tmp \cup {act[r]} ELSE tmp
  /\ Goes(r, "spawned")
  /\ UNCHANGED <<daemon, job, jobs, mail, file, act, scratch, told, bounds>>

\* Fault: bench-exec goes on whatever the daemon answers.
RunUnvalidated(r) ==
  /\ pc[r] = "spawned"
  /\ Goes(r, "validated")
  /\ UNCHANGED <<daemon, tmp, job, jobs, mail, file, act, scratch, told, bounds>>

\* exec.validate up to its await: the gate checks the token now and never
\* again, and the session is looked up.  Any error ends bench-exec.
Validate(r) ==
  /\ pc[r] = "spawned"
  /\ Goes(r, IF Valid(act[r]) /\ act[r] \in sessions THEN "joining" ELSE "after")
  /\ UNCHANGED <<daemon, tmp, job, jobs, mail, file, act, scratch, told, bounds>>

\* The write to cgroup.procs is over, well or not, and exec.validated sent,
\* whoever holds the lock by now.
Joined(r) ==
  /\ pc[r] = "joining"
  /\ Goes(r, "validated")
  /\ UNCHANGED <<daemon, tmp, job, jobs, mail, file, act, scratch, told, bounds>>

\* bench-exec has its cores, from a flag, from config.get or by the fallback,
\* and spawns the command; a setting or a privilege that fails ends it.
RunCommand(r) ==
  /\ pc[r] = "validated"
  /\ \E to \in {"running", "after"} : Goes(r, to)
  /\ UNCHANGED <<daemon, tmp, job, jobs, mail, file, act, scratch, told, bounds>>

-----------------------------------------------------------------------------
(* bench-runner-update.sh: it does not wait for the lock.                  *)

\* One line is sent and the first answer read: with lock.queued the script
\* leaves, and a grant that comes before its connection closes is nobody's.
ScriptAsks ==
  /\ pc[Script] \in {"idle", "gone"} /\ up
  /\ Goes(Script, IF Free THEN "building" ELSE "gone")
  /\ Acquire(Script)
  /\ UNCHANGED <<up, sessions, tmp, file, act, scratch, told, bounds>>

\* The EXIT trap: release with the script's own token, which is the one of
\* its grant; it never checks in.
ScriptEnds ==
  /\ pc[Script] = "building"
  /\ Goes(Script, "idle")
  /\ IF up /\ ~Free /\ holder.job = job[Script] THEN Release
     ELSE UNCHANGED <<holder, queue, tokens, mail, tmp, released, struck>>
  /\ UNCHANGED <<up, sessions, job, jobs, file, act, scratch, checkedIn, lost, bounds>>

-----------------------------------------------------------------------------

JobStep(r) ==
  \/ WriteToken(r) \/ JobCompleted(r)
  \/ StepsEnd(r) \/ ReadToken(r) \/ CheckIn(r)
  \/ GetConfig(r) \/ Cooled(r) \/ Prepare(r) \/ Spawn(r)
  \/ Validate(r) \/ Joined(r) \/ RunCommand(r)

JobsNext ==
  \/ Timeout \/ Disconnected \/ Crash \/ Restart
  \/ ScriptAsks \/ ScriptEnds
  \/ \E r \in Runners : AskLock(r) \/ RunnerDies(r) \/ JobStep(r)

\* The event loop of benchd handles what is there and its timers fire; systemd
\* restarts it; a hook goes on when its answer is there.  No job and no script
\* has to end by itself.
JobsFairness ==
  /\ WF_vars(Timeout) /\ WF_vars(Disconnected) /\ WF_vars(Restart)
  /\ \A r \in Runners : WF_vars(WriteToken(r))

JobsSpec == Init /\ [][JobsNext]_vars
FairJobsSpec == JobsSpec /\ JobsFairness

-----------------------------------------------------------------------------

Holds(r) == ~Free /\ holder.by = r /\ holder.job = job[r]

\* A benchmark command runs only while its own job holds the machine-wide
\* lock, unless the timeout or a restart of the daemon has taken the lock from
\* that job since the daemon checked the token of its bench-exec: a lock lost
\* on the way from the check-in to that check keeps the command from starting,
\* one lost between the check and the spawn does not.
BenchmarkUnderLock ==
  \A r \in Runners : pc[r] = "running" => Holds(r) \/ job[r] \in lost

\* Nobody removes the scratch directory of a benchmark that runs: the daemon
\* empties the tmpfs on every release it lets through its gate, and a hook
\* with an old token or none is not let through.
ScratchKept ==
  \A r \in Runners :
    pc[r] = "running" /\ scratch[r] /\ job[r] \notin lost => act[r] \in tmp

\* A benchmark has the machine and its scratch directory for itself.
BenchmarkIsSafe == JobsTypeOK /\ BenchmarkUnderLock /\ ScratchKept

\* A job is struck for not using the action exactly if it gave the lock back
\* without a check-in of its own, whatever tokens are left in the files of
\* the runners and whichever hooks have failed.
StrikesTellTheTruth == struck = released \ checkedIn

\* A hook that waits for the lock ends: it gets the lock, or its connection
\* closes, also when the job ahead of it died, the script left the queue, or
\* the daemon restarted.
HookEnds ==
  \A r \in Runners : pc[r] = "asking" ~> pc[r] # "asking"

=============================================================================
