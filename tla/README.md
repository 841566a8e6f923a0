# noron in TLA+

Specifications of [noron](../src), the self-hosted benchmark runner: a daemon
(`benchd`) that lets one benchmark job at a time have the machine, and a web
service (`bench-web`) that manages the runners and keeps its own I/O away from a
running benchmark. Every definition is translated from the TypeScript under
`src/packages` and the shell scripts beside it; `PROJECT.json` maps each one to
the lines it stands for.

    tlc -workers 2 -config MCBenchdServer.cfg MCBenchdServer   # one run
    tlapm BenchdProofs.tla                                     # one module of proofs

Definitions whose comment starts with `Fault:` are not part of any
specification. Each is a plausible bug in the definition that follows it;
putting it in the place of that definition makes TLC find the property listed
with it under `mutants` violated. They show that the properties can fail.

## 1. The system

| part | state | operations | interacts with |
|---|---|---|---|
| job lock (`benchd/src/lock.ts`) | holder, FIFO queue, timeout timer | acquire, release, check-in, set timeout, timeout, disconnect | connections; broadcasts status and violations |
| message handling (`benchd/src/server.ts`) | throttle snapshot and last result, subscribers | token gate, one handler per message, tmpfs clean-up | lock, sessions, thermal monitor |
| sessions (`benchd/src/cgroup.ts`, `bench-exec`) | Map of sessions, cgroups, bench-exec processes | prepare, validate, killAll (all `async`) | lock (token), kernel, job timeout |
| thermal monitor (`benchd/src/thermal.ts`, `shared/src/thermal.ts`) | ring buffer, baseline, waiters | poll, wait, deadline | subscribers, jobs that wait to cool down |
| client and framing (`shared/src/ipc-client.ts`, `connection.ts`) | buffer, pending requests, subscriptions | chunk arrives, request, close | every socket |
| runner hooks and action (`benchd/src/hooks`, `action`) | token file, scratch directory | job-started, check-in, cool down, prepare, run, job-completed | lock, over a connection of its own each |
| gate (`web/src/bench-gate.ts`, `withGate`) | state, counter and set of passes, gate and drain promises, two deadlines | close, open, enter, exit, deadlines | every workflow step that does I/O |
| scheduler (`web/src/bench-scheduler.ts`) | tasks, timers, running flags | register, unregister, dispose, timer, settle | gate's `stateChange` |
| client of benchd (`web/src/main.ts`) | `wasLocked`, subscription | first status, updates, timeout override | gate, benchd |
| runner lifecycle (`workflows/*-runner.ts`, `health-check.ts`, `routes/status.ts`, `routes/violations.ts`, `runner-ctl`) | runner row: status, strikes, callback token; container | provision, heal, deprovision, callback, violation, reset, delete | database, runner-ctl, GitHub |
| self update (`workflows/self-update.ts`, `update-check.ts`, `bench-updater.sh`) | update row, backups, installed files | check, wait for idle, apply, verify, roll back | benchd's lock, systemd |
| invites and sign-in (`invite.ts`, `routes/auth.ts`, `auth-middleware.ts`, `crypto.ts`) | device codes, users, invites, the key | device flow, login, upgrade, invite, poll, clean-up | GitHub OAuth, database |
| status websocket (`routes/ws-status.ts`, the dashboard's `useWebSocket`) | counters, one benchd client per websocket | validate, open, close, dial again | benchd |
| rate limits (`rate-limit.ts`) | entries per address | request, clean-up timer | routes |
| host (`cpu-topology.ts`, `config.ts`, `setup/src/generate.ts`, `split-command.ts`) | none: functions | core lists, boot lines, configuration text, command words | setup, benchd |
| setup (`setup/src/wizard.tsx`, `installer.ts`) | what is on the disk, the marker | pages, thirteen steps, reconfigure | systemd, boot loader |

What is hard about it, part by part, and what makes it correct:

* **Lock.** One event loop, so methods do not interleave, but every message,
  close and timer can come in any order: a timer armed for an earlier grant, a
  token of an earlier grant, a disconnect between queueing and granting, a peer
  that is gone before its close is handled. Correct: at most one holder, FIFO,
  no request lost, every grant ends, violations reported exactly when earned.
* **Snapshots.** One slot for the whole machine, written by one job's message
written by one job's message
  and read by another's; each counter is a file that may be unreadable. Correct:
  an event is reported once, and to the job it happened in.
* **Sessions.** `prepare`, `validate` and `killAll` await file writes; the lock
  can change hands at each await, the writes can fail, the pid that is written may be
  another container's, and `killAll` is not awaited at all. Correct:
  one job's processes at a time; a timeout kills that job and no other.
* **Thermal monitor.** Waiters with deadlines, a ring that wraps, a baseline
  learnt in passing. Correct: no wait without end, a baseline of a settled machine.
* **Framing and client.** Chunk boundaries anywhere; pushes between a request
  and its answers; a socket that closes. Correct: lines whole and in order, each
  promise settled once, by its own answer.
* **Hooks and action.** Each request on a connection of its own; between two of
  them the timeout or a restart takes the lock; an error half way leaves a token
  file behind. Correct: a benchmark under its own job's lock, strikes deserved.
* **Gate.** Promises resume in microtasks, after the synchronous code that
  resolved them; operations hang, exit late, exit after they were force-closed.
  Correct: the counter counts, a drain ends, nobody waits for a lost promise,
  nothing runs behind a locked gate that was not told to stop.
* **Scheduler.** A task may be running when the gate closes, and when it opens.
  Correct: one chain of timers per task, none lost, none started while closed.
* **Client of benchd.** The lock moves between the first answer and the
  subscription, and while the drain is awaited. Correct: the gate follows the lock.
* **Runner lifecycle, self update.** Durable workflows are replayed after a
  crash with their finished steps memoized, race the health check, HTTP routes
  and each other; the updater stops the process that waits for it. Correct: a
  runner registers with the newest token, once; no row stays in transit; the
  version file names what is installed, the services come back.
* **Sign-in.** Handlers that check, await GitHub and then write. Correct: an
  invite admits one account, a session belongs to who signed in.
* **Websockets, rate limits.** Counters that must follow every way a socket ends;
  windows that end while requests come in.
* **Setup.** Thirteen steps, four of them fatal, killed and repeated. Correct: a
  host that counts as complete is.

`PROJECT.json` lists the hazards one by one with their lines.

## 2. Modules

    JobLock  <------- refines ------- BenchdLock <--- BenchdServer, BenchdSessions
       ^                                                                (BenchdProofs)
       |
    GateSync ---extends---> BenchGate <--- BenchScheduler             (BenchWebProofs)
       ^
       |
    MCSetup ---extends---> Setup ---extends---> HostConfig               (SetupProofs)
       |
       +------extends---> SelfUpdate                                      (HostProofs)

    Registration <--- refines --- RunnerLifecycle              (RunnerLifecycleProofs)
    JobLifecycle                                                  (JobLifecycleProofs)
    SignIn                                                              (SignInProofs)
    MCServices ---extends---> ThermalMonitor, IpcClient, WsStatus, RateLimit
                                                                      (ServicesProofs)

`MC*` modules and their `.cfg` files are the instances TLC checks. `MCSetup` and
`MCServices` hold several parts that share no state, and `MCBenchdServer` the lock
with and without the snapshots. Their variable `part` is
chosen at the start and says which of the parts takes the steps of the
behaviour: the reachable states are the sum of the parts' own, not their product,
and each property is checked on exactly the behaviours of its part.

### BenchdLock — `LockManager`

| TLA+ | code |
|---|---|
| `holder`, `queue` | `LockManager.holder`, `.queue` |
| `timers`, `arms` | the `setTimeout`s armed in the event loop; the holder's `timer` field is its own |
| `conn` | the connections; `"gone"` = the peer left and the `'close'` event is not handled yet |
| `GrantLock`, `GrantNext`, `ClearTimeout` | the private methods of the same names |
| `Acquire`, `Release`, `MarkActionInvoked`, `SetCurrentTimeout`, `HandleDisconnect`, `TimerFires` | `acquire`, `release`, `markActionInvoked`, `setCurrentTimeout`, `handleDisconnect`, `forceRelease` |
| `acquires`, `grants`, `withdrawn`, `known`, `checkedIn`, `released`, `violations` | history: messages sent and received, what the properties speak of |

One event is one step since every method is synchronous. A refused release
changes nothing and is not a step here. The token is the number of the grant:
`randomBytes(32)` never repeats. `Next` lets any connection use any token that
was delivered to a live peer, since the hooks and the action open connections of
their own. Timers fire at any moment: durations are not modelled.

### JobLock — the abstract lock

Tickets are taken in order, one owns the machine, waiting ones may be given up,
and the end of a grant passes ownership to the lowest waiting ticket in the same
step. `BenchdLock` implements it with `owner` = the holder's request and
`waiting` = the requests in the queue.

### BenchdServer — the throttle snapshots

Adds to each lock message what `handleMessage` does around it: the token gate
before release and check-in, `diffThrottleCounts` before a release (also one
that `release` then refuses because of the job's name), a snapshot after every
acquire, granted or queued. The kernel's counters are a file for each core, and a
reading gets those of a set `R` of the cores, any set: without a snapshot, or with
no core readable at the diff, there is no result and what there is of a snapshot
stays; a core that the snapshot lacks is counted from 0, as `?? 0` does, which
reports what happened before the daemon started. `blind` names those cores and
`unread` the releases at which nothing could be read, since both properties fail
of them.

### BenchdSessions — sessions, `killAll`, the tmpfs

Each `async` method is cut at its awaits. `Prepare` / `PrepareDone` /
`PrepareFails` and `Validate` / `ValidateDone` are the two halves of the
methods; `killers` are the `killAll` loops under way, each at a position of the
Map as it is when the loop gets there (`Map` iteration sees entries added
meanwhile). `proc` is the bench-exec process, external to the daemon. The pid it
sends is one of its own container, which `runner-ctl/src/handlers.ts:139` starts
without `--pid=host`: the write to `cgroup.procs` moves whatever process the daemon
knows by it, this bench-exec, another's or none of them. A write to `cgroup.kill` ends what
is in the cgroup or fails, and the loop goes on either way; `spared` are the
processes that a failed write, or a later write of a pid, has kept or taken from
it. A job releases only after its benchmarks have ended, since the job-completed
hook runs after the job's steps.

### BenchGate — the gate

One step is one synchronous piece: a call of `closeGate`, `openGate` or `exit`,
a timer, or one microtask. `Woken` are the waiters whose promise is resolved;
the event loop starts no timer and no message while there is one (`Macrotask`).
The updates in one chunk of the socket are handled in one loop, so a second
update may be handled before the microtasks of the first: `sync` says the loop
may go on; in a behaviour with `batched = FALSE` chunks hold one update each.

### BenchScheduler — the deferred tasks

Extends the gate: each gate step includes the listener the gate's `emit` calls
synchronously (`OnStateChange`). `timer` is the handle the code keeps, `armed`
counts the timers really armed, so that a handle overwritten or cleared twice
shows.

### GateSync — lock, client and gate

`JobLock` (every behaviour of `BenchdLock` is one of its) and `BenchGate`,
joined by `stream`, the updates on their way to bench-web, and `overrides`, the
`lock.setTimeout` requests on their way back. `Broadcast(2)` in `JobFinishes`:
when a job waits, `release` and `forceRelease` grant it, which broadcasts,
before they broadcast themselves, so that no update shows the lock free.

### JobLifecycle — hooks, action, bench-exec

A job is where its processes are (`pc`), one state between any two requests to
the daemon. `Valid(token)` is the token gate; `AskLock`, `WriteToken`,
`ReadToken`, `CheckIn`, `GetConfig`, `Cooled`, `Prepare`, `Spawn`, `Validate`
and `JobCompleted` are the requests in their order, each with its error answer.
From the daemon's check of bench-exec's token to the command there are three steps:
`Validate` checks and starts to write to the cgroup, `Joined` is the end of that
write and the answer, `RunCommand` what bench-exec does with it; the lock may be lost
between any two of them (`lost`).
`file` survives a hook that threw, and a write that fails leaves the file of the
job before. `ScriptAsks` and `ScriptEnds` are `bench-runner-update.sh`, which
takes the same lock but does not wait for it. `Crash` and `Restart` lose all the
daemon keeps; `RunnerDies` is a container that goes without its last hook. The
lock's own details are `BenchdLock`'s; here a token is the number of the grant.

### RunnerLifecycle and Registration

One repository's row, the runs of the three workflows, runner-ctld, the
container. A run is replayed from its first step with the finished ones
memoized; a step that was under way at a crash runs again; a run that throws is
tried again up to `MaxTries`. The worker takes one run at a time. `ctl` holds
requests runner-ctld is handling: if it dies with one, the client, which has
neither a close handler nor a timeout, waits for ever and the worker with it
(`Hung`). `check` is what the health check has read and not yet acted upon.
`Registration` is the promise: credentials are issued, only the last one is
expected, and none counts twice. The refinement maps the row's expected token,
the tokens drawn and the accepted callbacks.

### SelfUpdate

`CheckStep` is `checkForUpdate` in its two halves around the answer of GitHub;
`WorkflowStep` the durable workflow; `ScriptStep` one step of the script: stop,
back up, copy part by part, write the version, and start the services one after
the other, where under `set -e` a start that fails ends the script and leaves the
rest down. A script is ended with bench-web's unit unless `sudo` has moved it to a
group of its own, so both happen. `supervised` says whether bench-web runs as that
unit, as on an installed host, where stopping it ends the worker that waits for the
script. `applied` counts how often a run's release was applied to the end.
`OpenStatus` are the versions whose `GET /update/status` answers without a token:
the health check sends none.

### SignIn

A flight is one run of a handler that awaits GitHub and then the encryption of
the token it got; handlers without an await are one step. `rows` are the
`device_codes`, which also hold the session tokens. `raced` marks the invites
that two flights have held at once, `ended` the sessions whose time was up.

### ThermalMonitor, IpcClient, WsStatus, RateLimit

`ThermalMonitor` counts time in polls; the ring is the code's array with head
and count, `readings` the plain list it should be the tail of. `IpcClient` has
both directions of one connection as streams of units, a line being its text and
its newline, cut anywhere. `WsStatus` has the browser's hook, the endpoint and
the client of benchd each websocket gets. A websocket that was closed stays in
`closing` until the browser's `onclose` runs; the hook may be disabled and enabled
anew before, so that `onclose` meets the next websocket and another timer (`stray`,
`rejoined`). The hook is enabled with a session or without; a request is refused with
401 or 429, which is the same to the hook. `early` marks websockets that closed
before their client had connected. `RateLimit` has a clock, so that a request may
come exactly at the end of a window.

### HostConfig and Setup

`HostConfig` has the pure functions as operators. Each input of a bounded set is
an initial state and the properties compare what the function makes of it with
what it promises. `Setup` has the pages, the installer's steps with the error
each may end in, what is on the disk, a reboot that brings the configuration into
effect, and the marker that hides the wizard; it uses `HostConfig` for the boot
line and the cores. A boot line is a sequence of pieces, the benchmark's parameters
wherever the text has one and the text between them, glued to the piece before where
there is no blank: the patterns of `stripBenchParams` are not anchored to words.


## 3. Runs

A property that joins several statements (`QueueIsSound`, `SetupIsSound`, ...) is
a conjunction of named parts, each with a comment of its own in its module and
each with a mutant that breaks it.

| run | instance | properties and what they show |
|---|---|---|
| `benchd` | part `lock`: 2 connections, 2 jobs, 3 requests, 1 re-armed timer; part `server`: 1 connection, 2 requests, 2 cores, one of them throttled before the start, 1 event each | `TimerIsHolders`, `QueueIsSound` (no idle lock, FIFO, no request lost or granted twice or to the gone), `ViolationsAreEarned`; `LockGoesRound`: every grant ends and every request is served; `ImplementsJobLock`, fairness included; `ThrottleAccounted`: no event is reported twice, none to a job after one whose release was measured |
| `snapshot` | 2 connections, 2 jobs, 3 requests, 1 core | **violated**, `SnapshotIsGrants`: a request that only queues replaces the snapshot of the job that runs |
| `sessions` | 2 requests, 2 jobs, 2 sessions | `SessionsAreSound`: jobs that release never overlap, in processes or files; `CapturedIsKilled`: `killAll` comes to every process that was in a cgroup when it began, whichever other writes fail |
| `sessions_one_job` | the same | **violated**, `OneJobRuns`: after a timeout the next job runs beside the old one's processes |
| `scheduler` | 3 operations, 2 tasks, 3 closings, chunks of one and of several updates | `GateIsConsistent`, `TasksOnSchedule`, `LockedIsDrained` (with separate updates only aborted operations outlive the drain), `DrainEnds`, `WaiterEnters` |
| `setup` | part `setup`: 4 kinds of machine, 3 failures or kills, 1 reconfiguration; part `config`: 4 cores, lists of 2 ranges, 3 capacities, boot lines of 3 pieces, words of 2 characters, lists of 2 cores; part `sync`: 3 jobs, 1 operation, 4 closings; part `update`: 2 releases, 2 rows, 2 tries, 2 looks at the lock, 1 crash, loss of power or rollback by hand, supervised or not | `SetupIsSound`, `SetupFinishes` (the setup completes and keeps the key); `CoresAreRight`, `TextIsKept`; `GateFollowsLock` (once all is delivered the gate is closed exactly while a job holds the lock), `GateReopens`; `UpdateIsSound` (the version file names what is installed, unless a copy was cut short or two scripts met), `ServicesComeBack`, `RunsProceed` (rows go forward, a run ends, or repeats its apply where the script ends its worker) |
| `runner` | 1 row, 2 workflow runs with 2 tries each, 1 crash, 1 check | `RegistrationIsSound` (an online row has spent its token, a waiting one expects the newest), `ImplementsRegistration`, `TransitEnds`, `DeathIsNoticed` |
| `update_resumes` | 1 release to apply, no crash | **violated**, `ResumesAtHealthCheck`: after the restart the apply step runs again |
| `jobs` | 2 runners and the update script, 3 jobs, 1 crash of benchd, 1 dead runner | `BenchmarkIsSafe` (under its own job's lock, with its scratch directory, unless the lock was lost after the token check), `StrikesTellTheTruth`, `HookEnds` |
| `services` | part `thermal`: 3 readings and none, ring of 3, 5 polls, 2 waiters; part `ipc`: 2 requests, 1 subscription, 1 push; part `ws`: 2 dashboards at one address, 3 websockets, limits 2 and 1, 1 failure, 2 times enabled; part `rate`: 2 addresses, window of 2 ticks, 2 requests each, 4 ticks | `ReadingsAreSound`, `WaitIsBounded`, `BaselineSettled`; `ClientIsFaithful`, `AnswerSettles`; `SocketsAccounted`, `DashboardReturns`; `LimitIsExact` |
| `signin` | 2 people, 2 nonces, 2 invites, 3 callbacks, 1 expiry, 1 restart | `AccountsAreSound` (there is an admin, a token is its owner's, what was sealed can be opened), `InviteAdmitsOne`, `SessionsLast` |
| `signin_poll` | the same | **violated**, `PolledTokenWorks`: the CLI's token is refused from its first use on |

The four violations are disagreements between the code and what its documents and
comments say; `findings` quotes both. Each trace is a few steps of ordinary use.

**Bounds.** Every `Max...` constant caps a counter in a guard. Three requests at
the lock are one that holds, one granted from the queue and one behind it, with
two connections so that one may leave while the other's requests stay; a second
job name so that a release may name the wrong one. With the snapshots one
connection and two requests suffice: a job holds, another asks, is granted by a release
or a timeout, and is released in turn; a core that was throttled before the start and one that was not tell a
snapshot that lacks a core from one that has it. Two sessions are one of the job
that timed out and one of the next. Three operations at the gate are one hung, one
that exits and one that waits; three closings let a pass of the first drain exit in
the second and a waiter sleep through a reopening. Three jobs at `GateSync` are a
hand-over from the queue and a free lock after it; the gate closes at most once per
job and once for the first status, so four closings cut nothing off. Two workflow
runs are a provisioning and the heal or removal that overtakes it, two tries one
that fails and its replay. Three jobs on two runners are one that holds, one that
waits and one that finds what a failed hook left. Three websockets are one that is
open, one that is still closing and one that is dialled meanwhile; with a limit of one
to an address the second dashboard is refused as long as the first stays, by 429, and
one whose session is over by 401; the effect connects twice, so that it may do so
before the old `onclose`. The dashboards are alike, so the first to be enabled is
always the same one (`InTurn`). One crash or rollback in an update (`OneTrouble`) is enough
for two scripts to meet and for a script to be cut short; five polls wrap the ring, settle a baseline
and let a deadline pass. Three callbacks are two for one nonce and one that comes
between them.

**Fairness.** What the code's scheduling gives and nothing more.

* An armed timer fires, a microtask runs, a file write completes, a message on a
  live local socket arrives, the event loop handles what is there. Jobs may run for
  ever, peers may never close, an operation at the gate may never return, a task may
  never settle.
* No update of benchd is fair in `BenchGate`: `DrainEnds` owes nothing to a
  reopening, and `WaiterEnters` has it as a premise. In `GateSync` the fairness is
  `JobLock`'s, which `ImplementsJobLock` derives from the timers; it holds as long
  as the connection to benchd lives, since `main.ts` has no handler for its loss.
* The worker goes on with its run, runner-ctld with its requests, the health check
  with its round, the updater script with its steps. GitHub, the container's
  callback and a person at the dashboard owe nothing. A run that awaits an answer
  that died with runner-ctld is excepted by name (`Hung`).
* systemd restarts benchd in `JobLifecycle`; hooks go on once they are answered.
* In `WsStatus` bench-web answers each request and handles what happens to its
  websockets, a browser hears of each that closed, and its timers fire. A dashboard
  comes back if its session lasts and from some time on it is connected or there is
  room for it whenever it asks. The oldest updater script goes on. In `Setup` somebody logs in and does not go
  back from the review page for ever.

**Deadlock.** `runner`, `jobs`, `services`, `setup`, `signin` and `update_resumes` say
`CHECK_DEADLOCK FALSE`: these systems come to rest once their bounded supply of
jobs, rows, polls, failures or callbacks is used up, and an input of `HostConfig`
takes no step at all. Everywhere else TLC looks for deadlocks. Symmetry is used in
the run without temporal properties only (`signin`).

## 4. Proofs

Every theorem holds for all values of the constants that satisfy the assumptions
named in the modules that declare them. `PROJECT.json` lists the theorems.

| module | theorems, beside type correctness |
|---|---|
| `BenchdProofs` | lock: `TimersAreSafe`, `LockIsFifo`, `NoRequestIsLost`, `QueueIsCorrect`, `ViolationsAreAccounted`, `LockImplementsJobLock`; snapshots: `ThrottleCorrect` with its parts; sessions: `SessionsKeepTheLock`, `BenchmarksRunAlone` |
| `BenchWebProofs` | gate: `PassesAreCounted`, `DrainsAreGuarded`, `NoWaiterIsLost`, `GateStaysConsistent`, `LockedGateIsDrained`; scheduler: `TasksKeepTheirChain`, `TasksStayOnSchedule`; with the lock: `SyncComposes`, `GateKeepsUp` |
| `RunnerLifecycleProofs` | `OnlineRunnersHaveSpent`, `NewestIsExpected`, `RegistrationCorrect`, `LifecycleImplementsRegistration` |
| `JobLifecycleProofs` | `BenchmarksRunUnderLock`, `ScratchIsKept`, `BenchmarksAreSafe`, `StrikesAreTrue` |
| `ServicesProofs` | thermal monitor: `WaitsAreBounded`, `BaselineIsEarned`, `HistoryIsKept`; client of benchd: `LinesArriveWhole`; websockets: `CountersAreExact`, `OnlyEarlyFeedsStray`, `DashboardsHaveOneWebsocket`, `SocketsAreAccounted`; rate limits: `LimitHolds` |
| `HostProofs` | self update: `InstalledIsWhole`, `RowsMoveForward` |
| `SignInProofs` | `SecretsStaySound`, `OneUserPerInvite`, `CookiesKeepWorking` |
| `SetupProofs` | `SetupLeavesItWhole`, `KeyOutlivesSetups`; of the functions: `CoresComeOutRight` (from `RangesOfAnyLength` and `ServicesKeepACore`), `TextComesBack` (from `RewrittenLine`, `QuotedComeBack` and `ConfigComesBack`) |

Each proof has one lemma for the step, one case per action, and under it one step
per conjunct the action can disturb.

**The lock** (`LockAssumption`, `NoHolderAssumption`: bounds are naturals, the null
value is no lock). The invariant is built in layers, each proved from those below.
`TimerInv`: the armed timers are the holder's, and a free lock has an empty queue;
needed because a timer acts on whoever holds the lock. `OrderInv`: grants and queue
are in arrival order and the holder has the latest token; needed because `Release`
is by token. `RequestInv`: the partition of the requests and the queue's
connections; it uses `OrderInv`, as removal by position keeps identity only while
request numbers differ. `AccountInv`: violations are sorted by token and cover the
ended grants; only the latest grant can be the one that ends. The refinement maps
each action to one of `JobLock` or to a stutter.

**The snapshots** (`ThrottleAssumption`, `NoSnapshotAssumption`: the null value is no
Map). `ServerInv` adds to the lock's invariant, with the accounting of its releases,
what the snapshots are: `DisjointSpans`, of each core that no diff has taken from 0, what
was reported lies below the snapshot the next difference is taken from; without it two
differences could overlap. `NoForeignEvents` is inductive beside it, as a release whose
reading gets a core drops the snapshot, and every acquire takes one anew.

**The sessions** (`SessionsAssumption`, with any pid and any write that fails). To the lock, the
daemon with its sessions takes the lock's own steps or none (`SessionsKeepTheLock`), so
its invariants hold here too. `SessionBooks`: every session, process and file is of a prepare that was
handled, and the `killAll` loops stay within a Map that only grows.
`HolderRunsAlone`: as long as no job has timed out, whatever runs, awaits its
validation or lies in the tmpfs is of the job that holds the lock. It is inductive
because a release comes after the job's own processes have ended, and because the
next holder's token is a later one.

**The gate** (`GateAssumption`: the operations are finite). `CountInv`: the counter
is the number of live passes, and an operation that was told to stop is still
inside; that `activeOps - 1` is a natural rests on it. `DrainInv`: a drain that goes
on has its timers and its callers the promise the code still holds. `WaiterInv`:
promise numbers come from a counter, so a closing never takes a resolved one.
`SeparateInv`: with updates in separate chunks nobody is about to resume while the
gate is closed; a waiter woken by an opening would take a pass behind the next
closing, which is what can happen when two updates share a chunk.

**The scheduler.** `TaskInv` adds that a run belongs to a task that is or was
registered (else a first registration could meet its own run) and that a disposed
scheduler has no tasks. `TasksStayOnSchedule` joins it with the gate's types.

**Lock, client and gate.** `SyncComposes`: the composition takes only steps of
`JobLock` and of `BenchGate`, and with it come the gate's invariants.
`TicketsTaken`: no update shows, and no override names, a ticket that was not taken
yet. `ClientInv`: the client's flag is the gate's state; nothing is on its way
before the answer to the first status, nor between it and the subscription; once
subscribed, the client is up to date or the last message on its way will bring it
there. `GateFollowsLock` is what is left of that when the stream is empty.

**The runner's row** (`RunnerAssumption`). `TypeInv`: types, and who waits for an
answer of runner-ctld; `CheckInv`: the health check acts on a row that was there.
`RegInv` is what makes the two safety properties and the refinement inductive:
`KnownInv` (every token known anywhere was drawn), `DrawsLast` (only the newest
registering run of a row is about to draw), `DrawInv` (the token the row expects
while a run draws is in nobody else's hands, so that the draw repeated after a crash
takes nothing from a container), `PostInv` (a POST that is creating a row is the
only one that knows it), `FreshInv` (a row expects no token that was spent).

**Hooks and benchmarks** (`JobsAssumption`, `NoHolderAssumption`). `CountInv` ties
tokens, queue and jobs; `TokenInv` says that whoever knows the token of the present
grant, from an answer, from a file some failed hook left or from the environment,
was granted it for the job he runs: it is why stale files do no harm. `OwnJobs`,
`QueueInv` and `InvokedInv` keep jobs apart and the flag of the grant equal to the
history of check-ins. `ExecUnderLock` holds from the check of bench-exec's token on,
over the await, the answer and the spawn: its job has the lock or has lost it since
(`lost`); `ScratchInv` places the directory before that check.

**The thermal monitor** (`ThermalAssumption`). `SettledSince` relates the moment the
trend became stable to the last poll that was not; `WaitersOK` types the deadlines.

**The ring buffer.** `RingFits`: the places from the oldest one on hold the newest
readings, in their order, and head and count are where so many readings bring them.

**The client of benchd** (`IpcAssumption`: no line's text is a newline). `ClientStream`
says of each unit, in the buffer and on the socket, what place of what was sent it has:
the client has handled a prefix of it, and its buffer holds no whole line.
`DaemonStream` says the same of the other direction, as far as the shape goes. That
`processBuffer` finds all whole lines, and them only, is a lemma (`CutBuffer`) on
every buffer of whole lines and the begin of one.

**The websockets** (`WsAssumption`: there are dashboards, finitely many websockets, and
the null value is none of them). `FeedsOwned`: a client of benchd that is not over
belongs to an open websocket or to one marked `early`, and a request that is not
answered has no client yet; the counters are cardinalities by `CountsMatch` itself.
`HookAlone`: a dashboard whose effect never connected before an old `onclose` has one
websocket, open or closing, or an armed timer, never both, neither once it is disabled,
and no timer that is lost sight of; `wsRef` is the open one. `WebsocketIsSole` follows.

**The rate limits** (`RateAssumption`). `WindowFits`: an address has let through what
its entry has counted, up to the limit, in its window, and no more than the limit in
as long a time before the window began; `NoWindow`: an address without an entry has
let nothing through lately. Twice the limit is what two windows that touch allow, and
the two parts bound every stretch of a window's length by the two it can meet.

**Self update** (`UpdateAssumption`). `RunsFit`: the row of a run is where the run has
brought it, and no two runs are for one row. `ScriptsFit`: what a rollback copies from
exists, and is whole once a part was copied. `DiskFits`: until two scripts have been at
work together there is one at work, and the parts it has copied belong to a version
that counts as touched. A copy or a start that fails ends the script where it is. `RowsMoveForward` is the safety half of `RunsProceed`.

**Sign-in** (`SignInAssumption`). The rows of the device codes and the flights are held
together: `RowsFit` (a row with a token was stamped by the flight of its person),
`FlightsFit` (what a flight remembers of the row it came for), `SameKind`, and for the
three theorems `KeysFit` and `RolesFit` (one key; who is to be a user has seen that
there is an admin), `InvitesFit` (who holds an invite alone has nobody before him),
`TokensLast` and `CookiesFit` (a token leaves its row at its end, when it was polled,
or for another flight with the same nonce).

**The setup** (`SetupAssumption`: the null value is no choice of cores). `BehindInv`
follows the installer: the steps behind it have left what they had to, in the run that
is on its way or has just ended, with that run's cores. `BehindInv` has the rules for
sudo there or an error shown. `BootInv` says of the boot line that it has the
parameters, where the loader's file takes one, which rests on a lemma for every line
(`BootLineFacts`: after `Strip` and the parameters each is there once, as a word of its
own). `MarkerInv`: the marker is there between runs only.
`InviteInv` keeps the account behind `FewInvites`: every failure allows one invite
more, which is not spent where the next run will create one. `StepEffects` says once
what an attempt at a step, whole or half, may leave on the disk; `KeyOutlivesSetups`
is one of its conjuncts.

**Functions of the host** (`HostAssumption`). `CoresComeOutRight` and `TextComesBack`
state the run's two invariants for any input of `Inputs`, whatever the cores and
capacities. The lengths of the lists in `Inputs` are bounded for TLC, and the theorems
they follow from have no such bound: `RangesOfAnyLength` (any number of parts),
`RewrittenLine` (any boot line, its parameters within other words included), `QuotedComeBack` (any two words). Each follows a
recursive function from place to place; that there is such a function is `StepByStep`,
and the induction is `UpTheLine`, which takes a set in place of a predicate.

What the proofs changed in the models: where two guards of a `CASE` could hold at once
(the end of a flight in `SignIn`) its value was left open, so they were made disjoint;
`IpcClient` takes lines by their places; and in `HostConfig` the words of a line are
stripped and the characters of a command are split by recursive functions, the cores are
sorted by their ranks, and the boot line's property is stated by places, as the prover
knows nothing of `SelectSeq`, `FoldLeft` and `SortSeq`. The runs and their mutants
are unchanged by it.

Checked by TLC only: liveness, which is out of the prover's reach (`LockGoesRound`,
the fair half of `ImplementsJobLock`, `CapturedIsKilled`, `DrainEnds`,
`WaiterEnters`, `GateReopens`, `SetupFinishes`, `TransitEnds`, `DeathIsNoticed`,
`ServicesComeBack`, `RunsProceed`, `HookEnds`, `AnswerSettles`,
`DashboardReturns`), of `SetupFinishes` and `RunsProceed` the half that is not liveness
being proved. Every safety invariant of a passing run is stated by a theorem.

## 5. Where the code differs from what it says

Met while modelling. The first four are runs; the others are visible in the models,
whose actions do what the code does.

* `cgroup.ts`, `server.ts:246`: two jobs' processes overlap after a timeout
  (`sessions_one_job`). `killAll` is not awaited; a write to `cgroup.kill` that fails is
  logged and passed over (`cgroup.ts:127`); the containers have pids of their own
  (`runner-ctl/src/handlers.ts:139`), so that the write to `cgroup.procs` moves another
  process than the bench-exec that sent its pid, or none.
* `routes/auth.ts:91`: polling a device code deletes the row that makes its token
  valid (`signin_poll`).
* `server.ts:160`: the snapshot "when lock is granted" (`server.ts:159`) is taken for
  every acquire, also one that only queues, and never for a grant from the queue
  (`snapshot`). A core the snapshot lacks is taken from 0 (`server.ts:305`), so that
  the events since the kernel's start are reported as the job's.
* `self-update.ts:132`: the apply step ends the process that awaits it and runs again
  after the restart, where the comment (`self-update.ts:137`) has the run resume at the
  health check (`update_resumes`). How often it does depends on how often the worker is
  ended; nothing bounds it.
* `lock.ts:189`: a holder that disconnects keeps the lock until the job timeout;
  `lock.ts:37`, `SECURITY.md:64` and `README.md:396` promise a release.
* `cgroup.ts:121`: `killAll` iterates over the live Map across its awaits, so that
  a session the next job prepares meanwhile is killed too.
* `bench-gate.ts:160`: a waiter does not read the state after its await; with free
  and locked in one chunk it enters a locked gate (`bench-gate.ts:26`).
* `main.ts:77`: the timeout override goes out on an edge from free to locked only;
  a job granted from the queue, or before bench-web started, runs without it.
* `routes/status.ts:249`: a third strike disables a runner, but a heal that is under
  way marks it healing and its callback online (`planning/SECURITY-HARDENING.md:42`).
* `connection.ts:47`: after an empty line the loop goes on with the old index.
* `self-update.ts:169`: the health check asks without a token and, where that route
  wants one, never sees the new version; the row inserted for a run that is reused
  stays pending; `ensure_idle` looks at the lock before the services stop, not while.
* `bench-updater.sh:101`: the services are started one by one under `set -e`; if benchd
  fails to start, runner-ctld and bench-web are left down by the script. Nothing keeps
  two scripts from working at once (`bench-updater.sh:52`).
* `db.ts:94`: the scope of every user who has a token is raised at each start.
* `auth.ts:402`: two first callbacks can both become admin.
* `runner-ctl-client.ts:71`: neither a close handler nor a timeout; a workflow whose
  answer is lost waits for ever and holds the worker.
* `ws-status.ts:101`: a websocket that closes before its client has connected leaves
  a subscription nobody ends.
* `useWebSocket.ts:70`: an `onclose` that comes after the effect has connected anew
  nulls `wsRef` of the new websocket and arms a timer beside it: the dashboard gets a
  second websocket, which neither disabling nor unmounting closes. In the application the
  hook is enabled once per page; the effect is run anew with a websocket closing where
  React runs it twice, as its StrictMode does in development (`main.tsx:20`).
* `ws-status.ts:151`: a dashboard above the limit of its address is refused for as long
  as the others stay, and dials every three seconds meanwhile.
* `installer.ts:315`: bench leaves the group sudo also when the helper scripts and
  rules that replace it could not be written, as that error is not fatal; `enable --now`
  does not restart services that run with an older configuration.
* `installer.ts:425`: the invite is for the "first run only", but a reconfiguration
  removes the marker first; if it is cut short, the next setup counts as a first run and
  opens another one.
* `generate.ts:31`: the patterns of `stripBenchParams` are not anchored to words:
  `mitigations=auto,nosmt` becomes `mitigations=auto,`, and of `nosmt=force` the `=force`
  is left, glued to the word before. Where what is left makes a parameter of a word
  (`isolcpus nosmt=1` becomes `isolcpus=1`), it is there beside the one that is written:
  the model's pieces do not recombine.
* `generate.ts:57`: a GRUB file without a `GRUB_CMDLINE_LINUX_DEFAULT` line is left
  without the parameters, and the step is reported done; where there is one, it keeps
  `quiet` and the code's own parameters only. `generate.ts:94` pins benchd to core 0
  whatever the housekeeping core is.
* `split-command.ts:15`: an empty quoted argument vanishes.

## 6. Not modelled

* Reading `/proc` and `/sys`, perf counters, affinity and system calls: sequential
  input and output without state that others see.
* The dashboard's pages, the CLI and the landing page: rendering and thin commands
  over the HTTP API whose state is in the modules above. The one hook that has a
  life of its own, `useWebSocket`, is in `WsStatus`.
* Image builds, benchmark workloads and development mocks: none runs on an installed
  machine's control path.
* Ciphers and the migrations that add columns; the socket set-up and the shutdown of
  the daemons; empty or malformed lines, which neither side writes.
* The loss of the connection between bench-web's gate client and benchd, which the
  code does not handle: the gate keeps the state it had.
* Durations. A timer may fire as soon as it is armed, except in `ThermalMonitor`
  and `RateLimit`, which count polls and ticks.
