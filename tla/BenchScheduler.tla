--------------------------- MODULE BenchScheduler ---------------------------
(***************************************************************************)
(* The periodic tasks bench-web defers while a benchmark runs (health      *)
(* check, update check, purges): class BenchScheduler of                   *)
(* packages/web/src/bench-scheduler.ts on top of the gate.  The scheduler  *)
(* listens to the gate's stateChange event, which the gate emits inside    *)
(* its own synchronous step.  A task is registered once, as main.ts does.  *)
(***************************************************************************)
EXTENDS BenchGate

CONSTANT Tasks   \* names of the tasks main.ts registers

VARIABLES
  tasks,     \* names in _tasks
  timer,     \* tasks whose entry.timer is not null
  armed,     \* [Tasks -> setTimeouts armed for the task]
  running,   \* tasks whose fn is awaited (entry.running)
  retired,   \* history: tasks unregistered or disposed of
  disposed   \* _disposed

taskVars == <<tasks, timer, armed, running, retired, disposed>>
schedulerVars == <<gateVars, taskVars>>

SchedulerTypeOK ==
  /\ GateTypeOK
  /\ tasks \subseteq Tasks
  /\ timer \subseteq Tasks
  /\ armed \in [Tasks -> Nat]
  /\ running \subseteq Tasks
  /\ retired \subseteq Tasks
  /\ disposed \in BOOLEAN

SchedulerInit ==
  /\ GateInit
  /\ tasks = {}
  /\ timer = {}
  /\ armed = [t \in Tasks |-> 0]
  /\ running = {}
  /\ retired = {}
  /\ disposed = FALSE

-----------------------------------------------------------------------------
\* _scheduleNext for the tasks of S: the handle is overwritten.
ScheduleNext(S) ==
  /\ timer' = timer \cup S
  /\ armed' = [t \in Tasks |-> IF t \in S THEN armed[t] + 1 ELSE armed[t]]

\* Fault: timers are cleared whether or not there is a handle.
ClearAnyTimers(S) ==
  /\ timer' = timer \ S
  /\ armed' = [t \in Tasks |-> IF t \in S THEN armed[t] - 1 ELSE armed[t]]

\* clearTimeout of the handles that the tasks of S have.
ClearTimers(S) ==
  /\ timer' = timer \ S
  /\ armed' = [t \in Tasks |-> IF t \in S \cap timer THEN armed[t] - 1 ELSE armed[t]]

\* Faults: tasks that run are scheduled too; nothing is scheduled.
ResumeRunning == ScheduleNext(tasks \ timer)
ResumeNone == UNCHANGED <<timer, armed>>

\* _resumeAll: every task that neither has a timer nor runs.
ResumeAll == ScheduleNext(tasks \ (timer \cup running))

\* Fault: the timers go on.
PauseNone == UNCHANGED <<timer, armed>>

\* _pauseAll.
PauseAll == ClearTimers(tasks)

\* The listener of the gate's stateChange, for a step of the gate.
OnStateChange ==
  /\ IF disposed \/ state' = state
     THEN UNCHANGED <<timer, armed>>
     ELSE \/ state' = "open" /\ ResumeAll
          \/ state' # "open" /\ PauseAll
  /\ UNCHANGED <<tasks, running, retired, disposed>>

\* register: the first timer is armed only while the gate is open.
Register(t) ==
  /\ ~disposed
  /\ t \notin tasks \cup retired
  /\ tasks' = tasks \cup {t}
  /\ IF state = "open" THEN ScheduleNext({t}) ELSE UNCHANGED <<timer, armed>>
  /\ UNCHANGED <<running, retired, disposed>>

\* unregister: a run that is under way goes on.
Unregister(t) ==
  /\ t \in tasks
  /\ ClearTimers({t})
  /\ tasks' = tasks \ {t}
  /\ retired' = retired \cup {t}
  /\ UNCHANGED <<running, disposed>>

\* dispose.
Dispose ==
  /\ ~disposed
  /\ ClearTimers(tasks)
  /\ tasks' = {}
  /\ retired' = retired \cup tasks
  /\ disposed' = TRUE
  /\ UNCHANGED running

\* A timer fires: the task runs if the gate is open and it does not run yet.
TaskFires(t) ==
  /\ armed[t] > 0
  /\ armed' = [armed EXCEPT ![t] = @ - 1]
  /\ timer' = timer \ {t}
  /\ running' = IF state = "open" THEN running \cup {t} ELSE running
  /\ UNCHANGED <<tasks, retired, disposed>>

\* The awaited fn settles, whatever its outcome: the task is scheduled again if
\* it is still registered and the gate is open at that moment.
TaskSettles(t) ==
  /\ t \in running
  /\ running' = running \ {t}
  /\ IF t \in tasks /\ state = "open" /\ ~disposed
     THEN ScheduleNext({t})
     ELSE UNCHANGED <<timer, armed>>
  /\ UNCHANGED <<tasks, retired, disposed>>

\* A step of the scheduler alone is an event (a timer) or a microtask.
TaskStep ==
  \/ \E t \in Tasks : Register(t) \/ Unregister(t) \/ TaskSettles(t)
  \/ \E t \in Tasks : Macrotask /\ TaskFires(t)
  \/ Dispose

SchedulerNext ==
  \/ GateNext /\ OnStateChange
  \/ TaskStep /\ sync' = FALSE
     /\ UNCHANGED <<state, gatePromise, closes, opened, batched, drainVars, opVars>>

SchedulerSpec == SchedulerInit /\ [][SchedulerNext]_schedulerVars

\* The fairness of the gate (GateFairSpec), with the listener in each step.
SchedulerFairSpec ==
  /\ SchedulerSpec
  /\ \A o \in Ops : WF_schedulerVars(ResumeEnter(o) /\ OnStateChange)
  /\ WF_schedulerVars(HardDeadline /\ OnStateChange)

-----------------------------------------------------------------------------
(* Safety.                                                                 *)

\* A task has one chain of timers: the handle is the only timer armed, and a
\* task that runs has none, however the gate closes and opens under it.
OneChain ==
  /\ \A t \in Tasks : armed[t] = IF t \in timer THEN 1 ELSE 0
  /\ timer \cap running = {}
  /\ timer \subseteq tasks

\* No task starves: while the gate is open every registered task has a timer or
\* runs, and a run that outlives a closing is picked up again.
NoTaskStarves == state = "open" => tasks \subseteq timer \cup running

\* No task can start while the gate is not open: its timers are all cleared.
PausedWhileClosed == state # "open" => \A t \in Tasks : armed[t] = 0

\* Every task keeps exactly one chain of runs: never two, never none while the
\* gate is open, and never a start while it is not.
TasksOnSchedule == SchedulerTypeOK /\ OneChain /\ NoTaskStarves /\ PausedWhileClosed
=============================================================================
