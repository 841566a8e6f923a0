------------------------------ MODULE SelfUpdate ------------------------------
(***************************************************************************)
(* Self update of the appliance: the checks for a release, the rows of the *)
(* updates table, the durable workflow, and the script bench-updater that  *)
(* stops the services, bench-web included, replaces their files and starts *)
(* them again.  Runs of OpenWorkflow are as in RunnerLifecycle.            *)
(*                                                                         *)
(* systemd is external: stopping bench-web ends the process that executes  *)
(* the workflow, and the scripts it has started with it unless sudo has    *)
(* moved them to a group of their own.  Where bench-web was started by     *)
(* hand (not "supervised") stopping the unit ends nothing.                 *)
(***************************************************************************)
EXTENDS Naturals, Sequences, SequencesExt, FiniteSets, FiniteSetsExt

CONSTANTS
  MaxVersion,      \* bound: releases ever published
  MaxRows,         \* bound: rows of the updates table
  MaxChecks,       \* bound: checkForUpdate calls in flight
  MaxCrashes,      \* bound: deaths of bench-web and losses of power
  MaxRollbacks,    \* bound: rollbacks an admin asks for
  MaxTries,        \* maximumAttempts, 3 in the code
  MaxLooks,        \* checks for idleness, 30 in the code
  MaxHealth,       \* health checks per apply, 3 in the code
  OpenStatus       \* versions whose GET /update/status needs no token

ASSUME UpdateAssumption ==
  /\ MaxVersion \in Nat \ {0} /\ MaxRows \in Nat /\ MaxChecks \in Nat
  /\ MaxCrashes \in Nat /\ MaxRollbacks \in Nat
  /\ MaxTries \in Nat \ {0} /\ MaxLooks \in Nat \ {0} /\ MaxHealth \in Nat \ {0}
  /\ OpenStatus \subseteq 1..MaxVersion

VARIABLES
  latest,       \* the latest release
  checks,       \* checkForUpdate calls: 0 until GitHub has answered, or the version
  rows,         \* the updates table
  runs,         \* workflow runs, one per version
  worker,       \* the run the worker executes, 0 for none
  scripts,      \* instances of bench-updater
  files,        \* the version of each part that is installed
  versionFile,
  backups,      \* rollback-<version> directories: what was copied to them
  up,           \* the services that run
  webVersion,   \* NORON_VERSION of the bench-web that runs
  held,         \* a job holds benchd's lock
  supervised,   \* bench-web runs as its unit
  budget,       \* crashes and admin rollbacks so far
  touched,      \* history: versions of files copied, and not to the end
  broken,       \* history: a script that stopped the services was cut short, or could
                \* not start one of them, and they have not all been up since
  clash         \* history: two scripts were at work together

updateVars == <<latest, checks, rows, runs, worker, scripts, files, versionFile, backups,
                up, webVersion, held, supervised, budget, touched, broken, clash>>
diskVars == <<files, versionFile, backups, touched, broken, clash>>
hostVars == <<up, webVersion, held>>

Versions == 1..MaxVersion
\* Two parts stand for the files; install_from_source copies them in this order.
Installed == <<"benchd", "web">>
Services == {"web", "ctld", "benchd"}
NoBackup == [version |-> 0, parts |-> <<>>]
EmptyBackup == [version |-> 0, parts |-> [p \in 1..Len(Installed) |-> 0]]

States == {"pending", "downloading", "applying", "completed", "rolled_back"}
Active == {"pending", "downloading", "applying"}
Run == [row : Nat \ {0}, version : Versions,
        pc : {"mark", "download", "idle", "backup", "apply", "verify", "rollback",
              "markback", "rebuild", "complete", "done"},
        ran : BOOLEAN, asked : BOOLEAN, looks : 0..(MaxLooks + MaxHealth),
        attempt : 0..1, applied : 0..2, tries : 0..(MaxTries - 1)]
Script == [cmd : {"backup", "apply", "rollback"}, src : 0..MaxVersion, run : Nat,
           pc : {"begin", "copy", "stop", "stopRest", "install", "start", "startCtld", "startWeb"},
           part : 1..(Len(Installed) + 1), heard : BOOLEAN]

UpdateTypeOK ==
  /\ latest \in Versions
  /\ checks \in Seq(0..MaxVersion) /\ Len(checks) <= MaxChecks
  /\ rows \in Seq([version : Versions, state : States]) /\ Len(rows) <= MaxRows
  /\ runs \in Seq(Run) /\ worker \in 0..Len(runs)
  /\ scripts \in Seq(Script)
  /\ files \in [1..Len(Installed) -> Versions] /\ versionFile \in Versions
  /\ backups \in [Versions -> [version : Versions, parts : [1..Len(Installed) -> Versions]]
                               \cup {NoBackup, EmptyBackup}]
  /\ up \subseteq Services /\ webVersion \in Versions /\ held \in BOOLEAN
  /\ supervised \in BOOLEAN
  /\ budget \in [crashes : 0..MaxCrashes, rollbacks : 0..MaxRollbacks]
  /\ touched \subseteq Versions /\ broken \in BOOLEAN /\ clash \in BOOLEAN

UpdateInit ==
  /\ latest = 1 /\ checks = <<>> /\ rows = <<>> /\ runs = <<>> /\ worker = 0
  /\ scripts = <<>> /\ files = [p \in 1..Len(Installed) |-> 1] /\ versionFile = 1
  /\ backups = [v \in Versions |-> NoBackup]
  /\ up = Services /\ webVersion = 1 /\ held = FALSE /\ supervised \in BOOLEAN
  /\ budget = [crashes |-> 0, rollbacks |-> 0]
  /\ touched = {} /\ broken = FALSE /\ clash = FALSE

-----------------------------------------------------------------------------
(* checkForUpdate: called by the scheduler, POST /update/check and         *)
(* POST /update/apply.                                                     *)

PublishRelease ==
  /\ latest < MaxVersion
  /\ latest' = latest + 1
  /\ UNCHANGED <<checks, rows, runs, worker, scripts, diskVars, hostVars, supervised, budget>>

BeginCheck ==
  /\ "web" \in up
  /\ Len(checks) < MaxChecks
  /\ \A i \in DOMAIN rows : rows[i].state \notin Active
  /\ checks' = Append(checks, 0)
  /\ UNCHANGED <<latest, rows, runs, worker, scripts, diskVars, hostVars, supervised, budget>>

\* GitHub answers; the call ends when there is no newer release, an asset is
\* missing or a request fails.
HearRelease(i) ==
  /\ checks[i] = 0
  /\ \/ latest > webVersion /\ checks' = [checks EXCEPT ![i] = latest]
     \/ checks' = RemoveAt(checks, i)
  /\ UNCHANGED <<latest, rows, runs, worker, scripts, diskVars, hostVars, supervised, budget>>

NewRun(row, version) ==
  [row |-> row, version |-> version, pc |-> "mark", ran |-> FALSE, asked |-> FALSE,
   looks |-> 0, attempt |-> 0, applied |-> 0, tries |-> 0]

\* The key update:<version> finds the run of an earlier row.
StartSelfUpdate(row, version) ==
  runs' = IF \E r \in DOMAIN runs : runs[r].version = version THEN runs
          ELSE Append(runs, NewRun(row, version))

\* The row is inserted, the workflow started; if that fails the row stays.
RecordUpdate(i) ==
  /\ checks[i] # 0
  /\ Len(rows) < MaxRows
  /\ rows' = Append(rows, [version |-> checks[i], state |-> "pending"])
  /\ checks' = RemoveAt(checks, i)
  /\ StartSelfUpdate(Len(rows) + 1, checks[i]) \/ UNCHANGED runs
  /\ UNCHANGED <<latest, worker, scripts, diskVars, hostVars, supervised, budget>>

CheckStep == BeginCheck \/ \E i \in DOMAIN checks : HearRelease(i) \/ RecordUpdate(i)

-----------------------------------------------------------------------------
(* The workflow.                                                           *)

workerRest == <<latest, checks, diskVars, hostVars, supervised, budget>>

Works(r) == "web" \in up /\ worker \in {0, r} /\ runs[r].pc # "done"

SetState(r, state) == rows' = [rows EXCEPT ![runs[r].row].state = state]

\* Fault: one try too many.
FailsOnceMore(r) ==
  /\ worker' = 0
  /\ runs' = [runs EXCEPT ![r] =
                IF @.tries = MaxTries
                THEN [@ EXCEPT !.pc = "done", !.asked = FALSE, !.ran = FALSE]
                ELSE [@ EXCEPT !.tries = @ + 1, !.asked = FALSE]]

\* The function throws; nothing marks the row.
Retried(run) ==
  IF run.tries + 1 = MaxTries
  THEN [run EXCEPT !.pc = "done", !.asked = FALSE, !.ran = FALSE]
  ELSE [run EXCEPT !.tries = run.tries + 1, !.asked = FALSE]

Fails(r) == worker' = 0 /\ runs' = [runs EXCEPT ![r] = Retried(@)]

\* The next step, executed by the same worker.
GoOn(r, pc) ==
  /\ runs' = [runs EXCEPT ![r].pc = pc, ![r].looks = 0]
  /\ worker' = IF pc = "done" THEN 0 ELSE r

\* A sleep, after which the run looks again.
LookAgain(r) ==
  /\ runs' = [runs EXCEPT ![r].looks = @ + 1]
  /\ worker' = 0

\* Fault: mark-downloading is not remembered, a replay marks the row again.
MarkReplayed(r) ==
  \/ runs[r].pc = "mark" /\ SetState(r, "downloading") /\ GoOn(r, "download")
  \/ /\ runs[r].pc # "mark" /\ runs[r].tries > 0 /\ rows[runs[r].row].state = "applying"
     /\ SetState(r, "downloading") /\ UNCHANGED <<runs, worker>>

MarkDownloading(r) ==
  /\ runs[r].pc = "mark"
  /\ SetState(r, "downloading")
  /\ GoOn(r, "download")

\* download-archive with its checks of size and hash.
Download(r) ==
  /\ runs[r].pc = "download"
  /\ GoOn(r, "idle") \/ Fails(r)
  /\ UNCHANGED rows

\* check-idle-i: a benchd that is down counts as idle, and so does, after the
\* last check, one that is busy.
CheckIdle(r) ==
  /\ runs[r].pc = "idle"
  /\ IF ("benchd" \in up /\ held) /\ runs[r].looks + 1 < MaxLooks
     THEN LookAgain(r)
     ELSE GoOn(r, "backup")
  /\ UNCHANGED rows

\* verify-health: version file, benchd, runner-ctld, then GET /update/status
\* without a token.  Services that came up wrong fail it too.
Healthy(r) ==
  /\ versionFile = runs[r].version
  /\ {"benchd", "ctld"} \subseteq up
  /\ webVersion \in OpenStatus

\* Fault: the run applies again for as long as it is not healthy.
RetryForever(r) ==
  /\ runs[r].pc = "verify"
  /\ \/ Healthy(r) /\ GoOn(r, "rebuild")
     \/ /\ runs' = [runs EXCEPT ![r].pc = "apply", ![r].looks = 0]
        /\ worker' = 0
  /\ UNCHANGED rows

\* An apply that did not come up is tried once more, then undone.
Unhealthy(run) ==
  [run EXCEPT !.looks = 0, !.attempt = 1,
              !.pc = IF run.attempt = 0 THEN "apply" ELSE "rollback"]

VerifyHealth(r) ==
  /\ runs[r].pc = "verify"
  /\ \/ Healthy(r) /\ GoOn(r, "rebuild")
     \/ IF runs[r].looks + 1 < MaxHealth THEN LookAgain(r)
        ELSE runs' = [runs EXCEPT ![r] = Unhealthy(@)] /\ worker' = 0
  /\ UNCHANGED rows

\* rebuild-runner-image and reprovision-runners: what fails is logged.
Rebuild(r) == runs[r].pc = "rebuild" /\ GoOn(r, "complete") /\ UNCHANGED rows

MarkEnd(r) ==
  /\ runs[r].pc \in {"markback", "complete"}
  /\ SetState(r, IF runs[r].pc = "complete" THEN "completed" ELSE "rolled_back")
  /\ GoOn(r, "done")

\* backup-current, apply-update-i and rollback run the script and wait for it.
RunUpdater(r) ==
  /\ runs[r].pc \in {"backup", "apply", "rollback"}
  /\ ~runs[r].asked /\ ~runs[r].ran
  /\ worker' = r
  /\ IF runs[r].pc = "backup" THEN SetState(r, "applying") ELSE UNCHANGED rows
  /\ scripts' = Append(scripts, [cmd |-> runs[r].pc, run |-> r, pc |-> "begin", part |-> 1,
                                 src |-> IF runs[r].pc = "apply" THEN runs[r].version ELSE 0,
                                 heard |-> TRUE])
  /\ runs' = [runs EXCEPT ![r].asked = TRUE]

\* The script's result is stored.  A sleep follows an apply.
Follows(pc) ==
  CASE pc = "backup" -> "apply" [] pc = "apply" -> "verify" [] pc = "rollback" -> "markback"

Memoize(r) ==
  /\ worker = r /\ runs[r].ran
  /\ runs' = [runs EXCEPT ![r].ran = FALSE, ![r].pc = Follows(@)]
  /\ worker' = IF runs[r].pc = "apply" THEN 0 ELSE r
  /\ UNCHANGED rows

WorkflowStep ==
  \E r \in DOMAIN runs :
     /\ Works(r)
     /\ \/ /\ \/ MarkDownloading(r) \/ Download(r) \/ CheckIdle(r) \/ VerifyHealth(r)
              \/ Rebuild(r) \/ MarkEnd(r) \/ Memoize(r)
           /\ UNCHANGED scripts
        \/ RunUpdater(r)
     /\ UNCHANGED workerRest

-----------------------------------------------------------------------------
(* bench-updater.                                                          *)

\* The script ends, and the run that waits for it gets its result, if it still
\* does.  A rollback that failed is only logged.
Exit(i, ok) ==
  LET s == scripts[i] IN
  /\ scripts' = RemoveAt(scripts, i)
  /\ IF ~s.heard THEN UNCHANGED <<runs, worker>>
     ELSE IF ok \/ s.cmd = "rollback"
     THEN /\ runs' = [runs EXCEPT ![s.run].ran = TRUE, ![s.run].asked = FALSE]
          /\ UNCHANGED worker
     ELSE Fails(s.run)

\* POST /update/rollback: refused without a backup, otherwise nobody waits whom
\* the model follows.
AdminRollback ==
  /\ "web" \in up /\ budget.rollbacks < MaxRollbacks
  /\ \E v \in Versions : backups[v] # NoBackup
  /\ budget' = [budget EXCEPT !.rollbacks = @ + 1]
  /\ scripts' = Append(scripts, [cmd |-> "rollback", run |-> 0, pc |-> "begin", part |-> 1,
                                 src |-> 0, heard |-> FALSE])
  /\ UNCHANGED <<latest, checks, rows, runs, worker, diskVars, hostVars, supervised>>

AtWork == {j \in DOMAIN scripts : scripts[j].pc # "begin"}

\* cmd_backup refuses a directory that exists, then creates it,
BackupBegins(i) ==
  /\ scripts[i].cmd = "backup" /\ scripts[i].pc = "begin"
  /\ IF backups[versionFile] # NoBackup
     THEN Exit(i, FALSE) /\ UNCHANGED backups
     ELSE /\ scripts' = [scripts EXCEPT ![i].pc = "copy", ![i].src = versionFile]
          /\ backups' = [backups EXCEPT ![versionFile] = EmptyBackup]
          /\ UNCHANGED <<runs, worker>>
  /\ clash' = (clash \/ AtWork # {})
  /\ UNCHANGED <<files, versionFile, touched, broken, hostVars>>

\* and copies what is installed.
BackupCopies(i) ==
  /\ scripts[i].pc = "copy"
  /\ \/ /\ backups' = [backups EXCEPT ![scripts[i].src] =
                          [version |-> versionFile, parts |-> files]]
        /\ Exit(i, TRUE)
     \/ UNCHANGED backups /\ Exit(i, FALSE)
  /\ UNCHANGED <<files, versionFile, touched, broken, clash, hostVars>>

\* cmd_rollback takes the highest version that has a directory.
RollbackDirs == {v \in Versions : backups[v] # NoBackup}
Source(s) == IF s.cmd = "apply" THEN s.src ELSE Max(RollbackDirs)

\* ensure_idle: the script ends when a job holds the lock.
EnsureIdle(i) ==
  /\ scripts[i].cmd # "backup" /\ scripts[i].pc = "begin"
  /\ IF \/ "benchd" \in up /\ held
        \/ scripts[i].cmd = "rollback" /\ RollbackDirs = {}
     THEN Exit(i, FALSE) /\ UNCHANGED clash
     ELSE /\ scripts' = [scripts EXCEPT ![i].pc = "stop", ![i].src = Source(scripts[i])]
          /\ clash' = (clash \/ AtWork # {})
          /\ UNCHANGED <<runs, worker>>
  /\ UNCHANGED <<files, versionFile, backups, touched, broken, hostVars>>

\* What a process of bench-web that ends takes with it.
Forgotten == [r \in DOMAIN runs |-> [runs[r] EXCEPT !.ran = FALSE, !.asked = FALSE]]
Unheard(ss) == [i \in DOMAIN ss |-> [ss[i] EXCEPT !.heard = FALSE]]

WebEnds == runs' = Forgotten /\ worker' = 0 /\ checks' = <<>>

\* stop_service bench-web.
StopWeb(i) ==
  LET stopping == [scripts EXCEPT ![i].pc = "stopRest"] IN
  /\ scripts[i].pc = "stop"
  /\ IF supervised
     THEN /\ up' = up \ {"web"}
          /\ WebEnds
          /\ \/ scripts' = Unheard(stopping) /\ UNCHANGED broken
             \/ scripts' = <<>> /\ broken' = TRUE
     ELSE scripts' = stopping /\ UNCHANGED <<up, runs, worker, checks, broken>>
  /\ UNCHANGED <<files, versionFile, backups, touched, clash, webVersion, held>>

\* Then runner-ctld and benchd, whose lock is gone with it.
StopRest(i) ==
  /\ scripts[i].pc = "stopRest"
  /\ scripts' = [scripts EXCEPT ![i].pc = "install"]
  /\ up' = up \ {"ctld", "benchd"}
  /\ held' = FALSE
  /\ UNCHANGED <<runs, worker, diskVars, webVersion>>

\* An archive has all parts, a directory of a backup what was copied.
PartOf(s) == IF s.cmd = "apply" THEN s.src ELSE backups[s.src].parts[s.part]
VersionOf(s) == IF s.cmd = "apply" THEN s.src ELSE backups[s.src].version

\* Fault: the version file is written before the files.
VersionFirst(i) ==
  /\ scripts[i].pc = "install" /\ scripts[i].part <= Len(Installed)
  /\ PartOf(scripts[i]) # 0
  /\ files' = [files EXCEPT ![scripts[i].part] = PartOf(scripts[i])]
  /\ scripts' = [scripts EXCEPT ![i].part = @ + 1]
  /\ versionFile' = VersionOf(scripts[i])
  /\ touched' = touched \cup {PartOf(scripts[i])}
  /\ UNCHANGED <<runs, worker, backups, broken, clash, hostVars>>

\* install_from_source copies the parts,
CopyPart(i) ==
  /\ scripts[i].pc = "install" /\ scripts[i].part <= Len(Installed)
  /\ PartOf(scripts[i]) # 0
  /\ files' = [files EXCEPT ![scripts[i].part] = PartOf(scripts[i])]
  /\ scripts' = [scripts EXCEPT ![i].part = @ + 1]
  /\ touched' = touched \cup {PartOf(scripts[i])}
  /\ UNCHANGED <<runs, worker, versionFile, backups, broken, clash, hostVars>>

\* the version file at last,
WriteVersion(i) ==
  /\ scripts[i].pc = "install" /\ scripts[i].part > Len(Installed)
  /\ versionFile' = VersionOf(scripts[i])
  /\ scripts' = [scripts EXCEPT ![i].pc = "start"]
  /\ touched' = touched \ {VersionOf(scripts[i])}
  /\ UNCHANGED <<runs, worker, files, backups, broken, clash, hostVars>>

\* or ends at a file that is missing or does not fit: services stay down.
InstallFails(i) ==
  /\ scripts[i].pc = "install"
  /\ broken' = TRUE
  /\ Exit(i, FALSE)
  /\ UNCHANGED <<files, versionFile, backups, touched, clash, hostVars>>

\* What the end of a script is to the run it was for.
Served(run, s) ==
  [run EXCEPT !.applied = IF s.cmd # "apply" \/ run.applied = 2 THEN @ ELSE @ + 1,
              !.ran = run.ran \/ s.heard,
              !.asked = run.asked /\ ~s.heard]

\* start_services, one systemctl start after the other.
StartBenchd(i) ==
  /\ scripts[i].pc = "start"
  /\ up' = up \cup {"benchd"}
  /\ scripts' = [scripts EXCEPT ![i].pc = "startCtld"]
  /\ UNCHANGED <<runs, worker, diskVars, webVersion, held>>

\* Fault: runner-ctld is not started again.
ForgetCtld(i) ==
  /\ scripts[i].pc = "startCtld"
  /\ scripts' = [scripts EXCEPT ![i].pc = "startWeb"]
  /\ UNCHANGED <<runs, worker, diskVars, up, webVersion, held>>

StartCtld(i) ==
  /\ scripts[i].pc = "startCtld"
  /\ up' = up \cup {"ctld"}
  /\ scripts' = [scripts EXCEPT ![i].pc = "startWeb"]
  /\ UNCHANGED <<runs, worker, diskVars, webVersion, held>>

\* A bench-web that was stopped starts with the files of now; the script ends.
StartWeb(i) ==
  LET s == scripts[i] IN
  /\ s.pc = "startWeb"
  /\ up' = up \cup {"web"}
  /\ webVersion' = IF "web" \in up THEN webVersion ELSE files[2]
  /\ broken' = (broken /\ up' # Services)
  /\ scripts' = RemoveAt(scripts, i)
  /\ runs' = [r \in DOMAIN runs |-> IF r = s.run THEN Served(runs[r], s) ELSE runs[r]]
  /\ UNCHANGED <<worker, files, versionFile, backups, touched, clash, held>>

\* Under set -e a start that fails ends the script: the services after it stay down.
StartFails(i) ==
  /\ scripts[i].pc \in {"start", "startCtld", "startWeb"}
  /\ broken' = TRUE
  /\ Exit(i, FALSE)
  /\ UNCHANGED <<files, versionFile, backups, touched, clash, hostVars>>

ScriptStep(i) ==
  /\ \/ StopWeb(i)
     \/ /\ \/ BackupBegins(i) \/ BackupCopies(i) \/ EnsureIdle(i) \/ StopRest(i)
           \/ CopyPart(i) \/ WriteVersion(i) \/ InstallFails(i)
           \/ StartBenchd(i) \/ StartCtld(i) \/ StartWeb(i) \/ StartFails(i)
        /\ UNCHANGED checks
  /\ UNCHANGED <<latest, rows, supervised, budget>>

OldestScript == scripts # <<>> /\ ScriptStep(1)

-----------------------------------------------------------------------------
(* The lock, and what dies.                                                *)

JobHolds ==
  /\ "benchd" \in up
  /\ held' = ~held
  /\ UNCHANGED <<latest, checks, rows, runs, worker, scripts, diskVars, up, webVersion,
                 supervised, budget>>

\* bench-web dies and is restarted on failure.  Its scripts go on or not.
WebDies ==
  /\ budget.crashes < MaxCrashes /\ "web" \in up
  /\ budget' = [budget EXCEPT !.crashes = @ + 1]
  /\ WebEnds
  /\ webVersion' = files[2]
  /\ \/ scripts' = Unheard(scripts) /\ UNCHANGED broken
     \/ /\ scripts' = <<>>
        /\ broken' = (broken \/ \E i \in DOMAIN scripts : scripts[i].pc \notin {"begin", "copy"})
  /\ UNCHANGED <<latest, rows, files, versionFile, backups, touched, clash, up, held, supervised>>

\* After a loss of power every service starts with what is on the disk.
PowerLoss ==
  /\ budget.crashes < MaxCrashes
  /\ budget' = [budget EXCEPT !.crashes = @ + 1]
  /\ WebEnds
  /\ up' = Services /\ webVersion' = files[2] /\ held' = FALSE
  /\ scripts' = <<>> /\ broken' = FALSE
  /\ UNCHANGED <<latest, rows, files, versionFile, backups, touched, clash, supervised>>

UpdateNext ==
  \/ PublishRelease \/ CheckStep \/ WorkflowStep
  \/ \E i \in DOMAIN scripts : ScriptStep(i)
  \/ AdminRollback \/ JobHolds \/ WebDies \/ PowerLoss

UpdateSpec == UpdateInit /\ [][UpdateNext]_updateVars

\* A script goes on to its end: the oldest does, then the one after it.
UpdateFairSpec ==
  UpdateSpec /\ WF_updateVars(WorkflowStep) /\ WF_updateVars(OldestScript)

-----------------------------------------------------------------------------
(* Safety.                                                                 *)

\* Whatever is cut short, a file that is installed is of the version the
\* version file names or of one whose copying has not come to its end: an
\* installation is named only when it is whole.  Two scripts at work together,
\* which nothing prevents, are the exception.
FilesMatchVersion ==
  clash \/ \A p \in DOMAIN files : files[p] \in {versionFile} \cup touched

Rank(state) == CASE state = "pending" -> 0 [] state = "downloading" -> 1
                 [] state = "applying" -> 2 [] OTHER -> 3

\* A row never goes back and an ended one never changes, however often the run
\* is replayed.
StatesMoveForward ==
  [][\A i \in DOMAIN rows :
        rows'[i] # rows[i] => Rank(rows'[i].state) > Rank(rows[i].state)]_updateVars

-----------------------------------------------------------------------------
(* Liveness.                                                               *)

\* Every service a script stops is started again, however many scripts, crashes
\* and runs follow each other or overlap, unless a script is killed with
\* bench-web, finds a file that does not fit, or a start fails: then what is down
\* stays down.
ServicesComeBack == \A s \in Services : (s \notin up) ~> (s \in up \/ broken)

\* A run has applied its release more often than its loop of two attempts says.
AppliedAgain(run) == run.applied > run.attempt + 1

\* A run ends, as there are bounds on its tries, its checks and its applies.  On
\* a host where stopping bench-web ends the worker that waits for the script, it
\* may instead apply its release over again, or the host is left broken.
RunsEnd ==
  (\E r \in DOMAIN runs : runs[r].pc # "done")
    ~> \/ \A r \in DOMAIN runs : runs[r].pc = "done"
       \/ supervised /\ (broken \/ \E r \in DOMAIN runs : AppliedAgain(runs[r]))

\* "After this, bench-web restarts and the workflow resumes at health check"
\* (self-update.ts:137): an apply that came to its end is not repeated.
ResumesAtHealthCheck == \A r \in DOMAIN runs : ~AppliedAgain(runs[r])

\* The rows, the runs, the scripts and the files have their types, and what is
\* installed is what the version file says.
UpdateIsSound == UpdateTypeOK /\ FilesMatchVersion

\* A run goes forward, row by row, and comes to its end.
RunsProceed == StatesMoveForward /\ RunsEnd
=============================================================================
