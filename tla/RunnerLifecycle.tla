--------------------------- MODULE RunnerLifecycle ---------------------------
(***************************************************************************)
(* One runner of one repository: its row in the database of bench-web, the *)
(* durable workflows that provision, heal and remove it, the handlers of   *)
(* runner-ctld, the container, and what else writes to the row: routes,    *)
(* the registration callback, the health check and the strikes.            *)
(*                                                                         *)
(* OpenWorkflow is external.  A run is replayed from its first step with   *)
(* the results of finished steps memoized; a step whose result was not     *)
(* stored when the process died runs again; a run whose function throws is *)
(* tried again up to maximumAttempts.  The worker runs one at a time; a    *)
(* sleeping run and one in backoff leave it free.                          *)
(***************************************************************************)
EXTENDS Naturals, Sequences, SequencesExt

CONSTANTS
  MaxGens,      \* bound: rows ever created for the repository
  MaxRuns,      \* bound: workflow runs
  MaxCrashes,   \* bound: deaths of bench-web and of runner-ctld
  MaxTries,     \* maximumAttempts of the workflows, 5 in the code
  MaxChecks     \* iterations of the sleep/check loop, 3 in the code

ASSUME RunnerAssumption ==
  /\ MaxGens \in Nat /\ MaxRuns \in Nat /\ MaxCrashes \in Nat
  /\ MaxTries \in Nat \ {0} /\ MaxChecks \in Nat \ {0}

VARIABLES
  row,         \* the row of the repository, or NoRow
  gens,        \* rows created so far; a row's id is its number
  tokens,      \* callback tokens drawn so far
  spent,       \* history: tokens the callback has accepted
  runs,        \* workflow runs in the order they were created
  worker,      \* the run the worker executes, 0 for none
  ctl,         \* requests runner-ctld is handling
  envfile,     \* <name>.env: the row and token to call back with, or NoEnv
  container,   \* the container bench-<name>, or NoContainer
  calls,       \* callbacks on their way from containers
  check,       \* what checkRunners is about to act on, or NoCheck
  posting,     \* the row of the POST that awaits startProvisionWorkflow, or 0
  crashes

runnerVars == <<row, gens, tokens, spent, runs, worker, ctl, envfile, container,
                calls, check, posting, crashes>>
netVars == <<ctl, envfile, container, calls>>
outerVars == <<check, posting>>

NoRow == [gen |-> 0]
NoEnv == [gen |-> 0, token |-> 0]
NoContainer == [state |-> "none"]
NoCheck == [gen |-> 0, seen |-> "idle"]

Status == {"pending", "provisioning", "healing", "online", "offline", "failed",
           "disabled", "removing"}
Row == [gen : Nat \ {0}, status : Status, token : Nat]
Credential == [gen : Nat, token : Nat]
Run == [kind : {"provision", "heal", "deprovision"}, gen : Nat \ {0},
        pc : {"mark", "token", "container", "check", "github", "delete", "done"},
        ran : BOOLEAN, asked : BOOLEAN, token : Nat, checks : 0..MaxChecks,
        sawFailure : BOOLEAN, tries : 0..(MaxTries - 1)]
Handler == [kind : {"provision", "deprovision"}, pc : {"stop", "run", "unlink"},
            heard : BOOLEAN]

RunnerTypeOK ==
  /\ row \in Row \cup {NoRow}
  /\ gens \in Nat /\ row.gen <= gens
  /\ tokens \in Nat
  /\ spent \subseteq 1..tokens
  /\ runs \in Seq(Run)
  /\ worker \in 0..Len(runs)
  /\ ctl \in Seq(Handler)
  /\ envfile \in Credential
  /\ container \in [state : {"starting", "up"}, gen : Nat \ {0}, token : Nat]
                   \cup {NoContainer}
  /\ calls \subseteq Credential
  /\ check \in [gen : Nat, seen : {"idle", "asking", "running", "dead", "lost"}]
  /\ posting \in 0..gens
  /\ crashes \in 0..MaxCrashes

RunnerInit ==
  /\ row = NoRow /\ gens = 0 /\ tokens = 0 /\ spent = {}
  /\ runs = <<>> /\ worker = 0
  /\ ctl = <<>> /\ envfile = NoEnv /\ container = NoContainer /\ calls = {}
  /\ check = NoCheck /\ posting = 0 /\ crashes = 0

-----------------------------------------------------------------------------
(* The row.                                                                *)

\* UPDATE runners SET status = ? WHERE id = ?
SetStatus(gen, status) ==
  row' = IF row.gen = gen THEN [row EXCEPT !.status = status] ELSE row

StatusOf(gen) == IF row.gen = gen THEN row.status ELSE "deleted"

NewRun(kind, gen) ==
  [kind |-> kind, gen |-> gen, pc |-> "mark", ran |-> FALSE, asked |-> FALSE,
   token |-> 0, checks |-> 0, sawFailure |-> FALSE, tries |-> 0]

\* Of a finished run only its key matters.
Finished(run) == [NewRun(run.kind, run.gen) EXCEPT !.pc = "done"]

\* run() with an idempotency key: a run of the key that exists is returned.
StartRun(kind, gen) ==
  runs' = IF \E r \in DOMAIN runs : runs[r].kind = kind /\ runs[r].gen = gen
          THEN runs
          ELSE Append(runs, NewRun(kind, gen))

\* The key of a heal has the time in it: every call makes a run.
StartHeal(gen) == runs' = Append(runs, NewRun("heal", gen))

\* POST /runners, up to its await.
CreateRunner ==
  /\ row = NoRow
  /\ posting = 0
  /\ gens < MaxGens
  /\ gens' = gens + 1
  /\ row' = [gen |-> gens + 1, status |-> "pending", token |-> 0]
  /\ posting' = gens + 1
  /\ UNCHANGED <<tokens, spent, runs, worker, netVars, check, crashes>>

\* The run is created, or its creation fails and the row is deleted.
StartProvision ==
  /\ posting # 0
  /\ posting' = 0
  /\ \/ Len(runs) < MaxRuns /\ StartRun("provision", posting) /\ UNCHANGED row
     \/ row' = (IF row.gen = posting THEN NoRow ELSE row) /\ UNCHANGED runs
  /\ UNCHANGED <<gens, tokens, spent, worker, netVars, check, crashes>>

\* DELETE /runners/:id.  A user without a GitHub token, and a runner with
\* "nothing to clean up", lose the row at once.
DeleteRunner(hasToken) ==
  /\ row # NoRow
  /\ \/ /\ ~hasToken \/ row.status \in {"pending", "failed", "offline"}
        /\ row' = NoRow
        /\ UNCHANGED runs
     \/ /\ hasToken /\ row.status \notin {"pending", "failed", "offline"}
        /\ Len(runs) < MaxRuns
        /\ StartRun("deprovision", row.gen)
        /\ UNCHANGED row
  /\ UNCHANGED <<gens, tokens, spent, worker, netVars, check, posting, crashes>>

\* Fault: the token is not compared.
AnyCall(c) == row.gen = c.gen /\ row.status \in {"provisioning", "healing"} /\ row.token # 0

\* The conditions of POST /runners/:id/callback.
CallAccepted(c) ==
  /\ row.gen = c.gen
  /\ row.status \in {"provisioning", "healing"}
  /\ row.token # 0
  /\ row.token = c.token

\* Fault: the token stays valid.
RegisterAgain(c) ==
  /\ row' = [row EXCEPT !.status = "online"]
  /\ spent' = spent \cup {c.token}

\* The runner is online and its token is gone.
Register(c) ==
  /\ row' = [row EXCEPT !.status = "online", !.token = 0]
  /\ spent' = spent \cup {c.token}

\* The callback is handled, or lost: start.sh sends it once.
Callback(c) ==
  /\ c \in calls
  /\ calls' = calls \ {c}
  /\ \/ row # NoRow /\ CallAccepted(c) /\ Register(c)
     \/ UNCHANGED <<row, spent>>
  /\ UNCHANGED <<gens, tokens, runs, worker, ctl, envfile, container, outerVars, crashes>>

\* recordViolation, when the violations of the window reach the limit.  Below
\* it no runner changes; how many there are is not modelled.
StrikeOut ==
  /\ row # NoRow
  /\ row' = [row EXCEPT !.status = "disabled"]
  /\ UNCHANGED <<gens, tokens, spent, runs, worker, netVars, outerVars, crashes>>

\* POST /violations/reset: the runner is offline, whatever its status was.
ResetStrikes ==
  /\ row # NoRow
  /\ row' = [row EXCEPT !.status = "offline"]
  /\ UNCHANGED <<gens, tokens, spent, runs, worker, netVars, outerVars, crashes>>

-----------------------------------------------------------------------------
(* The worker and the workflows.                                           *)

workerRest == <<gens, spent, envfile, container, calls, outerVars, crashes>>

\* The worker executes the run, or is free to take it: the run is new, has
\* slept or waited for its next try.
Works(r) == worker \in {0, r} /\ runs[r].pc # "done"

\* The steps that only write to the database.
MarkRow(r) ==
  /\ runs[r].pc = "mark"
  /\ SetStatus(runs[r].gen, CASE runs[r].kind = "provision" -> "provisioning"
                              [] runs[r].kind = "heal" -> "healing"
                              [] OTHER -> "removing")
  /\ runs' = [runs EXCEPT ![r].ran = TRUE]
  /\ UNCHANGED tokens

\* Fault: the step that runs again gives the row a new token, the run the old.
RedrawToken(r) ==
  /\ runs[r].pc = "token"
  /\ tokens' = tokens + 1
  /\ row' = IF row.gen = runs[r].gen THEN [row EXCEPT !.token = tokens + 1] ELSE row
  /\ runs' = [runs EXCEPT ![r].ran = TRUE, ![r].token = IF @ = 0 THEN tokens + 1 ELSE @]

\* A fresh token, in the row if there still is one, and in the step's result.
DrawToken(r) ==
  /\ runs[r].pc = "token"
  /\ tokens' = tokens + 1
  /\ row' = IF row.gen = runs[r].gen THEN [row EXCEPT !.token = tokens + 1] ELSE row
  /\ runs' = [runs EXCEPT ![r].ran = TRUE, ![r].token = tokens + 1]

\* The last step ends the run: what a crash could repeat has no effect.
DeleteRow(r) ==
  /\ runs[r].pc = "delete"
  /\ row' = IF row.gen = runs[r].gen THEN NoRow ELSE row
  /\ runs' = [runs EXCEPT ![r] = Finished(@)]
  /\ worker' = 0
  /\ UNCHANGED tokens

\* The removal from GitHub is best effort: nothing of it is read again.
RemoveFromGithub(r) ==
  /\ runs[r].pc = "github"
  /\ runs' = [runs EXCEPT ![r].pc = "delete"]
  /\ worker' = r
  /\ UNCHANGED <<row, tokens>>

RunStep(r) ==
  /\ Works(r) /\ ~runs[r].ran
  /\ \/ (MarkRow(r) \/ DrawToken(r)) /\ worker' = r
     \/ DeleteRow(r) \/ RemoveFromGithub(r)
  /\ UNCHANGED <<gens, spent, netVars, check, posting, crashes>>

\* The handler writes the env file before its first await.
WriteEnv(r) == envfile' = [gen |-> runs[r].gen, token |-> runs[r].token]

\* provision-container and stop-container: the request to runner-ctld.
AskCtl(r) ==
  /\ Works(r) /\ runs[r].pc = "container" /\ ~runs[r].ran /\ ~runs[r].asked
  /\ worker' = r
  /\ runs' = [runs EXCEPT ![r].asked = TRUE]
  /\ ctl' = Append(ctl, [kind |-> IF runs[r].kind = "deprovision" THEN "deprovision"
                                  ELSE "provision",
                         pc |-> "stop", heard |-> TRUE])
  /\ IF runs[r].kind = "deprovision" THEN UNCHANGED envfile ELSE WriteEnv(r)
  /\ UNCHANGED <<row, gens, tokens, spent, container, calls, outerVars, crashes>>

\* The step after the one whose result is stored.
After(pc, kind) ==
  CASE pc = "mark" -> IF kind = "deprovision" THEN "container" ELSE "token"
    [] pc = "token" -> "container"
    [] pc = "container" -> IF kind = "deprovision" THEN "github" ELSE "check"
    [] pc = "github" -> "delete"

\* The step's result is stored.  After provision-container comes the first
\* sleep, which frees the worker.
Memoize(r) ==
  /\ worker = r /\ runs[r].ran
  /\ runs' = [runs EXCEPT ![r].ran = FALSE, ![r].pc = After(@, runs[r].kind)]
  /\ worker' = IF runs'[r].pc = "check" THEN 0 ELSE r
  /\ UNCHANGED <<row, tokens, ctl, workerRest>>

\* Fault: one try too many.
ReplayedOnceMore(run, sawFailure) ==
  IF run.tries = MaxTries THEN Finished(run)
  ELSE [run EXCEPT !.tries = @ + 1, !.asked = FALSE, !.sawFailure = sawFailure]

\* A run whose function threw: it has tries left, or ends.
Replayed(run, sawFailure) ==
  IF run.tries + 1 = MaxTries THEN Finished(run)
  ELSE [run EXCEPT !.tries = @ + 1, !.asked = FALSE, !.sawFailure = sawFailure]

\* Fault: no catch, the row keeps its mark.
ThrowUnmarked(r, sawFailure) ==
  /\ UNCHANGED row
  /\ runs' = [runs EXCEPT ![r] = Replayed(@, sawFailure)]
  /\ worker' = 0

\* The function throws: its catch marks the row, whatever it says by now.  A
\* run that has tries left is replayed later.
Throw(r, sawFailure) ==
  /\ SetStatus(runs[r].gen, "failed")
  /\ runs' = [runs EXCEPT ![r] = Replayed(@, sawFailure)]
  /\ worker' = 0

\* The step has attempts of its own left: it runs again, the row is not
\* marked.  Both kinds of attempts are counted by tries.
Again(r) ==
  /\ runs[r].tries + 1 < MaxTries
  /\ runs' = [runs EXCEPT ![r].tries = @ + 1, ![r].asked = FALSE]
  /\ worker' = 0
  /\ UNCHANGED row

\* provision-container, stop-container or remove-from-github rejects.
StepThrows(r) == Throw(r, FALSE) \/ Again(r)

\* check-registration-i after a sleep.  A result that throws is memoized, as
\* is the last of the checks: every replay throws again.
CheckRegistration(r) ==
  LET run == runs[r] IN
  /\ Works(r) /\ run.pc = "check"
  /\ IF run.sawFailure \/ run.checks = MaxChecks
     THEN Throw(r, run.sawFailure)
     ELSE \/ /\ StatusOf(run.gen) = "online"
             /\ runs' = [runs EXCEPT ![r] = Finished(@)]
             /\ worker' = 0
             /\ UNCHANGED row
          \/ /\ StatusOf(run.gen) \in {"deleted", "failed"}
             /\ Throw(r, TRUE)
          \/ /\ StatusOf(run.gen) \notin {"online", "deleted", "failed"}
             /\ runs' = [runs EXCEPT ![r].checks = @ + 1]
             /\ worker' = IF run.checks + 1 = MaxChecks THEN r ELSE 0
             /\ UNCHANGED row
  /\ UNCHANGED <<tokens, ctl, workerRest>>

\* A step that does I/O fails before runner-ctld is asked: no token, GitHub
\* refuses, no connection.
StepFails(r) ==
  /\ Works(r) /\ runs[r].pc \in {"container", "github"}
  /\ ~runs[r].ran /\ ~runs[r].asked
  /\ StepThrows(r)
  /\ UNCHANGED <<tokens, ctl, workerRest>>

WorkflowStep ==
  \E r \in DOMAIN runs :
     \/ RunStep(r) \/ AskCtl(r) \/ Memoize(r) \/ CheckRegistration(r)
     \/ StepFails(r)

-----------------------------------------------------------------------------
(* runner-ctld and the container.  Handlers run concurrently; one goes on  *)
(* when the client that asked is gone.                                     *)

\* The answer reaches the run that waits for it, if it still does.
Answer(i, ok) ==
  /\ ctl' = RemoveAt(ctl, i)
  /\ IF ~ctl[i].heard
     THEN UNCHANGED <<row, runs, worker>>
     ELSE IF ok
     THEN /\ runs' = [runs EXCEPT ![worker].ran = TRUE, ![worker].asked = FALSE]
          /\ UNCHANGED <<row, worker>>
     ELSE StepThrows(worker)

\* podman stop and rm, if the container exists.
CtlStops(i) ==
  /\ ctl[i].pc = "stop"
  /\ container' = NoContainer
  /\ ctl' = [ctl EXCEPT ![i].pc = IF ctl[i].kind = "provision" THEN "run" ELSE "unlink"]
  /\ UNCHANGED <<row, runs, worker, envfile>>

\* podman run reads the env file of the moment and needs the name to be free.
CtlRuns(i) ==
  /\ ctl[i].pc = "run"
  /\ \/ /\ container = NoContainer /\ envfile # NoEnv
        /\ container' = [state |-> "starting", gen |-> envfile.gen,
                         token |-> envfile.token]
        /\ Answer(i, TRUE)
     \/ UNCHANGED container /\ Answer(i, FALSE)
  /\ UNCHANGED envfile

CtlUnlinks(i) ==
  /\ ctl[i].pc = "unlink"
  /\ envfile' = NoEnv
  /\ Answer(i, TRUE)
  /\ UNCHANGED container

CtlStep ==
  /\ \E i \in DOMAIN ctl : CtlStops(i) \/ CtlRuns(i) \/ CtlUnlinks(i)
  /\ UNCHANGED <<gens, tokens, spent, calls, outerVars, crashes>>

\* start.sh registers with GitHub and calls back once.
ContainerRegisters ==
  /\ container # NoContainer /\ container.state = "starting"
  /\ container' = [container EXCEPT !.state = "up"]
  /\ calls' = calls \cup {[gen |-> container.gen, token |-> container.token]}
  /\ UNCHANGED <<row, gens, tokens, spent, runs, worker, ctl, envfile, outerVars, crashes>>

\* The container exits and is removed (--rm).
ContainerExits ==
  /\ container # NoContainer
  /\ container' = NoContainer
  /\ UNCHANGED <<row, gens, tokens, spent, runs, worker, ctl, envfile, calls, outerVars, crashes>>

-----------------------------------------------------------------------------
(* checkRunners.                                                           *)

CheckReads ==
  /\ check = NoCheck
  /\ row # NoRow /\ row.status = "online"
  /\ check' = [gen |-> row.gen, seen |-> "asking"]
  /\ UNCHANGED <<row, runs>>

\* The container runs, or it does not, has a stale socket mount, or no answer
\* came from benchd or runner-ctld.
CheckHears ==
  /\ check.seen = "asking"
  /\ \E seen \in {"running", "dead"} :
        /\ seen = "running" => container # NoContainer
        /\ check' = [check EXCEPT !.seen = seen]
  /\ UNCHANGED <<row, runs>>

\* Fault: the heal is started, the row is left as it is.
HealUnmarked(gen) ==
  IF row.gen = gen /\ row.status = "online"
  THEN /\ UNCHANGED row
       /\ IF Len(runs) < MaxRuns THEN StartHeal(gen) ELSE UNCHANGED runs
  ELSE UNCHANGED <<row, runs>>

\* markOfflineAndHeal: only a row that is still online is marked and healed.
\* Starting the heal can fail, which is logged.
MarkOfflineAndHeal(gen) ==
  IF row.gen = gen /\ row.status = "online"
  THEN /\ SetStatus(gen, "offline")
       /\ \/ Len(runs) < MaxRuns /\ StartHeal(gen)
          \/ UNCHANGED runs
  ELSE UNCHANGED <<row, runs>>

CheckActs ==
  /\ check.seen \in {"running", "dead"}
  /\ check' = NoCheck
  /\ IF check.seen = "dead" THEN MarkOfflineAndHeal(check.gen) ELSE UNCHANGED <<row, runs>>

CheckStep ==
  /\ CheckReads \/ CheckHears \/ CheckActs
  /\ UNCHANGED <<gens, tokens, spent, worker, netVars, posting, crashes>>

-----------------------------------------------------------------------------
(* Restarts.                                                               *)

\* bench-web dies: what it awaited is forgotten, what it stored stays.
WebCrash ==
  /\ crashes < MaxCrashes
  /\ crashes' = crashes + 1
  /\ runs' = [r \in DOMAIN runs |-> [runs[r] EXCEPT !.ran = FALSE, !.asked = FALSE]]
  /\ worker' = 0
  /\ ctl' = [i \in DOMAIN ctl |-> [ctl[i] EXCEPT !.heard = FALSE]]
  /\ check' = NoCheck
  /\ posting' = 0
  /\ UNCHANGED <<row, gens, tokens, spent, envfile, container, calls>>

\* A run waits for an answer that nobody will send.
Hung == /\ worker # 0 /\ runs[worker].asked
        /\ \A i \in DOMAIN ctl : ~ctl[i].heard

\* runner-ctld dies with its handlers.  RunnerCtlClient hears of an error, but
\* has no handler for a close and no timeout.
CtlCrash ==
  /\ crashes < MaxCrashes
  /\ crashes' = crashes + 1
  /\ ctl' = <<>>
  /\ \/ UNCHANGED <<row, runs, worker>>
     \/ (\E i \in DOMAIN ctl : ctl[i].heard) /\ StepThrows(worker)
  /\ check' = IF check.seen = "asking" THEN [check EXCEPT !.seen = "lost"] ELSE check
  /\ UNCHANGED <<gens, tokens, spent, envfile, container, calls, posting>>

RunnerNext ==
  \/ CreateRunner \/ StartProvision
  \/ \E hasToken \in BOOLEAN : DeleteRunner(hasToken)
  \/ \E c \in calls : Callback(c)
  \/ StrikeOut \/ ResetStrikes
  \/ WorkflowStep \/ CtlStep
  \/ ContainerRegisters \/ ContainerExits
  \/ CheckStep
  \/ WebCrash \/ CtlCrash

RunnerSpec == RunnerInit /\ [][RunnerNext]_runnerVars

RunnerFairSpec ==
  /\ RunnerSpec
  /\ WF_runnerVars(WorkflowStep)
  /\ WF_runnerVars(CtlStep)
  /\ WF_runnerVars(CheckStep)

-----------------------------------------------------------------------------
(* Safety.                                                                 *)

\* A row that is online has spent its token, so a second callback with it and
\* a late one of an older container are refused, whichever workflow is in
\* flight, was replayed or was overtaken.
OnlineHasSpent == row # NoRow /\ row.status = "online" => row.token = 0

Unfinished(r) == runs[r].pc # "done"

\* A workflow of this row that registers a container.
Registers(r) == runs[r].gen = row.gen /\ runs[r].kind # "deprovision"

\* While the row waits for a registration, the token it expects is the one
\* that the newest workflow hands to its container: a crash before or after
\* the token is memoized, and a retry, draw no other.
ExpectsNewest ==
  \A r \in DOMAIN runs :
     /\ Registers(r)
     /\ runs[r].pc \in {"container", "check"}
     /\ \A q \in DOMAIN runs : Registers(q) => q <= r
     /\ row.status \in {"provisioning", "healing"}
     => row.token = runs[r].token

\* A credential counts once, and only the newest: what the row expects, what
\* the workflows have handed out and what was spent agree.
RegistrationIsSound == RunnerTypeOK /\ OnlineHasSpent /\ ExpectsNewest

Reg == INSTANCE Registration WITH
         cred <- IF row = NoRow THEN 0 ELSE row.token,
         issued <- tokens,
         spent <- spent,
         up <- row # NoRow /\ row.status = "online"

\* A runner counts as registered only by the credential issued last, and no
\* credential counts twice.
ImplementsRegistration == Reg!Spec

-----------------------------------------------------------------------------
(* Liveness.                                                               *)

InTransit == row # NoRow /\ row.status \in {"provisioning", "healing", "removing"}

\* Provisioning, healing and removing end, whatever fails and however often
\* the worker dies, unless an answer of runner-ctld is awaited that was lost
\* with it.
TransitEnds == InTransit ~> (~InTransit \/ Hung)

\* A runner that is online without a container does not stay so, unless the
\* health check itself awaits a lost answer.
DeathIsNoticed ==
  (row # NoRow /\ row.status = "online" /\ container = NoContainer)
    ~> (row = NoRow \/ row.status # "online" \/ container # NoContainer
        \/ check.seen = "lost")
=============================================================================
