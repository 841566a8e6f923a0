------------------------------- MODULE Setup -------------------------------
(***************************************************************************)
(* The setup of the appliance: the wizard (packages/setup/src/wizard.tsx), *)
(* the installer it ends in (installer.ts), and what a start and a reboot  *)
(* of the host make of what was installed.  A step of the installer fails  *)
(* or the installer is killed, and what it had written until then stays.   *)
(* Steps whose effect no other step reads (packages, sensors, irqbalance,  *)
(* dashboard, Tailscale) only succeed or fail.                             *)
(***************************************************************************)
EXTENDS HostConfig

CONSTANTS
  Machines,      \* [online, siblings, cap, loader, authKey]: the hosts there are
  None,
  MaxFailures,   \* bound: steps that fail, and installers killed
  MaxReconfigures

\* The cores that the wizard may recommend, before a reboot has
\* taken the second threads off line and after it.
Recommendations ==
  UNION {{Recommended(m.online, m.cap), Recommended(m.online \ m.siblings, m.cap)} :
           m \in Machines}

ASSUME SetupAssumption ==
  /\ {MaxFailures, MaxReconfigures} \subseteq Nat
  /\ \A m \in Machines : m.authKey \in BOOLEAN
  /\ \A c \in Recommendations : c # None /\ c.isolated # None

VARIABLES
  machine,
  disk,       \* what the installer leaves behind
  active,     \* the cores the running kernel isolates
  running,    \* the cores benchd was started with, or None
  proc,       \* the wizard and the installer
  failed,     \* steps the last installer reported as errors
  reported,   \* steps it has reported the end of
  failures, reconfigures

setupVars == <<machine, disk, active, running, proc, failed, reported, failures, reconfigures>>

Pages == {"off", "welcome", "password", "timezone", "cores", "oauth", "network", "label",
          "review", "install", "done", "failed"}

\* runInstall, in its order.
Steps == <<"packages", "sensors", "irqbalance", "users", "config", "units", "helpers",
           "dashboard", "runner", "boot", "invite", "start", "tailscale">>

\* Fault: an image that cannot be built does not end the installation.
FatalButRunner == {"users", "config", "units", "start"}

\* The steps whose error is fatal.
Fatal == {"users", "config", "units", "runner", "start"}

\* Fault: the list of the steps does not look at the auth key.
ListedAlways(first) == {Steps[k] : k \in DOMAIN Steps} \ (IF first THEN {} ELSE {"invite"})

\* getInstallSteps: what the page shows as pending.
Listed(first) ==
  {Steps[k] : k \in DOMAIN Steps} \ ((IF first THEN {} ELSE {"invite"})
                                      \cup (IF machine.authKey THEN {} ELSE {"tailscale"}))

\* Fault: a reconfiguration creates the bootstrap invite again.
RunsInvite(s) == s = "tailscale" => machine.authKey

\* What runInstall runs.
Runs(s) ==
  CASE s = "invite" -> proc.first
    [] s = "tailscale" -> machine.authKey
    [] OTHER -> TRUE

Accounts == {"bench", "runner"}

Idle == [page |-> "off", first |-> FALSE, at |-> 1, cores |-> None]

\* The type invariant: the wizard, the disk, and what runs.
SetupTypeOK ==
  /\ proc.page \in Pages /\ proc.at \in 1..Len(Steps) + 1
  /\ proc.page \notin {"off"} => proc.cores # None
  /\ disk.accounts \subseteq Accounts
  /\ disk.encKey \in 0..1 /\ disk.invites \in 0..MaxFailures + 1
  /\ {disk.marker, disk.sudoer, disk.sudoers, disk.updater, disk.image} \subseteq BOOLEAN
  /\ running # None => disk.config # None /\ disk.units # None
  /\ failed \subseteq reported /\ failed \cap Fatal = {}
  /\ failures \in 0..MaxFailures /\ reconfigures \in 0..MaxReconfigures

SetupInit ==
  /\ machine \in Machines
  /\ disk = [marker |-> FALSE, accounts |-> {}, sudoer |-> FALSE, sudoers |-> FALSE,
             config |-> None, encKey |-> 0, units |-> None, updater |-> FALSE,
             image |-> FALSE, boot |-> <<>>, invites |-> 0]
  /\ active = {} /\ running = None
  /\ proc = Idle /\ failed = {} /\ reported = {}
  /\ failures = 0 /\ reconfigures = 0

-----------------------------------------------------------------------------
(* The wizard.                                                             *)

\* nosmt takes the second thread of a core off line.
Online == IF active = {} THEN machine.online ELSE machine.online \ machine.siblings

\* main: --reconfigure removes the marker; without it, and without the
\* marker, this is a first run.  The hardware is looked at once.
Launch(reconfigure) ==
  /\ proc.page \in {"off", "done", "failed"}
  /\ proc' = [page |-> "welcome", first |-> ~reconfigure /\ ~disk.marker, at |-> 1,
              cores |-> Recommended(Online, machine.cap)]
  /\ disk' = IF reconfigure THEN [disk EXCEPT !.marker = FALSE] ELSE disk
  /\ failed' = {} /\ reported' = {}
  /\ UNCHANGED <<machine, active, running, failures>>

\* The first boot and each login start the setup while it is not complete.
Login == ~disk.marker /\ Launch(FALSE) /\ UNCHANGED reconfigures

Reconfigure ==
  /\ reconfigures < MaxReconfigures /\ reconfigures' = reconfigures + 1
  /\ Launch(TRUE)

\* onNext of each page.
After(page) ==
  CASE page = "welcome" -> IF proc.first THEN "password" ELSE "cores"
    [] page = "password" -> "timezone" [] page = "timezone" -> "cores"
    [] page = "cores" -> "oauth" [] page = "oauth" -> "network"
    [] page = "network" -> "label" [] page = "label" -> "review"
    [] page = "review" -> "install"

Turn(page) ==
  /\ proc' = [proc EXCEPT !.page = page]
  /\ UNCHANGED <<machine, disk, active, running, failed, reported, failures, reconfigures>>

InWizard == proc.page \in Pages \ {"off", "install", "done", "failed"}

NextPage == InWizard /\ Turn(After(proc.page))
Back == proc.page = "review" /\ Turn("cores")

-----------------------------------------------------------------------------
(* The installer.                                                          *)

\* Fault: the accounts are created whether or not they exist.
AllAccounts == Accounts

\* The accounts that id does not find.
Missing == Accounts \ disk.accounts

\* Fault: a key is generated at every run.
NewKey == 1 - disk.encKey

\* The key is generated unless the file is there.
KeyWritten == IF disk.encKey = 0 THEN 1 ELSE disk.encKey

\* Fault: a line that has the parameters is left as it is.
BootLineOnce ==
  IF disk.boot # <<>> \/ proc.cores.isolated = {} \/ machine.loader = "none" THEN disk.boot
  ELSE UpdateBootLine(machine.loader, disk.boot, proc.cores.isolated)

\* The boot line, unless nothing is to be isolated or no loader is known.  What
\* loader gets it, and whether it takes it, UpdateBootLine says.
BootLine ==
  IF proc.cores.isolated = {} \/ machine.loader = "none" THEN disk.boot
  ELSE UpdateBootLine(machine.loader, disk.boot, proc.cores.isolated)

\* What a step can rely on: an account that exists cannot be created, and the
\* image is built by the script that the helpers include.
Possible(s) ==
  CASE s = "users" -> Missing \cap disk.accounts = {}
    [] s = "runner" -> disk.updater
    [] OTHER -> TRUE

\* The disk after a step.
Effect(s) ==
  CASE s = "users" -> [disk EXCEPT !.accounts = Accounts,
                         !.sudoer = IF "bench" \in Missing THEN TRUE ELSE @]
    [] s = "config" -> [disk EXCEPT !.config = proc.cores, !.encKey = KeyWritten]
    [] s = "units" -> [disk EXCEPT !.units = proc.cores]
    [] s = "helpers" -> [disk EXCEPT !.updater = TRUE, !.sudoers = TRUE]
    [] s = "runner" -> [disk EXCEPT !.image = TRUE]
    [] s = "boot" -> [disk EXCEPT !.boot = BootLine]
    [] s = "invite" -> [disk EXCEPT !.invites = @ + 1]
    [] s = "start" -> [disk EXCEPT !.invites = IF @ = 0 THEN 1 ELSE @]
    [] OTHER -> disk

\* The disk after a part of a step.
Half(s) ==
  CASE s = "users" -> IF "bench" \in Missing
                      THEN [disk EXCEPT !.accounts = @ \cup {"bench"}, !.sudoer = TRUE] ELSE disk
    [] s = "config" -> [disk EXCEPT !.config = proc.cores]
    [] s = "helpers" -> [disk EXCEPT !.updater = TRUE]
    [] OTHER -> Effect(s)

Step == Steps[proc.at]
Installing == proc.page = "install" /\ proc.at <= Len(Steps)

Skip ==
  /\ Installing /\ ~Runs(Step)
  /\ proc' = [proc EXCEPT !.at = @ + 1]
  /\ UNCHANGED <<machine, disk, active, running, failed, reported, failures, reconfigures>>

\* enable --now leaves a service alone that runs.
Started ==
  IF Step = "start" /\ running = None THEN disk.config.isolated ELSE running

StepDone ==
  /\ Installing /\ Runs(Step) /\ Possible(Step)
  /\ disk' = Effect(Step)
  /\ running' = Started
  /\ reported' = reported \cup {Step}
  /\ proc' = [proc EXCEPT !.at = @ + 1]
  /\ UNCHANGED <<machine, active, failed, failures, reconfigures>>

\* An error ends the installation, or is shown beside the step.
StepFails ==
  /\ Installing /\ Runs(Step)
  /\ IF Possible(Step) THEN failures < MaxFailures /\ failures' = failures + 1
     ELSE UNCHANGED failures
  /\ disk' \in {disk, Half(Step)} \cup (IF Possible(Step) THEN {Effect(Step)} ELSE {})
  /\ running' \in {running, Started}
  /\ IF Step \in Fatal
     THEN proc' = [proc EXCEPT !.page = "failed"] /\ UNCHANGED failed
     ELSE proc' = [proc EXCEPT !.at = @ + 1] /\ failed' = failed \cup {Step}
  /\ reported' = reported \cup {Step}
  /\ UNCHANGED <<machine, active, reconfigures>>

\* The marker is set, as far as that succeeds, and bench leaves the group sudo.
FinishSetup ==
  /\ proc.page = "install" /\ proc.at = Len(Steps) + 1
  /\ \E marked \in BOOLEAN :
       /\ disk' = [disk EXCEPT !.marker = marked, !.sudoer = FALSE]
       /\ failures' = IF marked THEN failures ELSE failures + 1
  /\ failures' <= MaxFailures
  /\ proc' = [proc EXCEPT !.page = "done"]
  /\ UNCHANGED <<machine, active, running, failed, reported, reconfigures>>

-----------------------------------------------------------------------------
(* The host.                                                               *)

\* The installer is killed, or the power is lost, anywhere.
Killed ==
  /\ proc.page \notin {"off", "done", "failed"}
  /\ failures < MaxFailures /\ failures' = failures + 1
  /\ disk' \in {disk} \cup (IF Installing /\ Runs(Step) /\ Possible(Step) THEN {Half(Step)} ELSE {})
              \cup (IF proc.at > Len(Steps) THEN {[disk EXCEPT !.marker = TRUE]} ELSE {})
  /\ proc' = Idle
  /\ failed' = {} /\ reported' = {}
  /\ UNCHANGED <<machine, active, running, reconfigures>>

BootCores == UNION {w.is : w \in {w \in ToSet(disk.boot) : w.key = "isolcpus"}}

\* The kernel takes its parameters, the services start with what is there.
Reboot ==
  /\ proc.page \in {"off", "done", "failed"}
  /\ <<active, running>> # <<BootCores, IF running = None THEN None ELSE disk.config.isolated>>
  /\ active' = BootCores
  /\ running' = IF running = None THEN None ELSE disk.config.isolated
  /\ proc' = Idle
  /\ UNCHANGED <<machine, disk, failed, reported, failures, reconfigures>>

SetupNext ==
  \/ Login \/ Reconfigure \/ NextPage \/ Back
  \/ Skip \/ StepDone \/ StepFails \/ FinishSetup
  \/ Killed \/ Reboot

\* Somebody logs in while the setup is not complete and goes on with it.  He
\* does not go back from the review for ever, and the steps end.
SetupFairness ==
  /\ WF_setupVars(Login) /\ SF_setupVars(NextPage /\ proc.page = "review")
  /\ WF_setupVars(NextPage) /\ WF_setupVars(Skip) /\ WF_setupVars(StepDone)
  /\ WF_setupVars(StepFails /\ ~Possible(Step)) /\ WF_setupVars(FinishSetup)

SetupSpec == SetupInit /\ [][SetupNext]_setupVars /\ SetupFairness

-----------------------------------------------------------------------------

\* A host that counts as set up has what its services cannot do without, whatever
\* went wrong on the way and however often the setup was tried.
CompleteMeansInstalled ==
  disk.marker => /\ disk.accounts = Accounts /\ disk.image
                 /\ disk.config # None /\ disk.encKey # 0 /\ disk.units # None
                 /\ running # None /\ disk.invites > 0

\* The config, the slice and the kernel parameters name the same cores once
\* the setup is complete, unless there was nothing to isolate, no boot loader
\* to write to, a grub file without the line, or an error the page has shown.
CoresAgree ==
  disk.marker /\ proc.page = "done" =>
    /\ disk.units = disk.config
    /\ machine.loader \notin {"none", "bare"} /\ disk.config.isolated # {} /\ "boot" \notin failed
         => \A word \in ToSet(BootParams(disk.config.isolated)) : HoldsOnce(disk.boot, word)

\* When bench leaves the group sudo it has the rules that take its place, from
\* this run or an earlier one, unless the page has shown that the helpers failed:
\* their step is not fatal, and the rules are the last it writes.
SudoIsReplaced ==
  proc.page = "done" => disk.sudoers \/ "helpers" \in failed

\* The key that seals the tokens of the database is never replaced.
KeyIsKept == [][disk.encKey # 0 => disk'.encKey = disk.encKey]_setupVars

\* One first run opens one invite.  That a reconfiguration opens none, as the
\* code says of this step ("first run only"), holds of those that are not cut
\* short: a reconfiguration takes the marker away, and the setup that is begun
\* in its place counts as a first run.
FewInvites == disk.invites <= 1 + failures

\* When the wizard says it is done, every step it had listed has ended.
ProgressIsHonest == proc.page = "done" => Listed(proc.first) \subseteq reported

\* A setup that somebody has begun completes: it can be run again after any
\* failure, whatever the run before it has left on the disk.
SetupCompletes == proc.page # "off" ~> disk.marker

\* Whatever fails, is killed or is done again on the way: a host that counts as
\* set up is whole and of one piece, and the wizard has told what it did.
SetupIsSound ==
  /\ SetupTypeOK
  /\ CompleteMeansInstalled
  /\ CoresAgree
  /\ SudoIsReplaced
  /\ FewInvites
  /\ ProgressIsHonest

\* The setup comes to its end, and keeps the key on the way there.
SetupFinishes == KeyIsKept /\ SetupCompletes
=============================================================================
