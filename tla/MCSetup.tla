------------------------------ MODULE MCSetup ------------------------------
\* How the system comes up: the setup of the host, the functions of HostConfig
\* on each of their inputs, bench-web's gate that joins a running benchd, and the
\* update of the host.  They share no state; a behaviour takes the steps of one of
\* them, or looks at one input and takes none.
EXTENDS Setup, GateSync, SelfUpdate

Alike == [online |-> {0, 1, 2}, siblings |-> {2}, cap |-> NoCapacities, loader |-> "cmdline",
          authKey |-> FALSE]
BigFirst == [online |-> {0, 1}, siblings |-> {}, cap |-> (0 :> 2 @@ 1 :> 1), loader |-> "grub",
             authKey |-> TRUE]
NoLoader == [online |-> {0, 1}, siblings |-> {}, cap |-> NoCapacities, loader |-> "none",
             authKey |-> FALSE]
\* A grub file without the line that the installer looks for.
BareGrub == [online |-> {0, 1}, siblings |-> {}, cap |-> NoCapacities, loader |-> "bare",
             authKey |-> FALSE]
MCMachines == {Alike, BigFirst, NoLoader, BareGrub}

MCOpenStatus == {2}

VARIABLE part

mcVars == <<part, input, setupVars, allVars, updateVars>>

MCInit ==
  /\ part \in {"setup", "config", "sync", "update"}
  /\ SetupInit /\ SyncInit /\ UpdateInit
  /\ part = "setup" \/ machine = Alike
  /\ part = "sync" \/ ~batched
  /\ part = "update" \/ supervised
  /\ input \in IF part = "config" THEN Inputs ELSE {NoInput}

OfSetup(A) == part = "setup" /\ A /\ UNCHANGED <<part, input, allVars, updateVars>>
OfSync(A) == part = "sync" /\ A /\ UNCHANGED <<part, input, setupVars, updateVars>>
OfUpdate(A) == part = "update" /\ A /\ UNCHANGED <<part, input, setupVars, allVars>>

\* Bound: one crash or one rollback of an admin in a run.
OneTrouble == budget.crashes + budget.rollbacks <= 1

MCNext == OfSetup(SetupNext) \/ OfSync(SyncNext) \/ OfUpdate(UpdateNext /\ OneTrouble')

\* The fairness of SetupSpec, SyncFairSpec and UpdateFairSpec, of the part that
\* moves.
MCSpec ==
  /\ MCInit /\ [][MCNext]_mcVars
  /\ WF_mcVars(OfSetup(Login)) /\ SF_mcVars(OfSetup(NextPage /\ proc.page = "review"))
  /\ WF_mcVars(OfSetup(NextPage)) /\ WF_mcVars(OfSetup(Skip)) /\ WF_mcVars(OfSetup(StepDone))
  /\ WF_mcVars(OfSetup(StepFails /\ ~Possible(Step))) /\ WF_mcVars(OfSetup(FinishSetup))
  /\ WF_mcVars(OfSync(JobFinishes))
  /\ WF_mcVars(OfSync(AnswerStatus)) /\ WF_mcVars(OfSync(AcceptSubscriber))
  /\ WF_mcVars(OfSync(HandleStatus)) /\ WF_mcVars(OfSync(SubscribeStatus))
  /\ WF_mcVars(OfSync(HandleUpdate))
  /\ WF_mcVars(OfSync(HardDeadline /\ UNCHANGED <<vars, syncVars>>))
  /\ \A o \in Ops : WF_mcVars(OfSync(ResumeEnter(o) /\ UNCHANGED <<vars, syncVars>>))
  /\ WF_mcVars(OfUpdate(WorkflowStep)) /\ WF_mcVars(OfUpdate(OldestScript))
=============================================================================
