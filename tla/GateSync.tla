------------------------------ MODULE GateSync ------------------------------
(***************************************************************************)
(* How bench-web's gate follows benchd's lock: the client that main.ts     *)
(* connects at start, the status updates benchd broadcasts (broadcastStatus *)
(* of server.ts, called by the lock's onChange and by the thermal poll),   *)
(* and the timeout overrides that travel back.  The lock is JobLock, which *)
(* BenchdLock implements; a ticket stands for the job and its repository.  *)
(* The connection to benchd is not lost once it is made.                   *)
(***************************************************************************)
EXTENDS JobLock, BenchGate, Sequences

VARIABLES
  web,        \* how far the client of main.ts has come
  wasLocked,  \* the client's variable of that name
  stream,     \* messages on their way to bench-web, each by the owner it shows
  overrides,  \* lock.setTimeout requests on their way to benchd, by the ticket
              \* whose repository's override they carry
  timeoutOf   \* the ticket whose override the owner's timer runs with, 0: the default

syncVars == <<web, wasLocked, stream, overrides, timeoutOf>>
allVars == <<vars, gateVars, syncVars>>

SyncTypeOK ==
  /\ TypeOK
  /\ GateTypeOK
  /\ web \in {"off", "asked", "answered", "closing", "subscribing", "subscribed"}
  /\ wasLocked \in BOOLEAN
  /\ stream \in Seq(Nat)
  /\ overrides \in Seq(Nat)
  /\ timeoutOf \in 0..arrived /\ (owner = 0 => timeoutOf = 0)

SyncInit ==
  /\ Init
  /\ GateInit
  /\ web = "off"
  /\ wasLocked = FALSE
  /\ stream = <<>>
  /\ overrides = <<>>
  /\ timeoutOf = 0

-----------------------------------------------------------------------------
(* benchd.                                                                 *)

\* broadcastStatus, n times in one step, to a client that has subscribed.
Broadcast(n) ==
  stream' = IF web = "subscribed" THEN stream \o [i \in 1..n |-> owner'] ELSE stream

\* acquire: a grant broadcasts and arms the default timeout; queueing does not.
JobArrives ==
  /\ Arrive
  /\ IF owner' # owner
     THEN Broadcast(1) /\ timeoutOf' = 0
     ELSE UNCHANGED <<stream, timeoutOf>>
  /\ UNCHANGED <<gateVars, web, wasLocked, overrides>>

JobGivesUp == GiveUp /\ UNCHANGED <<gateVars, syncVars>>

\* release or forceRelease: the next grant broadcasts before the method does,
\* so no update shows the lock free when a job waits.
JobFinishes ==
  /\ Finish
  /\ Broadcast(IF owner' = 0 THEN 1 ELSE 2)
  /\ timeoutOf' = 0
  /\ UNCHANGED <<gateVars, web, wasLocked, overrides>>

\* The thermal poll broadcasts too.
PollBroadcast ==
  /\ web = "subscribed"
  /\ stream = <<>>
  /\ UNCHANGED <<vars, gateVars, web, wasLocked, overrides, timeoutOf>>
  /\ Broadcast(1)

\* lock.status is answered.
AnswerStatus ==
  /\ web = "asked"
  /\ web' = "answered"
  /\ stream' = <<owner>>
  /\ UNCHANGED <<vars, gateVars, wasLocked, overrides, timeoutOf>>

\* Fault: the subscriber waits for the next broadcast.
AcceptSilently ==
  /\ web = "subscribing"
  /\ web' = "subscribed"
  /\ UNCHANGED <<vars, gateVars, wasLocked, stream, overrides, timeoutOf>>

\* status.subscribe: the subscriber gets an update at once.
AcceptSubscriber ==
  /\ web = "subscribing"
  /\ web' = "subscribed"
  /\ stream' = <<owner>>
  /\ UNCHANGED <<vars, gateVars, wasLocked, overrides, timeoutOf>>

\* Fault: a timeout is set although nobody holds the lock.
SetTimeoutAnyway ==
  /\ overrides # <<>>
  /\ timeoutOf' = Head(overrides)
  /\ overrides' = Tail(overrides)
  /\ UNCHANGED <<vars, gateVars, web, wasLocked, stream>>

\* lock.setTimeout: the timer of whoever holds the lock by now.
SetTimeout ==
  /\ overrides # <<>>
  /\ timeoutOf' = IF owner = 0 THEN timeoutOf ELSE Head(overrides)
  /\ overrides' = Tail(overrides)
  /\ UNCHANGED <<vars, gateVars, web, wasLocked, stream>>

-----------------------------------------------------------------------------
(* bench-web.                                                              *)

\* The client connects and asks for the state of the lock.
Ask ==
  /\ web = "off"
  /\ web' = "asked"
  /\ UNCHANGED <<vars, gateVars, wasLocked, stream, overrides, timeoutOf>>

\* The answer: a held lock closes the gate, and the client awaits the drain.
HandleStatus ==
  /\ web = "answered"
  /\ wasLocked' = (Head(stream) # 0)
  /\ stream' = <<>>
  /\ \/ Head(stream) = 0 /\ web' = "subscribing" /\ UNCHANGED gateVars
     \/ Head(stream) # 0 /\ web' = "closing" /\ CloseGate
  /\ UNCHANGED <<vars, overrides, timeoutOf>>

\* The drain awaited at start is over.
SubscribeStatus ==
  /\ web = "closing"
  /\ drainOwed = {}
  /\ web' = "subscribing"
  /\ UNCHANGED <<vars, gateVars, wasLocked, stream, overrides, timeoutOf>>

\* The subscriber's callback: only the edges count, and only the edge to locked
\* pushes an override.
HandleUpdate ==
  /\ web = "subscribed"
  /\ stream # <<>>
  /\ LET isLocked == Head(stream) # 0
     IN /\ \/ /\ isLocked /\ ~wasLocked
              /\ CloseGate
              /\ overrides' = Append(overrides, Head(stream))
           \/ /\ ~isLocked /\ wasLocked
              /\ OpenGate
              /\ UNCHANGED overrides
           \/ /\ isLocked = wasLocked
              /\ Macrotask \/ sync
              /\ UNCHANGED <<gateVars, overrides>>
        /\ wasLocked' = isLocked
  /\ stream' = Tail(stream)
  /\ UNCHANGED <<vars, web, timeoutOf>>

\* The operations at the gate and its deadlines.
GateEvent ==
  /\ \/ \E o \in Ops : OpStep(o)
     \/ SoftDeadline
     \/ HardDeadline
  /\ UNCHANGED <<vars, syncVars>>

SyncNext ==
  \/ JobArrives \/ JobGivesUp \/ JobFinishes \/ PollBroadcast
  \/ AnswerStatus \/ AcceptSubscriber \/ SetTimeout
  \/ Ask \/ HandleStatus \/ SubscribeStatus \/ HandleUpdate
  \/ GateEvent

SyncSpec == SyncInit /\ [][SyncNext]_allVars

\* Every grant of benchd ends (JobLock's fairness, which the job timeout gives),
\* messages arrive, the client goes on, microtasks run and timers fire.
SyncFairSpec ==
  /\ SyncSpec
  /\ WF_allVars(JobFinishes)
  /\ WF_allVars(AnswerStatus) /\ WF_allVars(AcceptSubscriber)
  /\ WF_allVars(HandleStatus) /\ WF_allVars(SubscribeStatus) /\ WF_allVars(HandleUpdate)
  /\ WF_allVars(HardDeadline /\ UNCHANGED <<vars, syncVars>>)
  /\ \A o \in Ops : WF_allVars(ResumeEnter(o) /\ UNCHANGED <<vars, syncVars>>)

-----------------------------------------------------------------------------
(* Safety and liveness.                                                    *)

\* Once it has handled what benchd sent, bench-web isolates the machine exactly
\* while a job holds the lock; no change of the lock between the first answer
\* and the subscription, and none that a poll crosses, is missed.
IsolationConverges ==
  web = "subscribed" =>
    /\ wasLocked <=> state # "open"
    /\ stream = <<>> => (state # "open" <=> owner # 0)
    /\ stream # <<>> => stream[Len(stream)] = owner

\* The same, of states that have their types.
GateFollowsLock == SyncTypeOK /\ IsolationConverges

\* The gate does not stay closed: it opens again after the jobs, even when the
\* client started in the middle of one and had to await a drain.
GateReopens == state # "open" ~> state = "open"
=============================================================================
