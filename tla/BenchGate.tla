------------------------------ MODULE BenchGate ------------------------------
(***************************************************************************)
(* The gate between bench-web's I/O and a running benchmark: class         *)
(* BenchGate of packages/web/src/bench-gate.ts, entered by withGate of     *)
(* workflows/index.ts and moved by the status updates of benchd            *)
(* (main.ts).  OPEN -> DRAINING -> LOCKED -> OPEN.                         *)
(*                                                                         *)
(* JavaScript runs one synchronous piece at a time.  A resolved promise    *)
(* resumes its waiters in microtasks: after the synchronous code that      *)
(* resolved it, before the next timer or message.  The updates of benchd   *)
(* that arrive in one chunk of the socket are handled in one synchronous   *)
(* loop (processBuffer of ipc-client.ts): `sync` says the loop that last   *)
(* moved the gate may still go on.  In a behaviour that is not `batched`   *)
(* each update comes in a chunk of its own.                                *)
(***************************************************************************)
EXTENDS Integers, FiniteSets

CONSTANTS
  Ops,         \* callers of withGate
  MaxCloses    \* bound: times the gate closes

ASSUME GateAssumption ==
  /\ IsFiniteSet(Ops)
  /\ MaxCloses \in Nat

VARIABLES
  state,        \* _state
  activeOps,    \* _activeOps
  gatePromise,  \* _gatePromise: promises are numbered from 1, 0 is null
  closes,       \* gate and drain promises made: the last one's number
  opened,       \* gate promises that are resolved
  drainPromise, \* _drainPromise, or 0
  drainOwed,    \* drain promises handed to closeGate's callers and not resolved
  deadlines,    \* the deadline timers armed
  activeAborts, \* _activeAborts, by the operation whose pass it is
  aborted,      \* operations whose signal was fired
  phase,        \* [Ops -> where the operation is in withGate]
  awaits,       \* [Ops -> the gate promise it awaits]
  batched,      \* whether several updates may arrive in one chunk; never changes
  sync          \* whether the loop over the last update's chunk may go on

opVars == <<activeOps, activeAborts, aborted, phase, awaits>>
drainVars == <<drainPromise, drainOwed, deadlines>>
gateVars == <<state, gatePromise, closes, opened, drainVars, opVars, batched, sync>>

\* The type invariant.
GateTypeOK ==
  /\ state \in {"open", "draining", "locked"}
  /\ activeOps \in Nat
  /\ gatePromise \in Nat
  /\ closes \in Nat
  /\ opened \subseteq Nat
  /\ drainPromise \in Nat
  /\ drainOwed \subseteq Nat
  /\ deadlines \subseteq {"soft", "hard"}
  /\ activeAborts \subseteq Ops
  /\ aborted \subseteq Ops
  /\ phase \in [Ops -> {"out", "waiting", "io"}]
  /\ awaits \in [Ops -> Nat]
  /\ batched \in BOOLEAN
  /\ sync \in BOOLEAN

GateInit ==
  /\ state = "open"
  /\ activeOps = 0
  /\ gatePromise = 0
  /\ closes = 0
  /\ opened = {}
  /\ drainPromise = 0
  /\ drainOwed = {}
  /\ deadlines = {}
  /\ activeAborts = {}
  /\ aborted = {}
  /\ phase = [o \in Ops |-> "out"]
  /\ awaits = [o \in Ops |-> 0]
  /\ batched \in BOOLEAN
  /\ sync = FALSE

-----------------------------------------------------------------------------
\* Waiters whose promise is resolved: their continuations are microtasks.
Woken == {o \in Ops : phase[o] = "waiting" /\ awaits[o] \in opened}

\* The event loop starts a timer or a message when no microtask is left; the
\* loop over one chunk goes on at once.
Macrotask == Woken = {}

\* Fault: the drain's promise is dropped and never resolved.
DropDrain == drainPromise' = 0 /\ UNCHANGED drainOwed

\* The drain is over: the caller of closeGate resumes (_drainResolve).
ResolveDrain ==
  /\ drainOwed' = drainOwed \ {drainPromise}
  /\ drainPromise' = 0

\* Fault: the gate locks with one operation left.
AlmostDrained(n) == n <= 1

Drained(n) == n <= 0

\* Fault: the deadlines stay armed.
DrainKeepsTimers(n) ==
  \/ state = "draining" /\ Drained(n) /\ state' = "locked" /\ ResolveDrain /\ UNCHANGED deadlines
  \/ (state # "draining" \/ ~Drained(n)) /\ UNCHANGED <<state, drainVars>>

\* _checkDrainComplete, n operations being left: the last one to leave a
\* draining gate locks it.
CheckDrainComplete(n) ==
  \/ /\ state = "draining" /\ Drained(n)
     /\ deadlines' = {}
     /\ state' = "locked"
     /\ ResolveDrain
  \/ /\ state # "draining" \/ ~Drained(n)
     /\ UNCHANGED <<state, drainVars>>

\* enterGate past its await: the pass is counted and gets its controller.  The
\* state is not read again.
TakePass(o) ==
  /\ activeOps' = activeOps + 1
  /\ activeAborts' = activeAborts \cup {o}
  /\ phase' = [phase EXCEPT ![o] = "io"]
  /\ UNCHANGED aborted

\* enterGate does not await.
Passes == state = "open" \/ gatePromise = 0

\* Fault: exit counts off a pass that is not live.
AnyPass(o) == TRUE

\* exit's guard: the controller is still in _activeAborts.
LivePass(o) == o \in activeAborts

\* Fault: the hard deadline is forgotten.
SoftOnly == {"soft"}

DeadlinesOfDrain == {"soft", "hard"}

\* Fault: the gate promise is replaced without being resolved.
DropGate == gatePromise' = 0 /\ UNCHANGED opened

\* _gateResolve, and both fields set to null.
ResolveGate == opened' = opened \cup ({gatePromise} \ {0}) /\ gatePromise' = 0

-----------------------------------------------------------------------------
\* closeGate on an open gate, when an update shows the lock taken.  On a gate
\* that is draining or locked it changes nothing.
CloseGate ==
  /\ Macrotask \/ sync
  /\ closes < MaxCloses
  /\ state = "open"
  /\ closes' = closes + 1
  /\ gatePromise' = IF gatePromise = 0 THEN closes + 1 ELSE gatePromise
  /\ \/ /\ activeOps = 0
        /\ state' = "locked"
        /\ UNCHANGED drainVars
     \/ /\ activeOps # 0
        /\ state' = "draining"
        /\ drainPromise' = closes + 1
        /\ drainOwed' = drainOwed \cup {closes + 1}
        /\ deadlines' = DeadlinesOfDrain
  /\ sync' = batched
  /\ UNCHANGED <<opened, batched, opVars>>

\* openGate, when an update shows the lock free: a drain that is still going on
\* is resolved too, and the waiters of the gate promise become microtasks.
OpenGate ==
  /\ Macrotask \/ sync
  /\ state # "open"
  /\ deadlines' = {}
  /\ IF state = "draining" THEN ResolveDrain ELSE UNCHANGED <<drainPromise, drainOwed>>
  /\ state' = "open"
  /\ ResolveGate
  /\ sync' = batched
  /\ UNCHANGED <<closes, batched, opVars>>

\* enterGate: at once when the gate is open, otherwise the caller awaits the
\* gate promise of that moment.
EnterGate(o) ==
  /\ phase[o] = "out"
  /\ \/ /\ Passes
        /\ TakePass(o)
        /\ UNCHANGED awaits
     \/ /\ ~Passes
        /\ phase' = [phase EXCEPT ![o] = "waiting"]
        /\ awaits' = [awaits EXCEPT ![o] = gatePromise]
        /\ UNCHANGED <<activeOps, activeAborts, aborted>>
  /\ sync' = FALSE
  /\ UNCHANGED <<state, gatePromise, closes, opened, batched, drainVars>>

\* The microtask that continues enterGate after its await.
ResumeEnter(o) ==
  /\ o \in Woken
  /\ TakePass(o)
  /\ sync' = FALSE
  /\ UNCHANGED <<state, gatePromise, closes, opened, batched, drainVars, awaits>>

\* The I/O is over, with or without an error: withGate's finally calls exit,
\* which does nothing for a pass that was force-closed.
ExitGate(o) ==
  /\ phase[o] = "io"
  /\ phase' = [phase EXCEPT ![o] = "out"]
  /\ aborted' = aborted \ {o}
  /\ \/ /\ ~LivePass(o)
        /\ UNCHANGED <<activeOps, activeAborts, state, drainVars>>
     \/ /\ LivePass(o)
        /\ activeAborts' = activeAborts \ {o}
        /\ activeOps' = activeOps - 1
        /\ CheckDrainComplete(activeOps - 1)
  /\ sync' = FALSE
  /\ UNCHANGED <<gatePromise, closes, opened, batched, awaits>>

\* The soft deadline warns and changes nothing.
SoftDeadline ==
  /\ Macrotask
  /\ "soft" \in deadlines
  /\ deadlines' = deadlines \ {"soft"}
  /\ sync' = FALSE
  /\ UNCHANGED <<state, gatePromise, closes, opened, batched, drainPromise, drainOwed, opVars>>

\* Fault: the passes of the drain are not forgotten.
HardDeadlineKeepsPasses ==
  /\ Macrotask
  /\ "hard" \in deadlines
  /\ aborted' = aborted \cup activeAborts
  /\ activeOps' = 0
  /\ deadlines' = {}
  /\ state' = "locked"
  /\ ResolveDrain
  /\ sync' = FALSE
  /\ UNCHANGED <<gatePromise, closes, opened, batched, activeAborts, phase, awaits>>

\* The hard deadline: _forceCompleteDrain fires every signal, forgets the
\* passes and locks the gate.
HardDeadline ==
  /\ Macrotask
  /\ "hard" \in deadlines
  /\ aborted' = aborted \cup activeAborts
  /\ activeAborts' = {}
  /\ activeOps' = 0
  /\ deadlines' = {}
  /\ state' = "locked"
  /\ ResolveDrain
  /\ sync' = FALSE
  /\ UNCHANGED <<gatePromise, closes, opened, batched, phase, awaits>>

OpStep(o) == EnterGate(o) \/ ResumeEnter(o) \/ ExitGate(o)

GateNext ==
  \/ CloseGate
  \/ OpenGate
  \/ \E o \in Ops : OpStep(o)
  \/ SoftDeadline
  \/ HardDeadline

GateSpec == GateInit /\ [][GateNext]_gateVars

\* Microtasks run and armed timers fire.  The I/O itself may hang, and benchd
\* may never send another update.
GateFairSpec ==
  /\ GateSpec
  /\ \A o \in Ops : WF_gateVars(ResumeEnter(o))
  /\ WF_gateVars(HardDeadline)

-----------------------------------------------------------------------------
(* Safety.                                                                 *)

\* The counter is the number of live passes: whatever mixes exits, forced
\* closings and late exits of passes of an earlier drain, none is counted off
\* twice (exit's delete guard, _forceCompleteDrain).
ActiveOpsCounted ==
  /\ activeOps = Cardinality(activeAborts)
  /\ \A o \in activeAborts : phase[o] = "io" /\ o \notin aborted

\* The hard deadline is armed exactly while the gate drains, and a drain has an
\* operation to wait for: no stale timer can force a later drain.
DeadlineGuardsDrain ==
  /\ state = "draining" <=> "hard" \in deadlines
  /\ state # "draining" => deadlines = {}
  /\ state = "draining" => activeOps > 0

\* Nobody waits for a promise the gate has lost: a waiter awaits the promise of
\* the closed gate, or its promise is resolved and it is about to resume.
NoLostWaiter ==
  /\ state = "open" <=> gatePromise = 0
  /\ gatePromise \notin opened
  /\ \A o \in Ops : phase[o] = "waiting" =>
       awaits[o] \in opened \/ (awaits[o] = gatePromise /\ gatePromise # 0)

\* Once no drain is under way every caller of closeGate has been answered.
DrainCallersAnswered ==
  drainOwed = IF state = "draining" THEN {drainPromise} ELSE {}

\* The gate's own books are in order: the passes it counts, the timers of its
\* drain, the promises its waiters and its callers hold.
GateIsConsistent ==
  /\ ActiveOpsCounted
  /\ DeadlineGuardsDrain
  /\ NoLostWaiter
  /\ DrainCallersAnswered

\* The benchmark has the machine for itself, but for operations whose signal
\* was fired and that have not heeded it yet, as long as each update of benchd
\* is handled on its own.
LockedIsDrained ==
  ~batched /\ state = "locked" => \A o \in Ops : phase[o] = "io" => o \in aborted

-----------------------------------------------------------------------------
(* Liveness, under GateFairSpec.                                           *)

\* A drain ends even when an operation never returns and the lock stays taken.
DrainEnds == state = "draining" ~> state # "draining"

\* Whoever waits at the gate gets its pass if the gate does not stay closed
\* for good, however often it closes again before the waiter resumes.
WaiterEnters ==
  []<>(state = "open") => \A o \in Ops : phase[o] = "waiting" ~> phase[o] = "io"
=============================================================================
