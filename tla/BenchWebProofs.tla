--------------------------- MODULE BenchWebProofs ---------------------------
(***************************************************************************)
(* Proofs about bench-web, for any finite set of operations and tasks and  *)
(* any number of closings.  The gate's invariant has four parts: the       *)
(* counter and the passes (CountInv), the drain with its deadlines and its *)
(* promise (DrainInv), the waiters and their promises (WaiterInv), and     *)
(* what holds when no two updates share a chunk (SeparateInv). The         *)
(* scheduler reads nothing of the gate but its state, and the gate never   *)
(* looks at the scheduler; the client of benchd's stream drives the gate,  *)
(* and the gate follows the lock.                                          *)
(***************************************************************************)
EXTENDS BenchScheduler, GateSync, FiniteSetTheorems, TLAPS

USE DEF opVars, drainVars, gateVars

-----------------------------------------------------------------------------
(* The gate.                                                               *)

\* The counter is the number of live passes.  Every operation doing I/O has a
\* live pass or was told to stop, which makes the two sets its partition.
CountInv ==
  /\ ActiveOpsCounted
  /\ \A o \in aborted : phase[o] = "io"
  /\ \A o \in Ops : phase[o] = "io" => o \in activeAborts \cup aborted

DrainInv == DeadlineGuardsDrain /\ DrainCallersAnswered

\* Promise numbers are drawn from closes, so a new one was never resolved.
WaiterInv ==
  /\ NoLostWaiter
  /\ gatePromise <= closes
  /\ \A p \in opened : 0 < p /\ p <= closes

\* With one update per chunk, nobody is about to resume behind a closed gate,
\* and a locked gate has no live pass.
SeparateInv ==
  ~batched => /\ ~sync
              /\ state # "open" => Woken = {}
              /\ state = "locked" => activeAborts = {}

-----------------------------------------------------------------------------
(* Cardinalities.                                                          *)

\* A set of operations is finite; adding or removing one changes its size by
\* one.
LEMMA PassCount ==
  ASSUME NEW S \in SUBSET Ops, NEW o \in Ops
  PROVE  /\ Cardinality(S) \in Nat
         /\ Cardinality(S) = 0 <=> S = {}
         /\ o \notin S => Cardinality(S \cup {o}) = Cardinality(S) + 1
         /\ o \in S => /\ Cardinality(S \ {o}) = Cardinality(S) - 1
                       /\ Cardinality(S) > 0
<1>1. IsFiniteSet(S)
  BY GateAssumption, FS_Subset
<1>2. Cardinality(S) \in Nat /\ (Cardinality(S) = 0 <=> S = {})
  BY <1>1, FS_CardinalityType, FS_EmptySet
<1>3. o \notin S => Cardinality(S \cup {o}) = Cardinality(S) + 1
  BY <1>1, FS_AddElement
<1>4. o \in S => Cardinality(S \ {o}) = Cardinality(S) - 1
  BY <1>1, FS_RemoveElement
<1>5. o \in S => Cardinality(S) > 0
  BY <1>2
<1> QED BY <1>2, <1>3, <1>4, <1>5

\* The same for a set of which no element is named.
LEMMA NoPass ==
  ASSUME NEW S \in SUBSET Ops
  PROVE  Cardinality(S) \in Nat /\ (Cardinality(S) = 0 <=> S = {})
<1>1. IsFiniteSet(S)
  BY GateAssumption, FS_Subset
<1> QED BY <1>1, FS_CardinalityType, FS_EmptySet

-----------------------------------------------------------------------------
(* The counter.                                                            *)

\* Taking a pass keeps the counter right, for an operation that has none.
LEMMA TakePassCount ==
  ASSUME GateTypeOK, CountInv, NEW o \in Ops, phase[o] # "io", TakePass(o)
  PROVE  CountInv' /\ activeOps' \in Nat /\ activeOps' > 0
<1>1. o \notin activeAborts /\ o \notin aborted
  BY DEF CountInv, ActiveOpsCounted
<1>2. activeAborts \in SUBSET Ops /\ activeOps \in Nat
  BY DEF GateTypeOK
<1>3. activeOps' = Cardinality(activeAborts') /\ activeOps' \in Nat /\ activeOps' > 0
  BY <1>1, <1>2, PassCount DEF TakePass, CountInv, ActiveOpsCounted
<1>4. \A p \in Ops : phase'[p] = IF p = o THEN "io" ELSE phase[p]
  BY DEF TakePass, GateTypeOK
<1>5. /\ \A p \in activeAborts' : phase'[p] = "io" /\ p \notin aborted'
      /\ \A p \in aborted' : phase'[p] = "io"
      /\ \A p \in Ops : phase'[p] = "io" => p \in activeAborts' \cup aborted'
  BY <1>1, <1>4 DEF TakePass, CountInv, ActiveOpsCounted, GateTypeOK
<1> QED BY <1>3, <1>5 DEF CountInv, ActiveOpsCounted

\* An operation that leaves is counted off once, and only if its pass is live.
LEMMA ExitCount ==
  ASSUME GateTypeOK, CountInv, NEW o \in Ops, ExitGate(o)
  PROVE  CountInv' /\ activeOps' \in Nat
<1>1. /\ activeAborts \in SUBSET Ops /\ aborted \in SUBSET Ops
      /\ activeOps \in Nat
      /\ phase[o] = "io" /\ aborted' = aborted \ {o}
  BY DEF GateTypeOK, ExitGate
<1>2. \A p \in Ops : phase'[p] = IF p = o THEN "out" ELSE phase[p]
  BY DEF ExitGate, GateTypeOK
<1>3. activeAborts' = activeAborts \ {o}
  BY DEF ExitGate, LivePass
<1>4. activeOps' = Cardinality(activeAborts') /\ activeOps' \in Nat
  <2>1. activeOps = Cardinality(activeAborts)
    BY DEF CountInv, ActiveOpsCounted
  <2>2. CASE ~LivePass(o)
    BY <1>1, <1>3, <2>1, <2>2 DEF ExitGate, LivePass
  <2>3. CASE LivePass(o)
    <3>1. /\ Cardinality(activeAborts \ {o}) = Cardinality(activeAborts) - 1
          /\ Cardinality(activeAborts) > 0
      BY <1>1, <2>3, PassCount DEF LivePass
    <3> QED BY <1>1, <1>3, <2>1, <2>3, <3>1 DEF ExitGate
  <2> QED BY <2>2, <2>3
<1>5. /\ \A p \in activeAborts' : phase'[p] = "io" /\ p \notin aborted'
      /\ \A p \in aborted' : phase'[p] = "io"
      /\ \A p \in Ops : phase'[p] = "io" => p \in activeAborts' \cup aborted'
  BY <1>1, <1>2, <1>3 DEF CountInv, ActiveOpsCounted
<1> QED BY <1>4, <1>5 DEF CountInv, ActiveOpsCounted

\* The hard deadline turns every live pass into an aborted operation.
LEMMA HardCount ==
  ASSUME GateTypeOK, CountInv, HardDeadline
  PROVE  CountInv' /\ activeOps' \in Nat
<1>1. activeOps' = 0 /\ activeAborts' = {} /\ aborted' = aborted \cup activeAborts
      /\ phase' = phase
  BY DEF HardDeadline
<1>2. Cardinality(activeAborts') = 0
  BY <1>1, FS_EmptySet
<1> QED BY <1>1, <1>2 DEF CountInv, ActiveOpsCounted

\* Every step keeps the counter right and natural.
LEMMA CountStep ==
  GateTypeOK /\ CountInv /\ [GateNext]_gateVars => CountInv' /\ activeOps' \in Nat
<1> SUFFICES ASSUME GateTypeOK, CountInv, [GateNext]_gateVars
             PROVE  CountInv' /\ activeOps' \in Nat
  OBVIOUS
<1>1. UNCHANGED <<activeOps, activeAborts, aborted, phase>> => CountInv' /\ activeOps' \in Nat
  BY DEF CountInv, ActiveOpsCounted, GateTypeOK
<1>2. ASSUME CloseGate \/ OpenGate \/ SoftDeadline \/ UNCHANGED gateVars
      PROVE  UNCHANGED <<activeOps, activeAborts, aborted, phase>>
  BY <1>2 DEF CloseGate, OpenGate, SoftDeadline
<1>3. ASSUME NEW o \in Ops, EnterGate(o) PROVE CountInv' /\ activeOps' \in Nat
  <2>1. CASE TakePass(o)
    BY <2>1, <1>3, TakePassCount DEF EnterGate
  <2>2. CASE /\ phase' = [phase EXCEPT ![o] = "waiting"]
             /\ UNCHANGED <<activeOps, activeAborts, aborted>>
    <3>1. phase[o] = "out"
      BY <1>3 DEF EnterGate
    <3>2. \A p \in Ops : phase'[p] = IF p = o THEN "waiting" ELSE phase[p]
      BY <2>2 DEF GateTypeOK
    <3> QED BY <2>2, <3>1, <3>2 DEF CountInv, ActiveOpsCounted, GateTypeOK
  <2> QED BY <1>3, <2>1, <2>2 DEF EnterGate
<1>4. ASSUME NEW o \in Ops, ResumeEnter(o) PROVE CountInv' /\ activeOps' \in Nat
  BY <1>4, TakePassCount DEF ResumeEnter, Woken
<1>5. ASSUME NEW o \in Ops, ExitGate(o) PROVE CountInv' /\ activeOps' \in Nat
  BY <1>5, ExitCount
<1>6. CASE HardDeadline
  BY <1>6, HardCount
<1> QED
  BY <1>1, <1>2, <1>3, <1>4, <1>5, <1>6 DEF GateNext, OpStep

-----------------------------------------------------------------------------
(* Types.                                                                  *)

\* What happens when the last operation leaves has its types.
LEMMA CheckDrainType ==
  ASSUME GateTypeOK, NEW n \in Int, CheckDrainComplete(n)
  PROVE  /\ state' \in {"open", "draining", "locked"}
         /\ drainPromise' \in Nat /\ drainOwed' \subseteq Nat
         /\ deadlines' \subseteq {"soft", "hard"}
<1>1. /\ state \in {"open", "draining", "locked"}
      /\ drainPromise \in Nat /\ drainOwed \subseteq Nat
      /\ deadlines \subseteq {"soft", "hard"}
  BY DEF GateTypeOK
<1>2. CASE UNCHANGED <<state, drainPromise, drainOwed, deadlines>>
  BY <1>1, <1>2
<1>3. CASE deadlines' = {} /\ state' = "locked" /\ ResolveDrain
  BY <1>1, <1>3 DEF ResolveDrain
<1> QED BY <1>2, <1>3 DEF CheckDrainComplete

\* Every step keeps the types; the counter's is what CountStep gives.
LEMMA GateTypeStep ==
  GateTypeOK /\ CountInv /\ [GateNext]_gateVars => GateTypeOK'
<1> SUFFICES ASSUME GateTypeOK, CountInv, [GateNext]_gateVars PROVE GateTypeOK'
  OBVIOUS
<1>0. activeOps' \in Nat
  BY CountStep
<1>a. batched \in BOOLEAN
  BY DEF GateTypeOK
<1>1. CASE CloseGate
  <2>1. /\ state' \in {"open", "draining", "locked"}
        /\ closes' \in Nat /\ gatePromise' \in Nat
        /\ drainPromise' \in Nat /\ drainOwed' \subseteq Nat
        /\ deadlines' \subseteq {"soft", "hard"}
    <3>1. CASE state' = "locked" /\ UNCHANGED drainVars
      BY <1>1, <3>1 DEF CloseGate, GateTypeOK
    <3>2. CASE /\ state' = "draining" /\ drainPromise' = closes + 1
               /\ drainOwed' = drainOwed \cup {closes + 1}
               /\ deadlines' = DeadlinesOfDrain
      BY <1>1, <3>2 DEF CloseGate, DeadlinesOfDrain, GateTypeOK
    <3> QED BY <1>1, <3>1, <3>2 DEF CloseGate
  <2>2. sync' \in BOOLEAN /\ batched' \in BOOLEAN /\ UNCHANGED <<opened, opVars>>
    BY <1>a, <1>1, Zenon DEF CloseGate
  <2> QED BY <1>0, <2>1, <2>2 DEF GateTypeOK
<1>2. CASE OpenGate
  <2>1. /\ state' \in {"open", "draining", "locked"}
        /\ gatePromise' \in Nat /\ opened' \subseteq Nat
        /\ drainPromise' \in Nat /\ drainOwed' \subseteq Nat
        /\ deadlines' \subseteq {"soft", "hard"}
    <3>1. drainPromise' \in Nat /\ drainOwed' \subseteq Nat
      <4>1. drainPromise \in Nat /\ drainOwed \subseteq Nat
        BY DEF GateTypeOK
      <4>2. CASE ResolveDrain
        BY <4>1, <4>2 DEF ResolveDrain
      <4>3. CASE UNCHANGED <<drainPromise, drainOwed>>
        BY <4>1, <4>3
      <4> QED BY <1>2, <4>2, <4>3 DEF OpenGate
    <3>2. gatePromise' \in Nat /\ opened' \subseteq Nat
      BY <1>2 DEF OpenGate, ResolveGate, GateTypeOK
    <3> QED BY <1>2, <3>1, <3>2 DEF OpenGate
  <2>2. sync' \in BOOLEAN /\ batched' \in BOOLEAN /\ UNCHANGED <<closes, opVars>>
    BY <1>a, <1>2, Zenon DEF OpenGate
  <2> QED BY <1>0, <2>1, <2>2 DEF GateTypeOK
<1>3. ASSUME NEW o \in Ops, EnterGate(o) PROVE GateTypeOK'
  <2>1. /\ phase' \in [Ops -> {"out", "waiting", "io"}]
        /\ awaits' \in [Ops -> Nat]
        /\ activeAborts' \subseteq Ops
    BY <1>3 DEF EnterGate, TakePass, GateTypeOK
  <2>2. /\ UNCHANGED <<state, gatePromise, closes, opened, batched, drainVars, aborted>>
        /\ sync' = FALSE
    BY <1>3 DEF EnterGate, TakePass
  <2> QED BY <1>0, <2>1, <2>2 DEF GateTypeOK
<1>4. ASSUME NEW o \in Ops, ResumeEnter(o) PROVE GateTypeOK'
  <2>1. /\ phase' \in [Ops -> {"out", "waiting", "io"}]
        /\ activeAborts' \subseteq Ops
    BY <1>4 DEF ResumeEnter, TakePass, GateTypeOK
  <2>2. /\ UNCHANGED <<state, gatePromise, closes, opened, batched, drainVars, aborted, awaits>>
        /\ sync' = FALSE
    BY <1>4 DEF ResumeEnter, TakePass
  <2> QED BY <1>0, <2>1, <2>2 DEF GateTypeOK
<1>5. ASSUME NEW o \in Ops, ExitGate(o) PROVE GateTypeOK'
  <2>1. activeOps - 1 \in Int
    BY DEF GateTypeOK
  <2>2. /\ state' \in {"open", "draining", "locked"}
        /\ drainPromise' \in Nat /\ drainOwed' \subseteq Nat
        /\ deadlines' \subseteq {"soft", "hard"}
    BY <1>5, <2>1, CheckDrainType DEF ExitGate, GateTypeOK
  <2>3. /\ phase' \in [Ops -> {"out", "waiting", "io"}]
        /\ aborted' \subseteq Ops /\ activeAborts' \subseteq Ops
        /\ UNCHANGED <<gatePromise, closes, opened, batched, awaits>>
        /\ sync' = FALSE
    BY <1>5 DEF ExitGate, GateTypeOK
  <2> QED BY <1>0, <2>2, <2>3 DEF GateTypeOK
<1>6. CASE SoftDeadline
  BY <1>0, <1>6 DEF SoftDeadline, GateTypeOK
<1>7. CASE HardDeadline
  BY <1>0, <1>7 DEF HardDeadline, ResolveDrain, GateTypeOK
<1>8. CASE UNCHANGED gateVars
  BY <1>8 DEF GateTypeOK
<1> QED
  BY <1>1, <1>2, <1>3, <1>4, <1>5, <1>6, <1>7, <1>8 DEF GateNext, OpStep

\* The open gate with nobody in it satisfies every part of the invariant.
LEMMA GateInitInv == GateInit => GateTypeOK /\ CountInv /\ DrainInv /\ WaiterInv /\ SeparateInv
<1> SUFFICES ASSUME GateInit
             PROVE  GateTypeOK /\ CountInv /\ DrainInv /\ WaiterInv /\ SeparateInv
  OBVIOUS
<1>1. GateTypeOK
  BY DEF GateInit, GateTypeOK
<1>2. CountInv
  BY FS_EmptySet DEF GateInit, CountInv, ActiveOpsCounted
<1>3. DrainInv
  BY DEF GateInit, DrainInv, DeadlineGuardsDrain, DrainCallersAnswered
<1>4. WaiterInv
  BY DEF GateInit, WaiterInv, NoLostWaiter
<1>5. SeparateInv
  BY DEF GateInit, SeparateInv, Woken
<1> QED BY <1>1, <1>2, <1>3, <1>4, <1>5

\* The fields of the gate keep their types, the counter staying a natural
\* number however passes are forced out and exit late.
THEOREM GateTypeCorrect == GateSpec => []GateTypeOK
<1>1. GateInit => GateTypeOK /\ CountInv
  BY GateInitInv
<1>2. GateTypeOK /\ CountInv /\ [GateNext]_gateVars => (GateTypeOK /\ CountInv)'
  BY GateTypeStep, CountStep
<1> QED BY <1>1, <1>2, PTL DEF GateSpec

\* The counter the drain waits for is the number of live passes.
THEOREM PassesAreCounted == GateSpec => []ActiveOpsCounted
<1>1. GateInit => GateTypeOK /\ CountInv
  BY GateInitInv
<1>2. GateTypeOK /\ CountInv /\ [GateNext]_gateVars => (GateTypeOK /\ CountInv)'
  BY GateTypeStep, CountStep
<1>3. CountInv => ActiveOpsCounted
  BY DEF CountInv
<1> QED BY <1>1, <1>2, <1>3, PTL DEF GateSpec

-----------------------------------------------------------------------------
(* The drain.                                                              *)

\* Every step keeps the deadlines and the promise with the drain.
LEMMA DrainStep ==
  GateTypeOK /\ CountInv /\ DrainInv /\ [GateNext]_gateVars => DrainInv'
<1> SUFFICES ASSUME GateTypeOK, CountInv, DrainInv, [GateNext]_gateVars PROVE DrainInv'
  OBVIOUS
<1> USE DEF DrainInv, DeadlineGuardsDrain, DrainCallersAnswered
<1>1. CASE CloseGate
  <2>1. activeOps \in Nat /\ activeOps' = activeOps /\ drainOwed = {} /\ deadlines = {}
    BY <1>1 DEF CloseGate, GateTypeOK
  <2> QED BY <1>1, <2>1 DEF CloseGate, DeadlinesOfDrain
<1>2. CASE OpenGate
  BY <1>2 DEF OpenGate, ResolveDrain
<1>3. ASSUME NEW o \in Ops, EnterGate(o) PROVE DrainInv'
  BY <1>3 DEF EnterGate, TakePass, GateTypeOK
<1>4. ASSUME NEW o \in Ops, ResumeEnter(o) PROVE DrainInv'
  BY <1>4 DEF ResumeEnter, TakePass, GateTypeOK
<1>5. ASSUME NEW o \in Ops, ExitGate(o) PROVE DrainInv'
  <2>1. CASE UNCHANGED <<activeOps, state, drainVars>>
    BY <2>1
  <2>2. CASE activeOps' = activeOps - 1 /\ CheckDrainComplete(activeOps - 1)
    <3>1. activeOps \in Nat
      BY DEF GateTypeOK
    <3>2. CASE state = "draining" /\ deadlines' = {} /\ state' = "locked" /\ ResolveDrain
      BY <3>2 DEF ResolveDrain
    <3>3. CASE /\ state # "draining" \/ ~Drained(activeOps - 1)
               /\ UNCHANGED <<state, drainVars>>
      BY <2>2, <3>1, <3>3 DEF Drained
    <3> QED BY <2>2, <3>2, <3>3 DEF CheckDrainComplete
  <2> QED BY <1>5, <2>1, <2>2 DEF ExitGate
<1>6. CASE SoftDeadline
  BY <1>6 DEF SoftDeadline
<1>7. CASE HardDeadline
  BY <1>7 DEF HardDeadline, ResolveDrain
<1>8. CASE UNCHANGED gateVars
  BY <1>8
<1> QED
  BY <1>1, <1>2, <1>3, <1>4, <1>5, <1>6, <1>7, <1>8 DEF GateNext, OpStep

\* The hard deadline is armed exactly while the gate drains, so none outlives
\* its drain, and every caller of closeGate is answered when the drain ends.
THEOREM DrainsAreGuarded == GateSpec => [](DeadlineGuardsDrain /\ DrainCallersAnswered)
<1>1. GateInit => GateTypeOK /\ CountInv /\ DrainInv
  BY GateInitInv
<1>2. GateTypeOK /\ CountInv /\ DrainInv /\ [GateNext]_gateVars
        => (GateTypeOK /\ CountInv /\ DrainInv)'
  BY GateTypeStep, CountStep, DrainStep
<1>3. DrainInv => DeadlineGuardsDrain /\ DrainCallersAnswered
  BY DEF DrainInv
<1> QED BY <1>1, <1>2, <1>3, PTL DEF GateSpec

\* Nobody awaits the promise of a drain that the gate has forgotten.
THEOREM DrainsAreAnswered == GateSpec => []DrainCallersAnswered
BY DrainsAreGuarded, PTL

-----------------------------------------------------------------------------
(* The waiters.                                                            *)

\* Every step leaves each waiter a promise that is or will be resolved.
LEMMA WaiterStep ==
  GateTypeOK /\ DrainInv /\ WaiterInv /\ [GateNext]_gateVars => WaiterInv'
<1> SUFFICES ASSUME GateTypeOK, DrainInv, WaiterInv, [GateNext]_gateVars PROVE WaiterInv'
  OBVIOUS
<1> USE DEF WaiterInv, NoLostWaiter
<1>1. CASE CloseGate
  <2>1. /\ gatePromise = 0 /\ gatePromise' = closes + 1 /\ closes' = closes + 1
        /\ state' # "open" /\ UNCHANGED <<opened, phase, awaits>>
        /\ closes \in Nat /\ opened \subseteq Nat
    BY <1>1 DEF CloseGate, GateTypeOK
  <2>2. closes + 1 \notin opened
    BY <2>1
  <2> QED BY <2>1, <2>2
<1>2. CASE OpenGate
  <2>1. /\ gatePromise' = 0 /\ state' = "open" /\ UNCHANGED <<closes, phase, awaits>>
        /\ opened' = opened \cup ({gatePromise} \ {0}) /\ gatePromise # 0
        /\ closes \in Nat /\ gatePromise \in Nat
    BY <1>2 DEF OpenGate, ResolveGate, GateTypeOK
  <2>2. 0 \notin opened'
    <3>1. 0 \notin opened
      OBVIOUS
    <3> QED BY <2>1, <3>1
  <2> QED BY <2>1, <2>2
<1>3. ASSUME NEW o \in Ops, EnterGate(o) PROVE WaiterInv'
  BY <1>3 DEF EnterGate, TakePass, Passes, GateTypeOK
<1>4. ASSUME NEW o \in Ops, ResumeEnter(o) PROVE WaiterInv'
  BY <1>4 DEF ResumeEnter, TakePass, GateTypeOK
<1>5. ASSUME NEW o \in Ops, ExitGate(o) PROVE WaiterInv'
  <2>1. /\ UNCHANGED <<gatePromise, closes, opened, awaits>>
        /\ phase' = [phase EXCEPT ![o] = "out"]
    BY <1>5 DEF ExitGate
  <2>2. state' = "open" <=> state = "open"
    BY <1>5 DEF ExitGate, CheckDrainComplete
  <2> QED BY <2>1, <2>2 DEF GateTypeOK
<1>6. CASE SoftDeadline
  BY <1>6 DEF SoftDeadline
<1>7. CASE HardDeadline
  <2>1. state = "draining" /\ state' = "locked"
    BY <1>7 DEF HardDeadline, DrainInv, DeadlineGuardsDrain
  <2> QED BY <1>7, <2>1 DEF HardDeadline
<1>8. CASE UNCHANGED gateVars
  BY <1>8
<1> QED
  BY <1>1, <1>2, <1>3, <1>4, <1>5, <1>6, <1>7, <1>8 DEF GateNext, OpStep

\* Nobody waits for a promise the gate has lost.
THEOREM NoWaiterIsLost == GateSpec => []NoLostWaiter
<1> DEFINE IInv == GateTypeOK /\ CountInv /\ DrainInv /\ WaiterInv
<1>1. GateInit => IInv
  BY GateInitInv
<1>2. IInv /\ [GateNext]_gateVars => IInv'
  BY GateTypeStep, CountStep, DrainStep, WaiterStep
<1>3. IInv => NoLostWaiter
  BY DEF WaiterInv
<1> HIDE DEF IInv
<1> QED BY <1>1, <1>2, <1>3, PTL DEF GateSpec

-----------------------------------------------------------------------------
(* Updates in separate chunks.                                             *)

\* While the gate stays closed and nobody is woken, nobody becomes woken.
LEMMA StaysAsleep ==
  ASSUME GateTypeOK, WaiterInv, NEW o \in Ops, EnterGate(o) \/ ExitGate(o),
         state # "open", Woken = {}
  PROVE  Woken' = {}
<1>1. opened' = opened /\ gatePromise \notin opened /\ gatePromise # 0
  BY DEF EnterGate, ExitGate, WaiterInv, NoLostWaiter
<1>2. \A p \in Ops : phase[p] = "waiting" => awaits[p] \notin opened
  BY DEF Woken
<1>3. CASE ExitGate(o)
  <2>1. phase' = [phase EXCEPT ![o] = "out"] /\ awaits' = awaits
    BY <1>3 DEF ExitGate
  <2>2. \A p \in Ops : phase'[p] = "waiting" => phase[p] = "waiting"
    BY <2>1 DEF GateTypeOK
  <2> QED BY <1>1, <1>2, <2>1, <2>2 DEF Woken
<1>4. CASE EnterGate(o)
  <2>1. /\ phase' = [phase EXCEPT ![o] = "waiting"]
        /\ awaits' = [awaits EXCEPT ![o] = gatePromise]
    BY <1>1, <1>4 DEF EnterGate, Passes
  <2>2. \A p \in Ops : /\ p # o => phase'[p] = phase[p] /\ awaits'[p] = awaits[p]
                       /\ p = o => awaits'[p] = gatePromise
    BY <2>1 DEF GateTypeOK
  <2> QED BY <1>1, <1>2, <2>2 DEF Woken
<1> QED BY <1>3, <1>4

\* How updates arrive is fixed at the start.
LEMMA BatchedIsFixed == [GateNext]_gateVars => batched' = batched
<1>1. ASSUME NEW o \in Ops, EnterGate(o) \/ ResumeEnter(o) \/ ExitGate(o)
      PROVE  batched' = batched
  BY <1>1 DEF EnterGate, ResumeEnter, ExitGate
<1>2. ASSUME CloseGate \/ OpenGate \/ SoftDeadline \/ HardDeadline \/ UNCHANGED gateVars
      PROVE  batched' = batched
  BY <1>2 DEF CloseGate, OpenGate, SoftDeadline, HardDeadline
<1> QED BY <1>1, <1>2 DEF GateNext, OpStep

\* With one update per chunk, every step keeps a closed gate asleep and a
\* locked one without live passes.
LEMMA SeparateStep ==
  /\ GateTypeOK /\ CountInv /\ DrainInv /\ WaiterInv /\ SeparateInv
  /\ [GateNext]_gateVars
  => SeparateInv'
<1> SUFFICES ASSUME GateTypeOK, CountInv, DrainInv, WaiterInv, SeparateInv,
                    [GateNext]_gateVars, ~batched'
             PROVE  /\ ~sync'
                    /\ state' # "open" => Woken' = {}
                    /\ state' = "locked" => activeAborts' = {}
  BY DEF SeparateInv
<1>c. ~batched
  BY BatchedIsFixed, Zenon
<1>0. ~sync /\ (state # "open" => Woken = {}) /\ (state = "locked" => activeAborts = {})
  BY <1>c DEF SeparateInv
<1>a. /\ activeAborts \in SUBSET Ops /\ activeOps = Cardinality(activeAborts)
      /\ activeOps \in Nat
  BY DEF GateTypeOK, CountInv, ActiveOpsCounted
<1>b. UNCHANGED <<opened, phase, awaits>> => Woken' = Woken
  BY DEF Woken
<1>1. CASE CloseGate
  <2>1. ~sync' /\ Woken' = {}
    BY <1>0, <1>b, <1>c, <1>1, Zenon DEF CloseGate, Macrotask
  <2>2. state' = "locked" => activeAborts' = {}
    BY <1>a, <1>1, NoPass DEF CloseGate
  <2> QED BY <2>1, <2>2
<1>2. CASE OpenGate
  <2>1. ~sync'
    BY <1>c, <1>2, Zenon DEF OpenGate
  <2>2. state' = "open"
    BY <1>2 DEF OpenGate
  <2> QED BY <2>1, <2>2
<1>3. ASSUME NEW o \in Ops, EnterGate(o)
      PROVE  /\ ~sync' /\ (state' # "open" => Woken' = {})
             /\ (state' = "locked" => activeAborts' = {})
  <2>1. ~sync' /\ state' = state
    BY <1>3, Zenon DEF EnterGate
  <2>2. state # "open" => Woken' = {}
    BY <1>0, <1>3, StaysAsleep
  <2>3. state = "locked" => activeAborts' = activeAborts
    BY <1>3 DEF EnterGate, Passes, WaiterInv, NoLostWaiter
  <2> QED BY <1>0, <2>1, <2>2, <2>3
<1>4. ASSUME NEW o \in Ops, ResumeEnter(o)
      PROVE  ~sync' /\ state' = "open"
  <2>1. ~sync' /\ state' = state
    BY <1>4, Zenon DEF ResumeEnter
  <2>2. state = "open"
    BY <1>0, <1>4 DEF ResumeEnter
  <2> QED BY <2>1, <2>2
<1>5. ASSUME NEW o \in Ops, ExitGate(o)
      PROVE  /\ ~sync' /\ (state' # "open" => Woken' = {})
             /\ (state' = "locked" => activeAborts' = {})
  <2>1. ~sync' /\ (state' # "open" => state # "open")
    <3>1. ~sync'
      BY <1>5, Zenon DEF ExitGate
    <3>2. state' # "open" => state # "open"
      BY <1>5 DEF ExitGate, CheckDrainComplete
    <3> QED BY <3>1, <3>2
  <2>2. state # "open" => Woken' = {}
    BY <1>0, <1>5, StaysAsleep
  <2>3. CASE ~LivePass(o) /\ UNCHANGED <<activeOps, activeAborts, state, drainVars>>
    BY <1>0, <2>1, <2>2, <2>3
  <2>4. CASE /\ LivePass(o) /\ activeAborts' = activeAborts \ {o}
             /\ activeOps' = activeOps - 1 /\ CheckDrainComplete(activeOps - 1)
    <3>1. Cardinality(activeAborts \ {o}) = activeOps - 1 /\ activeOps > 0
      BY <1>a, <2>4, PassCount DEF LivePass
    <3>2. CASE state = "draining" /\ Drained(activeOps - 1)
      <4>1. Cardinality(activeAborts \ {o}) = 0
        BY <1>a, <3>1, <3>2 DEF Drained
      <4>2. activeAborts \ {o} \in SUBSET Ops
        BY <1>a
      <4>3. activeAborts' = {}
        BY <2>4, <4>1, <4>2, NoPass
      <4> QED BY <2>1, <2>2, <4>3
    <3>3. CASE UNCHANGED <<state, drainVars>>
      BY <1>0, <2>1, <2>2, <2>4, <3>3 DEF LivePass
    <3> QED BY <2>4, <3>2, <3>3 DEF CheckDrainComplete
  <2> QED BY <1>5, <2>3, <2>4 DEF ExitGate
<1>6. CASE SoftDeadline
  <2>1. ~sync' /\ UNCHANGED <<state, opened, phase, awaits, activeAborts>>
    BY <1>6, Zenon DEF SoftDeadline
  <2> QED BY <1>0, <1>b, <2>1
<1>7. CASE HardDeadline
  <2>1. ~sync' /\ activeAborts' = {} /\ UNCHANGED <<opened, phase, awaits>> /\ Woken = {}
    BY <1>7, Zenon DEF HardDeadline, Macrotask
  <2> QED BY <1>b, <2>1
<1>8. CASE UNCHANGED gateVars
  <2>1. /\ UNCHANGED <<state, opened, phase, awaits, activeAborts>>
        /\ sync' = sync
    BY <1>8
  <2> QED BY <1>0, <1>b, <2>1
<1> QED
  BY <1>1, <1>2, <1>3, <1>4, <1>5, <1>6, <1>7, <1>8 DEF GateNext, OpStep

\* When every update of benchd is handled on its own, a locked gate leaves no
\* operation running but those that were told to stop.
THEOREM LockedGateIsDrained == GateSpec => []LockedIsDrained
<1> DEFINE IInv == GateTypeOK /\ CountInv /\ DrainInv /\ WaiterInv /\ SeparateInv
<1>1. GateInit => IInv
  BY GateInitInv
<1>2. IInv /\ [GateNext]_gateVars => IInv'
  BY GateTypeStep, CountStep, DrainStep, WaiterStep, SeparateStep
<1>3. IInv => LockedIsDrained
  BY DEF SeparateInv, CountInv, LockedIsDrained
<1> HIDE DEF IInv
<1> QED BY <1>1, <1>2, <1>3, PTL DEF GateSpec

\* The gate's counters, timers and promises are in order.
THEOREM GateStaysConsistent == GateSpec => []GateIsConsistent
<1>1. ActiveOpsCounted /\ DeadlineGuardsDrain /\ NoLostWaiter /\ DrainCallersAnswered
        => GateIsConsistent
  BY DEF GateIsConsistent
<1> QED BY <1>1, PassesAreCounted, DrainsAreGuarded, NoWaiterIsLost, PTL

-----------------------------------------------------------------------------
(* The scheduler.                                                          *)

TaskTypeOK ==
  /\ tasks \subseteq Tasks
  /\ timer \subseteq Tasks
  /\ armed \in [Tasks -> Nat]
  /\ running \subseteq Tasks
  /\ retired \subseteq Tasks

\* A run belongs to a task that is or was registered, so a name registered
\* for the first time does not run; a disposed scheduler has no tasks.
TaskInv ==
  /\ OneChain
  /\ NoTaskStarves
  /\ PausedWhileClosed
  /\ running \subseteq tasks \cup retired
  /\ disposed => tasks = {}

\* Arming timers for tasks that have none and do not run keeps one chain each.
LEMMA ScheduleChain ==
  ASSUME TaskTypeOK, OneChain, NEW S \in SUBSET Tasks, S \cap timer = {}, ScheduleNext(S)
  PROVE  /\ armed' \in [Tasks -> Nat]
         /\ timer' = timer \cup S
         /\ \A t \in Tasks : armed'[t] = IF t \in timer' THEN 1 ELSE 0
<1>1. \A t \in Tasks : armed'[t] = IF t \in S THEN armed[t] + 1 ELSE armed[t]
  BY DEF ScheduleNext
<1>2. \A t \in Tasks : armed[t] = IF t \in timer THEN 1 ELSE 0
  BY DEF OneChain
<1>3. \A t \in Tasks : armed'[t] \in Nat
  BY <1>1, <1>2
<1> QED BY <1>1, <1>2, <1>3 DEF ScheduleNext

\* Clearing the handles leaves no timer armed for the tasks that had them.
LEMMA ClearChain ==
  ASSUME TaskTypeOK, OneChain, NEW S \in SUBSET Tasks, ClearTimers(S)
  PROVE  /\ armed' \in [Tasks -> Nat]
         /\ timer' = timer \ S
         /\ \A t \in Tasks : armed'[t] = IF t \in timer' THEN 1 ELSE 0
<1>1. \A t \in Tasks : armed'[t] = IF t \in S \cap timer THEN armed[t] - 1 ELSE armed[t]
  BY DEF ClearTimers
<1>2. \A t \in Tasks : armed[t] = IF t \in timer THEN 1 ELSE 0
  BY DEF OneChain
<1>3. \A t \in Tasks : armed'[t] \in Nat
  BY <1>1, <1>2
<1> QED BY <1>1, <1>2, <1>3 DEF ClearTimers

\* The listener of the gate: a gate that closes clears every timer, one that
\* opens arms those of the tasks that neither have one nor run.
LEMMA ListenerStep ==
  ASSUME TaskTypeOK, TaskInv, OnStateChange
  PROVE  TaskTypeOK' /\ TaskInv'
<1> USE DEF TaskInv, OneChain, NoTaskStarves, PausedWhileClosed
<1>0. UNCHANGED <<tasks, running, retired, disposed>>
  BY DEF OnStateChange
<1>1. CASE disposed /\ UNCHANGED <<timer, armed>>
  BY <1>0, <1>1 DEF TaskTypeOK
<1>2. CASE state' = state /\ UNCHANGED <<timer, armed>>
  BY <1>0, <1>2 DEF TaskTypeOK
<1>3. CASE state' = "open" /\ ResumeAll
  <2> DEFINE S == tasks \ (timer \cup running)
  <2>1. S \in SUBSET Tasks /\ S \cap timer = {} /\ ScheduleNext(S)
    BY <1>3 DEF ResumeAll, TaskTypeOK
  <2>2. /\ armed' \in [Tasks -> Nat] /\ timer' = timer \cup S
        /\ \A t \in Tasks : armed'[t] = IF t \in timer' THEN 1 ELSE 0
    BY <2>1, ScheduleChain
  <2> QED BY <1>0, <1>3, <2>2 DEF TaskTypeOK
<1>4. CASE state' # "open" /\ PauseAll
  <2>1. tasks \in SUBSET Tasks /\ ClearTimers(tasks)
    BY <1>4 DEF PauseAll, TaskTypeOK
  <2>2. /\ armed' \in [Tasks -> Nat] /\ timer' = timer \ tasks
        /\ \A t \in Tasks : armed'[t] = IF t \in timer' THEN 1 ELSE 0
    BY <2>1, ClearChain
  <2> QED BY <1>0, <1>4, <2>2 DEF TaskTypeOK
<1> QED BY <1>1, <1>2, <1>3, <1>4 DEF OnStateChange

\* Registering, unregistering, disposing, a timer that fires and a run that
\* settles keep the invariant, the gate standing still.
LEMMA TaskStepInv ==
  ASSUME TaskTypeOK, TaskInv, TaskStep, UNCHANGED state
  PROVE  TaskTypeOK' /\ TaskInv'
<1> USE DEF TaskInv, OneChain, NoTaskStarves, PausedWhileClosed
<1>1. ASSUME NEW t \in Tasks, Register(t) PROVE TaskTypeOK' /\ TaskInv'
  <2>1. /\ tasks' = tasks \cup {t} /\ t \notin tasks /\ t \notin timer /\ t \notin running
        /\ ~disposed /\ UNCHANGED <<running, retired, disposed>>
    BY <1>1 DEF Register
  <2>2. CASE state = "open" /\ ScheduleNext({t})
    <3>1. /\ armed' \in [Tasks -> Nat] /\ timer' = timer \cup {t}
          /\ \A u \in Tasks : armed'[u] = IF u \in timer' THEN 1 ELSE 0
      BY <2>1, <2>2, ScheduleChain
    <3> QED BY <2>1, <2>2, <3>1 DEF TaskTypeOK
  <2>3. CASE state # "open" /\ UNCHANGED <<timer, armed>>
    BY <2>1, <2>3 DEF TaskTypeOK
  <2> QED BY <1>1, <2>2, <2>3 DEF Register
<1>2. ASSUME NEW t \in Tasks, Unregister(t) PROVE TaskTypeOK' /\ TaskInv'
  <2>1. /\ armed' \in [Tasks -> Nat] /\ timer' = timer \ {t}
        /\ \A u \in Tasks : armed'[u] = IF u \in timer' THEN 1 ELSE 0
    BY <1>2, ClearChain DEF Unregister
  <2> QED BY <1>2, <2>1 DEF Unregister, TaskTypeOK
<1>3. CASE Dispose
  <2>1. /\ armed' \in [Tasks -> Nat] /\ timer' = timer \ tasks
        /\ \A u \in Tasks : armed'[u] = IF u \in timer' THEN 1 ELSE 0
    BY <1>3, ClearChain DEF Dispose, TaskTypeOK
  <2> QED BY <1>3, <2>1 DEF Dispose, TaskTypeOK
<1>4. ASSUME NEW t \in Tasks, TaskFires(t) PROVE TaskTypeOK' /\ TaskInv'
  <2>1. t \in timer /\ state = "open"
    BY <1>4 DEF TaskFires
  <2>2. /\ timer' = timer \ {t} /\ running' = running \cup {t}
        /\ UNCHANGED <<tasks, retired, disposed>>
    BY <1>4, <2>1 DEF TaskFires
  <2>3. armed[t] = 1 /\ armed' = [armed EXCEPT ![t] = @ - 1]
    BY <1>4, <2>1 DEF TaskFires
  <2>4. /\ armed' \in [Tasks -> Nat]
        /\ \A u \in Tasks : armed'[u] = IF u = t THEN 0 ELSE armed[u]
    BY <2>3 DEF TaskTypeOK
  <2>5. TaskTypeOK'
    BY <2>2, <2>4 DEF TaskTypeOK
  <2>6. OneChain'
    BY <2>1, <2>2, <2>4
  <2>7. NoTaskStarves' /\ PausedWhileClosed'
    BY <2>1, <2>2
  <2> QED BY <2>1, <2>2, <2>5, <2>6, <2>7
<1>5. ASSUME NEW t \in Tasks, TaskSettles(t) PROVE TaskTypeOK' /\ TaskInv'
  <2>1. /\ t \in running /\ t \notin timer /\ running' = running \ {t}
        /\ UNCHANGED <<tasks, retired, disposed>>
    BY <1>5 DEF TaskSettles
  <2>2. CASE t \in tasks /\ state = "open" /\ ScheduleNext({t})
    <3>1. /\ armed' \in [Tasks -> Nat] /\ timer' = timer \cup {t}
          /\ \A u \in Tasks : armed'[u] = IF u \in timer' THEN 1 ELSE 0
      BY <2>1, <2>2, ScheduleChain
    <3> QED BY <2>1, <2>2, <3>1 DEF TaskTypeOK
  <2>3. CASE (t \notin tasks \/ state # "open" \/ disposed) /\ UNCHANGED <<timer, armed>>
    BY <2>1, <2>3 DEF TaskTypeOK
  <2> QED BY <1>5, <2>2, <2>3 DEF TaskSettles
<1> QED BY <1>1, <1>2, <1>3, <1>4, <1>5 DEF TaskStep

\* Every step of the gate with its listener, or of the scheduler alone, keeps
\* the invariant.
LEMMA SchedulerStep ==
  TaskTypeOK /\ TaskInv /\ [SchedulerNext]_schedulerVars => TaskTypeOK' /\ TaskInv'
<1> SUFFICES ASSUME TaskTypeOK, TaskInv, [SchedulerNext]_schedulerVars
             PROVE  TaskTypeOK' /\ TaskInv'
  OBVIOUS
<1>1. CASE OnStateChange
  BY <1>1, ListenerStep
<1>2. CASE TaskStep /\ UNCHANGED state
  BY <1>2, TaskStepInv
<1>3. CASE UNCHANGED schedulerVars
  <2>1. UNCHANGED taskVars /\ UNCHANGED gateVars
    BY <1>3, Zenon DEF schedulerVars
  <2>2. UNCHANGED <<tasks, timer, armed, running, retired, disposed>>
    BY <2>1 DEF taskVars
  <2>3. UNCHANGED state
    BY <2>1 DEF gateVars
  <2> QED BY <2>2, <2>3 DEF TaskTypeOK, TaskInv, OneChain, NoTaskStarves, PausedWhileClosed
<1> QED BY <1>1, <1>2, <1>3 DEF SchedulerNext

\* A new scheduler has no tasks, no timers and no runs.
LEMMA SchedulerInitInv == SchedulerInit => TaskTypeOK /\ TaskInv
  BY DEF SchedulerInit, TaskTypeOK, TaskInv, OneChain, NoTaskStarves, PausedWhileClosed

\* Every task has one chain of timers, none starves while the gate is open, and
\* none can start while it is not, whatever opens and closes under a run.
THEOREM TasksKeepTheirChain ==
  SchedulerSpec => [](OneChain /\ NoTaskStarves /\ PausedWhileClosed)
<1>1. SchedulerInit => TaskTypeOK /\ TaskInv
  BY SchedulerInitInv
<1>2. TaskTypeOK /\ TaskInv /\ [SchedulerNext]_schedulerVars => (TaskTypeOK /\ TaskInv)'
  BY SchedulerStep
<1>3. TaskInv => OneChain /\ NoTaskStarves /\ PausedWhileClosed
  BY DEF TaskInv
<1> QED BY <1>1, <1>2, <1>3, PTL DEF SchedulerSpec

\* No task is left without a timer and without a run while the gate is open.
THEOREM NoTaskIsForgotten == SchedulerSpec => []NoTaskStarves
BY TasksKeepTheirChain, PTL

\* No timer is armed while the gate is not open.
THEOREM ClosedGatePausesTasks == SchedulerSpec => []PausedWhileClosed
BY TasksKeepTheirChain, PTL

\* The gate under the scheduler keeps its types and its count: a step of the
\* scheduler alone changes nothing of the gate but the end of a chunk.
LEMMA GateUnderScheduler ==
  GateTypeOK /\ CountInv /\ [SchedulerNext]_schedulerVars => GateTypeOK' /\ CountInv'
<1> SUFFICES ASSUME GateTypeOK, CountInv, [SchedulerNext]_schedulerVars
             PROVE  GateTypeOK' /\ CountInv'
  OBVIOUS
<1>1. CASE GateNext
  BY <1>1, GateTypeStep, CountStep
<1>2. CASE /\ sync' = FALSE
           /\ UNCHANGED <<state, gatePromise, closes, opened, batched, drainVars, opVars>>
  <2>1. UNCHANGED <<state, gatePromise, closes, opened, batched>>
    BY <1>2
  <2>2. UNCHANGED <<drainPromise, drainOwed, deadlines>>
    BY <1>2 DEF drainVars
  <2>3. UNCHANGED <<activeOps, activeAborts, aborted, phase, awaits>>
    BY <1>2 DEF opVars
  <2> QED BY <1>2, <2>1, <2>2, <2>3 DEF GateTypeOK, CountInv, ActiveOpsCounted
<1>3. CASE UNCHANGED schedulerVars
  <2>1. UNCHANGED gateVars
    BY <1>3 DEF schedulerVars
  <2> QED BY <2>1, GateTypeStep, CountStep
<1>4. GateNext \/ (/\ sync' = FALSE
                   /\ UNCHANGED <<state, gatePromise, closes, opened, batched, drainVars, opVars>>)
      \/ UNCHANGED schedulerVars
  BY DEF SchedulerNext
<1> QED BY <1>1, <1>2, <1>3, <1>4

\* A scheduler is disposed or not.
LEMMA DisposedStep ==
  disposed \in BOOLEAN /\ [SchedulerNext]_schedulerVars => disposed' \in BOOLEAN
  BY DEF SchedulerNext, TaskStep, Register, Unregister, Dispose, TaskFires, TaskSettles,
         OnStateChange, schedulerVars, taskVars

\* The tasks keep to their schedule, and the gate and the scheduler their types.
THEOREM TasksStayOnSchedule == SchedulerSpec => []TasksOnSchedule
<1> DEFINE IInv == GateTypeOK /\ CountInv /\ TaskTypeOK /\ TaskInv /\ disposed \in BOOLEAN
<1>1. SchedulerInit => IInv
  BY GateInitInv, SchedulerInitInv DEF SchedulerInit
<1>2. IInv /\ [SchedulerNext]_schedulerVars => IInv'
  BY GateUnderScheduler, SchedulerStep, DisposedStep
<1>3. IInv => TasksOnSchedule
  BY DEF TaskTypeOK, TaskInv, TasksOnSchedule, SchedulerTypeOK
<1> HIDE DEF IInv
<1> QED BY <1>1, <1>2, <1>3, PTL DEF SchedulerSpec

-----------------------------------------------------------------------------
(* The gate that follows the lock.                                         *)

\* Tickets are numbered as they are taken; no update shows, and no override
\* names, a ticket that was not taken yet.
TicketsTaken ==
  /\ arrived \in Nat
  /\ owner \in 0..arrived
  /\ waiting \in SUBSET (1..arrived)
  /\ stream \in Seq(Nat) /\ \A i \in 1..Len(stream) : stream[i] <= arrived
  /\ overrides \in Seq(Nat) /\ \A i \in 1..Len(overrides) : overrides[i] <= arrived
  /\ timeoutOf \in 0..arrived
  /\ owner = 0 => timeoutOf = 0

\* The client's flag is the gate's state; nothing is on its way before the
\* answer nor between it and the subscription, and once subscribed the client
\* is up to date or the last message on its way will bring it there.
ClientInv ==
  /\ web \in {"off", "asked", "answered", "closing", "subscribing", "subscribed"}
  /\ wasLocked \in BOOLEAN
  /\ wasLocked <=> state # "open"
  /\ web \in {"off", "asked", "answered"} => ~wasLocked
  /\ web \in {"off", "asked", "closing", "subscribing"} => stream = <<>>
  /\ web = "answered" => Len(stream) = 1
  /\ web = "subscribed" =>
       /\ stream = <<>> => (wasLocked <=> owner # 0)
       /\ stream # <<>> => stream[Len(stream)] = owner

GateInv == GateTypeOK /\ CountInv /\ DrainInv /\ WaiterInv /\ SeparateInv

SyncInv == TicketsTaken /\ ClientInv /\ GateInv

\* A broadcast puts the owner at the end of the stream.
LEMMA BroadcastFacts ==
  ASSUME NEW s \in Seq(Nat), NEW o \in Nat, NEW n \in {1, 2}, NEW b \in Nat, o <= b,
         \A i \in 1..Len(s) : s[i] <= b,
         NEW u \in Seq(Nat), Len(u) = n, \A i \in 1..n : u[i] = o,
         NEW r, r = s \o u
  PROVE  /\ r \in Seq(Nat) /\ r # <<>> /\ r[Len(r)] = o
         /\ \A i \in 1..Len(r) : r[i] <= b
<1>1. /\ r \in Seq(Nat) /\ Len(r) = Len(s) + n /\ Len(s) \in Nat
      /\ \A i \in 1..Len(s) : r[i] = s[i]
      /\ \A i \in (Len(s) + 1)..(Len(s) + n) : r[i] = u[i - Len(s)]
  OBVIOUS
<1>2. \A i \in (Len(s) + 1)..(Len(s) + n) : r[i] = o
  BY <1>1
<1>3. r # <<>> /\ r[Len(r)] = o
  BY <1>1, <1>2
<1>4. ASSUME NEW i \in 1..Len(r) PROVE r[i] <= b
  <2>1. CASE i <= Len(s)
    BY <1>1, <2>1
  <2>2. CASE i > Len(s)
    <3>1. i \in (Len(s) + 1)..(Len(s) + n)
      BY <1>1, <2>2
    <3> QED BY <1>2, <3>1
  <2> QED BY <1>1, <2>1, <2>2
<1> QED BY <1>1, <1>3, <1>4

\* Empty is to have no entry.
LEMMA EmptySeq == ASSUME NEW s \in Seq(Nat) PROVE s = <<>> <=> Len(s) = 0
OBVIOUS

\* The front of the stream: taking it leaves the rest, with the same end.
LEMMA StreamFacts ==
  ASSUME NEW s \in Seq(Nat), s # <<>>, NEW b \in Nat, \A i \in 1..Len(s) : s[i] <= b
  PROVE  /\ Head(s) \in 0..b
         /\ Tail(s) \in Seq(Nat)
         /\ \A i \in 1..Len(Tail(s)) : Tail(s)[i] <= b
         /\ Tail(s) = <<>> => Head(s) = s[Len(s)]
         /\ Tail(s) # <<>> => Tail(s)[Len(Tail(s))] = s[Len(s)]
<1>1. /\ Len(s) \in Nat \ {0} /\ Head(s) = s[1] /\ s[1] \in Nat
      /\ Tail(s) \in Seq(Nat) /\ Len(Tail(s)) = Len(s) - 1
      /\ \A i \in 1..(Len(s) - 1) : Tail(s)[i] = s[i + 1]
  OBVIOUS
<1>2. Head(s) \in 0..b
  BY <1>1
<1>3. \A i \in 1..Len(Tail(s)) : Tail(s)[i] <= b
  BY <1>1
<1>4. ASSUME Tail(s) = <<>> PROVE Len(s) = 1
  <2>1. Len(Tail(s)) = 0
    BY <1>1, <1>4, EmptySeq
  <2>2. Len(Tail(s)) = Len(s) - 1 /\ Len(s) \in Nat
    BY <1>1
  <2> QED BY <2>1, <2>2
<1>5. ASSUME Tail(s) # <<>> PROVE Tail(s)[Len(Tail(s))] = s[Len(s)]
  <2>1. Len(Tail(s)) \in 1..(Len(s) - 1)
    BY <1>1, <1>5
  <2> QED BY <1>1, <2>1
<1> QED BY <1>1, <1>2, <1>3, <1>4, <1>5

\* Each step is one of the lock or leaves it alone.
LEMMA LockUnderSync == [SyncNext]_allVars => [Next]_vars
<1> SUFFICES ASSUME [SyncNext]_allVars PROVE [Next]_vars
  OBVIOUS
<1>1. CASE JobArrives \/ JobGivesUp \/ JobFinishes
  BY <1>1 DEF JobArrives, JobGivesUp, JobFinishes, Next
<1>2. CASE PollBroadcast \/ AnswerStatus \/ AcceptSubscriber \/ SetTimeout
  BY <1>2 DEF PollBroadcast, AnswerStatus, AcceptSubscriber, SetTimeout
<1>3. CASE Ask \/ HandleStatus \/ SubscribeStatus \/ HandleUpdate
  BY <1>3 DEF Ask, HandleStatus, SubscribeStatus, HandleUpdate
<1>4. CASE GateEvent
  BY <1>4 DEF GateEvent
<1>5. CASE UNCHANGED allVars
  BY <1>5 DEF allVars
<1> QED BY <1>1, <1>2, <1>3, <1>4, <1>5 DEF SyncNext

\* Each step is one of the gate or leaves it alone.
LEMMA GateUnderSync == [SyncNext]_allVars => [GateNext]_gateVars
<1> SUFFICES ASSUME [SyncNext]_allVars PROVE [GateNext]_gateVars
  OBVIOUS
<1>1. CASE JobArrives \/ JobGivesUp \/ JobFinishes
  BY <1>1 DEF JobArrives, JobGivesUp, JobFinishes
<1>2. CASE PollBroadcast \/ AnswerStatus \/ AcceptSubscriber \/ SetTimeout
  BY <1>2 DEF PollBroadcast, AnswerStatus, AcceptSubscriber, SetTimeout
<1>3. CASE Ask \/ SubscribeStatus
  BY <1>3 DEF Ask, SubscribeStatus
<1>4. CASE HandleStatus
  <2>1. UNCHANGED gateVars \/ CloseGate
    BY <1>4 DEF HandleStatus
  <2> QED BY <2>1 DEF GateNext
<1>5. CASE HandleUpdate
  <2>1. UNCHANGED gateVars \/ CloseGate \/ OpenGate
    BY <1>5 DEF HandleUpdate
  <2> QED BY <2>1 DEF GateNext
<1>6. CASE GateEvent
  <2>1. SoftDeadline \/ HardDeadline \/ \E o \in Ops : OpStep(o)
    BY <1>6 DEF GateEvent
  <2> QED BY <2>1 DEF GateNext
<1>7. CASE UNCHANGED allVars
  BY <1>7 DEF allVars
<1> QED BY <1>1, <1>2, <1>3, <1>4, <1>5, <1>6, <1>7 DEF SyncNext

\* Only updates open or close the gate: operations and deadlines move it
\* between draining and locked.
LEMMA EventKeepsSide ==
  ASSUME GateInv, GateEvent
  PROVE  state = "open" <=> state' = "open"
<1>0. DrainInv
  BY DEF GateInv
<1>1. CASE SoftDeadline
  BY <1>1 DEF SoftDeadline
<1>2. CASE HardDeadline
  BY <1>0, <1>2 DEF HardDeadline, DrainInv, DeadlineGuardsDrain
<1>3. ASSUME NEW o \in Ops, EnterGate(o) \/ ResumeEnter(o)
      PROVE  state = "open" <=> state' = "open"
  BY <1>3 DEF EnterGate, ResumeEnter
<1>4. ASSUME NEW o \in Ops, ExitGate(o) PROVE state = "open" <=> state' = "open"
  BY <1>4 DEF ExitGate, CheckDrainComplete
<1> QED BY <1>1, <1>2, <1>3, <1>4 DEF GateEvent, OpStep

\* What is on its way after a broadcast ends with the owner.
LEMMA BroadcastStep ==
  ASSUME TicketsTaken, ClientInv, NEW n \in {1, 2}, Broadcast(n),
         arrived' \in Nat, arrived <= arrived', owner' \in 0..arrived',
         UNCHANGED <<state, web, wasLocked>>
  PROVE  /\ stream' \in Seq(Nat)
         /\ \A i \in 1..Len(stream') : stream'[i] <= arrived'
         /\ ClientInv'
<1>0. /\ stream \in Seq(Nat) /\ owner' \in Nat /\ owner' <= arrived'
      /\ \A i \in 1..Len(stream) : stream[i] <= arrived'
  BY DEF TicketsTaken
<1>1. CASE web = "subscribed"
  <2>0. PICK u : u = [k \in 1..n |-> owner']
    OBVIOUS
  <2>1. stream' = stream \o u
    BY <1>1, <2>0 DEF Broadcast
  <2>a. u \in Seq(Nat) /\ Len(u) = n /\ \A i \in 1..n : u[i] = owner'
    BY <1>0, <2>0
  <2>2. /\ stream' \in Seq(Nat) /\ stream' # <<>> /\ stream'[Len(stream')] = owner'
        /\ \A i \in 1..Len(stream') : stream'[i] <= arrived'
    BY <1>0, <2>1, <2>a, BroadcastFacts
  <2> QED BY <1>1, <2>2 DEF ClientInv
<1>2. CASE web # "subscribed"
  BY <1>0, <1>2 DEF Broadcast, ClientInv
<1> QED BY <1>1, <1>2

\* A ticket taken, given up or served; what is on its way grows by the owner.
LEMMA LockMoves ==
  ASSUME TicketsTaken, ClientInv, JobArrives \/ JobGivesUp \/ JobFinishes
  PROVE  TicketsTaken' /\ ClientInv'
<1> USE DEF TicketsTaken
<1>1. CASE JobArrives
  <2>1. /\ arrived' = arrived + 1 /\ arrived' \in Nat /\ arrived <= arrived'
        /\ UNCHANGED <<state, web, wasLocked, overrides>>
    BY <1>1 DEF JobArrives, Arrive
  <2>2. \A i \in 1..Len(overrides') : overrides'[i] <= arrived'
    BY <2>1
  <2>3. CASE owner = 0 /\ owner' = arrived' /\ UNCHANGED waiting
    <3>1. Broadcast(1) /\ timeoutOf' = 0
      BY <1>1, <2>1, <2>3 DEF JobArrives
    <3>2. /\ stream' \in Seq(Nat) /\ ClientInv'
          /\ \A i \in 1..Len(stream') : stream'[i] <= arrived'
      BY <2>1, <2>3, <3>1, BroadcastStep
    <3>3. waiting' \in SUBSET (1..arrived')
      BY <2>1, <2>3
    <3> QED BY <2>1, <2>2, <2>3, <3>1, <3>2, <3>3
  <2>4. CASE owner # 0 /\ waiting' = waiting \cup {arrived'} /\ UNCHANGED owner
    <3>1. UNCHANGED <<stream, timeoutOf>>
      BY <1>1, <2>4 DEF JobArrives
    <3>2. ClientInv'
      BY <2>1, <2>4, <3>1 DEF ClientInv
    <3>3. waiting' \in SUBSET (1..arrived')
      BY <2>1, <2>4
    <3>4. \A i \in 1..Len(stream') : stream'[i] <= arrived'
      BY <2>1, <3>1
    <3> QED BY <2>1, <2>2, <2>4, <3>1, <3>2, <3>3, <3>4
  <2> QED BY <1>1, <2>3, <2>4 DEF JobArrives, Arrive
<1>2. CASE JobGivesUp
  <2>1. /\ UNCHANGED <<arrived, owner, state, web, wasLocked, stream, overrides, timeoutOf>>
        /\ waiting' \subseteq waiting
    BY <1>2 DEF JobGivesUp, GiveUp, syncVars
  <2> QED BY <2>1 DEF ClientInv
<1>3. CASE JobFinishes
  <2>1. /\ UNCHANGED <<arrived, state, web, wasLocked, overrides>>
        /\ timeoutOf' = 0
    BY <1>3 DEF JobFinishes, Finish
  <2>2. owner' \in 0..arrived /\ waiting' \in SUBSET (1..arrived)
    <3>1. CASE owner' = 0 /\ UNCHANGED waiting
      BY <3>1
    <3>2. ASSUME NEW t \in waiting, owner' = t, waiting' = waiting \ {t}
          PROVE  owner' \in 0..arrived /\ waiting' \in SUBSET (1..arrived)
      BY <3>2
    <3> QED BY <1>3, <3>1, <3>2 DEF JobFinishes, Finish
  <2>3. PICK n \in {1, 2} : Broadcast(n)
    BY <1>3 DEF JobFinishes
  <2>4. /\ stream' \in Seq(Nat) /\ ClientInv'
        /\ \A i \in 1..Len(stream') : stream'[i] <= arrived'
    BY <2>1, <2>2, <2>3, BroadcastStep
  <2> QED BY <2>1, <2>2, <2>4
<1> QED BY <1>1, <1>2, <1>3

\* What benchd answers and broadcasts on its own, and the override it gets.
LEMMA BenchdAnswers ==
  ASSUME TicketsTaken, ClientInv,
         PollBroadcast \/ AnswerStatus \/ AcceptSubscriber \/ SetTimeout
  PROVE  TicketsTaken' /\ ClientInv'
<1> USE DEF TicketsTaken
<1>0. UNCHANGED <<arrived, owner, waiting, state, wasLocked>>
  BY DEF PollBroadcast, AnswerStatus, AcceptSubscriber, SetTimeout, vars
<1>1. CASE PollBroadcast
  <2>1. web = "subscribed" /\ UNCHANGED <<web, overrides, timeoutOf>>
    BY <1>1 DEF PollBroadcast
  <2>2. Broadcast(1) /\ arrived' \in Nat /\ arrived <= arrived' /\ owner' \in 0..arrived'
    BY <1>0, <1>1 DEF PollBroadcast
  <2>3. /\ stream' \in Seq(Nat) /\ ClientInv'
        /\ \A i \in 1..Len(stream') : stream'[i] <= arrived'
    BY <1>0, <2>1, <2>2, BroadcastStep
  <2> QED BY <1>0, <2>1, <2>3
<1>2. CASE AnswerStatus
  <2>1. web = "asked" /\ web' = "answered" /\ stream' = <<owner>> /\ UNCHANGED <<overrides, timeoutOf>>
    BY <1>2 DEF AnswerStatus
  <2> QED BY <1>0, <2>1 DEF ClientInv
<1>3. CASE AcceptSubscriber
  <2>1. /\ web = "subscribing" /\ web' = "subscribed" /\ stream' = <<owner>>
        /\ UNCHANGED <<overrides, timeoutOf>>
    BY <1>3 DEF AcceptSubscriber
  <2> QED BY <1>0, <2>1 DEF ClientInv
<1>4. CASE SetTimeout
  <2>1. /\ overrides # <<>> /\ overrides' = Tail(overrides)
        /\ timeoutOf' = IF owner = 0 THEN timeoutOf ELSE Head(overrides)
        /\ UNCHANGED <<web, stream>>
    BY <1>4 DEF SetTimeout
  <2>2. /\ Head(overrides) \in 0..arrived /\ Tail(overrides) \in Seq(Nat)
        /\ \A i \in 1..Len(Tail(overrides)) : Tail(overrides)[i] <= arrived
    BY <2>1, StreamFacts
  <2> QED BY <1>0, <2>1, <2>2 DEF ClientInv
<1> QED BY <1>1, <1>2, <1>3, <1>4

\* bench-web's side: the start of the client and the edges of the updates.
LEMMA ClientMoves ==
  ASSUME TicketsTaken, ClientInv, GateInv,
         Ask \/ HandleStatus \/ SubscribeStatus \/ HandleUpdate \/ GateEvent
  PROVE  TicketsTaken' /\ ClientInv'
<1> USE DEF TicketsTaken
<1>0. UNCHANGED <<arrived, owner, waiting, timeoutOf>>
  BY DEF Ask, HandleStatus, SubscribeStatus, HandleUpdate, GateEvent, vars, syncVars
<1>1. CASE Ask
  BY <1>0, <1>1 DEF Ask, ClientInv
<1>2. CASE HandleStatus
  <2>1. /\ web = "answered" /\ wasLocked' = (Head(stream) # 0) /\ stream' = <<>>
        /\ UNCHANGED overrides
    BY <1>2 DEF HandleStatus
  <2>2. state = "open" /\ ~wasLocked
    BY <2>1 DEF ClientInv
  <2>3. \/ Head(stream) = 0 /\ web' = "subscribing" /\ state' = state
        \/ Head(stream) # 0 /\ web' = "closing" /\ CloseGate
    BY <1>2 DEF HandleStatus
  <2>4. CloseGate => state' # "open"
    BY DEF CloseGate
  <2>5. wasLocked' \in BOOLEAN /\ (wasLocked' <=> state' # "open")
    BY <2>1, <2>2, <2>3, <2>4
  <2>6. web' \in {"closing", "subscribing"}
    BY <2>3
  <2>7. ClientInv'
    BY <2>1, <2>5, <2>6 DEF ClientInv
  <2>8. /\ stream' \in Seq(Nat) /\ Len(stream') = 0
    BY <2>1
  <2> QED BY <1>0, <2>1, <2>7, <2>8
<1>3. CASE SubscribeStatus
  BY <1>0, <1>3 DEF SubscribeStatus, ClientInv
<1>4. CASE HandleUpdate
  <2>1. /\ web = "subscribed" /\ web' = web /\ stream # <<>>
        /\ wasLocked' = (Head(stream) # 0) /\ stream' = Tail(stream)
    BY <1>4 DEF HandleUpdate
  <2>2. /\ Head(stream) \in 0..arrived
        /\ stream' \in Seq(Nat) /\ \A i \in 1..Len(stream') : stream'[i] <= arrived
        /\ stream' = <<>> => Head(stream) = owner
        /\ stream' # <<>> => stream'[Len(stream')] = owner
    BY <2>1, StreamFacts DEF ClientInv
  <2>3. \/ /\ Head(stream) # 0 /\ ~wasLocked /\ CloseGate
           /\ overrides' = Append(overrides, Head(stream))
        \/ Head(stream) = 0 /\ wasLocked /\ OpenGate /\ UNCHANGED overrides
        \/ (Head(stream) # 0) = wasLocked /\ state' = state /\ UNCHANGED overrides
    BY <1>4 DEF HandleUpdate
  <2>4. (CloseGate => state' # "open") /\ (OpenGate => state' = "open")
    BY DEF CloseGate, OpenGate
  <2>5. overrides' \in Seq(Nat) /\ \A i \in 1..Len(overrides') : overrides'[i] <= arrived
    <3>1. CASE UNCHANGED overrides
      BY <3>1
    <3>2. CASE overrides' = Append(overrides, Head(stream))
      <4>1. Head(stream) \in Nat /\ Head(stream) <= arrived
        BY <2>2
      <4> HIDE <2>2
      <4> QED BY <3>2, <4>1
    <3> QED BY <2>3, <3>1, <3>2
  <2>6. wasLocked' \in BOOLEAN /\ (wasLocked' <=> state' # "open")
    BY <2>1, <2>3, <2>4 DEF ClientInv
  <2>7. ClientInv'
    BY <1>0, <2>1, <2>2, <2>6 DEF ClientInv
  <2> QED BY <1>0, <2>2, <2>5, <2>7
<1>5. CASE GateEvent
  <2>1. UNCHANGED syncVars /\ (state = "open" <=> state' = "open")
    BY <1>5, EventKeepsSide DEF GateEvent
  <2> QED BY <1>0, <2>1 DEF syncVars, ClientInv
<1> QED BY <1>1, <1>2, <1>3, <1>4, <1>5

\* Every step of benchd, of bench-web and of the messages between them.
LEMMA SyncStep == SyncInv /\ [SyncNext]_allVars => SyncInv'
<1> SUFFICES ASSUME SyncInv, [SyncNext]_allVars PROVE SyncInv'
  OBVIOUS
<1>0. TicketsTaken /\ ClientInv /\ GateInv
  BY DEF SyncInv
<1>1. GateInv'
  BY <1>0, GateUnderSync, GateTypeStep, CountStep, DrainStep, WaiterStep, SeparateStep DEF GateInv
<1>2. ASSUME UNCHANGED allVars PROVE TicketsTaken' /\ ClientInv'
  <2>1. UNCHANGED <<arrived, owner, waiting, state, web, wasLocked, stream, overrides, timeoutOf>>
    BY <1>2 DEF allVars, vars, syncVars
  <2>2. TicketsTaken'
    BY <1>0, <2>1 DEF TicketsTaken
  <2>3. ClientInv'
    BY <1>0, <2>1 DEF ClientInv
  <2> QED BY <2>2, <2>3
<1>3. TicketsTaken' /\ ClientInv'
  BY <1>0, <1>2, LockMoves, BenchdAnswers, ClientMoves DEF SyncNext
<1> QED BY <1>1, <1>3 DEF SyncInv

LEMMA SyncInitInv == SyncInit => SyncInv
<1> SUFFICES ASSUME SyncInit PROVE SyncInv
  OBVIOUS
<1>1. GateInv
  BY GateInitInv DEF SyncInit, GateInv
<1>2. state = "open"
  BY DEF SyncInit, GateInit
<1>3. TicketsTaken
  BY DEF SyncInit, Init, TicketsTaken
<1>4. ClientInv
  BY <1>2 DEF SyncInit, Init, ClientInv
<1> QED BY <1>1, <1>3, <1>4 DEF SyncInv

\* In bench-web's gate, the lock of benchd and the messages between them, each
\* part behaves as it does alone: whatever is proved of the gate for arbitrary
\* updates holds of the gate that benchd's updates move.
THEOREM SyncComposes == SyncSpec => Spec /\ GateSpec
<1>1. SyncInit => Init /\ GateInit
  BY DEF SyncInit
<1>2. [SyncNext]_allVars => [Next]_vars /\ [GateNext]_gateVars
  BY LockUnderSync, GateUnderSync
<1> QED BY <1>1, <1>2, PTL DEF SyncSpec, Spec, GateSpec

\* bench-web isolates the machine exactly while a job holds benchd's lock, as
\* soon as it has handled what it was sent: the first answer, the subscription
\* and the updates leave no gap through which a change of the lock is missed,
\* and no timer ever runs with the override of a ticket nobody took.
THEOREM GateKeepsUp == SyncSpec => []GateFollowsLock
<1>1. SyncInit => SyncInv
  BY SyncInitInv
<1>2. SyncInv /\ [SyncNext]_allVars => SyncInv'
  BY SyncStep
<1>3. SyncInv => GateFollowsLock
  <2> SUFFICES ASSUME SyncInv PROVE GateFollowsLock
    OBVIOUS
  <2>1. TicketsTaken /\ ClientInv /\ GateTypeOK
    BY DEF SyncInv, GateInv
  <2>2. TypeOK /\ stream \in Seq(Nat) /\ overrides \in Seq(Nat)
    BY <2>1 DEF TicketsTaken, TypeOK
  <2>3. SyncTypeOK
    BY <2>1, <2>2 DEF SyncTypeOK, TicketsTaken, ClientInv
  <2>4. IsolationConverges
    BY <2>1 DEF IsolationConverges, ClientInv
  <2> QED BY <2>3, <2>4 DEF GateFollowsLock
<1> QED BY <1>1, <1>2, <1>3, PTL DEF SyncSpec
=============================================================================
