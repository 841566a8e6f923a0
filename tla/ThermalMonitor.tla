--------------------------- MODULE ThermalMonitor ---------------------------
(***************************************************************************)
(* benchd's thermal monitor (packages/benchd/src/thermal.ts) and the ring  *)
(* buffer under it (packages/shared/src/thermal.ts).  A poll reads the     *)
(* sensor, keeps the reading, learns the temperature of the idle machine   *)
(* and answers the jobs that wait for it; requests arrive between polls.   *)
(* Time is counted in polls, temperatures in whole degrees.                *)
(***************************************************************************)
EXTENDS Integers, Sequences

CONSTANTS
  Temps,       \* what the sensor can read
  NoTemp,      \* no reading: no sensor, or one that fails
  Capacity,    \* readings the ring buffer holds
  Window,      \* readings the trend looks at
  Settling,    \* baselineSettlingMs, in polls
  Margin,      \* thermalMarginC
  Fallback,    \* the target without a baseline
  Waits,       \* the thermal.wait requests
  Targets,     \* the targets they ask for; 0 is "auto"
  Patience,    \* their timeout, in polls
  MaxPolls     \* bound: polls

ASSUME ThermalAssumption ==
  /\ Patience # 0
  /\ Temps \subseteq Nat /\ NoTemp \notin Nat
  /\ Capacity \in Nat \ {0} /\ Window \in Nat \ {0}
  /\ {Settling, Margin, Fallback, Patience, MaxPolls} \subseteq Nat
  /\ Targets \subseteq Nat

VARIABLES
  polls,      \* polls so far: the time
  buffer,     \* ThermalRingBuffer.buffer, indexed from 0 as in the code
  head,       \* where the next reading goes
  count,      \* readings in the buffer
  readings,   \* every reading so far
  currentTemp,
  idleBaseline,
  stableAt,   \* stableStartedAt
  unrest,     \* the last poll whose trend was not stable
  waiters,    \* [waiting request -> its target and deadline]
  answered    \* [request -> its answer, when, and the reading it names]

thermalVars == <<polls, buffer, head, count, readings, currentTemp, idleBaseline,
                 stableAt, unrest, waiters, answered>>

NoAnswer == [type |-> "none", at |-> 0, temp |-> NoTemp]

\* The type invariant: the monitor's fields and the answers it has sent.
ThermalTypeOK ==
  /\ polls \in 0..MaxPolls
  /\ buffer \in [0..Capacity - 1 -> Temps \cup {0}]
  /\ head \in 0..Capacity - 1 /\ count \in 0..Capacity
  /\ readings \in Seq(Temps)
  /\ currentTemp \in Temps \cup {NoTemp}
  /\ idleBaseline \in Temps \cup {NoTemp}
  /\ stableAt \in 0..MaxPolls /\ unrest \in 0..MaxPolls
  /\ \A w \in DOMAIN waiters : w \in Waits /\ answered[w] = NoAnswer
  /\ \A w \in Waits : answered[w].type \in {"none", "ready", "timeout"}

ThermalInit ==
  /\ polls = 0 /\ readings = <<>>
  /\ buffer = [i \in 0..Capacity - 1 |-> 0] /\ head = 0 /\ count = 0
  /\ currentTemp = NoTemp /\ idleBaseline = NoTemp
  /\ stableAt = 0 /\ unrest = 0
  /\ waiters = <<>>
  /\ answered = [w \in Waits |-> NoAnswer]

-----------------------------------------------------------------------------
(* The ring buffer.                                                        *)

\* Fault: the buffer counts on when it is full.
PushUncapped(t) ==
  /\ buffer' = [buffer EXCEPT ![head] = t]
  /\ head' = (head + 1) % Capacity
  /\ count' = (count + 1) % (Capacity + 1)

Push(t) ==
  /\ buffer' = [buffer EXCEPT ![head] = t]
  /\ head' = (head + 1) % Capacity
  /\ count' = IF count < Capacity THEN count + 1 ELSE count

\* toArray: oldest first.
ToArray ==
  LET start == IF count < Capacity THEN 0 ELSE head
  IN [i \in 1..count |-> buffer[(start + i - 1) % Capacity]]

\* trend, of the buffer after a push: the newest reading against the oldest of
\* the window, with a threshold of one degree and a half.
Trend(buf, hd, cnt) ==
  LET take == IF Window < cnt THEN Window ELSE cnt
      diff == buf[(hd - 1 + Capacity) % Capacity] - buf[(hd - take + Capacity) % Capacity]
  IN IF cnt < 2 THEN "stable"
     ELSE IF diff > 1 THEN "rising" ELSE IF diff < -1 THEN "falling" ELSE "stable"

-----------------------------------------------------------------------------
(* The monitor.                                                            *)

\* getEffectiveTarget.
EffectiveTarget(requested) ==
  IF requested > 0 THEN requested
  ELSE IF idleBaseline # NoTemp THEN idleBaseline + Margin ELSE Fallback

\* waitForTarget: a machine that is cool enough answers at once.
WaitForTarget(w, requested) ==
  /\ answered[w] = NoAnswer /\ w \notin DOMAIN waiters
  /\ LET target == EffectiveTarget(requested)
     IN IF currentTemp # NoTemp /\ currentTemp <= target
        THEN /\ answered' = [answered EXCEPT
                  ![w] = [type |-> "ready", at |-> polls, temp |-> currentTemp]]
             /\ UNCHANGED waiters
        ELSE /\ waiters' = [v \in {w} \cup DOMAIN waiters |->
                  IF v = w THEN [target |-> target, deadline |-> polls + Patience]
                  ELSE waiters[v]]
             /\ UNCHANGED answered
  /\ UNCHANGED <<polls, buffer, head, count, readings, currentTemp, idleBaseline,
                 stableAt, unrest>>

\* Fault: a stable phase outlives the unrest that follows it.
BaselineThroughUnrest(t, trend) ==
  /\ stableAt' = IF stableAt = 0 /\ trend = "stable" THEN polls' ELSE stableAt
  /\ idleBaseline' =
       IF /\ trend = "stable"
          /\ IF idleBaseline = NoTemp THEN TRUE ELSE t <= idleBaseline
          /\ stableAt # 0 /\ polls' - stableAt >= Settling
       THEN t ELSE idleBaseline

\* updateBaseline: after a settled phase the baseline follows the readings
\* down, never up; only a trend that is not stable ends a phase.
UpdateBaseline(t, trend) ==
  LET cool == trend = "stable" /\ (IF idleBaseline = NoTemp THEN TRUE ELSE t <= idleBaseline)
  IN /\ idleBaseline' =
          IF cool /\ stableAt # 0 /\ polls' - stableAt >= Settling THEN t ELSE idleBaseline
     /\ stableAt' = IF trend # "stable" THEN 0
                    ELSE IF cool /\ stableAt = 0 THEN polls' ELSE stableAt

\* Fault: without a reading nobody's deadline is looked at.
CheckIfRead(t) ==
  IF t = NoTemp THEN {} ELSE
    {w \in DOMAIN waiters : t <= waiters[w].target \/ polls' >= waiters[w].deadline}

\* The waiters a poll answers.  The code passes 0 when there is no reading.
Due(t) ==
  {w \in DOMAIN waiters : \/ t = NoTemp \/ t <= waiters[w].target
                          \/ polls' >= waiters[w].deadline}

\* Fault: a waiter that was answered stays in the list.
AnswerAndKeep(t) ==
  /\ answered' = [w \in Waits |-> IF w \in Due(t)
       THEN [type |-> "ready", at |-> polls', temp |-> IF t = NoTemp THEN 0 ELSE t]
       ELSE answered[w]]
  /\ UNCHANGED waiters

\* checkWaiters: ready, or too late; the others go on waiting.
CheckWaiters(t) ==
  LET temp == IF t = NoTemp THEN 0 ELSE t
  IN /\ answered' = [w \in Waits |->
          IF w \notin Due(t) THEN answered[w]
          ELSE [type |-> IF temp <= waiters[w].target THEN "ready" ELSE "timeout",
                at |-> polls', temp |-> temp]]
     /\ waiters' = [w \in DOMAIN waiters \ Due(t) |-> waiters[w]]

\* poll: a reading is kept and learnt from; the waiters are checked either way.
Poll(t) ==
  /\ polls < MaxPolls
  /\ polls' = polls + 1
  /\ IF t = NoTemp
     THEN UNCHANGED <<buffer, head, count, readings, currentTemp, idleBaseline, stableAt, unrest>>
     ELSE /\ currentTemp' = t
          /\ readings' = Append(readings, t)
          /\ Push(t)
          /\ LET trend == Trend(buffer', head', count')
             IN /\ UpdateBaseline(t, trend)
                /\ unrest' = IF trend = "stable" THEN unrest ELSE polls'
  /\ CheckWaiters(t)

ThermalPoll == \E t \in Temps \cup {NoTemp} : Poll(t)

ThermalNext ==
  \/ ThermalPoll
  \/ \E w \in Waits, requested \in Targets : WaitForTarget(w, requested)

\* setInterval goes on polling, as far as the bound of this model lets it.
ThermalSpec == ThermalInit /\ [][ThermalNext]_thermalVars /\ WF_thermalVars(ThermalPoll)

-----------------------------------------------------------------------------

\* The history sent to the dashboards is the newest readings, oldest first,
\* also after the ring buffer has wrapped around.
HistoryIsTail ==
  ToArray = SubSeq(readings, Len(readings) - count + 1, Len(readings))
  /\ count = (IF Len(readings) < Capacity THEN Len(readings) ELSE Capacity)

\* The readings and what is derived from them have their types, and none is
\* lost or out of order.
ReadingsAreSound == ThermalTypeOK /\ HistoryIsTail

\* The baseline is learnt from a settled machine only: when it changes, no
\* trend of the settling time before was other than stable, and it falls.
BaselineSettled ==
  [][idleBaseline' # idleBaseline =>
       /\ unrest + Settling < polls'
       /\ idleBaseline # NoTemp => idleBaseline' < idleBaseline]_thermalVars

\* A job that waits for the machine to cool is answered within the patience it
\* asked for, with or without a sensor.
WaitIsBounded ==
  \A w \in DOMAIN waiters : polls < waiters[w].deadline

=============================================================================
