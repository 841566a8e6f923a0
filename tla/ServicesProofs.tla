--------------------------- MODULE ServicesProofs ---------------------------
(***************************************************************************)
(* Proofs about the small services, for every value of their constants.    *)
(* The thermal monitor: no job waits longer than it asked for, the         *)
(* baseline is learnt from a settled machine and only falls, and the       *)
(* history is the newest readings however often the ring buffer has        *)
(* wrapped around.  The client of benchd: it handles the daemon's lines    *)
(* whole, each once and in order, and what it settles is its own.  The     *)
(* status websocket: the counters are the websockets that are open, and no *)
(* client of benchd outlives its websocket unnoticed.  The rate limits: in *)
(* no stretch of a window's length does an address pass more than twice    *)
(* the limit, and nobody is refused who has not used it up.                *)
(***************************************************************************)
EXTENDS ThermalMonitor, IpcClient, WsStatus, RateLimit, FiniteSetTheorems, TLAPS

-----------------------------------------------------------------------------
(* The thermal monitor.                                                    *)

\* What a request that waits looks like, and that every request has an answer
\* or none.
WaitersOK ==
  /\ answered = [w \in Waits |-> answered[w]]
  /\ \A w \in DOMAIN waiters : waiters[w].deadline \in Nat

\* A stable phase begins after the last poll that was not stable, and not in
\* the future.
SettledSince ==
  /\ stableAt # 0 => unrest < stableAt
  /\ stableAt <= polls /\ unrest <= polls

ThermalInv == ThermalTypeOK /\ WaitersOK /\ SettledSince /\ WaitIsBounded

\* A successor of an index of the ring buffer is one.
LEMMA WrapAround == ASSUME NEW n \in Nat PROVE n % Capacity \in 0..Capacity - 1
  BY ThermalAssumption

\* At the start nothing was read and nobody waits.
LEMMA ThermalStart == ThermalInit => ThermalInv
<1> SUFFICES ASSUME ThermalInit PROVE ThermalInv
  OBVIOUS
<1>1. DOMAIN waiters = {}
  BY DEF ThermalInit
<1>2. ThermalTypeOK
  <2>1. buffer \in [0..Capacity - 1 -> Temps \cup {0}] /\ 0 \in 0..Capacity - 1
    BY ThermalAssumption DEF ThermalInit
  <2>2. /\ \A w \in DOMAIN waiters : w \in Waits /\ answered[w] = NoAnswer
        /\ \A w \in Waits : answered[w].type \in {"none", "ready", "timeout"}
    BY <1>1 DEF ThermalInit, NoAnswer
  <2> QED BY <2>1, <2>2, ThermalAssumption DEF ThermalInit, ThermalTypeOK
<1>3. WaitersOK /\ WaitIsBounded
  BY <1>1 DEF ThermalInit, WaitersOK, WaitIsBounded
<1>4. SettledSince
  BY DEF ThermalInit, SettledSince
<1> QED BY <1>2, <1>3, <1>4 DEF ThermalInv

\* A request that is answered at once, or that starts to wait, has its patience
\* ahead of it.
LEMMA WaitStep ==
  ASSUME ThermalInv, NEW w \in Waits, NEW requested \in Targets, WaitForTarget(w, requested)
  PROVE  ThermalInv'
<1>0. ThermalTypeOK /\ WaitersOK /\ SettledSince /\ WaitIsBounded
  BY DEF ThermalInv
<1>1. /\ answered[w] = NoAnswer /\ w \notin DOMAIN waiters
      /\ UNCHANGED <<polls, buffer, head, count, readings, currentTemp, idleBaseline,
                     stableAt, unrest>>
  BY DEF WaitForTarget
<1>2. SettledSince'
  BY <1>0, <1>1 DEF SettledSince
<1>3. CASE /\ answered' = [answered EXCEPT
                ![w] = [type |-> "ready", at |-> polls, temp |-> currentTemp]]
           /\ UNCHANGED waiters
  <2>1. WaitersOK' /\ WaitIsBounded'
    BY <1>0, <1>1, <1>3 DEF WaitersOK, WaitIsBounded
  <2>2. /\ \A v \in DOMAIN waiters' : v \in Waits /\ answered'[v] = NoAnswer
        /\ \A v \in Waits : answered'[v].type \in {"none", "ready", "timeout"}
    BY <1>0, <1>1, <1>3 DEF ThermalTypeOK, WaitersOK
  <2> QED BY <1>0, <1>1, <1>2, <2>1, <2>2 DEF ThermalInv, ThermalTypeOK
<1>4. CASE /\ \E target \in {EffectiveTarget(requested)} :
                waiters' = [v \in {w} \cup DOMAIN waiters |->
                              IF v = w THEN [target |-> target, deadline |-> polls + Patience]
                              ELSE waiters[v]]
           /\ UNCHANGED answered
  <2>1. /\ DOMAIN waiters' = {w} \cup DOMAIN waiters
        /\ \A v \in DOMAIN waiters : waiters'[v] = waiters[v]
        /\ waiters'[w].deadline = polls + Patience
    BY <1>1, <1>4
  <2>2. polls + Patience \in Nat /\ polls < polls + Patience
    BY <1>0, ThermalAssumption DEF ThermalTypeOK
  <2>3. WaitersOK' /\ WaitIsBounded'
    BY <1>0, <1>1, <1>4, <2>1, <2>2 DEF WaitersOK, WaitIsBounded
  <2>4. /\ \A v \in DOMAIN waiters' : v \in Waits /\ answered'[v] = NoAnswer
        /\ \A v \in Waits : answered'[v].type \in {"none", "ready", "timeout"}
    BY <1>0, <1>1, <1>4, <2>1 DEF ThermalTypeOK
  <2> QED BY <1>0, <1>1, <1>2, <2>3, <2>4 DEF ThermalInv, ThermalTypeOK
<1> QED BY <1>3, <1>4 DEF WaitForTarget

\* A poll answers everybody whose patience has ended.
LEMMA PollWaiters ==
  ASSUME ThermalInv, NEW t \in Temps \cup {NoTemp}, polls' = polls + 1, CheckWaiters(t)
  PROVE  /\ WaitersOK' /\ WaitIsBounded'
         /\ \A w \in DOMAIN waiters' : w \in Waits /\ answered'[w] = NoAnswer
         /\ \A w \in Waits : answered'[w].type \in {"none", "ready", "timeout"}
<1>0. ThermalTypeOK /\ WaitersOK /\ WaitIsBounded
  BY DEF ThermalInv
<1>1. /\ waiters' = [w \in DOMAIN waiters \ Due(t) |-> waiters[w]]
      /\ answered' = [w \in Waits |->
           IF w \notin Due(t) THEN answered[w]
           ELSE [type |-> IF (IF t = NoTemp THEN 0 ELSE t) <= waiters[w].target
                          THEN "ready" ELSE "timeout",
                 at |-> polls', temp |-> IF t = NoTemp THEN 0 ELSE t]]
  BY DEF CheckWaiters
<1>2. /\ DOMAIN waiters' = DOMAIN waiters \ Due(t)
      /\ \A w \in DOMAIN waiters' : waiters'[w] = waiters[w]
  BY <1>1
<1>3. \A w \in DOMAIN waiters \ Due(t) : ~(polls' >= waiters[w].deadline)
  BY DEF Due
<1>4. WaitIsBounded'
  <2> SUFFICES ASSUME NEW w \in DOMAIN waiters' PROVE polls' < waiters'[w].deadline
    BY DEF WaitIsBounded
  <2>1. waiters[w].deadline \in Nat /\ polls \in Nat
    BY <1>0, <1>2, ThermalAssumption DEF WaitersOK, ThermalTypeOK
  <2> QED BY <1>2, <1>3, <2>1
<1>5. WaitersOK'
  BY <1>0, <1>1, <1>2 DEF WaitersOK
<1>6. \A w \in DOMAIN waiters' : w \in Waits /\ answered'[w] = NoAnswer
  BY <1>0, <1>1, <1>2 DEF ThermalTypeOK
<1>7. \A w \in Waits : answered'[w].type \in {"none", "ready", "timeout"}
  BY <1>0, <1>1 DEF ThermalTypeOK
<1> QED BY <1>4, <1>5, <1>6, <1>7

\* What a reading does to the ring buffer, the baseline and the stable phase.
LEMMA PollReads ==
  ASSUME ThermalInv, NEW t \in Temps, polls < MaxPolls, polls' = polls + 1,
         NEW trend, UpdateBaseline(t, trend), Push(t),
         unrest' = IF trend = "stable" THEN unrest ELSE polls'
  PROVE  /\ buffer' \in [0..Capacity - 1 -> Temps \cup {0}]
         /\ head' \in 0..Capacity - 1 /\ count' \in 0..Capacity
         /\ idleBaseline' \in Temps \cup {NoTemp}
         /\ stableAt' \in 0..MaxPolls /\ unrest' \in 0..MaxPolls
         /\ SettledSince'
         /\ idleBaseline' # idleBaseline =>
              /\ unrest' + Settling < polls'
              /\ idleBaseline # NoTemp => idleBaseline' < idleBaseline
<1>0. ThermalTypeOK /\ SettledSince
  BY DEF ThermalInv
<1>a. /\ polls \in Nat /\ polls' \in 0..MaxPolls /\ stableAt \in 0..MaxPolls
      /\ unrest \in 0..MaxPolls /\ MaxPolls \in Nat /\ t \in Nat
      /\ Settling \in Nat /\ idleBaseline \in Temps \cup {NoTemp}
      /\ idleBaseline # NoTemp => idleBaseline \in Nat
  BY <1>0, ThermalAssumption DEF ThermalTypeOK
<1>1. buffer' \in [0..Capacity - 1 -> Temps \cup {0}] /\ count' \in 0..Capacity
  BY <1>0, ThermalAssumption DEF Push, ThermalTypeOK
<1>2. head' \in 0..Capacity - 1
  <2>1. head + 1 \in Nat
    BY <1>0, ThermalAssumption DEF ThermalTypeOK
  <2> QED BY <2>1, WrapAround DEF Push
<1> DEFINE cool == trend = "stable" /\ (IF idleBaseline = NoTemp THEN TRUE ELSE t <= idleBaseline)
<1>3. /\ idleBaseline' =
           IF cool /\ stableAt # 0 /\ polls' - stableAt >= Settling THEN t ELSE idleBaseline
      /\ stableAt' = IF trend # "stable" THEN 0
                     ELSE IF cool /\ stableAt = 0 THEN polls' ELSE stableAt
  BY DEF UpdateBaseline
<1>4. /\ idleBaseline' \in Temps \cup {NoTemp}
      /\ stableAt' \in 0..MaxPolls /\ unrest' \in 0..MaxPolls
  BY <1>a, <1>3
<1>5. SettledSince'
  BY <1>0, <1>a, <1>3 DEF SettledSince
<1>6. ASSUME idleBaseline' # idleBaseline
      PROVE  /\ unrest' + Settling < polls'
             /\ idleBaseline # NoTemp => idleBaseline' < idleBaseline
  <2>1. /\ idleBaseline' = t /\ stableAt # 0 /\ polls' - stableAt >= Settling
        /\ trend = "stable" /\ (idleBaseline # NoTemp => t <= idleBaseline)
    BY <1>3, <1>6
  <2>2. unrest' = unrest /\ unrest < stableAt
    BY <1>0, <2>1 DEF SettledSince
  <2>3. unrest' + Settling < polls'
    BY <1>a, <2>1, <2>2
  <2>4. idleBaseline # NoTemp => t < idleBaseline
    BY <1>a, <1>6, <2>1
  <2> QED BY <2>1, <2>3, <2>4
<1> QED BY <1>1, <1>2, <1>4, <1>5, <1>6

\* Every step keeps the invariant and changes the baseline only as promised.
LEMMA ThermalStep ==
  ASSUME ThermalInv, [ThermalNext]_thermalVars
  PROVE  /\ ThermalInv'
         /\ idleBaseline' # idleBaseline =>
              /\ unrest + Settling < polls'
              /\ idleBaseline # NoTemp => idleBaseline' < idleBaseline
<1>0. ThermalTypeOK /\ WaitersOK /\ SettledSince /\ WaitIsBounded
  BY DEF ThermalInv
<1>1. ASSUME NEW w \in Waits, NEW requested \in Targets, WaitForTarget(w, requested)
      PROVE  ThermalInv' /\ idleBaseline' = idleBaseline
  BY <1>1, WaitStep DEF WaitForTarget
<1>2. CASE UNCHANGED thermalVars
  BY <1>0, <1>2 DEF thermalVars, ThermalInv, ThermalTypeOK, WaitersOK, SettledSince, WaitIsBounded
<1>3. ASSUME NEW t \in Temps \cup {NoTemp}, Poll(t)
      PROVE  /\ ThermalInv'
             /\ idleBaseline' # idleBaseline =>
                  /\ unrest + Settling < polls'
                  /\ idleBaseline # NoTemp => idleBaseline' < idleBaseline
  <2>1. polls < MaxPolls /\ polls' = polls + 1 /\ CheckWaiters(t)
    BY <1>3 DEF Poll
  <2>2. polls' \in 0..MaxPolls
    BY <1>0, <2>1, ThermalAssumption DEF ThermalTypeOK
  <2>3. /\ WaitersOK' /\ WaitIsBounded'
        /\ \A w \in DOMAIN waiters' : w \in Waits /\ answered'[w] = NoAnswer
        /\ \A w \in Waits : answered'[w].type \in {"none", "ready", "timeout"}
    BY <2>1, PollWaiters
  <2>4. CASE t = NoTemp
    <3>1. UNCHANGED <<buffer, head, count, readings, currentTemp, idleBaseline, stableAt, unrest>>
      BY <1>3, <2>4 DEF Poll
    <3>2. SettledSince'
      BY <1>0, <2>1, <3>1, ThermalAssumption DEF SettledSince, ThermalTypeOK
    <3> QED BY <1>0, <2>2, <2>3, <3>1, <3>2 DEF ThermalInv, ThermalTypeOK
  <2>5. CASE t # NoTemp
    <3>1. PICK trend : /\ currentTemp' = t /\ readings' = Append(readings, t) /\ Push(t)
                       /\ UpdateBaseline(t, trend)
                       /\ unrest' = IF trend = "stable" THEN unrest ELSE polls'
      BY <1>3, <2>5 DEF Poll
    <3>2. /\ buffer' \in [0..Capacity - 1 -> Temps \cup {0}]
          /\ head' \in 0..Capacity - 1 /\ count' \in 0..Capacity
          /\ idleBaseline' \in Temps \cup {NoTemp}
          /\ stableAt' \in 0..MaxPolls /\ unrest' \in 0..MaxPolls
          /\ SettledSince'
          /\ idleBaseline' # idleBaseline =>
               /\ unrest' + Settling < polls'
               /\ idleBaseline # NoTemp => idleBaseline' < idleBaseline
      BY <2>1, <2>5, <3>1, PollReads
    <3>3. readings' \in Seq(Temps) /\ currentTemp' \in Temps \cup {NoTemp}
      BY <1>0, <2>5, <3>1 DEF ThermalTypeOK
    <3>4. idleBaseline' # idleBaseline => unrest' = unrest
      BY <3>1 DEF UpdateBaseline
    <3> QED BY <2>2, <2>3, <3>2, <3>3, <3>4 DEF ThermalInv, ThermalTypeOK
  <2> QED BY <2>4, <2>5
<1> QED BY <1>1, <1>2, <1>3 DEF ThermalNext, ThermalPoll

\* The invariant holds in every run.
LEMMA ThermalInvariance == ThermalSpec => []ThermalInv
<1>1. ThermalInv /\ [ThermalNext]_thermalVars => ThermalInv'
  BY ThermalStep
<1> QED BY <1>1, ThermalStart, PTL DEF ThermalSpec

\* The monitor's fields have their types for every ring buffer and sensor.
THEOREM ThermalTypeCorrect == ThermalSpec => []ThermalTypeOK
<1>1. ThermalInv => ThermalTypeOK
  BY DEF ThermalInv
<1> QED BY <1>1, ThermalInvariance, PTL

\* No job waits longer for the machine to cool than it asked for, with or
\* without a sensor.
THEOREM WaitsAreBounded == ThermalSpec => []WaitIsBounded
<1>1. ThermalInv => WaitIsBounded
  BY DEF ThermalInv
<1> QED BY <1>1, ThermalInvariance, PTL

\* The baseline changes only after a settled time, and falls.
THEOREM BaselineIsEarned == ThermalSpec => BaselineSettled
<1>1. ThermalInv /\ [ThermalNext]_thermalVars =>
        [idleBaseline' # idleBaseline =>
           /\ unrest + Settling < polls'
           /\ idleBaseline # NoTemp => idleBaseline' < idleBaseline]_thermalVars
  BY ThermalStep
<1> QED BY <1>1, ThermalInvariance, PTL DEF ThermalSpec, BaselineSettled

-----------------------------------------------------------------------------
(* The ring buffer.                                                        *)

\* Round the ring once at most.
Wrap(x) == IF x < Capacity THEN x ELSE x - Capacity

Oldest == IF count < Capacity THEN 0 ELSE head

\* The ring holds the newest readings, from the oldest of them on.
RingFits ==
  /\ head \in 0..Capacity - 1 /\ count \in 0..Capacity
  /\ buffer \in [0..Capacity - 1 -> Temps \cup {0}]
  /\ readings \in Seq(Temps)
  /\ count = (IF Len(readings) < Capacity THEN Len(readings) ELSE Capacity)
  /\ count < Capacity => head = count
  /\ \A i \in 1..count : buffer[Wrap(Oldest + i - 1)] = readings[Len(readings) - count + i]

\* The remainder of what goes round once at most.
LEMMA RoundOnce ==
  ASSUME NEW x \in Nat, x < 2 * Capacity
  PROVE  x % Capacity = Wrap(x)
<1>1. Capacity \in Nat /\ Capacity > 0
  BY ThermalAssumption
<1>2. CASE x < Capacity
  <2>1. x % Capacity = x
    BY <1>1, <1>2
  <2> QED BY <1>2, <2>1 DEF Wrap
<1>3. CASE x >= Capacity
  <2>1. x % Capacity = x - Capacity
    BY <1>1, <1>3
  <2> QED BY <1>1, <1>3, <2>1 DEF Wrap
<1> QED BY <1>1, <1>2, <1>3

\* A push keeps it.
LEMMA PushFits ==
  ASSUME RingFits, NEW t \in Temps, Push(t), readings' = Append(readings, t)
  PROVE  RingFits'
<1> DEFINE n == Len(readings)
<1>1. /\ Capacity \in Nat /\ Capacity > 0 /\ head \in 0..Capacity - 1 /\ count \in 0..Capacity
      /\ n \in Nat /\ count = (IF n < Capacity THEN n ELSE Capacity)
      /\ count < Capacity => head = count
  BY ThermalAssumption DEF RingFits
<1>2. /\ buffer' = [buffer EXCEPT ![head] = t]
      /\ head' = Wrap(head + 1)
      /\ count' = IF count < Capacity THEN count + 1 ELSE count
  <2>1. head + 1 \in Nat /\ head + 1 < 2 * Capacity
    BY <1>1
  <2> QED BY <2>1, RoundOnce DEF Push
<1>3. /\ readings' \in Seq(Temps) /\ Len(readings') = n + 1 /\ readings'[n + 1] = t
      /\ \A i \in 1..n : readings'[i] = readings[i]
  BY DEF RingFits
<1>4. /\ buffer \in [0..Capacity - 1 -> Temps \cup {0}]
      /\ buffer' \in [0..Capacity - 1 -> Temps \cup {0}] /\ buffer'[head] = t
      /\ \A j \in 0..Capacity - 1 : j # head => buffer'[j] = buffer[j]
  BY <1>1, <1>2 DEF RingFits
<1>5. /\ head' \in 0..Capacity - 1 /\ count' \in 0..Capacity
      /\ count' = (IF n + 1 < Capacity THEN n + 1 ELSE Capacity)
      /\ count' < Capacity => head' = count'
  BY <1>1, <1>2 DEF Wrap
<1> HIDE DEF n
<1>6. ASSUME NEW i \in 1..count'
      PROVE  buffer'[Wrap(Oldest' + i - 1)] = readings'[n + 1 - count' + i]
  <2>1. CASE count < Capacity
    <3>1. /\ count = n /\ head = n /\ count' = n + 1 /\ i \in 1..n + 1 /\ n < Capacity
          /\ Oldest' = 0 /\ Oldest = 0
      BY <1>1, <1>2, <2>1 DEF Wrap, Oldest
    <3>2. Wrap(Oldest' + i - 1) = i - 1 /\ n + 1 - count' + i = i /\ i - 1 \in 0..Capacity - 1
      BY <1>1, <3>1 DEF Wrap
    <3>3. CASE i = n + 1
      BY <1>1, <1>3, <1>4, <3>1, <3>2, <3>3
    <3>4. CASE i \in 1..n
      <4>1. buffer[Wrap(Oldest + i - 1)] = readings[n - count + i]
        BY <3>1, <3>4 DEF RingFits, n
      <4>2. Wrap(Oldest + i - 1) = i - 1 /\ n - count + i = i /\ i - 1 # head
        BY <1>1, <3>1, <3>4 DEF Wrap
      <4> QED BY <1>3, <1>4, <3>2, <3>4, <4>1, <4>2
    <3>5. i = n + 1 \/ i \in 1..n
      BY <1>1, <3>1
    <3> QED BY <3>3, <3>4, <3>5
  <2>2. CASE count = Capacity
    <3>1. /\ count' = Capacity /\ Oldest = head /\ Oldest' = head' /\ i \in 1..Capacity
          /\ n >= Capacity
      BY <1>1, <1>2, <2>2 DEF Oldest
    <3>2. CASE i = Capacity
      <4>1. Wrap(Oldest' + i - 1) = head /\ n + 1 - count' + i = n + 1
        BY <1>1, <1>2, <3>1, <3>2 DEF Wrap
      <4> QED BY <1>3, <1>4, <4>1
    <3>3. CASE i # Capacity
      <4> DEFINE j == i + 1
      <4>1. j \in 1..count
        BY <1>1, <2>2, <3>1, <3>3
      <4>2. buffer[Wrap(Oldest + j - 1)] = readings[n - count + j]
        BY <4>1 DEF RingFits, n
      <4>3. /\ Wrap(Oldest' + i - 1) = Wrap(Oldest + j - 1) /\ Wrap(Oldest + j - 1) # head
            /\ Wrap(Oldest + j - 1) \in 0..Capacity - 1
        BY <1>1, <1>2, <3>1, <3>3 DEF Wrap
      <4>4. n + 1 - count' + i = n - count + j /\ n - count + j \in 1..n
        BY <1>1, <2>2, <3>1, <3>3
      <4> QED BY <1>3, <1>4, <4>2, <4>3, <4>4
    <3> QED BY <3>2, <3>3
  <2> QED BY <1>1, <2>1, <2>2
<1>7. ASSUME NEW i \in 1..count'
      PROVE  buffer'[Wrap(Oldest' + i - 1)] = readings'[Len(readings') - count' + i]
  <2>1. buffer'[Wrap(Oldest' + i - 1)] = readings'[n + 1 - count' + i]
    BY <1>6
  <2>2. Len(readings') - count' + i = n + 1 - count' + i
    BY <1>1, <1>3, <1>5
  <2> QED BY <2>1, <2>2
<1>8. count' = (IF Len(readings') < Capacity THEN Len(readings') ELSE Capacity)
  BY <1>3, <1>5
<1> QED BY <1>3, <1>4, <1>5, <1>7, <1>8 DEF RingFits

\* toArray is the end of all readings.
LEMMA ArrayIsTail ==
  ASSUME RingFits
  PROVE  HistoryIsTail
<1> DEFINE n == Len(readings)
<1>1. /\ Capacity \in Nat /\ Capacity > 0 /\ head \in 0..Capacity - 1 /\ count \in 0..Capacity
      /\ n \in Nat /\ count = (IF n < Capacity THEN n ELSE Capacity) /\ readings \in Seq(Temps)
  BY ThermalAssumption DEF RingFits
<1>2. ToArray = [i \in 1..count |-> buffer[(Oldest + i - 1) % Capacity]]
  BY DEF ToArray, Oldest
<1>3. ASSUME NEW i \in 1..count
      PROVE  buffer[(Oldest + i - 1) % Capacity] = readings[n - count + i]
  <2>1. Oldest + i - 1 \in Nat /\ Oldest + i - 1 < 2 * Capacity
    BY <1>1 DEF Oldest
  <2>2. (Oldest + i - 1) % Capacity = Wrap(Oldest + i - 1)
    BY <2>1, RoundOnce
  <2> QED BY <2>2 DEF RingFits
<1> HIDE DEF n
<1>4. ToArray = [i \in 1..count |-> readings[n - count + i]]
  BY <1>2, <1>3
<1>5. SubSeq(readings, n - count + 1, n) = [i \in 1..count |-> readings[n - count + i]]
  <2> DEFINE m == n - count + 1
  <2>1. /\ m \in Int /\ n - m + 1 = count /\ n \in Int
        /\ \A i \in 1..count : i + m - 1 = n - count + i
    BY <1>1
  <2> HIDE DEF m
  <2>2. SubSeq(readings, m, n) = [i \in 1..(n - m + 1) |-> readings[i + m - 1]]
    BY <1>1, <2>1
  <2>3. SubSeq(readings, m, n) = [i \in 1..count |-> readings[n - count + i]]
    BY <2>1, <2>2
  <2> QED BY <2>3 DEF m
<1> QED BY <1>1, <1>4, <1>5 DEF HistoryIsTail, n

\* At the start the ring is empty.
LEMMA RingStart == ThermalInit => RingFits
<1> SUFFICES ASSUME ThermalInit PROVE RingFits
  OBVIOUS
<1>1. Capacity \in Nat /\ Capacity > 0
  BY ThermalAssumption
<1>2. buffer \in [0..Capacity - 1 -> Temps \cup {0}]
  BY DEF ThermalInit
<1>3. readings \in Seq(Temps) /\ Len(readings) = 0 /\ count = 0 /\ head = 0
  BY DEF ThermalInit
<1> QED BY <1>1, <1>2, <1>3 DEF RingFits

\* Every step keeps the ring and the readings together.
LEMMA RingStep ==
  ASSUME RingFits, [ThermalNext]_thermalVars
  PROVE  RingFits'
<1>1. CASE UNCHANGED <<buffer, head, count, readings>>
  BY <1>1 DEF RingFits, Oldest, Wrap
<1>2. ASSUME NEW w \in Waits, NEW requested \in Targets, WaitForTarget(w, requested)
      PROVE  RingFits'
  BY <1>1, <1>2 DEF WaitForTarget
<1>3. ASSUME NEW t \in Temps \cup {NoTemp}, Poll(t)
      PROVE  RingFits'
  <2>1. CASE t = NoTemp
    BY <1>1, <1>3, <2>1 DEF Poll
  <2>2. CASE t # NoTemp
    <3>1. t \in Temps /\ Push(t) /\ readings' = Append(readings, t)
      BY <1>3, <2>2 DEF Poll
    <3> QED BY <3>1, PushFits
  <2> QED BY <2>1, <2>2
<1>4. CASE UNCHANGED thermalVars
  BY <1>1, <1>4 DEF thermalVars
<1> QED BY <1>2, <1>3, <1>4 DEF ThermalNext, ThermalPoll

\* What the dashboards are shown is the newest readings, oldest first, however
\* often the ring buffer has wrapped around.
THEOREM HistoryIsKept == ThermalSpec => []ReadingsAreSound
<1>1. RingFits /\ [ThermalNext]_thermalVars => RingFits'
  BY RingStep
<1>2. ThermalInv /\ RingFits => ReadingsAreSound
  BY ArrayIsTail DEF ThermalInv, ReadingsAreSound
<1> QED BY <1>1, <1>2, RingStart, ThermalInvariance, PTL DEF ThermalSpec

-----------------------------------------------------------------------------
(* The client of benchd.                                                   *)

Ids == Requests \cup {Sub}

\* What is at a place of a stream of lines: the text of a line or its end.
Unit(s, j) == IF j % 2 = 1 THEN s[(j + 1) \div 2] ELSE Newline

\* Where a stream of the client's lines has a request and where it has a newline.
Place(j) == IF j % 2 = 1 THEN Ids ELSE {Newline}

\* The client has handled the first lines of what was sent; the buffer and the
\* socket hold the rest, of which the buffer has no whole line.
ClientStream ==
  /\ sent \in Seq(Message) /\ handled \in Seq(Message)
  /\ Len(handled) <= Len(sent)
  /\ \A k \in 1..Len(handled) : handled[k] = sent[k]
  /\ clientBuffer \in Seq(Message \cup {Newline}) /\ toClient \in Seq(Message \cup {Newline})
  /\ Len(clientBuffer) \in {0, 1}
  /\ \A j \in 1..Len(clientBuffer) : clientBuffer[j] = Unit(sent, 2 * Len(handled) + j)
  /\ \A j \in 1..Len(toClient) :
       toClient[j] = Unit(sent, 2 * Len(handled) + Len(clientBuffer) + j)
  /\ socket # "closed" =>
       Len(clientBuffer) + Len(toClient) = 2 * (Len(sent) - Len(handled))

\* To the daemon there are whole lines on the way, behind the part of one that
\* it has.
DaemonStream ==
  /\ daemonBuffer \in Seq(Ids \cup {Newline}) /\ toDaemon \in Seq(Ids \cup {Newline})
  /\ Len(daemonBuffer) \in {0, 1}
  /\ \A j \in 1..Len(daemonBuffer) : daemonBuffer[j] \in Place(j)
  /\ \A j \in 1..Len(toDaemon) : toDaemon[j] \in Place(Len(daemonBuffer) + j)
  /\ (Len(daemonBuffer) + Len(toDaemon)) % 2 = 0

IpcInv == IpcTypeOK /\ ClientStream /\ DaemonStream /\ AnswersAreOwn /\ ClosedSettlesAll

\* The places of the text and of the newline of the line with a number.
LEMMA UnitAt ==
  ASSUME NEW s, NEW k \in Nat, k > 0
  PROVE  Unit(s, 2 * k - 1) = s[k] /\ Unit(s, 2 * k) = Newline
<1>1. (2 * k - 1) % 2 = 1 /\ (2 * k) % 2 = 0 /\ (2 * k - 1 + 1) \div 2 = k
  OBVIOUS
<1> QED BY <1>1 DEF Unit

\* The same of the places of requests.
LEMMA PlaceAt ==
  ASSUME NEW k \in Nat, k > 0
  PROVE  Place(2 * k - 1) = Ids /\ Place(2 * k) = {Newline}
<1>1. (2 * k - 1) % 2 = 1 /\ (2 * k) % 2 = 0
  OBVIOUS
<1> QED BY <1>1 DEF Place

\* Half a number.
LEMMA Halves == ASSUME NEW n \in Nat PROVE \E m \in Nat : n = 2 * m \/ n = 2 * m + 1
<1>1. n \div 2 \in Nat /\ (n = 2 * (n \div 2) \/ n = 2 * (n \div 2) + 1)
  OBVIOUS
<1> QED BY <1>1

\* A function on 1..n is a sequence.
LEMMA AsSequence ==
  ASSUME NEW S, NEW n \in Nat, NEW f \in [1..n -> S]
  PROVE  f \in Seq(S) /\ Len(f) = n
OBVIOUS

\* What is behind a place of a sequence.
LEMMA Behind ==
  ASSUME NEW S, NEW s \in Seq(S), NEW n \in 0..Len(s)
  PROVE  /\ SubSeq(s, n + 1, Len(s)) \in Seq(S)
         /\ Len(SubSeq(s, n + 1, Len(s))) = Len(s) - n
         /\ \A j \in 1..Len(s) - n : SubSeq(s, n + 1, Len(s))[j] = s[n + j]
<1>1. Len(s) \in Nat /\ Len(s) - n \in Nat
  OBVIOUS
<1>2. SubSeq(s, n + 1, Len(s)) = [j \in 1..(Len(s) - (n + 1) + 1) |-> s[j + (n + 1) - 1]]
  BY <1>1
<1>3. Len(s) - (n + 1) + 1 = Len(s) - n /\ \A j \in 1..Len(s) - n : j + (n + 1) - 1 = n + j
  BY <1>1
<1>4. \A j \in 1..Len(s) - n : n + j \in 1..Len(s) /\ s[n + j] \in S
  BY <1>1
<1>5. SubSeq(s, n + 1, Len(s)) = [j \in 1..Len(s) - n |-> s[n + j]]
  BY <1>2, <1>3
<1>6. SubSeq(s, n + 1, Len(s)) \in [1..Len(s) - n -> S]
  BY <1>4, <1>5
<1> QED BY <1>1, <1>5, <1>6, AsSequence

\* What is up to a place of a sequence.
LEMMA UpTo ==
  ASSUME NEW S, NEW s \in Seq(S), NEW n \in 0..Len(s)
  PROVE  /\ SubSeq(s, 1, n) \in Seq(S) /\ Len(SubSeq(s, 1, n)) = n
         /\ \A j \in 1..n : SubSeq(s, 1, n)[j] = s[j]
OBVIOUS

\* Two sequences one after the other.
LEMMA OneAfter ==
  ASSUME NEW S, NEW s \in Seq(S), NEW t \in Seq(S)
  PROVE  /\ s \o t \in Seq(S) /\ Len(s \o t) = Len(s) + Len(t)
         /\ \A j \in 1..Len(s) : (s \o t)[j] = s[j]
         /\ \A j \in 1..Len(t) : (s \o t)[Len(s) + j] = t[j]
OBVIOUS

\* Of a buffer that holds whole lines and the begin of one at most,
\* processBuffer takes the texts of the lines and leaves the begin.
LEMMA CutBuffer ==
  ASSUME NEW T, Newline \notin T, NEW units \in Seq(T \cup {Newline}),
         NEW m \in Nat, Len(units) = 2 * m \/ Len(units) = 2 * m + 1,
         \A k \in 1..m : units[2 * k] = Newline /\ units[2 * k - 1] \in T,
         Len(units) = 2 * m + 1 => units[2 * m + 1] \in T
  PROVE  /\ Lines(units) \in Seq(T) /\ Len(Lines(units)) = m
         /\ \A k \in 1..m : Lines(units)[k] = units[2 * k - 1]
         /\ Rest(units) \in Seq(T \cup {Newline})
         /\ Len(Rest(units)) = Len(units) - 2 * m
         /\ \A j \in 1..Len(units) - 2 * m : Rest(units)[j] = units[2 * m + j]
<1> DEFINE Ends(n) == /\ n = 0 \/ units[n] = Newline
                      /\ \A k \in n + 1..Len(units) : units[k] # Newline
<1>0. Len(units) \in Nat
  OBVIOUS
<1>1. 2 * m \in 0..Len(units) /\ Ends(2 * m)
  <2>1. 2 * m \in 0..Len(units)
    BY <1>0
  <2>2. 2 * m = 0 \/ units[2 * m] = Newline
    <3>1. CASE m = 0
      BY <3>1
    <3>2. CASE m # 0
      <4>1. m \in 1..m
        BY <3>2
      <4> QED BY <4>1
    <3> QED BY <3>1, <3>2
  <2>3. ASSUME NEW k \in 2 * m + 1..Len(units) PROVE units[k] # Newline
    <3>1. k = 2 * m + 1 /\ Len(units) = 2 * m + 1
      BY <1>0, <2>3
    <3> QED BY <3>1
  <2> QED BY <2>1, <2>2, <2>3
<1>2. ASSUME NEW n \in 0..Len(units), Ends(n) PROVE n = 2 * m
  <2>1. CASE n < 2 * m
    <3>1. 2 * m \in n + 1..Len(units) /\ m \in 1..m
      BY <1>0, <2>1
    <3> QED BY <1>2, <3>1
  <2>2. CASE n > 2 * m
    <3>1. n = 2 * m + 1 /\ Len(units) = 2 * m + 1 /\ n # 0
      BY <1>0, <2>2
    <3> QED BY <1>2, <3>1
  <2> QED BY <1>0, <2>1, <2>2
<1>3. Complete(units) = 2 * m
  <2>1. Complete(units) = CHOOSE n \in 0..Len(units) : Ends(n)
    BY DEF Complete
  <2> HIDE DEF Ends
  <2> QED BY <1>1, <1>2, <2>1
<1>4. Complete(units) \div 2 = m
  BY <1>3
<1>5. Lines(units) = [k \in 1..m |-> units[2 * k - 1]]
  BY <1>4 DEF Lines
<1>6. Lines(units) \in Seq(T) /\ Len(Lines(units)) = m
  <2>1. \A k \in 1..m : units[2 * k - 1] \in T
    OBVIOUS
  <2>2. Lines(units) \in [1..m -> T]
    BY <1>5, <2>1
  <2> HIDE DEF Ends
  <2> QED BY <2>2, AsSequence
<1>7. Rest(units) = SubSeq(units, 2 * m + 1, Len(units))
  BY <1>6 DEF Rest
<1>8. /\ Rest(units) \in Seq(T \cup {Newline})
      /\ Len(Rest(units)) = Len(units) - 2 * m
      /\ \A j \in 1..Len(units) - 2 * m : Rest(units)[j] = units[2 * m + j]
  <2> DEFINE c == 2 * m
  <2>1. c \in 0..Len(units) /\ Rest(units) = SubSeq(units, c + 1, Len(units))
    BY <1>1, <1>7
  <2> HIDE DEF Ends, c
  <2>2. /\ Rest(units) \in Seq(T \cup {Newline})
        /\ Len(Rest(units)) = Len(units) - c
        /\ \A j \in 1..Len(units) - c : Rest(units)[j] = units[c + j]
    BY <2>1, Behind
  <2> QED BY <2>2 DEF c
<1> QED BY <1>5, <1>6, <1>8

\* What a chunk of so many units leaves of the streams to the client.
Takes(n, units) ==
  /\ units = clientBuffer \o SubSeq(toClient, 1, n)
  /\ handled' = handled \o Lines(units) /\ clientBuffer' = Rest(units)
  /\ toClient' = SubSeq(toClient, n + 1, Len(toClient))
  /\ UNCHANGED <<socket, sent>>

\* A chunk that arrives at the client.
LEMMA ChunkHandled ==
  ASSUME ClientStream, socket # "closed", NEW n \in 1..Len(toClient),
         NEW units, Takes(n, units)
  PROVE  /\ ClientStream' /\ Lines(units) \in Seq(Message)
<1> DEFINE h == Len(handled)
           b == Len(clientBuffer)
           L == Len(units)
           N == Len(sent)
           C == Len(toClient)
           U == Message \cup {Newline}
<1>a. /\ sent \in Seq(Message) /\ handled \in Seq(Message)
      /\ clientBuffer \in Seq(U) /\ toClient \in Seq(U)
  BY DEF ClientStream
<1>b. Newline \notin Message
  BY IpcAssumption
<1>0. /\ h \in Nat /\ b \in Nat /\ b <= 1 /\ N \in Nat /\ C \in Nat
      /\ h <= N /\ b + C = 2 * (N - h)
      /\ n \in Nat /\ n >= 1 /\ n <= C
  <2>1. /\ b \in {0, 1} /\ h <= N /\ b + C = 2 * (N - h)
    BY DEF ClientStream
  <2>2. h \in Nat /\ N \in Nat /\ C \in Nat
    BY <1>a
  <2> HIDE DEF h, b, N
  <2> QED BY <2>1, <2>2
<1> HIDE DEF U
<1>c. n \in 0..Len(toClient)
  BY <1>0
<1>1. /\ SubSeq(toClient, 1, n) \in Seq(U) /\ Len(SubSeq(toClient, 1, n)) = n
      /\ \A j \in 1..n : SubSeq(toClient, 1, n)[j] = toClient[j]
  BY <1>a, <1>c, UpTo
<1>2. /\ units \in Seq(U) /\ L = b + n
      /\ \A j \in 1..b : units[j] = clientBuffer[j]
      /\ \A j \in 1..n : units[b + j] = SubSeq(toClient, 1, n)[j]
  BY <1>a, <1>1, OneAfter DEF Takes
<1> HIDE DEF L, N, C, h, b
<1>3. ASSUME NEW j \in 1..L PROVE units[j] = Unit(sent, 2 * h + j)
  <2>1. CASE j \in 1..b
    BY <1>2, <2>1 DEF ClientStream, h, b
  <2>2. CASE j > b
    <3> DEFINE i == j - b
    <3>1. i \in 1..n /\ i \in 1..C /\ b + i = j /\ 2 * h + b + i = 2 * h + j
      BY <1>0, <1>2, <2>2
    <3>2. toClient[i] = Unit(sent, 2 * h + b + i)
      BY <3>1 DEF ClientStream, h, b, C
    <3>3. units[b + i] = toClient[i]
      BY <1>1, <1>2, <3>1
    <3> QED BY <3>1, <3>2, <3>3
  <2>3. j \in 1..b \/ j > b
    BY <1>0, <1>2
  <2> QED BY <2>1, <2>2, <2>3
<1>4. PICK m \in Nat : L = 2 * m \/ L = 2 * m + 1
  <2>1. L \in Nat
    BY <1>0, <1>2
  <2> QED BY <2>1, Halves
<1>5. /\ h + m \in Nat /\ h + m <= N
      /\ L = 2 * m + 1 => h + m + 1 <= N
      /\ L <= 2 * (N - h)
  BY <1>0, <1>2, <1>4
<1>6. ASSUME NEW k \in 1..m
      PROVE  units[2 * k] = Newline /\ units[2 * k - 1] = sent[h + k] /\ h + k \in 1..N
  <2>1. /\ 2 * k \in 1..L /\ 2 * k - 1 \in 1..L /\ h + k \in Nat /\ h + k > 0 /\ h + k <= N
        /\ 2 * h + 2 * k = 2 * (h + k) /\ 2 * h + (2 * k - 1) = 2 * (h + k) - 1
    BY <1>0, <1>4, <1>5
  <2>2. units[2 * k] = Unit(sent, 2 * (h + k)) /\ units[2 * k - 1] = Unit(sent, 2 * (h + k) - 1)
    BY <1>3, <2>1
  <2> DEFINE i == h + k
  <2>3. i \in Nat /\ i > 0 /\ i \in 1..N
    BY <2>1
  <2> HIDE DEF i
  <2>4. Unit(sent, 2 * i - 1) = sent[i] /\ Unit(sent, 2 * i) = Newline
    BY <2>3, UnitAt
  <2> QED BY <2>2, <2>3, <2>4 DEF i
<1>7. L = 2 * m + 1 => units[2 * m + 1] = sent[h + m + 1] /\ h + m + 1 \in 1..N
  <2> SUFFICES ASSUME L = 2 * m + 1
               PROVE  units[2 * m + 1] = sent[h + m + 1] /\ h + m + 1 \in 1..N
    OBVIOUS
  <2>1. /\ 2 * m + 1 \in 1..L /\ h + m + 1 \in Nat /\ h + m + 1 > 0 /\ h + m + 1 <= N
        /\ 2 * h + (2 * m + 1) = 2 * (h + m + 1) - 1
    BY <1>0, <1>4, <1>5
  <2>2. units[2 * m + 1] = Unit(sent, 2 * (h + m + 1) - 1)
    BY <1>3, <2>1
  <2> DEFINE i == h + m + 1
  <2>3. i \in Nat /\ i > 0 /\ i \in 1..N
    BY <2>1
  <2> HIDE DEF i
  <2>4. Unit(sent, 2 * i - 1) = sent[i]
    BY <2>3, UnitAt
  <2> QED BY <2>2, <2>3, <2>4 DEF i
<1>8. \A k \in 1..N : sent[k] \in Message
  BY <1>a DEF N
<1>9. /\ Lines(units) \in Seq(Message) /\ Len(Lines(units)) = m
      /\ \A k \in 1..m : Lines(units)[k] = sent[h + k]
      /\ Rest(units) \in Seq(U) /\ Len(Rest(units)) = L - 2 * m
      /\ \A j \in 1..L - 2 * m : Rest(units)[j] = units[2 * m + j]
  <2>1. \A k \in 1..m : units[2 * k] = Newline /\ units[2 * k - 1] \in Message
    BY <1>6, <1>8
  <2>2. L = 2 * m + 1 => units[2 * m + 1] \in Message
    BY <1>7, <1>8
  <2>3. /\ Lines(units) \in Seq(Message) /\ Len(Lines(units)) = m
        /\ \A k \in 1..m : Lines(units)[k] = units[2 * k - 1]
        /\ Rest(units) \in Seq(U) /\ Len(Rest(units)) = L - 2 * m
        /\ \A j \in 1..L - 2 * m : Rest(units)[j] = units[2 * m + j]
    <3>1. units \in Seq(Message \cup {Newline})
      BY <1>2 DEF U
    <3>2. Len(units) = 2 * m \/ Len(units) = 2 * m + 1
      BY <1>4 DEF L
    <3>3. Len(units) = 2 * m + 1 => units[2 * m + 1] \in Message
      BY <2>2 DEF L
    <3>4. /\ Lines(units) \in Seq(Message) /\ Len(Lines(units)) = m
          /\ \A k \in 1..m : Lines(units)[k] = units[2 * k - 1]
          /\ Rest(units) \in Seq(Message \cup {Newline})
          /\ Len(Rest(units)) = Len(units) - 2 * m
          /\ \A j \in 1..Len(units) - 2 * m : Rest(units)[j] = units[2 * m + j]
      BY <1>b, <2>1, <3>1, <3>2, <3>3, CutBuffer
    <3> QED BY <3>4 DEF L, U
  <2> QED BY <1>6, <2>3
<1>10. /\ handled' \in Seq(Message) /\ Len(handled') = h + m
       /\ \A k \in 1..h : handled'[k] = handled[k]
       /\ \A k \in 1..m : handled'[h + k] = Lines(units)[k]
  <2> DEFINE ls == Lines(units)
  <2>1. handled' = handled \o ls /\ ls \in Seq(Message) /\ Len(ls) = m
    BY <1>9 DEF Takes
  <2> HIDE DEF ls
  <2>2. /\ handled \o ls \in Seq(Message) /\ Len(handled \o ls) = h + m
        /\ \A k \in 1..h : (handled \o ls)[k] = handled[k]
        /\ \A k \in 1..m : (handled \o ls)[h + k] = ls[k]
    <3>1. /\ handled \o ls \in Seq(Message) /\ Len(handled \o ls) = Len(handled) + Len(ls)
          /\ \A k \in 1..Len(handled) : (handled \o ls)[k] = handled[k]
          /\ \A k \in 1..Len(ls) : (handled \o ls)[Len(handled) + k] = ls[k]
      <4>1. handled \in Seq(Message) /\ ls \in Seq(Message)
        BY <1>a, <2>1
      <4> QED BY ONLY <4>1, OneAfter
    <3> QED BY <2>1, <3>1 DEF h
  <2> QED BY <2>1, <2>2 DEF ls
<1>11. \A k \in 1..Len(handled') : handled'[k] = sent[k]
  <2> SUFFICES ASSUME NEW k \in 1..h + m PROVE handled'[k] = sent[k]
    BY <1>10
  <2>1. CASE k \in 1..h
    BY <1>10, <2>1 DEF ClientStream, h
  <2>2. CASE k > h
    <3> DEFINE i == k - h
    <3>1. i \in 1..m /\ h + i = k
      BY <1>0, <2>2
    <3> HIDE DEF i
    <3>2. handled'[h + i] = Lines(units)[i] /\ Lines(units)[i] = sent[h + i]
      BY <1>9, <1>10, <3>1
    <3> QED BY <3>1, <3>2
  <2>3. k \in 1..h \/ k > h
    BY <1>0
  <2> QED BY <2>1, <2>2, <2>3
<1>12. /\ clientBuffer' \in Seq(U) /\ Len(clientBuffer') = L - 2 * m /\ L - 2 * m \in {0, 1}
       /\ \A j \in 1..L - 2 * m : clientBuffer'[j] = Unit(sent, 2 * (h + m) + j)
  <2>1. L - 2 * m \in {0, 1}
    BY <1>4
  <2>2. ASSUME NEW j \in 1..L - 2 * m PROVE clientBuffer'[j] = Unit(sent, 2 * (h + m) + j)
    <3>1. 2 * m + j \in 1..L /\ 2 * h + (2 * m + j) = 2 * (h + m) + j
      BY <1>0, <1>4
    <3> QED BY <1>3, <1>9, <3>1 DEF Takes
  <2> QED BY <1>9, <2>1, <2>2 DEF Takes
<1>13. /\ toClient' \in Seq(U) /\ Len(toClient') = C - n
       /\ \A j \in 1..C - n : toClient'[j] = toClient[n + j]
  BY <1>a, <1>c, Behind DEF C, Takes
<1>14. ASSUME NEW j \in 1..Len(toClient')
       PROVE  toClient'[j] = Unit(sent, 2 * (h + m) + (L - 2 * m) + j)
  <2>1. /\ n + j \in 1..C /\ j \in 1..C - n
        /\ 2 * h + b + (n + j) = 2 * (h + m) + (L - 2 * m) + j
    BY <1>0, <1>2, <1>4, <1>13
  <2>2. toClient[n + j] = Unit(sent, 2 * h + b + (n + j))
    BY <2>1 DEF ClientStream, h, b, C
  <2> QED BY <1>13, <2>1, <2>2
<1>15. L - 2 * m + Len(toClient') = 2 * (N - (h + m))
  <2>1. Len(toClient') = C - n
    BY <1>13
  <2>2. L = b + n
    BY <1>2
  <2> QED BY <1>0, <1>4, <2>1, <2>2
<1>16. ClientStream'
  <2>1. /\ sent' = sent /\ socket' = socket /\ sent \in Seq(Message)
        /\ Len(handled') = h + m /\ Len(clientBuffer') = L - 2 * m
    BY <1>a, <1>10, <1>12 DEF Takes
  <2>2. \A j \in 1..Len(clientBuffer') :
           clientBuffer'[j] = Unit(sent', 2 * Len(handled') + j)
    BY <1>12, <2>1
  <2>3. \A j \in 1..Len(toClient') :
           toClient'[j] = Unit(sent', 2 * Len(handled') + Len(clientBuffer') + j)
    BY <1>14, <2>1
  <2>4. Len(clientBuffer') + Len(toClient') = 2 * (Len(sent') - Len(handled'))
    BY <1>15, <2>1 DEF N
  <2> QED BY <1>5, <1>10, <1>11, <1>12, <1>13, <2>1, <2>2, <2>3, <2>4 DEF ClientStream, U, N
<1> QED BY <1>9, <1>16

\* A message that is sent leaves the places before it as they are.
LEMMA UnitStays ==
  ASSUME NEW s \in Seq(Message), NEW m \in Message, NEW j \in 1..2 * Len(s)
  PROVE  Unit(Append(s, m), j) = Unit(s, j)
<1>1. Len(s) \in Nat
  OBVIOUS
<1>2. j % 2 = 1 => (j + 1) \div 2 \in 1..Len(s)
  BY <1>1
<1>3. \A k \in 1..Len(s) : Append(s, m)[k] = s[k]
  OBVIOUS
<1> QED BY <1>2, <1>3 DEF Unit

\* A message on its way to the client.
LEMMA SendStep ==
  ASSUME ClientStream, socket # "closed", NEW m \in Message, Send(m),
         UNCHANGED <<socket, clientBuffer, handled>>
  PROVE  ClientStream'
<1> DEFINE h == Len(handled)
           b == Len(clientBuffer)
           N == Len(sent)
           C == Len(toClient)
           U == Message \cup {Newline}
<1>a. /\ sent \in Seq(Message) /\ handled \in Seq(Message)
      /\ clientBuffer \in Seq(U) /\ toClient \in Seq(U)
  BY DEF ClientStream
<1>0. /\ h \in Nat /\ b \in Nat /\ b <= 1 /\ N \in Nat /\ C \in Nat
      /\ h <= N /\ b + C = 2 * (N - h)
  <2>1. /\ b \in {0, 1} /\ h <= N /\ b + C = 2 * (N - h)
    BY DEF ClientStream
  <2>2. h \in Nat /\ N \in Nat /\ C \in Nat
    BY <1>a
  <2> HIDE DEF h, b, N, C
  <2> QED BY <2>1, <2>2
<1>1. /\ sent' \in Seq(Message) /\ Len(sent') = N + 1 /\ sent'[N + 1] = m
      /\ sent' = Append(sent, m)
      /\ \A k \in 1..N : sent'[k] = sent[k]
  <2>1. sent' = Append(sent, m)
    BY DEF Send
  <2> QED BY <1>a, <2>1
<1>2. /\ toClient' \in Seq(U) /\ Len(toClient') = C + 2
      /\ toClient'[C + 1] = m /\ toClient'[C + 2] = Newline
      /\ \A j \in 1..C : toClient'[j] = toClient[j]
  <2>1. toClient' = toClient \o <<m, Newline>>
    BY DEF Send, Line
  <2>2. <<m, Newline>> \in Seq(U) /\ Len(<<m, Newline>>) = 2
    OBVIOUS
  <2>3. /\ toClient' \in Seq(U) /\ Len(toClient') = C + 2
        /\ \A j \in 1..C : toClient'[j] = toClient[j]
        /\ \A j \in 1..2 : toClient'[C + j] = <<m, Newline>>[j]
    BY <1>a, <2>1, <2>2, OneAfter
  <2> QED BY <2>3
<1>3. handled' = handled /\ clientBuffer' = clientBuffer /\ socket' = socket
  OBVIOUS
<1> HIDE DEF h, b, N, C, U
<1>4. \A k \in 1..h : handled[k] = sent'[k]
  <2>1. \A k \in 1..h : handled[k] = sent[k] /\ k \in 1..N
    BY <1>0 DEF ClientStream, h
  <2> QED BY <1>1, <2>1
<1>5. \A j \in 1..2 * N : Unit(sent', j) = Unit(sent, j)
  BY <1>a, <1>1, UnitStays DEF N
<1>6. \A j \in 1..b : clientBuffer[j] = Unit(sent', 2 * h + j)
  <2> SUFFICES ASSUME NEW j \in 1..b PROVE clientBuffer[j] = Unit(sent', 2 * h + j)
    OBVIOUS
  <2>1. 2 * h + j \in 1..2 * N
    BY <1>0
  <2>2. clientBuffer[j] = Unit(sent, 2 * h + j)
    BY DEF ClientStream, h, b
  <2> QED BY <1>5, <2>1, <2>2
<1>7. \A j \in 1..C + 2 : toClient'[j] = Unit(sent', 2 * h + b + j)
  <2> SUFFICES ASSUME NEW j \in 1..C + 2 PROVE toClient'[j] = Unit(sent', 2 * h + b + j)
    OBVIOUS
  <2>1. CASE j \in 1..C
    <3>1. 2 * h + b + j \in 1..2 * N
      BY <1>0, <2>1
    <3>2. toClient[j] = Unit(sent, 2 * h + b + j)
      BY <2>1 DEF ClientStream, h, b, C
    <3> QED BY <1>2, <1>5, <2>1, <3>1, <3>2
  <2> DEFINE i == N + 1
  <2>2. i \in Nat /\ i > 0 /\ sent'[i] = m
    BY <1>0, <1>1
  <2>3. 2 * h + b + (C + 1) = 2 * i - 1 /\ 2 * h + b + (C + 2) = 2 * i
    BY <1>0
  <2> HIDE DEF i
  <2>4. Unit(sent', 2 * i - 1) = m /\ Unit(sent', 2 * i) = Newline
    BY <2>2, UnitAt
  <2>5. CASE j = C + 1
    BY <1>2, <2>3, <2>4, <2>5
  <2>6. CASE j = C + 2
    BY <1>2, <2>3, <2>4, <2>6
  <2>7. j \in 1..C \/ j = C + 1 \/ j = C + 2
    BY <1>0
  <2> QED BY <2>1, <2>5, <2>6, <2>7
<1>8. h <= N + 1 /\ b + (C + 2) = 2 * ((N + 1) - h)
  BY <1>0
<1>9. b \in {0, 1}
  BY <1>0
<1>10. /\ Len(handled') = h /\ Len(clientBuffer') = b /\ Len(sent') = N + 1
       /\ Len(toClient') = C + 2
  BY <1>1, <1>2, <1>3 DEF h, b
<1> QED BY <1>a, <1>1, <1>2, <1>3, <1>4, <1>6, <1>7, <1>8, <1>9, <1>10 DEF ClientStream, U

\* A request on its way to the daemon.
LEMMA WriteStep ==
  ASSUME DaemonStream, NEW r \in Ids, toDaemon' = toDaemon \o Line(r), UNCHANGED daemonBuffer
  PROVE  DaemonStream'
<1> DEFINE b == Len(daemonBuffer)
           C == Len(toDaemon)
           U == Ids \cup {Newline}
<1>a. daemonBuffer \in Seq(U) /\ toDaemon \in Seq(U)
  BY DEF DaemonStream
<1>0. b \in Nat /\ C \in Nat /\ (b + C) % 2 = 0 /\ b \in {0, 1}
  BY <1>a DEF DaemonStream
<1>1. /\ toDaemon' \in Seq(U) /\ Len(toDaemon') = C + 2
      /\ toDaemon'[C + 1] = r /\ toDaemon'[C + 2] = Newline
      /\ \A j \in 1..C : toDaemon'[j] = toDaemon[j]
  <2>1. toDaemon' = toDaemon \o <<r, Newline>>
    BY DEF Line
  <2>2. <<r, Newline>> \in Seq(U) /\ Len(<<r, Newline>>) = 2
    OBVIOUS
  <2>3. /\ toDaemon' \in Seq(U) /\ Len(toDaemon') = C + 2
        /\ \A j \in 1..C : toDaemon'[j] = toDaemon[j]
        /\ \A j \in 1..2 : toDaemon'[C + j] = <<r, Newline>>[j]
    BY <1>a, <2>1, <2>2, OneAfter
  <2> QED BY <2>3
<1> HIDE DEF b, C, U
<1>2. (b + (C + 1)) % 2 = 1 /\ (b + (C + 2)) % 2 = 0
  BY <1>0
<1>3. ASSUME NEW j \in 1..C + 2 PROVE toDaemon'[j] \in Place(b + j)
  <2>1. CASE j \in 1..C
    BY <1>1, <2>1 DEF DaemonStream, b, C
  <2>2. CASE j = C + 1
    BY <1>1, <1>2, <2>2 DEF Place
  <2>3. CASE j = C + 2
    BY <1>1, <1>2, <2>3 DEF Place
  <2>4. j \in 1..C \/ j = C + 1 \/ j = C + 2
    BY <1>0
  <2> QED BY <2>1, <2>2, <2>3, <2>4
<1>4. daemonBuffer' = daemonBuffer /\ Len(daemonBuffer') = b /\ Len(toDaemon') = C + 2
  BY <1>1 DEF b
<1>5. \A j \in 1..b : daemonBuffer[j] \in Place(j)
  BY DEF DaemonStream, b
<1> QED BY <1>a, <1>0, <1>1, <1>2, <1>3, <1>4, <1>5 DEF DaemonStream, U

\* A chunk that arrives at the daemon is whole requests and the begin of one at
\* most.
LEMMA ChunkRead ==
  ASSUME DaemonStream, NEW n \in 1..Len(toDaemon),
         NEW units, units = daemonBuffer \o SubSeq(toDaemon, 1, n),
         NEW rest, rest = SubSeq(toDaemon, n + 1, Len(toDaemon)),
         daemonBuffer' = Rest(units), toDaemon' = rest
  PROVE  DaemonStream' /\ Lines(units) \in Seq(Ids)
<1> DEFINE b == Len(daemonBuffer)
           L == Len(units)
           C == Len(toDaemon)
           U == Ids \cup {Newline}
<1>a. daemonBuffer \in Seq(U) /\ toDaemon \in Seq(U)
  BY DEF DaemonStream
<1>b. Newline \notin Ids
  BY IpcAssumption DEF Ids
<1>0. /\ b \in Nat /\ C \in Nat /\ (b + C) % 2 = 0 /\ b \in {0, 1}
      /\ n \in Nat /\ n >= 1 /\ n <= C
  BY <1>a DEF DaemonStream
<1> HIDE DEF U
<1>c. n \in 0..Len(toDaemon)
  BY <1>0
<1>1. /\ SubSeq(toDaemon, 1, n) \in Seq(U) /\ Len(SubSeq(toDaemon, 1, n)) = n
      /\ \A j \in 1..n : SubSeq(toDaemon, 1, n)[j] = toDaemon[j]
  BY <1>a, <1>c, UpTo
<1>2. /\ units \in Seq(U) /\ L = b + n
      /\ \A j \in 1..b : units[j] = daemonBuffer[j]
      /\ \A j \in 1..n : units[b + j] = toDaemon[j]
  <2>1. /\ units \in Seq(U) /\ L = b + n
        /\ \A j \in 1..b : units[j] = daemonBuffer[j]
        /\ \A j \in 1..n : units[b + j] = SubSeq(toDaemon, 1, n)[j]
    BY <1>a, <1>1, OneAfter
  <2> QED BY <1>1, <2>1
<1>3. /\ rest \in Seq(U) /\ Len(rest) = C - n
      /\ \A j \in 1..C - n : rest[j] = toDaemon[n + j]
  BY <1>a, <1>c, Behind
<1> HIDE DEF L, C, b
<1>4. ASSUME NEW j \in 1..L PROVE units[j] \in Place(j)
  <2>1. CASE j \in 1..b
    BY <1>2, <2>1 DEF DaemonStream, b
  <2>2. CASE j > b
    <3> DEFINE i == j - b
    <3>1. i \in 1..n /\ i \in 1..C /\ b + i = j
      BY <1>0, <1>2, <2>2
    <3>2. toDaemon[i] \in Place(b + i)
      BY <3>1 DEF DaemonStream, b, C
    <3> HIDE DEF i
    <3> QED BY <1>2, <3>1, <3>2
  <2>3. j \in 1..b \/ j > b
    BY <1>0, <1>2
  <2> QED BY <2>1, <2>2, <2>3
<1>5. PICK m \in Nat : L = 2 * m \/ L = 2 * m + 1
  <2>1. L \in Nat
    BY <1>0, <1>2
  <2> QED BY <2>1, Halves
<1>6. ASSUME NEW k \in 1..m PROVE units[2 * k] = Newline /\ units[2 * k - 1] \in Ids
  <2>1. 2 * k \in 1..L /\ 2 * k - 1 \in 1..L /\ k \in Nat /\ k > 0
    BY <1>5
  <2>2. units[2 * k] \in Place(2 * k) /\ units[2 * k - 1] \in Place(2 * k - 1)
    BY <1>4, <2>1
  <2>3. Place(2 * k) = {Newline} /\ Place(2 * k - 1) = Ids
    BY <2>1, PlaceAt
  <2> QED BY <2>2, <2>3
<1>7. L = 2 * m + 1 => units[2 * m + 1] \in Ids
  <2> SUFFICES ASSUME L = 2 * m + 1 PROVE units[2 * m + 1] \in Ids
    OBVIOUS
  <2>1. 2 * m + 1 \in 1..L /\ (2 * m + 1) % 2 = 1
    BY <1>5
  <2> QED BY <1>4, <2>1 DEF Place
<1>8. /\ Lines(units) \in Seq(Ids)
      /\ Rest(units) \in Seq(U) /\ Len(Rest(units)) = L - 2 * m
      /\ \A j \in 1..L - 2 * m : Rest(units)[j] = units[2 * m + j]
  <2>1. units \in Seq(Ids \cup {Newline})
    BY <1>2 DEF U
  <2>2. Len(units) = 2 * m \/ Len(units) = 2 * m + 1
    BY <1>5 DEF L
  <2>3. Len(units) = 2 * m + 1 => units[2 * m + 1] \in Ids
    BY <1>7 DEF L
  <2>4. /\ Lines(units) \in Seq(Ids)
        /\ Rest(units) \in Seq(Ids \cup {Newline})
        /\ Len(Rest(units)) = Len(units) - 2 * m
        /\ \A j \in 1..Len(units) - 2 * m : Rest(units)[j] = units[2 * m + j]
    <3>1. \A k \in 1..m : units[2 * k] = Newline /\ units[2 * k - 1] \in Ids
      BY <1>6
    <3>2. m \in Nat
      BY <1>5
    <3> QED BY ONLY <1>b, <2>1, <2>2, <2>3, <3>1, <3>2, CutBuffer
  <2> QED BY <2>4 DEF L, U
<1> DEFINE c == L - 2 * m
<1>9. c \in {0, 1} /\ c \in Nat /\ (c + (C - n)) % 2 = 0
  <2>1. L = b + n
    BY <1>2
  <2> QED BY <1>0, <1>5, <2>1
<1>10. \A j \in 1..c : Rest(units)[j] \in Place(j)
  <2> SUFFICES ASSUME NEW j \in 1..c PROVE Rest(units)[j] \in Place(j)
    OBVIOUS
  <2>1. 2 * m + j \in 1..L /\ (2 * m + j) % 2 = j % 2
    BY <1>5
  <2>2. units[2 * m + j] \in Place(2 * m + j) /\ Rest(units)[j] = units[2 * m + j]
    BY <1>4, <1>8, <2>1
  <2> QED BY <2>1, <2>2 DEF Place
<1>11. \A j \in 1..C - n : rest[j] \in Place(c + j)
  <2> SUFFICES ASSUME NEW j \in 1..C - n PROVE rest[j] \in Place(c + j)
    OBVIOUS
  <2>0. L = b + n
    BY <1>2
  <2>1. n + j \in 1..C /\ (b + (n + j)) % 2 = (c + j) % 2
    BY <1>0, <1>5, <2>0
  <2>2. toDaemon[n + j] \in Place(b + (n + j)) /\ rest[j] = toDaemon[n + j]
    BY <1>3, <2>1 DEF DaemonStream, b, C
  <2> QED BY <2>1, <2>2 DEF Place
<1> HIDE DEF c
<1>12. Len(daemonBuffer') = c /\ Len(toDaemon') = C - n
  BY <1>3, <1>8 DEF c
<1>13. /\ daemonBuffer' \in Seq(U) /\ toDaemon' \in Seq(U)
       /\ \A j \in 1..c : daemonBuffer'[j] \in Place(j)
       /\ \A j \in 1..C - n : toDaemon'[j] \in Place(c + j)
  BY <1>3, <1>8, <1>10, <1>11
<1> QED BY <1>8, <1>9, <1>12, <1>13 DEF DaemonStream, U

\* At the start nothing is on the way.
LEMMA IpcStart == IpcInit => IpcInv
<1> SUFFICES ASSUME IpcInit PROVE IpcInv
  OBVIOUS
<1>1. /\ socket = "open" /\ promise = [r \in Requests |-> "none"] /\ subscribed = FALSE
      /\ toDaemon = <<>> /\ daemonBuffer = <<>> /\ toClient = <<>> /\ clientBuffer = <<>>
      /\ open = {} /\ sent = <<>> /\ handled = <<>> /\ pushes = 0
  BY DEF IpcInit
<1>2. \A S : <<>> \in Seq(S) /\ Len(<<>>) = 0
  OBVIOUS
<1>3. IpcTypeOK
  <2>1. DOMAIN sent = {} /\ Len(handled) <= Len(sent)
    BY <1>1
  <2>2. promise \in [Requests -> {"none", "pending", "resolved", "rejected"}]
    BY <1>1
  <2>3. pushes \in 0..MaxPushes
    BY <1>1, IpcAssumption
  <2> QED BY <1>1, <2>1, <2>2, <2>3 DEF IpcTypeOK
<1>4. ClientStream
  BY <1>1, <1>2 DEF ClientStream
<1>5. DaemonStream
  BY <1>1, <1>2 DEF DaemonStream
<1>6. AnswersAreOwn /\ ClosedSettlesAll
  BY <1>1 DEF AnswersAreOwn, ClosedSettlesAll
<1> QED BY <1>3, <1>4, <1>5, <1>6 DEF IpcInv

\* What arrives settles the promises of those it answers, and nobody else's.
LEMMA ClientDataStep == IpcInv /\ ClientData => IpcInv'
<1> SUFFICES ASSUME IpcInv, ClientData PROVE IpcInv'
  OBVIOUS
<1>1. IpcTypeOK /\ ClientStream /\ DaemonStream /\ AnswersAreOwn /\ ClosedSettlesAll
  BY DEF IpcInv
<1>2. socket # "closed" /\ UNCHANGED <<socket, toDaemon, daemonBuffer, open, sent, pushes, subscribed>>
  BY DEF ClientData
<1>3. PICK n \in 1..Len(toClient) :
        LET units == clientBuffer \o SubSeq(toClient, 1, n)
        IN /\ toClient' = SubSeq(toClient, n + 1, Len(toClient))
           /\ HandleMessages(Lines(units))
           /\ clientBuffer' = Rest(units)
  BY DEF ClientData
<1> DEFINE units == clientBuffer \o SubSeq(toClient, 1, n)
           ms == Lines(units)
<1>a. Takes(n, units)
  BY <1>2, <1>3 DEF Takes, HandleMessages
<1>b. HandleMessages(ms)
  BY <1>3
<1> HIDE DEF units
<1>4. ClientStream' /\ ms \in Seq(Message)
  BY <1>1, <1>2, <1>a, ChunkHandled
<1>5. /\ handled' = handled \o ms
      /\ promise' = [r \in Requests |->
           LET mine == {k \in DOMAIN ms : Settles(ms[k]) /\ ms[k].id = r}
           IN IF promise[r] # "pending" \/ mine = {} THEN promise[r]
              ELSE IF ms[Min(mine)].type = "error" THEN "rejected" ELSE "resolved"]
  BY <1>b DEF HandleMessages
<1> HIDE DEF ms
<1>6. handled \in Seq(Message) /\ sent' = sent
  BY <1>1, <1>2 DEF ClientStream
<1>7. /\ Len(handled) \in Nat /\ Len(ms) \in Nat /\ Len(handled') = Len(handled) + Len(ms)
      /\ \A k \in 1..Len(handled) : handled'[k] = handled[k]
      /\ \A k \in 1..Len(ms) : handled'[Len(handled) + k] = ms[k]
  BY <1>4, <1>5, <1>6, OneAfter
<1>8. /\ DOMAIN handled = 1..Len(handled) /\ DOMAIN ms = 1..Len(ms)
      /\ handled' \in Seq(Message) /\ DOMAIN handled' = 1..Len(handled')
  BY <1>4, <1>6 DEF ClientStream
<1>9. IpcTypeOK'
  <2>1. promise' \in [Requests -> {"none", "pending", "resolved", "rejected"}]
    BY <1>1, <1>5 DEF IpcTypeOK
  <2>2. Len(handled') <= Len(sent')
    BY <1>4 DEF ClientStream
  <2> QED BY <1>1, <1>2, <2>1, <2>2 DEF IpcTypeOK
<1>10. DaemonStream' /\ ClosedSettlesAll'
  BY <1>1, <1>2 DEF DaemonStream, ClosedSettlesAll
<1>11. ASSUME NEW r \in Requests, promise'[r] \in {"resolved", "rejected"}
       PROVE  \E k \in DOMAIN handled' :
                handled'[k].id = r /\ handled'[k].type \in {"answer", "error"}
  <2> DEFINE mine == {k \in DOMAIN ms : Settles(ms[k]) /\ ms[k].id = r}
  <2>1. CASE promise'[r] = promise[r]
    <3>1. PICK k \in DOMAIN handled : handled[k].id = r /\ handled[k].type \in {"answer", "error"}
      BY <1>1, <1>2, <1>11, <2>1 DEF AnswersAreOwn
    <3>2. k \in 1..Len(handled')
      BY <1>7, <1>8, <3>1
    <3>3. handled'[k] = handled[k]
      BY <1>7, <1>8, <3>1
    <3> QED BY <1>8, <3>1, <3>2, <3>3
  <2>2. CASE promise'[r] # promise[r]
    <3>1. mine # {}
      BY <1>5, <2>2
    <3>2. PICK k \in 1..Len(ms) : Settles(ms[k]) /\ ms[k].id = r
      BY <1>8, <3>1
    <3> DEFINE i == Len(handled) + k
    <3>3. i \in 1..Len(handled') /\ handled'[i] = ms[k]
      BY <1>7, <3>2
    <3> HIDE DEF i
    <3> QED BY <1>8, <3>2, <3>3 DEF Settles
  <2> QED BY <2>1, <2>2
<1>12. AnswersAreOwn'
  BY <1>11 DEF AnswersAreOwn
<1> QED BY <1>4, <1>9, <1>10, <1>12 DEF IpcInv

\* The daemon reads what the client wrote.
LEMMA DaemonDataStep == IpcInv /\ DaemonData => IpcInv'
<1> SUFFICES ASSUME IpcInv, DaemonData PROVE IpcInv'
  OBVIOUS
<1>1. IpcTypeOK /\ ClientStream /\ DaemonStream /\ AnswersAreOwn /\ ClosedSettlesAll
  BY DEF IpcInv
<1>2. UNCHANGED <<socket, promise, subscribed, toClient, clientBuffer, sent, handled, seen, pushes>>
  BY DEF DaemonData
<1>3. PICK n \in 1..Len(toDaemon) :
        LET units == daemonBuffer \o SubSeq(toDaemon, 1, n)
        IN /\ toDaemon' = SubSeq(toDaemon, n + 1, Len(toDaemon))
           /\ open' = open \cup ToSet(Lines(units))
           /\ daemonBuffer' = Rest(units)
  BY DEF DaemonData
<1> DEFINE units == daemonBuffer \o SubSeq(toDaemon, 1, n)
<1>4. DaemonStream' /\ Lines(units) \in Seq(Ids)
  BY <1>1, <1>3, ChunkRead
<1>5. open' = open \cup ToSet(Lines(units))
  BY <1>3
<1> HIDE DEF units
<1>6. ToSet(Lines(units)) \subseteq Ids
  BY <1>4 DEF ToSet
<1>7. IpcTypeOK'
  BY <1>1, <1>2, <1>5, <1>6 DEF IpcTypeOK, Ids
<1>8. ClientStream' /\ AnswersAreOwn' /\ ClosedSettlesAll'
  BY <1>1, <1>2 DEF ClientStream, AnswersAreOwn, ClosedSettlesAll
<1> QED BY <1>4, <1>7, <1>8 DEF IpcInv

\* What the daemon says.
LEMMA SaysStep ==
  ASSUME IpcInv, socket # "closed", NEW m \in Message, Send(m), open' \subseteq open,
         pushes' \in 0..MaxPushes,
         UNCHANGED <<socket, promise, subscribed, toDaemon, daemonBuffer, clientBuffer, handled>>
  PROVE  IpcInv'
<1>1. IpcTypeOK /\ ClientStream /\ DaemonStream /\ AnswersAreOwn /\ ClosedSettlesAll
  BY DEF IpcInv
<1>2. ClientStream'
  BY <1>1, SendStep
<1>3. \A k \in DOMAIN sent' : sent'[k] \in Message
  BY <1>2 DEF ClientStream
<1>4. Len(handled') <= Len(sent')
  BY <1>2 DEF ClientStream
<1>5. IpcTypeOK'
  BY <1>1, <1>3, <1>4 DEF IpcTypeOK
<1>6. DaemonStream' /\ AnswersAreOwn' /\ ClosedSettlesAll'
  BY <1>1 DEF DaemonStream, AnswersAreOwn, ClosedSettlesAll
<1> QED BY <1>2, <1>5, <1>6 DEF IpcInv

\* Every step of client, daemon and socket keeps the invariant.
LEMMA IpcStep == IpcInv /\ [IpcNext]_ipcVars => IpcInv'
<1> SUFFICES ASSUME IpcInv, [IpcNext]_ipcVars PROVE IpcInv'
  OBVIOUS
<1>1. IpcTypeOK /\ ClientStream /\ DaemonStream /\ AnswersAreOwn /\ ClosedSettlesAll
  BY DEF IpcInv
<1>2. ASSUME NEW r \in Requests, Request(r) PROVE IpcInv'
  <2>1. /\ socket = "open" /\ promise' = [promise EXCEPT ![r] = "pending"]
        /\ toDaemon' = toDaemon \o Line(r)
        /\ UNCHANGED <<socket, subscribed, daemonBuffer, toClient, clientBuffer, open, sent,
                       handled, pushes>>
    BY <1>2 DEF Request
  <2>2. DaemonStream'
    BY <1>1, <2>1, WriteStep DEF Ids
  <2>3. IpcTypeOK' /\ AnswersAreOwn' /\ ClosedSettlesAll'
    BY <1>1, <2>1 DEF IpcTypeOK, AnswersAreOwn, ClosedSettlesAll
  <2>4. ClientStream'
    BY <1>1, <2>1 DEF ClientStream
  <2> QED BY <2>2, <2>3, <2>4 DEF IpcInv
<1>3. CASE Subscribe
  <2>1. /\ subscribed' = TRUE /\ toDaemon' = toDaemon \o Line(Sub)
        /\ UNCHANGED <<socket, promise, daemonBuffer, toClient, clientBuffer, open, sent,
                       handled, pushes>>
    BY <1>3 DEF Subscribe
  <2>2. DaemonStream'
    BY <1>1, <2>1, WriteStep DEF Ids
  <2>3. IpcTypeOK' /\ AnswersAreOwn' /\ ClosedSettlesAll' /\ ClientStream'
    BY <1>1, <2>1 DEF IpcTypeOK, AnswersAreOwn, ClosedSettlesAll, ClientStream
  <2> QED BY <2>2, <2>3 DEF IpcInv
<1>4. CASE Unsubscribe
  BY <1>1, <1>4 DEF Unsubscribe, IpcInv, IpcTypeOK, AnswersAreOwn, ClosedSettlesAll,
                    ClientStream, DaemonStream
<1>5. CASE Close
  BY <1>1, <1>5 DEF Close, IpcInv, IpcTypeOK, AnswersAreOwn, ClosedSettlesAll,
                    ClientStream, DaemonStream
<1>6. CASE Closed
  <2>1. /\ socket' = "closed" /\ promise' = RejectAll
        /\ toDaemon' = <<>> /\ daemonBuffer' = <<>> /\ toClient' = <<>> /\ open' = {}
        /\ UNCHANGED <<subscribed, clientBuffer, sent, handled, pushes>>
    BY <1>6 DEF Closed
  <2>2. \A S : <<>> \in Seq(S) /\ Len(<<>>) = 0
    OBVIOUS
  <2>3. ClientStream'
    BY <1>1, <2>1, <2>2 DEF ClientStream
  <2>4. DaemonStream'
    BY <2>1, <2>2 DEF DaemonStream
  <2>5. promise' \in [Requests -> {"none", "pending", "resolved", "rejected"}]
    BY <1>1, <2>1 DEF RejectAll, IpcTypeOK
  <2>6. IpcTypeOK' /\ AnswersAreOwn'
    BY <1>1, <2>1, <2>5 DEF IpcTypeOK, AnswersAreOwn
  <2>7. ClosedSettlesAll'
    BY <2>1 DEF ClosedSettlesAll, RejectAll
  <2> QED BY <2>3, <2>4, <2>6, <2>7 DEF IpcInv
<1>7. ASSUME NEW r \in Requests, NEW type \in {"answer", "error", "lock.queued"}, Answer(r, type)
      PROVE  IpcInv'
  <2>1. [type |-> type, id |-> r] \in Message
    BY DEF Message
  <2>2. open' \subseteq open
    BY <1>7 DEF Answer
  <2> DEFINE m == [type |-> type, id |-> r]
  <2>3. /\ Send(m) /\ socket # "closed"
        /\ UNCHANGED <<socket, promise, subscribed, toDaemon, daemonBuffer, clientBuffer,
                       handled, pushes>>
    BY <1>7 DEF Answer
  <2>4. pushes' \in 0..MaxPushes
    BY <1>1, <2>3 DEF IpcTypeOK
  <2> HIDE DEF m
  <2> QED BY <2>1, <2>2, <2>3, <2>4, SaysStep DEF m
<1>8. ASSUME NEW m \in {[type |-> "status.update", id |-> Sub],
                        [type |-> "violation.occurred", id |-> 0]}, PushUpdate(m)
      PROVE  IpcInv'
  <2>1. m \in Message
    BY DEF Message
  <2>2. /\ Send(m) /\ socket # "closed" /\ pushes < MaxPushes /\ pushes' = pushes + 1
        /\ UNCHANGED <<socket, promise, subscribed, toDaemon, daemonBuffer, clientBuffer,
                       handled, open>>
    BY <1>8 DEF PushUpdate
  <2>3. pushes' \in 0..MaxPushes
    BY <1>1, <2>2, IpcAssumption DEF IpcTypeOK
  <2> QED BY <2>1, <2>2, <2>3, SaysStep
<1>9. CASE UNCHANGED ipcVars
  BY <1>1, <1>9 DEF ipcVars, IpcInv, IpcTypeOK, AnswersAreOwn, ClosedSettlesAll,
                    ClientStream, DaemonStream
<1> QED BY <1>2, <1>3, <1>4, <1>5, <1>6, <1>7, <1>8, <1>9, ClientDataStep, DaemonDataStep DEF IpcNext

\* However a socket cuts the stream, the client handles the lines the daemon
\* wrote, whole, once and in order; a promise is settled by the final answer of
\* its own request or by the end of the connection, which settles them all.
THEOREM LinesArriveWhole == IpcSpec => []ClientIsFaithful
<1>1. ASSUME IpcInv PROVE ClientIsFaithful
  <2>1. IpcTypeOK /\ ClientStream /\ AnswersAreOwn /\ ClosedSettlesAll
    BY <1>1 DEF IpcInv
  <2>2. /\ sent \in Seq(Message) /\ handled \in Seq(Message) /\ Len(handled) <= Len(sent)
        /\ \A k \in 1..Len(handled) : handled[k] = sent[k]
    BY <2>1 DEF ClientStream
  <2>3. SubSeq(handled, 1, Len(handled)) = SubSeq(sent, 1, Len(handled))
    BY <2>2
  <2>4. HandledInOrder
    BY <2>2, <2>3 DEF HandledInOrder, IsPrefix
  <2> QED BY <2>1, <2>4 DEF ClientIsFaithful
<1> QED BY <1>1, IpcStart, IpcStep, PTL DEF IpcSpec

-----------------------------------------------------------------------------
(* The status websocket.                                                   *)

\* The websockets of an address, and those a browser has still to hear of.
Of(i) == {s \in counted : Ip[openedBy[s]] = i}

Heard(b) == {s \in up \cup closing : openedBy[s] = b}

\* A client that is not over belongs to a websocket that is open, or to one
\* that closed before the client had connected, and only those are early; a
\* request that is not answered has no client.
FeedsOwned ==
  /\ \A s \in Slots : feed[s] \in {"connecting", "asking", "live"} => s \in counted \cup early
  /\ \A s \in early : feed[s] \in {"connecting", "asking", "live"}
  /\ \A s \in asked : feed[s] \in {"none", "ended"}

\* A dashboard whose effect never connected beside a websocket that was closing
\* has one websocket, or a timer, and neither once it is disabled.
HookAlone ==
  \A b \in Browsers \ rejoined :
    /\ stray[b] = 0
    /\ armed[b] => enabled[b] /\ Heard(b) = {}
    /\ \A s, t \in Heard(b) : s = t
    /\ \A s \in up : openedBy[s] = b => enabled[b] /\ ref[b] = s

WsInv == WsTypeOK /\ FeedsOwned /\ CountsMatch /\ HookAlone

\* One more, one less.
LEMMA Counting ==
  ASSUME NEW S, IsFiniteSet(S)
  PROVE  /\ Cardinality(S) \in Nat
         /\ \A x : x \notin S => Cardinality(S \cup {x}) = Cardinality(S) + 1
         /\ \A x \in S : Cardinality(S \ {x}) = Cardinality(S) - 1 /\ Cardinality(S) > 0
<1>1. Cardinality(S) \in Nat
  BY FS_CardinalityType
<1>2. ASSUME NEW x, x \notin S PROVE Cardinality(S \cup {x}) = Cardinality(S) + 1
  BY <1>2, FS_AddElement
<1>3. ASSUME NEW x \in S
      PROVE  Cardinality(S \ {x}) = Cardinality(S) - 1 /\ Cardinality(S) > 0
  <2>1. Cardinality(S \ {x}) = Cardinality(S) - 1
    BY FS_RemoveElement
  <2>2. Cardinality(S) # 0
    BY FS_EmptySet
  <2> QED BY <1>1, <2>1, <2>2
<1> QED BY <1>1, <1>2, <1>3

\* The sets that are counted are finite, and their addresses are known.
LEMMA Counted ==
  ASSUME WsInv
  PROVE  /\ IsFiniteSet(counted) /\ \A i : IsFiniteSet(Of(i))
         /\ \A s \in Slots : openedBy[s] \in Browsers /\ Ip[openedBy[s]] \in Ips
<1>1. counted \subseteq Slots
  BY DEF WsInv, WsTypeOK
<1>2. IsFiniteSet(counted)
  BY <1>1, WsAssumption, FS_Subset
<1>3. \A i : IsFiniteSet(Of(i))
  BY <1>2, FS_Subset DEF Of
<1> QED BY <1>2, <1>3 DEF WsInv, WsTypeOK, Ips

\* At the start nothing is open.
LEMMA WsStart == WsInit => WsInv
<1> SUFFICES ASSUME WsInit PROVE WsInv
  OBVIOUS
<1>1. (CHOOSE b \in Browsers : TRUE) \in Browsers
  BY WsAssumption
<1>2. WsTypeOK
  BY <1>1, WsAssumption DEF WsInit, WsTypeOK
<1>3. FeedsOwned /\ HookAlone
  BY DEF WsInit, FeedsOwned, HookAlone, Heard
<1>4. CountsMatch
  <2>1. counted = {} /\ total = 0 /\ byIp = [i \in Ips |-> 0]
    BY DEF WsInit
  <2>2. \A i : {s \in counted : Ip[openedBy[s]] = i} = {}
    BY <2>1
  <2> QED BY <2>1, <2>2, FS_EmptySet DEF CountsMatch
<1> QED BY <1>2, <1>3, <1>4 DEF WsInv

\* A new websocket takes a slot that nothing is left of, and changes neither
\* the counts nor what is known of the clients.
LEMMA Connecting ==
  ASSUME WsInv, NEW b \in Browsers, Connect(b)
  PROVE  /\ FeedsOwned' /\ CountsMatch'
         /\ \E s \in Slots \ (up \cup closing \cup counted) :
              /\ up' = up \cup {s} /\ closing' = closing
              /\ asked' = asked \cup {s}
              /\ openedBy' = [openedBy EXCEPT ![s] = b]
              /\ ref' = [ref EXCEPT ![b] = s]
<1> DEFINE s == CHOOSE s \in FreeSlots : TRUE
<1>1. s \in FreeSlots
  BY DEF Connect
<1>2. /\ up' = up \cup {s} /\ asked' = asked \cup {s}
      /\ openedBy' = [openedBy EXCEPT ![s] = b] /\ ref' = [ref EXCEPT ![b] = s]
      /\ UNCHANGED <<closing, counted, total, byIp, feed, early>>
  BY DEF Connect, serverVars
<1> HIDE DEF s
<1>3. /\ s \in Slots \ (up \cup closing \cup counted) /\ s \notin asked
      /\ feed[s] \in {"none", "ended"}
  BY <1>1 DEF FreeSlots
<1>4. WsTypeOK /\ FeedsOwned /\ CountsMatch
  BY DEF WsInv
<1>5. FeedsOwned'
  BY <1>2, <1>3, <1>4 DEF FeedsOwned
<1>6. CountsMatch'
  <2>1. \A t \in counted : openedBy'[t] = openedBy[t]
    BY <1>2, <1>3, <1>4 DEF WsTypeOK
  <2>2. \A i : {t \in counted : Ip[openedBy'[t]] = i} = {t \in counted : Ip[openedBy[t]] = i}
    BY <2>1
  <2> QED BY <1>2, <1>4, <2>2 DEF CountsMatch
<1> QED BY <1>2, <1>3, <1>5, <1>6

\* Closing takes websockets from one set to the other.
LEMMA Shutting ==
  ASSUME WsTypeOK, NEW ss, Shut(ss)
  PROVE  /\ up' \subseteq up /\ closing' \subseteq Slots \ up'
         /\ up' = up \ ss /\ up' \cup closing' = up \cup closing
BY DEF Shut, WsTypeOK

\* A dashboard stays alone when its hook does nothing and no websocket is new.
LEMMA AloneStays ==
  ASSUME HookAlone, UNCHANGED <<hookVars, openedBy>>,
         up' \subseteq up, up' \cup closing' \subseteq up \cup closing
  PROVE  HookAlone'
<1>1. UNCHANGED <<enabled, ref, armed, stray, rejoined, openedBy>>
  BY DEF hookVars
<1>2. \A b : Heard(b)' \subseteq Heard(b)
  BY <1>1 DEF Heard
<1> QED BY <1>1, <1>2 DEF HookAlone

\* The effect connects, or a timer does.
LEMMA ConnectStep == ASSUME WsInv, NEW b \in Browsers, SignIn(b) \/ Dial(b) PROVE WsInv'
<1>0. WsTypeOK /\ HookAlone
  BY DEF WsInv
<1>1. Connect(b)
  BY DEF SignIn, Dial
<1>2. FeedsOwned' /\ CountsMatch'
  BY <1>1, Connecting
<1>3. PICK s \in Slots \ (up \cup closing \cup counted) :
        /\ up' = up \cup {s} /\ closing' = closing /\ asked' = asked \cup {s}
        /\ openedBy' = [openedBy EXCEPT ![s] = b] /\ ref' = [ref EXCEPT ![b] = s]
  BY <1>1, Connecting
<1>4. UNCHANGED <<counted, total, byIp, feed, early, drops>>
  BY <1>1 DEF Connect, serverVars
<1>5. \A c \in Browsers \ {b} : Heard(c)' = Heard(c)
  BY <1>0, <1>3 DEF WsTypeOK, Heard
<1>6. Heard(b)' = Heard(b) \cup {s}
  BY <1>0, <1>3 DEF WsTypeOK, Heard
<1>7. /\ \A t \in up : openedBy'[t] = openedBy[t] /\ s # t
      /\ openedBy'[s] = b /\ ref'[b] = s
      /\ \A c \in Browsers \ {b} : ref'[c] = ref[c]
  BY <1>0, <1>3 DEF WsTypeOK
<1>8. /\ openedBy' \in [Slots -> Browsers] /\ ref' \in [Browsers -> Slots \cup {NoSlot}]
      /\ up' \subseteq Slots /\ closing' \subseteq Slots \ up'
      /\ asked' \subseteq Slots \ counted'
  BY <1>0, <1>3, <1>4 DEF WsTypeOK
<1>9. CASE SignIn(b)
  <2>1. /\ ~enabled[b] /\ enabled' = [enabled EXCEPT ![b] = TRUE]
        /\ signIns < MaxSignIns /\ signIns' = signIns + 1 /\ UNCHANGED <<armed, stray>>
        /\ session' \in [Browsers -> BOOLEAN]
    BY <1>0, <1>9 DEF SignIn, WsTypeOK
  <2>2. /\ rejoined \subseteq rejoined' /\ rejoined' \subseteq rejoined \cup {b}
        /\ b \notin rejoined' => \A t \in closing : openedBy[t] # b
    BY <1>9 DEF SignIn
  <2>3. signIns' \in 0..MaxSignIns
    BY <1>0, <2>1, WsAssumption DEF WsTypeOK
  <2>4. WsTypeOK'
    BY <1>0, <1>4, <1>8, <2>1, <2>2, <2>3 DEF WsTypeOK
  <2>5. b \notin rejoined' => Heard(b) = {} /\ ~armed[b]
    BY <1>0, <2>1, <2>2 DEF HookAlone, Heard
  <2>6. /\ enabled'[b] /\ \A c \in Browsers \ {b} : enabled'[c] = enabled[c]
    BY <1>0, <2>1 DEF WsTypeOK
  <2>7. ASSUME NEW c \in Browsers \ rejoined', c # b
        PROVE  /\ stray'[c] = 0 /\ (armed'[c] => enabled'[c] /\ Heard(c)' = {})
               /\ \A x, y \in Heard(c)' : x = y
               /\ \A x \in up' : openedBy'[x] = c => enabled'[c] /\ ref'[c] = x
    BY <1>0, <1>3, <1>5, <1>7, <2>1, <2>2, <2>6, <2>7 DEF HookAlone
  <2>8. ASSUME b \notin rejoined'
        PROVE  /\ stray'[b] = 0 /\ ~armed'[b] /\ \A x, y \in Heard(b)' : x = y
               /\ \A x \in up' : openedBy'[x] = b => enabled'[b] /\ ref'[b] = x
    <3>1. \A x \in up : openedBy[x] # b
      BY <2>5, <2>8 DEF Heard
    <3> QED BY <1>0, <1>3, <1>6, <1>7, <2>1, <2>2, <2>5, <2>6, <2>8, <3>1 DEF HookAlone
  <2>9. HookAlone'
    BY <2>7, <2>8 DEF HookAlone
  <2> QED BY <1>2, <2>4, <2>9 DEF WsInv
<1>10. CASE Dial(b)
  <2>1. /\ UNCHANGED <<enabled, session, signIns, rejoined>>
        /\ \/ armed[b] /\ armed' = [armed EXCEPT ![b] = FALSE] /\ UNCHANGED stray
           \/ stray[b] > 0 /\ stray' = [stray EXCEPT ![b] = @ - 1] /\ UNCHANGED armed
    BY <1>10 DEF Dial
  <2>2. armed' \in [Browsers -> BOOLEAN] /\ stray' \in [Browsers -> Nat]
    <3>1. CASE armed[b] /\ armed' = [armed EXCEPT ![b] = FALSE] /\ UNCHANGED stray
      BY <1>0, <3>1 DEF WsTypeOK
    <3>2. CASE stray[b] > 0 /\ stray' = [stray EXCEPT ![b] = @ - 1] /\ UNCHANGED armed
      <4>1. stray[b] - 1 \in Nat /\ stray \in [Browsers -> Nat]
        BY <1>0, <3>2 DEF WsTypeOK
      <4> QED BY <1>0, <3>2, <4>1 DEF WsTypeOK
    <3> QED BY <2>1, <3>1, <3>2
  <2>3. WsTypeOK'
    BY <1>0, <1>4, <1>8, <2>1, <2>2 DEF WsTypeOK
  <2>4. /\ \A c \in Browsers \ {b} : armed'[c] = armed[c] /\ stray'[c] = stray[c]
        /\ b \notin rejoined => armed[b] /\ ~armed'[b] /\ stray' = stray
    BY <1>0, <2>1 DEF WsTypeOK, HookAlone
  <2>5. ASSUME NEW c \in Browsers \ rejoined', c # b
        PROVE  /\ stray'[c] = 0 /\ (armed'[c] => enabled'[c] /\ Heard(c)' = {})
               /\ \A x, y \in Heard(c)' : x = y
               /\ \A x \in up' : openedBy'[x] = c => enabled'[c] /\ ref'[c] = x
    BY <1>0, <1>3, <1>5, <1>7, <2>1, <2>4, <2>5 DEF HookAlone
  <2>6. ASSUME b \notin rejoined'
        PROVE  /\ stray'[b] = 0 /\ ~armed'[b] /\ \A x, y \in Heard(b)' : x = y
               /\ \A x \in up' : openedBy'[x] = b => enabled'[b] /\ ref'[b] = x
    <3>1. Heard(b) = {} /\ enabled[b]
      BY <1>0, <2>1, <2>4, <2>6 DEF HookAlone
    <3>2. \A x \in up : openedBy[x] # b
      BY <3>1 DEF Heard
    <3> QED BY <1>0, <1>3, <1>6, <1>7, <2>1, <2>4, <2>6, <3>1, <3>2 DEF HookAlone
  <2>7. HookAlone'
    BY <2>5, <2>6 DEF HookAlone
  <2> QED BY <1>2, <2>3, <2>7 DEF WsInv
<1> QED BY <1>9, <1>10

\* The hook leaves its websocket, and hears of one that has closed.
LEMMA LeaveStep ==
  ASSUME WsInv,
         \/ \E b \in Browsers : SignOut(b) \/ SessionEnds(b)
         \/ \E s \in Slots : HearClose(s)
  PROVE  WsInv'
<1>0. WsTypeOK /\ FeedsOwned /\ CountsMatch /\ HookAlone
  BY DEF WsInv
<1>1. UNCHANGED <<openedBy, asked, counted, total, byIp, feed, early, drops, signIns, rejoined>>
  BY DEF SignOut, SessionEnds, HearClose, serverVars
<1>2. FeedsOwned' /\ CountsMatch'
  BY <1>0, <1>1 DEF FeedsOwned, CountsMatch
<1>3. ASSUME NEW b \in Browsers, SignOut(b) PROVE WsInv'
  <2>1. /\ enabled' = [enabled EXCEPT ![b] = FALSE] /\ armed' = [armed EXCEPT ![b] = FALSE]
        /\ ref' = [ref EXCEPT ![b] = NoSlot] /\ stray' = stray
        /\ session' \in [Browsers -> BOOLEAN]
    BY <1>0, <1>3 DEF SignOut, WsTypeOK
  <2>2. /\ up' = up \ Current(b) /\ closing' \subseteq Slots \ up'
        /\ up' \subseteq up /\ up' \cup closing' = up \cup closing
    BY <1>0, <1>3, Shutting DEF SignOut
  <2>3. WsTypeOK'
    BY <1>0, <1>1, <2>1, <2>2 DEF WsTypeOK
  <2>4. \A c : Heard(c)' = Heard(c)
    BY <1>1, <2>2 DEF Heard
  <2>5. /\ \A c \in Browsers \ {b} :
             enabled'[c] = enabled[c] /\ armed'[c] = armed[c] /\ ref'[c] = ref[c]
        /\ ~armed'[b]
    BY <1>0, <2>1 DEF WsTypeOK
  <2>6. b \notin rejoined => \A s \in up' : openedBy'[s] # b
    BY <1>0, <1>1, <2>2, WsAssumption DEF HookAlone, Current, WsTypeOK
  <2>7. HookAlone'
    BY <1>0, <1>1, <2>1, <2>2, <2>4, <2>5, <2>6 DEF HookAlone
  <2> QED BY <1>2, <2>3, <2>7 DEF WsInv
<1>4. ASSUME NEW b \in Browsers, SessionEnds(b) PROVE WsInv'
  <2>1. /\ UNCHANGED <<enabled, ref, armed, stray, up, closing>>
        /\ session' = [session EXCEPT ![b] = FALSE]
    BY <1>4 DEF SessionEnds
  <2>2. WsTypeOK'
    BY <1>0, <1>1, <2>1 DEF WsTypeOK
  <2>3. HookAlone'
    BY <1>0, <1>1, <2>1 DEF HookAlone, Heard
  <2> QED BY <1>2, <2>2, <2>3 DEF WsInv
<1>5. ASSUME NEW s \in Slots, HearClose(s) PROVE WsInv'
  <2>1. PICK b \in Browsers :
        /\ b = openedBy[s]
        /\ s \in closing /\ closing' = closing \ {s} /\ UNCHANGED <<enabled, session, up>>
        /\ ref' = [ref EXCEPT ![b] = NoSlot]
        /\ armed' = [armed EXCEPT ![b] = @ \/ enabled[b]]
        /\ stray' = [stray EXCEPT ![b] = IF armed[b] /\ enabled[b] THEN @ + 1 ELSE @]
    BY <1>0, <1>5 DEF HearClose, Rearms, WsTypeOK
  <2>2. s \in Heard(b)
    BY <2>1 DEF Heard
  <2>3. stray' \in [Browsers -> Nat] /\ armed' \in [Browsers -> BOOLEAN]
    BY <1>0, <2>1, <2>2 DEF WsTypeOK
  <2>4. WsTypeOK'
    BY <1>0, <1>1, <2>1, <2>2, <2>3 DEF WsTypeOK
  <2>5. /\ \A c \in Browsers : Heard(c)' \subseteq Heard(c)
        /\ s \notin Heard(b)'
    <3>1. up' \cup closing' \subseteq up \cup closing /\ openedBy' = openedBy
      BY <1>1, <2>1
    <3>2. s \notin up' \cup closing'
      BY <1>0, <2>1 DEF WsTypeOK
    <3> QED BY <3>1, <3>2 DEF Heard
  <2>6. /\ \A c \in Browsers \ {b} :
             armed'[c] = armed[c] /\ ref'[c] = ref[c] /\ stray'[c] = stray[c]
        /\ ~armed[b] => stray'[b] = stray[b]
        /\ ~armed[b] /\ armed'[b] => enabled[b]
    BY <1>0, <2>1, <2>2 DEF WsTypeOK
  <2>7. b \notin rejoined => Heard(b)' = {} /\ ~armed[b]
    BY <1>0, <2>2, <2>5 DEF HookAlone
  <2>8. b \notin rejoined => \A x \in up' : openedBy'[x] # b
    BY <2>7 DEF Heard
  <2>9. HookAlone'
    BY <1>0, <1>1, <2>1, <2>2, <2>5, <2>6, <2>7, <2>8 DEF HookAlone
  <2> QED BY <1>2, <2>4, <2>9 DEF WsInv
<1> QED BY <1>3, <1>4, <1>5

\* A websocket is lost, or its request refused.
LEMMA ShutStep == ASSUME WsInv, NEW s \in Slots, Drop(s) \/ Refuse(s) PROVE WsInv'
<1>0. WsTypeOK /\ FeedsOwned /\ CountsMatch /\ HookAlone
  BY DEF WsInv
<1>1. /\ UNCHANGED <<enabled, session, ref, armed, stray, signIns, rejoined, openedBy, counted,
                     total, byIp, feed, early>>
      /\ asked' \subseteq asked /\ Shut({s}) /\ UNCHANGED hookVars
  BY DEF Drop, Refuse, hookVars, serverVars
<1>2. drops' \in 0..MaxDrops
  BY <1>0, WsAssumption DEF Drop, Refuse, WsTypeOK
<1>3. /\ up' \subseteq up /\ closing' \subseteq Slots \ up'
      /\ up' \cup closing' = up \cup closing
  BY <1>0, <1>1, Shutting
<1>4. WsTypeOK'
  BY <1>0, <1>1, <1>2, <1>3 DEF WsTypeOK
<1>5. FeedsOwned' /\ CountsMatch'
  BY <1>0, <1>1 DEF FeedsOwned, CountsMatch
<1>6. HookAlone'
  BY <1>0, <1>1, <1>3, AloneStays
<1> QED BY <1>4, <1>5, <1>6 DEF WsInv

\* A websocket that opens is counted once, for its address.
LEMMA UpgradeStep == ASSUME WsInv, NEW s \in Slots, Upgrade(s) PROVE WsInv'
<1>0. WsTypeOK /\ FeedsOwned /\ CountsMatch /\ HookAlone
  BY DEF WsInv
<1> DEFINE a == Ip[openedBy[s]]
<1>1. /\ s \in asked /\ asked' = asked \ {s} /\ counted' = counted \cup {s}
      /\ total' = total + 1 /\ byIp' = [byIp EXCEPT ![a] = @ + 1]
      /\ feed' = [feed EXCEPT ![s] = "connecting"]
      /\ UNCHANGED <<enabled, session, ref, armed, stray, signIns, rejoined, up, closing,
                     openedBy, early, drops, hookVars>>
  BY DEF Upgrade, hookVars
<1>2. s \notin counted /\ s \notin early
  BY <1>0, <1>1 DEF FeedsOwned, WsTypeOK
<1>3. /\ IsFiniteSet(counted) /\ \A i : IsFiniteSet(Of(i))
      /\ \A t \in Slots : Ip[openedBy[t]] \in Ips
  BY Counted
<1>4. total < MaxTotal /\ byIp[a] < MaxPerIp /\ a \in Ips
  BY <1>3 DEF Upgrade, Admits
<1> HIDE DEF a
<1>5. FeedsOwned'
  BY <1>0, <1>1, <1>2 DEF FeedsOwned, WsTypeOK
<1>6. CountsMatch'
  <2>1. total' = Cardinality(counted')
    BY <1>0, <1>1, <1>2, <1>3, Counting DEF CountsMatch
  <2>2. ASSUME NEW i \in Ips
        PROVE  byIp'[i] = Cardinality({t \in counted' : Ip[openedBy'[t]] = i})
    <3>1. byIp[i] = Cardinality(Of(i))
      BY <1>0, <2>2 DEF CountsMatch, Of
    <3>2. CASE i = a
      <4>1. {t \in counted' : Ip[openedBy'[t]] = i} = Of(i) \cup {s} /\ s \notin Of(i)
        BY <1>1, <1>2, <3>2 DEF Of, a
      <4>2. byIp'[i] = byIp[i] + 1
        BY <1>0, <1>1, <2>2, <3>2 DEF WsTypeOK
      <4>3. IsFiniteSet(Of(i))
        BY <1>3
      <4> QED BY <3>1, <4>1, <4>2, <4>3, Counting
    <3>3. CASE i # a
      <4>1. {t \in counted' : Ip[openedBy'[t]] = i} = Of(i)
        BY <1>1, <1>2, <3>3 DEF Of, a
      <4>2. byIp'[i] = byIp[i]
        BY <1>0, <1>1, <2>2, <3>3 DEF WsTypeOK
      <4> QED BY <3>1, <4>1, <4>2
    <3> QED BY <3>2, <3>3
  <2> QED BY <2>1, <2>2 DEF CountsMatch
<1>7. WsTypeOK'
  <2>1. total' \in 0..MaxTotal
    BY <1>0, <1>1, <1>4, WsAssumption DEF WsTypeOK
  <2>2. byIp' \in [Ips -> 0..MaxPerIp]
    <3>1. byIp[a] + 1 \in 0..MaxPerIp
      BY <1>0, <1>4, WsAssumption DEF WsTypeOK
    <3> QED BY <1>0, <1>1, <1>4, <3>1 DEF WsTypeOK
  <2>3. /\ counted' \subseteq Slots /\ early' \subseteq Slots \ counted'
        /\ asked' \subseteq Slots \ counted'
        /\ feed' \in [Slots -> {"none", "connecting", "asking", "live", "ended"}]
    BY <1>0, <1>1, <1>2 DEF WsTypeOK
  <2> QED BY <1>0, <1>1, <2>1, <2>2, <2>3 DEF WsTypeOK
<1>8. HookAlone'
  BY <1>0, <1>1, AloneStays
<1> QED BY <1>5, <1>6, <1>7, <1>8 DEF WsInv

\* A websocket that closes is taken off once, and its client ends or is early.
LEMMA CloseStep == ASSUME WsInv, NEW s \in Slots, OnClose(s) PROVE WsInv'
<1>0. WsTypeOK /\ FeedsOwned /\ CountsMatch /\ HookAlone
  BY DEF WsInv
<1> DEFINE a == Ip[openedBy[s]]
<1>1. /\ s \in counted /\ counted' = counted \ {s} /\ total' = total - 1
      /\ byIp' = [byIp EXCEPT ![a] = @ - 1]
      /\ feed' = [feed EXCEPT ![s] = IF @ \in {"asking", "live"} THEN "ended" ELSE @]
      /\ early' = IF feed[s] = "connecting" THEN early \cup {s} ELSE early
      /\ UNCHANGED <<enabled, session, ref, armed, stray, signIns, rejoined, up, closing, openedBy,
                     asked, drops, hookVars>>
  BY DEF OnClose, Uncount, EndClient, hookVars
<1>2. /\ IsFiniteSet(counted) /\ \A i : IsFiniteSet(Of(i))
      /\ \A t \in Slots : Ip[openedBy[t]] \in Ips
  BY Counted
<1>3. FeedsOwned'
  <2>1. /\ \A t \in Slots : t # s => feed'[t] = feed[t]
        /\ feed'[s] = IF feed[s] \in {"asking", "live"} THEN "ended" ELSE feed[s]
    BY <1>0, <1>1 DEF WsTypeOK
  <2>2. s \notin early
    BY <1>0, <1>1 DEF WsTypeOK
  <2>3. early \subseteq Slots /\ asked \subseteq Slots \ {s}
    BY <1>0, <1>1 DEF WsTypeOK
  <2> QED BY <1>0, <1>1, <2>1, <2>2, <2>3 DEF FeedsOwned
<1>4. total > 0 /\ total' = Cardinality(counted')
  BY <1>0, <1>1, <1>2, Counting DEF CountsMatch
<1>5. /\ a \in Ips /\ s \in Of(a) /\ byIp[a] = Cardinality(Of(a)) /\ byIp[a] > 0
  BY <1>0, <1>1, <1>2, Counting DEF CountsMatch, Of
<1>6. CountsMatch'
  <2>1. ASSUME NEW i \in Ips
        PROVE  byIp'[i] = Cardinality({t \in counted' : Ip[openedBy'[t]] = i})
    <3>1. CASE i = a
      <4>1. {t \in counted' : Ip[openedBy'[t]] = i} = Of(i) \ {s}
        BY <1>1 DEF Of
      <4>2. byIp'[i] = byIp[i] - 1
        BY <1>0, <1>1, <1>5, <3>1 DEF WsTypeOK
      <4> QED BY <1>2, <1>5, <3>1, <4>1, <4>2, Counting
    <3>2. CASE i # a
      <4>1. {t \in counted' : Ip[openedBy'[t]] = i} = Of(i)
        BY <1>1, <3>2 DEF Of
      <4>2. byIp'[i] = byIp[i]
        BY <1>0, <1>1, <2>1, <3>2 DEF WsTypeOK
      <4>3. byIp[i] = Cardinality(Of(i))
        BY <1>0, <2>1 DEF CountsMatch, Of
      <4> QED BY <4>1, <4>2, <4>3
    <3> QED BY <3>1, <3>2
  <2> QED BY <1>4, <2>1 DEF CountsMatch
<1>7. WsTypeOK'
  <2>1. total' \in 0..MaxTotal
    BY <1>0, <1>1, <1>4, WsAssumption DEF WsTypeOK
  <2>2. byIp' \in [Ips -> 0..MaxPerIp]
    <3>1. byIp[a] - 1 \in 0..MaxPerIp
      BY <1>0, <1>5, WsAssumption DEF WsTypeOK
    <3> QED BY <1>0, <1>1, <1>5, <3>1 DEF WsTypeOK
  <2>3. /\ counted' \subseteq Slots /\ early' \subseteq Slots \ counted'
        /\ asked' \subseteq Slots \ counted'
        /\ feed' \in [Slots -> {"none", "connecting", "asking", "live", "ended"}]
    BY <1>0, <1>1 DEF WsTypeOK
  <2> QED BY <1>0, <1>1, <2>1, <2>2, <2>3 DEF WsTypeOK
<1>8. HookAlone'
  BY <1>0, <1>1, AloneStays
<1> QED BY <1>3, <1>6, <1>7, <1>8 DEF WsInv

\* The clients of benchd come and go without a word to the counters.
LEMMA FeedStep ==
  ASSUME WsInv,
         \/ \E s \in Slots : FeedConnects(s) \/ FeedSubscribes(s) \/ FeedFails(s)
         \/ BenchdDies
  PROVE  WsInv'
<1>0. WsTypeOK /\ FeedsOwned /\ CountsMatch /\ HookAlone
  BY DEF WsInv
<1>1. UNCHANGED <<enabled, session, ref, armed, stray, signIns, rejoined, openedBy, asked, counted,
                  total, byIp, hookVars>>
  BY DEF FeedConnects, FeedSubscribes, FeedFails, BenchdDies, hookVars
<1>2. /\ up' \subseteq up /\ closing' \subseteq Slots \ up'
      /\ up' \cup closing' = up \cup closing
  <2>1. CASE UNCHANGED <<up, closing>>
    BY <1>0, <2>1 DEF WsTypeOK
  <2>2. CASE \E s \in Slots : Shut({s})
    BY <1>0, <2>2, Shutting
  <2> QED BY <2>1, <2>2 DEF FeedConnects, FeedSubscribes, FeedFails, BenchdDies
<1>3. CountsMatch' /\ HookAlone'
  <2>1. HookAlone'
    BY <1>0, <1>1, <1>2, AloneStays
  <2> QED BY <1>0, <1>1, <2>1 DEF CountsMatch
<1>4. drops' \in 0..MaxDrops
  <2>1. drops' = drops \/ (drops < MaxDrops /\ drops' = drops + 1)
    BY DEF FeedConnects, FeedSubscribes, FeedFails, BenchdDies
  <2> QED BY <1>0, <2>1, WsAssumption DEF WsTypeOK
<1>5. /\ FeedsOwned' /\ early' \subseteq early
      /\ feed' \in [Slots -> {"none", "connecting", "asking", "live", "ended"}]
  <2>1. ASSUME NEW s \in Slots, FeedConnects(s) \/ FeedSubscribes(s)
        PROVE  /\ FeedsOwned' /\ early' \subseteq early
               /\ feed' \in [Slots -> {"none", "connecting", "asking", "live", "ended"}]
    <3>1. /\ feed[s] \in {"connecting", "asking"} /\ early' = early
          /\ feed' = [feed EXCEPT ![s] = "asking"] \/ feed' = [feed EXCEPT ![s] = "live"]
      BY <2>1 DEF FeedConnects, FeedSubscribes
    <3> QED BY <1>0, <1>1, <3>1 DEF FeedsOwned, WsTypeOK
  <2>2. ASSUME NEW s \in Slots, FeedFails(s)
        PROVE  /\ FeedsOwned' /\ early' \subseteq early
               /\ feed' \in [Slots -> {"none", "connecting", "asking", "live", "ended"}]
    BY <1>0, <1>1, <2>2 DEF FeedFails, FeedsOwned, WsTypeOK
  <2>3. CASE BenchdDies
    <3>1. /\ feed' = [s \in Slots |-> IF feed[s] \in {"asking", "live"} THEN "ended" ELSE feed[s]]
          /\ early' = {s \in early : feed[s] = "connecting"}
      BY <2>3 DEF BenchdDies
    <3>2. \A s \in Slots :
            /\ feed[s] \in {"none", "connecting", "asking", "live", "ended"}
            /\ feed'[s] = IF feed[s] \in {"asking", "live"} THEN "ended" ELSE feed[s]
      BY <1>0, <3>1 DEF WsTypeOK
    <3>3. early \subseteq Slots /\ asked \subseteq Slots
      BY <1>0 DEF WsTypeOK
    <3> QED BY <1>0, <1>1, <3>1, <3>2, <3>3 DEF FeedsOwned
  <2> QED BY <2>1, <2>2, <2>3
<1>6. WsTypeOK'
  BY <1>0, <1>1, <1>2, <1>4, <1>5 DEF WsTypeOK
<1> QED BY <1>3, <1>5, <1>6 DEF WsInv

\* The invariant holds in every run.
LEMMA WsInvariance == WsSpec => []WsInv
<1>1. WsInv /\ [WsNext]_wsVars => WsInv'
  <2> SUFFICES ASSUME WsInv, [WsNext]_wsVars PROVE WsInv'
    OBVIOUS
  <2>1. CASE UNCHANGED wsVars
    BY <2>1 DEF wsVars, hookVars, serverVars, WsInv, WsTypeOK, FeedsOwned, CountsMatch,
       HookAlone, Heard
  <2>2. CASE WsNext
    BY <2>2, ConnectStep, LeaveStep, ShutStep, UpgradeStep, CloseStep, FeedStep
       DEF WsNext, ServerStep
  <2> QED BY <2>1, <2>2
<1> QED BY <1>1, WsStart, PTL DEF WsSpec

\* Hooks, counters and clients have their types.
THEOREM WsTypeCorrect == WsSpec => []WsTypeOK
<1>1. WsInv => WsTypeOK
  BY DEF WsInv
<1> QED BY <1>1, WsInvariance, PTL

\* The counters against which the limits are checked are the websockets that
\* are open, in whatever order websockets and clients fail.
THEOREM CountersAreExact == WsSpec => []CountsMatch
<1>1. WsInv => CountsMatch
  BY DEF WsInv
<1> QED BY <1>1, WsInvariance, PTL

\* A client of benchd has an open websocket, or one that closed too early.
THEOREM OnlyEarlyFeedsStray == WsSpec => []NoStrayFeed
<1>1. WsInv => NoStrayFeed
  BY DEF WsInv, FeedsOwned, NoStrayFeed
<1> QED BY <1>1, WsInvariance, PTL

\* A dashboard has one websocket, and none when it is disabled, whatever is lost
\* or refused and however often it is enabled again after its old websocket's
\* onclose.
THEOREM DashboardsHaveOneWebsocket == WsSpec => []WebsocketIsSole
<1>1. WsInv => WebsocketIsSole
  BY DEF WsInv, HookAlone, Heard, WebsocketIsSole
<1> QED BY <1>1, WsInvariance, PTL

\* Counters, clients and websockets agree in every run.
THEOREM SocketsAreAccounted == WsSpec => []SocketsAccounted
<1>1. WsTypeOK /\ CountsMatch /\ NoStrayFeed /\ WebsocketIsSole => SocketsAccounted
  BY DEF SocketsAccounted
<1> QED BY <1>1, WsTypeCorrect, CountersAreExact, OnlyEarlyFeedsStray,
           DashboardsHaveOneWebsocket, PTL

-----------------------------------------------------------------------------
(* The rate limits.                                                        *)

\* The requests of an address that were let through from a time on, ...
Since(a, lo) == {k \in DOMAIN passed : passed[k].from = a /\ passed[k].at >= lo}

\* ... and those of a stretch of time.
Within(a, lo, hi) == {k \in DOMAIN passed : passed[k].from = a /\ passed[k].at \in lo..hi}

AtMost(S, n) == Cardinality(S) <= n

RateType ==
  /\ now \in 0..MaxNow /\ asks \in 0..MaxAsks
  /\ DOMAIN entries \subseteq Addresses
  /\ entries = [a \in DOMAIN entries |-> entries[a]]
  /\ \A a \in DOMAIN entries : entries[a] \in [count : Nat \ {0}, resetAt : Nat]
  /\ passed \in Seq([from : Addresses, at : 0..MaxNow])
  /\ refused \subseteq [from : Addresses, at : 0..MaxNow]
  /\ \A k \in DOMAIN passed : passed[k].at <= now

\* The begin of the window of an address.
Begin(a) == entries[a].resetAt - WindowMs

\* The window of an address: what it has let through is what it has counted,
\* up to the limit, and what was let through in as long a time before it began
\* fits the limit, too.
WindowFits(a) ==
  /\ Begin(a) <= now
  /\ \A k \in DOMAIN passed : passed[k].from = a => passed[k].at < entries[a].resetAt
  /\ AtMost(Since(a, Begin(a)), MaxRequests)
  /\ Cardinality(Since(a, Begin(a))) >= entries[a].count \/ Cardinality(Since(a, Begin(a))) >= MaxRequests
  /\ Cardinality(Since(a, Begin(a))) <= entries[a].count
  /\ \A t \in Int : t >= Begin(a) - WindowMs => AtMost(Within(a, t, Begin(a) - 1), MaxRequests)

\* An address without a window: the last one has been over for some time.
NoWindow(a) ==
  /\ \A k \in DOMAIN passed : passed[k].from = a => passed[k].at < now
  /\ \A t \in Int : t >= now - WindowMs => AtMost(Since(a, t), MaxRequests)

RateInv ==
  /\ RateType
  /\ \A a \in Addresses : IF a \in DOMAIN entries THEN WindowFits(a) ELSE NoWindow(a)
  /\ \A a \in Addresses, t \in Int : AtMost(Within(a, t, t + WindowMs - 1), 2 * MaxRequests)
  /\ RefusalIsEarned

-----------------------------------------------------------------------------
\* What a sequence holds.
LEMMA Entry == ASSUME NEW S, NEW s \in Seq(S), NEW k \in DOMAIN s PROVE s[k] \in S
OBVIOUS

\* What is counted is finite.
LEMMA PassesCounted ==
  ASSUME NEW a, NEW lo, NEW hi, passed \in Seq([from : Addresses, at : 0..MaxNow])
  PROVE  /\ IsFiniteSet(Since(a, lo)) /\ IsFiniteSet(Within(a, lo, hi))
         /\ Cardinality(Since(a, lo)) \in Nat /\ Cardinality(Within(a, lo, hi)) \in Nat
<1>1. IsFiniteSet(1..Len(passed)) /\ DOMAIN passed = 1..Len(passed)
  BY FS_Interval
<1>2. Since(a, lo) \subseteq 1..Len(passed) /\ Within(a, lo, hi) \subseteq 1..Len(passed)
  BY <1>1 DEF Since, Within
<1>3. IsFiniteSet(Since(a, lo)) /\ IsFiniteSet(Within(a, lo, hi))
  BY <1>1, <1>2, FS_Subset
<1> QED BY <1>3, FS_CardinalityType

\* A part counts no more than the whole.
LEMMA Fewer ==
  ASSUME NEW S, NEW T, IsFiniteSet(T), S \subseteq T
  PROVE  Cardinality(S) <= Cardinality(T) /\ Cardinality(S) \in Nat /\ Cardinality(T) \in Nat
BY FS_Subset, FS_CardinalityType

\* Two parts count at least as much as the whole.
LEMMA InTwo ==
  ASSUME NEW S, NEW T, NEW U, IsFiniteSet(S), IsFiniteSet(T), U \subseteq S \cup T,
         NEW m \in Nat, Cardinality(S) <= m, Cardinality(T) <= m
  PROVE  Cardinality(U) <= 2 * m
<1>1. /\ IsFiniteSet(S \cup T) /\ IsFiniteSet(S \cap T)
      /\ Cardinality(S \cup T) = Cardinality(S) + Cardinality(T) - Cardinality(S \cap T)
  BY FS_Union, FS_Intersection
<1>2. Cardinality(U) <= Cardinality(S \cup T)
  BY <1>1, FS_Subset
<1>3. /\ Cardinality(S) \in Nat /\ Cardinality(T) \in Nat /\ Cardinality(S \cap T) \in Nat
      /\ Cardinality(U) \in Nat /\ Cardinality(S \cup T) \in Nat
  BY <1>1, FS_CardinalityType, FS_Subset
<1> QED BY <1>1, <1>2, <1>3

\* One more is let through.
LEMMA OneMore ==
  ASSUME passed \in Seq([from : Addresses, at : 0..MaxNow]), NEW a \in Addresses,
         passed' = Append(passed, [from |-> a, at |-> now]), now \in 0..MaxNow
  PROVE  /\ DOMAIN passed' = DOMAIN passed \cup {Len(passed) + 1}
         /\ Len(passed) + 1 \notin DOMAIN passed
         /\ passed'[Len(passed) + 1] = [from |-> a, at |-> now]
         /\ \A k \in DOMAIN passed : passed'[k] = passed[k]
         /\ passed' \in Seq([from : Addresses, at : 0..MaxNow])
BY DEF RateType

\* What that does to the counts.
LEMMA CountedOnce ==
  ASSUME passed \in Seq([from : Addresses, at : 0..MaxNow]), NEW a \in Addresses,
         passed' = Append(passed, [from |-> a, at |-> now]), now \in 0..MaxNow,
         NEW b, NEW lo \in Int, NEW hi \in Int
  PROVE  /\ b # a => Since(b, lo)' = Since(b, lo) /\ Within(b, lo, hi)' = Within(b, lo, hi)
         /\ now \notin lo..hi => Within(b, lo, hi)' = Within(b, lo, hi)
         /\ Since(b, lo) \subseteq Since(b, lo)' /\ Within(b, lo, hi) \subseteq Within(b, lo, hi)'
         /\ now >= lo => Cardinality(Since(a, lo)') = Cardinality(Since(a, lo)) + 1
         /\ Cardinality(Within(b, lo, hi)') <= Cardinality(Within(b, lo, hi)) + 1
<1> DEFINE n == Len(passed) + 1
           p == [from |-> a, at |-> now]
<1>1. /\ DOMAIN passed' = DOMAIN passed \cup {n} /\ n \notin DOMAIN passed
      /\ passed'[n].from = a /\ passed'[n].at = now /\ \A k \in DOMAIN passed : passed'[k] = passed[k]
  BY OneMore
<1> HIDE DEF n
<1>2. Since(b, lo)' = IF a = b /\ now >= lo THEN Since(b, lo) \cup {n} ELSE Since(b, lo)
  BY <1>1 DEF Since
<1>3. Within(b, lo, hi)' = IF a = b /\ now \in lo..hi THEN Within(b, lo, hi) \cup {n}
                           ELSE Within(b, lo, hi)
  BY <1>1 DEF Within
<1>4. n \notin Since(a, lo) /\ n \notin Within(b, lo, hi)
  BY <1>1 DEF Since, Within
<1>5. now >= lo => Since(a, lo)' = Since(a, lo) \cup {n}
  BY <1>1 DEF Since
<1>6. now >= lo => Cardinality(Since(a, lo)') = Cardinality(Since(a, lo)) + 1
  BY <1>4, <1>5, PassesCounted, FS_AddElement
<1>7. Cardinality(Within(b, lo, hi) \cup {n}) = Cardinality(Within(b, lo, hi)) + 1
      /\ Cardinality(Within(b, lo, hi)) \in Nat
  BY <1>4, PassesCounted, FS_AddElement
<1>8. Cardinality(Within(b, lo, hi)') <= Cardinality(Within(b, lo, hi)) + 1
  BY <1>3, <1>7
<1>9. Since(b, lo) \subseteq Since(b, lo)' /\ Within(b, lo, hi) \subseteq Within(b, lo, hi)'
  BY <1>2, <1>3
<1> QED BY <1>2, <1>3, <1>6, <1>8, <1>9

\* The same after a step.
LEMMA CountedLater ==
  ASSUME NEW a, NEW lo, NEW hi, passed' \in Seq([from : Addresses, at : 0..MaxNow])
  PROVE  /\ IsFiniteSet(Since(a, lo)') /\ IsFiniteSet(Within(a, lo, hi)')
         /\ Cardinality(Since(a, lo)') \in Nat /\ Cardinality(Within(a, lo, hi)') \in Nat
<1>1. IsFiniteSet(1..Len(passed')) /\ DOMAIN passed' = 1..Len(passed')
  BY FS_Interval
<1>2. Since(a, lo)' \subseteq 1..Len(passed') /\ Within(a, lo, hi)' \subseteq 1..Len(passed')
  BY <1>1 DEF Since, Within
<1>3. IsFiniteSet(Since(a, lo)') /\ IsFiniteSet(Within(a, lo, hi)')
  BY <1>1, <1>2, FS_Subset
<1> QED BY <1>3, FS_CardinalityType

\* The numbers there are.
LEMMA RateNumbers ==
  ASSUME RateInv
  PROVE  /\ now \in Nat /\ now \in 0..MaxNow /\ WindowMs \in Nat /\ WindowMs > 0
         /\ MaxRequests \in Nat /\ MaxNow \in Nat /\ MaxAsks \in Nat
         /\ passed \in Seq([from : Addresses, at : 0..MaxNow])
         /\ \A k \in DOMAIN passed : passed[k].at \in Nat /\ passed[k].at <= now
         /\ \A a \in DOMAIN entries : /\ a \in Addresses /\ entries[a].count \in Nat
                                      /\ entries[a].count > 0
                                      /\ entries[a].resetAt \in Nat /\ Begin(a) \in Int
<1>1. RateType
  BY DEF RateInv
<1>2. WindowMs \in Nat /\ WindowMs > 0 /\ MaxRequests \in Nat /\ MaxNow \in Nat /\ MaxAsks \in Nat
  BY RateAssumption
<1>3. now \in Nat /\ now \in 0..MaxNow /\ passed \in Seq([from : Addresses, at : 0..MaxNow])
  BY <1>1, <1>2 DEF RateType
<1>4. ASSUME NEW k \in DOMAIN passed
      PROVE  passed[k].at \in Nat /\ passed[k].at <= now
  <2>1. passed[k] \in [from : Addresses, at : 0..MaxNow]
    BY <1>3, Entry
  <2>2. passed[k].at \in 0..MaxNow
    BY <2>1
  <2> QED BY <1>1, <1>2, <2>2 DEF RateType
<1>5. ASSUME NEW a \in DOMAIN entries
      PROVE  /\ a \in Addresses /\ entries[a].count \in Nat /\ entries[a].count > 0
             /\ entries[a].resetAt \in Nat /\ Begin(a) \in Int
  <2>1. a \in Addresses /\ entries[a] \in [count : Nat \ {0}, resetAt : Nat]
    BY <1>1 DEF RateType
  <2> QED BY <1>2, <2>1 DEF Begin
<1> QED BY <1>2, <1>3, <1>4, <1>5

\* A window that is over might as well not be there.
LEMMA OverFacts ==
  ASSUME RateInv, NEW a \in Addresses,
         a \in DOMAIN entries => now >= entries[a].resetAt
  PROVE  NoWindow(a)
<1>1. CASE a \notin DOMAIN entries
  BY <1>1 DEF RateInv
<1>2. CASE a \in DOMAIN entries
  <2>1. WindowFits(a)
    BY <1>2 DEF RateInv
  <2>2. ASSUME NEW t \in Int, t >= now - WindowMs
        PROVE  AtMost(Since(a, t), MaxRequests)
    <3>1. Begin(a) <= t /\ Begin(a) \in Int
      BY <1>2, <2>2, RateNumbers DEF Begin
    <3>2. Since(a, t) \subseteq Since(a, Begin(a))
      BY <3>1, RateNumbers DEF Since
    <3>3. Cardinality(Since(a, t)) <= Cardinality(Since(a, Begin(a)))
          /\ Cardinality(Since(a, t)) \in Nat /\ Cardinality(Since(a, Begin(a))) \in Nat
      BY <3>2, RateNumbers, PassesCounted, Fewer
    <3> QED BY <2>1, <3>3, RateNumbers DEF WindowFits, AtMost
  <2>3. \A k \in DOMAIN passed : passed[k].from = a => passed[k].at < now
    BY <1>2, <2>1, RateNumbers DEF WindowFits
  <2> QED BY <2>2, <2>3 DEF NoWindow
<1> QED BY <1>1, <1>2

\* A request of one address does nothing to the others.
LEMMA OthersStay ==
  ASSUME RateInv, NEW a \in Addresses, NEW b \in Addresses, b # a, now' = now,
         (b \in DOMAIN entries') <=> (b \in DOMAIN entries),
         b \in DOMAIN entries => entries'[b] = entries[b],
         passed' = passed \/ passed' = Append(passed, [from |-> a, at |-> now])
  PROVE  IF b \in DOMAIN entries' THEN WindowFits(b)' ELSE NoWindow(b)'
<1>1. \A lo, hi \in Int : Since(b, lo)' = Since(b, lo) /\ Within(b, lo, hi)' = Within(b, lo, hi)
  <2>1. CASE passed' = passed
    BY <2>1 DEF Since, Within
  <2>2. CASE passed' = Append(passed, [from |-> a, at |-> now])
    BY <2>2, CountedOnce, RateNumbers
  <2> QED BY <2>1, <2>2
<1>2. ASSUME NEW k \in DOMAIN passed', passed'[k].from = b
      PROVE  k \in DOMAIN passed /\ passed'[k] = passed[k]
  <2>1. CASE passed' = passed
    BY <1>2, <2>1
  <2>2. CASE passed' = Append(passed, [from |-> a, at |-> now])
    <3>1. /\ DOMAIN passed' = DOMAIN passed \cup {Len(passed) + 1}
          /\ passed'[Len(passed) + 1] = [from |-> a, at |-> now]
          /\ \A j \in DOMAIN passed : passed'[j] = passed[j]
      BY <2>2, OneMore, RateNumbers
    <3>2. passed'[Len(passed) + 1].from = a
      BY <3>1
    <3> QED BY <1>2, <3>1, <3>2
  <2> QED BY <2>1, <2>2
<1>3. CASE b \in DOMAIN entries
  <2>1. WindowFits(b) /\ Begin(b)' = Begin(b) /\ Begin(b) \in Int
    BY <1>3, RateNumbers DEF RateInv, Begin
  <2>2. /\ Since(b, Begin(b))' = Since(b, Begin(b))
        /\ \A t \in Int : Within(b, t, Begin(b) - 1)' = Within(b, t, Begin(b) - 1)
    BY <1>1, <2>1 DEF Since, Within
  <2>3. entries'[b] = entries[b]
    BY <1>3
  <2>4. Begin(b)' <= now'
    BY <2>1 DEF WindowFits
  <2>5. \A k \in DOMAIN passed' : passed'[k].from = b => passed'[k].at < entries'[b].resetAt
    BY <1>2, <2>1, <2>3 DEF WindowFits
  <2>6. /\ Cardinality(Since(b, Begin(b))') <= MaxRequests
        /\ Cardinality(Since(b, Begin(b))') >= entries'[b].count
             \/ Cardinality(Since(b, Begin(b))') >= MaxRequests
        /\ Cardinality(Since(b, Begin(b))') <= entries'[b].count
    BY <2>1, <2>2, <2>3 DEF WindowFits, AtMost
  <2>7. \A t \in Int : t >= Begin(b) - WindowMs =>
           Cardinality(Within(b, t, Begin(b) - 1)') <= MaxRequests
    BY <2>1, <2>2 DEF WindowFits, AtMost
  <2>8. WindowFits(b)'
    BY <2>1, <2>4, <2>5, <2>6, <2>7 DEF WindowFits, AtMost
  <2> QED BY <1>3, <2>8
<1>4. CASE b \notin DOMAIN entries
  <2>1. NoWindow(b)
    BY <1>4 DEF RateInv
  <2>2. \A k \in DOMAIN passed' : passed'[k].from = b => passed'[k].at < now'
    BY <1>2, <2>1 DEF NoWindow
  <2>3. \A t \in Int : t >= now' - WindowMs => Cardinality(Since(b, t)') <= MaxRequests
    BY <1>1, <2>1 DEF NoWindow, AtMost
  <2> QED BY <1>4, <2>2, <2>3 DEF NoWindow, AtMost
<1> QED BY <1>3, <1>4

\* What is let through of an address in any stretch, when a request more fits
\* the window that is open.
LEMMA StretchFits ==
  ASSUME RateInv, NEW a \in Addresses, now' = now,
         passed' = Append(passed, [from |-> a, at |-> now]),
         passed' \in Seq([from : Addresses, at : 0..MaxNow]),
         NEW s \in Int, s <= now, now < s + WindowMs,
         Cardinality(Since(a, s)') <= MaxRequests,
         \A t \in Int : t >= s - WindowMs => Cardinality(Within(a, t, s - 1)') <= MaxRequests
  PROVE  \A b \in Addresses, t \in Int :
           Cardinality(Within(b, t, t + WindowMs - 1)') <= 2 * MaxRequests
<1> SUFFICES ASSUME NEW b \in Addresses, NEW t \in Int
             PROVE  Cardinality(Within(b, t, t + WindowMs - 1)') <= 2 * MaxRequests
  OBVIOUS
<1> DEFINE u == t + WindowMs - 1
<1>1. u \in Int /\ WindowMs \in Nat /\ WindowMs > 0 /\ now \in Nat /\ MaxRequests \in Nat
  BY RateNumbers
<1>2. CASE b # a \/ now \notin t..u
  <2>1. Within(b, t, u)' = Within(b, t, u)
    BY <1>1, <1>2, CountedOnce, RateNumbers
  <2>2. Cardinality(Within(b, t, u)) <= 2 * MaxRequests
    BY DEF RateInv, AtMost
  <2> QED BY <2>1, <2>2
<1>3. CASE b = a /\ now \in t..u
  <2>1. t >= s - WindowMs
    BY <1>1, <1>3
  <2>2. Cardinality(Within(a, t, s - 1)') <= MaxRequests
    BY <2>1
  <2>3. ASSUME NEW k \in Within(a, t, u)'
        PROVE  k \in Within(a, t, s - 1)' \cup Since(a, s)'
    <3>1. k \in DOMAIN passed' /\ passed'[k].from = a /\ passed'[k].at \in t..u
      BY DEF Within
    <3>2. passed'[k].at \in t..s - 1 \/ passed'[k].at >= s
      BY <1>1, <3>1
    <3> QED BY <3>1, <3>2 DEF Within, Since
  <2>4. Within(a, t, u)' \subseteq Within(a, t, s - 1)' \cup Since(a, s)'
    BY <2>3
  <2>5. IsFiniteSet(Within(a, t, s - 1)') /\ IsFiniteSet(Since(a, s)')
    BY CountedLater
  <2> HIDE DEF u
  <2>6. Cardinality(Within(a, t, u)') <= 2 * MaxRequests
    BY <1>1, <2>2, <2>4, <2>5, InTwo
  <2> QED BY <1>3, <2>6 DEF u
<1> QED BY <1>2, <1>3

\* Who was refused earlier goes on having been refused rightly.
LEMMA RefusalsStay ==
  ASSUME RateInv, NEW a \in Addresses,
         passed' = passed \/ passed' = Append(passed, [from |-> a, at |-> now]),
         passed' \in Seq([from : Addresses, at : 0..MaxNow]),
         \A r \in refused' \ refused :
           Cardinality(Within(r.from, r.at - WindowMs + 1, r.at)') >= MaxRequests,
         refused \subseteq [from : Addresses, at : 0..MaxNow]
  PROVE  RefusalIsEarned'
<1>1. ASSUME NEW r \in refused
      PROVE  Cardinality(Within(r.from, r.at - WindowMs + 1, r.at)') >= MaxRequests
  <2> DEFINE lo == r.at - WindowMs + 1
             hi == r.at
             b == r.from
  <2>1. lo \in Int /\ hi \in Int
    <3>1. r.at \in 0..MaxNow
      OBVIOUS
    <3> QED BY <3>1, RateNumbers
  <2>2. Cardinality(Within(b, lo, hi)) >= MaxRequests
    BY DEF RateInv, RefusalIsEarned, Admitted, Within
  <2> HIDE DEF lo, hi, b
  <2>3. Within(b, lo, hi) \subseteq Within(b, lo, hi)'
    <3>1. CASE passed' = passed
      BY <3>1 DEF Within
    <3>2. CASE passed' = Append(passed, [from |-> a, at |-> now])
      BY <2>1, <3>2, CountedOnce, RateNumbers
    <3> QED BY <3>1, <3>2
  <2>4. Cardinality(Within(b, lo, hi)) <= Cardinality(Within(b, lo, hi)')
        /\ Cardinality(Within(b, lo, hi)) \in Nat /\ Cardinality(Within(b, lo, hi)') \in Nat
    BY <2>3, CountedLater, Fewer
  <2>5. Cardinality(Within(b, lo, hi)') >= MaxRequests
    BY <2>2, <2>4, RateNumbers
  <2> QED BY <2>5 DEF lo, hi, b
<1>2. \A r \in refused' : Cardinality(Within(r.from, r.at - WindowMs + 1, r.at)') >= MaxRequests
  BY <1>1
<1> QED BY <1>2 DEF RefusalIsEarned, Admitted, Within

-----------------------------------------------------------------------------
\* The entries after a request.
LEMMA EntryAfter ==
  ASSUME RateInv, NEW a \in Addresses, NEW entry \in [count : Nat \ {0}, resetAt : Nat],
         entries' = [b \in {a} \cup DOMAIN entries |-> IF b = a THEN entry ELSE entries[b]]
  PROVE  /\ DOMAIN entries' = {a} \cup DOMAIN entries /\ entries'[a] = entry
         /\ \A b \in DOMAIN entries : b # a => entries'[b] = entries[b]
         /\ entries' = [b \in DOMAIN entries' |-> entries'[b]]
         /\ DOMAIN entries' \subseteq Addresses
         /\ \A b \in DOMAIN entries' : entries'[b] \in [count : Nat \ {0}, resetAt : Nat]
<1>1. RateType
  BY DEF RateInv
<1>2. /\ DOMAIN entries' = {a} \cup DOMAIN entries /\ entries'[a] = entry
      /\ \A b \in DOMAIN entries : b # a => entries'[b] = entries[b]
  OBVIOUS
<1>3. entries' = [b \in DOMAIN entries' |-> entries'[b]]
  BY <1>2
<1> QED BY <1>1, <1>2, <1>3 DEF RateType

\* A request that is passed on or refused keeps the types.
LEMMA LimitType ==
  ASSUME RateInv, NEW a \in Addresses, Limit(a),
         NEW entry \in [count : Nat \ {0}, resetAt : Nat],
         entries' = [b \in {a} \cup DOMAIN entries |-> IF b = a THEN entry ELSE entries[b]],
         \/ refused' = refused \cup {[from |-> a, at |-> now]} /\ passed' = passed
         \/ refused' = refused /\ passed' = Append(passed, [from |-> a, at |-> now])
  PROVE  RateType'
<1>1. RateType /\ now' = now
  BY DEF RateInv, Limit
<1>2. asks' \in 0..MaxAsks
  BY <1>1, RateNumbers DEF RateType, Limit
<1>3. passed' \in Seq([from : Addresses, at : 0..MaxNow])
      /\ \A k \in DOMAIN passed' : passed'[k].at <= now'
  <2>1. CASE passed' = passed
    BY <1>1, <2>1 DEF RateType
  <2>2. CASE passed' = Append(passed, [from |-> a, at |-> now])
    <3>1. /\ DOMAIN passed' = DOMAIN passed \cup {Len(passed) + 1}
          /\ passed'[Len(passed) + 1] = [from |-> a, at |-> now]
          /\ \A k \in DOMAIN passed : passed'[k] = passed[k]
          /\ passed' \in Seq([from : Addresses, at : 0..MaxNow])
      BY <2>2, OneMore, RateNumbers
    <3>2. passed'[Len(passed) + 1].at = now
      BY <3>1
    <3>3. now <= now
      BY RateNumbers
    <3> QED BY <1>1, <3>1, <3>2, <3>3 DEF RateType
  <2> QED BY <2>1, <2>2
<1>4. refused' \subseteq [from : Addresses, at : 0..MaxNow]
  BY <1>1 DEF RateType
<1> QED BY <1>1, <1>2, <1>3, <1>4, EntryAfter DEF RateType

\* A window is opened.
LEMMA OpenStep ==
  ASSUME RateInv, NEW a \in Addresses, Limit(a), Over(a)
  PROVE  RateInv'
<1> DEFINE R == [from |-> a, at |-> now]
<1>1. RateType /\ now' = now
  BY DEF RateInv, Limit
<1>2. /\ now \in Nat /\ now \in 0..MaxNow /\ WindowMs \in Nat /\ WindowMs > 0
      /\ MaxRequests \in Nat
  BY RateNumbers
<1>3. /\ Fresh \in [count : Nat \ {0}, resetAt : Nat]
      /\ Fresh.count = 1 /\ Fresh.resetAt = now + WindowMs
  BY <1>2 DEF Fresh
<1>4. /\ entries' = [b \in {a} \cup DOMAIN entries |-> IF b = a THEN Fresh ELSE entries[b]]
      /\ \/ MaxRequests = 0 /\ refused' = refused \cup {R} /\ passed' = passed
         \/ MaxRequests > 0 /\ refused' = refused /\ passed' = Append(passed, R)
  BY <1>2, <1>3 DEF Limit
<1>5. /\ DOMAIN entries' = {a} \cup DOMAIN entries /\ entries'[a] = Fresh
      /\ \A b \in DOMAIN entries : b # a => entries'[b] = entries[b]
  BY <1>3, <1>4, EntryAfter
<1>6. RateType'
  BY <1>3, <1>4, LimitType
<1>7. passed' \in Seq([from : Addresses, at : 0..MaxNow])
  BY <1>6 DEF RateType
<1>8. NoWindow(a)
  <2>1. a \in DOMAIN entries => now >= entries[a].resetAt
    BY DEF Over
  <2> QED BY <2>1, OverFacts
<1>9. Begin(a)' = now
  BY <1>2, <1>3, <1>5 DEF Begin
<1>10. Since(a, now) = {} /\ Cardinality(Since(a, now)) = 0
  <2>1. Since(a, now) = {}
    BY <1>2, <1>8, RateNumbers DEF NoWindow, Since
  <2> QED BY <2>1, FS_EmptySet
<1>11. /\ Cardinality(Since(a, now)') <= MaxRequests
       /\ Cardinality(Since(a, now)') >= 1 \/ Cardinality(Since(a, now)') >= MaxRequests
       /\ Cardinality(Since(a, now)') <= 1
  <2>1. CASE MaxRequests = 0 /\ passed' = passed
    <3>1. Since(a, now)' = Since(a, now)
      BY <1>1, <2>1 DEF Since
    <3> QED BY <1>10, <2>1, <3>1
  <2>2. CASE MaxRequests > 0 /\ passed' = Append(passed, R)
    <3>1. PICK s \in Int : s = now /\ now >= s
      BY <1>2
    <3>2. Cardinality(Since(a, s)') = Cardinality(Since(a, s)) + 1
      <4>1. 0 \in Int
        OBVIOUS
      <4> QED BY <2>2, <3>1, <4>1, CountedOnce, RateNumbers
    <3>3. Since(a, s)' = Since(a, now)' /\ Since(a, s) = Since(a, now)
      BY <1>1, <3>1 DEF Since
    <3> QED BY <1>2, <1>10, <2>2, <3>2, <3>3
  <2> QED BY <1>4, <2>1, <2>2
<1>12. ASSUME NEW t \in Int, t >= now - WindowMs
       PROVE  Cardinality(Within(a, t, now - 1)') <= MaxRequests
  <2>1. Within(a, t, now - 1)' = Within(a, t, now - 1)
    <3>1. CASE passed' = passed
      BY <1>1, <3>1 DEF Within
    <3>2. CASE passed' = Append(passed, R)
      <4>1. now - 1 \in Int /\ now \notin t..now - 1
        BY <1>2
      <4> QED BY <1>1, <1>2, <3>2, <4>1, CountedOnce, RateNumbers
    <3> QED BY <1>4, <3>1, <3>2
  <2>2. Within(a, t, now - 1) \subseteq Since(a, t)
    BY <1>2, RateNumbers DEF Within, Since
  <2>3. Cardinality(Within(a, t, now - 1)) <= Cardinality(Since(a, t))
        /\ Cardinality(Within(a, t, now - 1)) \in Nat /\ Cardinality(Since(a, t)) \in Nat
    BY <2>2, PassesCounted, Fewer, RateNumbers
  <2>4. Cardinality(Since(a, t)) <= MaxRequests
    BY <1>8, <1>12 DEF NoWindow, AtMost
  <2> QED BY <1>2, <2>1, <2>3, <2>4
<1>13. WindowFits(a)'
  <2>1. \A k \in DOMAIN passed' : passed'[k].from = a => passed'[k].at < entries'[a].resetAt
    <3>1. ASSUME NEW k \in DOMAIN passed'
          PROVE  passed'[k].at < now + WindowMs
      <4>1. passed'[k].at <= now /\ passed'[k].at \in Nat
        <5>1. passed'[k] \in [from : Addresses, at : 0..MaxNow]
          BY <1>7, Entry
        <5>2. passed'[k].at \in 0..MaxNow
          BY <5>1
        <5> QED BY <1>1, <1>2, <1>6, <5>2, RateNumbers DEF RateType
      <4> QED BY <1>2, <4>1
    <3> QED BY <1>3, <1>5, <3>1
  <2>2. Begin(a)' <= now'
    BY <1>1, <1>2, <1>9
  <2>3. /\ Cardinality(Since(a, Begin(a))') <= MaxRequests
        /\ Cardinality(Since(a, Begin(a))') >= entries'[a].count
             \/ Cardinality(Since(a, Begin(a))') >= MaxRequests
        /\ Cardinality(Since(a, Begin(a))') <= entries'[a].count
    <3>1. Since(a, Begin(a))' = Since(a, now)'
      BY <1>1, <1>9 DEF Since
    <3> QED BY <1>3, <1>5, <1>11, <3>1
  <2>4. \A t \in Int : t >= Begin(a)' - WindowMs =>
           Cardinality(Within(a, t, Begin(a) - 1)') <= MaxRequests
    <3>1. \A t : Within(a, t, Begin(a) - 1)' = Within(a, t, now - 1)'
      BY <1>1, <1>9 DEF Within
    <3> QED BY <1>9, <1>12, <3>1
  <2> QED BY <2>1, <2>2, <2>3, <2>4 DEF WindowFits, AtMost
<1>14. \A b \in Addresses : IF b \in DOMAIN entries' THEN WindowFits(b)' ELSE NoWindow(b)'
  <2>1. ASSUME NEW b \in Addresses, b # a
        PROVE  IF b \in DOMAIN entries' THEN WindowFits(b)' ELSE NoWindow(b)'
    BY <1>1, <1>4, <1>5, <2>1, OthersStay
  <2> QED BY <1>5, <1>13, <2>1
<1>15. \A b \in Addresses, t \in Int :
          Cardinality(Within(b, t, t + WindowMs - 1)') <= 2 * MaxRequests
  <2>1. CASE passed' = passed
    <3>1. \A b, lo, hi : Within(b, lo, hi)' = Within(b, lo, hi)
      BY <2>1 DEF Within
    <3>2. \A b \in Addresses, t \in Int :
             Cardinality({k \in DOMAIN passed' : passed'[k].from = b /\ passed'[k].at \in t..t + WindowMs - 1})
               <= 2 * MaxRequests
      BY <2>1 DEF RateInv, AtMost, Within
    <3> QED BY <3>2 DEF Within
  <2>2. CASE passed' = Append(passed, R)
    <3>1. Cardinality(Since(a, now)') <= MaxRequests
      BY <1>11
    <3>2. now \in Int /\ now <= now /\ now < now + WindowMs
      BY <1>2
    <3> QED BY <1>1, <1>7, <1>12, <2>2, <3>1, <3>2, StretchFits
  <2> QED BY <1>4, <2>1, <2>2
<1>16. RefusalIsEarned'
  <2>1. ASSUME NEW r \in refused' \ refused
        PROVE  Cardinality(Within(r.from, r.at - WindowMs + 1, r.at)') >= MaxRequests
    <3>1. MaxRequests = 0
      BY <1>4, <2>1
    <3>2. Cardinality(Within(r.from, r.at - WindowMs + 1, r.at)') \in Nat
      BY <1>7, CountedLater
    <3> QED BY <3>1, <3>2
  <2> QED BY <1>1, <1>4, <1>7, <2>1, RefusalsStay DEF RateType
<1> QED BY <1>6, <1>14, <1>15, <1>16 DEF RateInv, AtMost

\* A request within a window that is open.
LEMMA CountStep ==
  ASSUME RateInv, NEW a \in Addresses, Limit(a), ~Over(a)
  PROVE  RateInv'
<1> DEFINE R == [from |-> a, at |-> now]
           entry == [entries[a] EXCEPT !.count = @ + 1]
           c == entries[a].count
<1>1. RateType /\ now' = now /\ a \in DOMAIN entries /\ now < entries[a].resetAt
  BY RateNumbers DEF RateInv, Limit, Over
<1>2. /\ now \in Nat /\ now \in 0..MaxNow /\ WindowMs \in Nat /\ WindowMs > 0
      /\ MaxRequests \in Nat /\ c \in Nat /\ c > 0 /\ entries[a].resetAt \in Nat
  BY <1>1, RateNumbers
<1>3. entries[a] \in [count : Nat \ {0}, resetAt : Nat]
  BY <1>1 DEF RateType
<1>4. /\ entry \in [count : Nat \ {0}, resetAt : Nat]
      /\ entry.count = c + 1 /\ entry.resetAt = entries[a].resetAt
  BY <1>2, <1>3
<1>5. /\ entries' = [b \in {a} \cup DOMAIN entries |-> IF b = a THEN entry ELSE entries[b]]
      /\ \/ c + 1 > MaxRequests /\ refused' = refused \cup {R} /\ passed' = passed
         \/ c + 1 <= MaxRequests /\ refused' = refused /\ passed' = Append(passed, R)
  <2>1. /\ entries' = [b \in {a} \cup DOMAIN entries |-> IF b = a THEN entry ELSE entries[b]]
        /\ IF entry.count > MaxRequests
           THEN refused' = refused \cup {R} /\ UNCHANGED passed
           ELSE passed' = Append(passed, R) /\ UNCHANGED refused
    BY DEF Limit
  <2> HIDE DEF entry
  <2> QED BY <1>2, <1>4, <2>1
<1> HIDE DEF entry
<1>6. /\ DOMAIN entries' = {a} \cup DOMAIN entries /\ entries'[a] = entry
      /\ \A b \in DOMAIN entries : b # a => entries'[b] = entries[b]
  BY <1>4, <1>5, EntryAfter
<1>7. RateType'
  BY <1>4, <1>5, LimitType
<1>8. passed' \in Seq([from : Addresses, at : 0..MaxNow])
  BY <1>7 DEF RateType
<1>9. WindowFits(a)
  BY <1>1 DEF RateInv
<1>10. PICK s \in Int : s = Begin(a) /\ s <= now /\ now < s + WindowMs
  BY <1>1, <1>2, <1>9 DEF Begin, WindowFits
<1>11. Begin(a)' = s
  BY <1>4, <1>6, <1>10 DEF Begin
<1> DEFINE x == Cardinality(Since(a, s))
<1>12. /\ x \in Nat /\ x <= MaxRequests /\ x <= c /\ (x >= c \/ x >= MaxRequests)
  <2>1. Since(a, s) = Since(a, Begin(a))
    BY <1>10
  <2>2. x \in Nat
    BY PassesCounted, RateNumbers
  <2> QED BY <1>9, <2>1, <2>2 DEF WindowFits, AtMost
<1>13. /\ Cardinality(Since(a, s)') <= MaxRequests
       /\ Cardinality(Since(a, s)') >= c + 1 \/ Cardinality(Since(a, s)') >= MaxRequests
       /\ Cardinality(Since(a, s)') <= c + 1
  <2>1. CASE c + 1 > MaxRequests /\ passed' = passed
    <3>1. Since(a, s)' = Since(a, s)
      BY <2>1 DEF Since
    <3> QED BY <1>2, <1>12, <2>1, <3>1
  <2>2. CASE c + 1 <= MaxRequests /\ passed' = Append(passed, R)
    <3>1. now >= s /\ 0 \in Int
      BY <1>2, <1>10
    <3>2. Cardinality(Since(a, s)') = x + 1
      BY <2>2, <3>1, CountedOnce, RateNumbers
    <3> QED BY <1>2, <1>12, <2>2, <3>2
  <2> QED BY <1>5, <2>1, <2>2
<1>14. ASSUME NEW t \in Int, t >= s - WindowMs
       PROVE  Cardinality(Within(a, t, s - 1)') <= MaxRequests
  <2>1. Within(a, t, s - 1)' = Within(a, t, s - 1)
    <3>1. CASE passed' = passed
      BY <3>1 DEF Within
    <3>2. CASE passed' = Append(passed, R)
      <4>1. s - 1 \in Int /\ now \notin t..s - 1
        BY <1>2, <1>10
      <4> QED BY <3>2, <4>1, CountedOnce, RateNumbers
    <3> QED BY <1>5, <3>1, <3>2
  <2> QED BY <1>9, <1>10, <1>14, <2>1 DEF WindowFits, AtMost
<1>15. WindowFits(a)'
  <2>1. \A k \in DOMAIN passed' : passed'[k].from = a => passed'[k].at < entries'[a].resetAt
    <3>1. ASSUME NEW k \in DOMAIN passed'
          PROVE  passed'[k].at < entries[a].resetAt
      <4>1. passed'[k] \in [from : Addresses, at : 0..MaxNow]
        BY <1>8, Entry
      <4>2. passed'[k].at \in 0..MaxNow
        BY <4>1
      <4> QED BY <1>1, <1>2, <1>7, <4>2, RateNumbers DEF RateType
    <3> QED BY <1>4, <1>6, <3>1
  <2>2. Begin(a)' <= now'
    BY <1>1, <1>10, <1>11
  <2>3. /\ Cardinality(Since(a, Begin(a))') <= MaxRequests
        /\ Cardinality(Since(a, Begin(a))') >= entries'[a].count
             \/ Cardinality(Since(a, Begin(a))') >= MaxRequests
        /\ Cardinality(Since(a, Begin(a))') <= entries'[a].count
    <3>1. Since(a, Begin(a))' = Since(a, s)'
      BY <1>11 DEF Since
    <3> QED BY <1>4, <1>6, <1>13, <3>1
  <2>4. \A t \in Int : t >= Begin(a)' - WindowMs =>
           Cardinality(Within(a, t, Begin(a) - 1)') <= MaxRequests
    <3>1. \A t : Within(a, t, Begin(a) - 1)' = Within(a, t, s - 1)'
      BY <1>11 DEF Within
    <3> QED BY <1>11, <1>14, <3>1
  <2> QED BY <2>1, <2>2, <2>3, <2>4 DEF WindowFits, AtMost
<1>16. \A b \in Addresses : IF b \in DOMAIN entries' THEN WindowFits(b)' ELSE NoWindow(b)'
  <2>1. ASSUME NEW b \in Addresses, b # a
        PROVE  IF b \in DOMAIN entries' THEN WindowFits(b)' ELSE NoWindow(b)'
    BY <1>1, <1>5, <1>6, <2>1, OthersStay
  <2> QED BY <1>6, <1>15, <2>1
<1>17. \A b \in Addresses, t \in Int :
          Cardinality(Within(b, t, t + WindowMs - 1)') <= 2 * MaxRequests
  <2>1. CASE passed' = passed
    <3>1. \A b \in Addresses, t \in Int :
             Cardinality({k \in DOMAIN passed' : passed'[k].from = b /\ passed'[k].at \in t..t + WindowMs - 1})
               <= 2 * MaxRequests
      BY <2>1 DEF RateInv, AtMost, Within
    <3> QED BY <3>1 DEF Within
  <2>2. CASE passed' = Append(passed, R)
    BY <1>1, <1>8, <1>10, <1>13, <1>14, <2>2, StretchFits
  <2> QED BY <1>5, <2>1, <2>2
<1>18. RefusalIsEarned'
  <2>1. ASSUME NEW r \in refused' \ refused
        PROVE  Cardinality(Within(r.from, r.at - WindowMs + 1, r.at)') >= MaxRequests
    <3>1. r = R /\ c + 1 > MaxRequests /\ passed' = passed
      BY <1>5, <2>1
    <3>2. r.from = a /\ r.at = now
      BY <3>1
    <3>3. x >= MaxRequests
      BY <1>2, <1>12, <3>1
    <3>4. Since(a, s) \subseteq Within(a, now - WindowMs + 1, now)
      BY <1>2, <1>10, RateNumbers DEF Since, Within
    <3>5. x <= Cardinality(Within(a, now - WindowMs + 1, now))
          /\ Cardinality(Within(a, now - WindowMs + 1, now)) \in Nat
      BY <3>4, PassesCounted, Fewer, RateNumbers
    <3>6. Within(r.from, r.at - WindowMs + 1, r.at)' = Within(a, now - WindowMs + 1, now)
      BY <3>1, <3>2 DEF Within
    <3> QED BY <1>2, <1>12, <3>3, <3>5, <3>6
  <2> QED BY <1>1, <1>5, <1>8, <2>1, RefusalsStay DEF RateType
<1> QED BY <1>7, <1>16, <1>17, <1>18 DEF RateInv, AtMost

\* Time goes by, or the timer deletes what is over.
LEMMA QuietStep ==
  ASSUME RateInv, Tick \/ CleanUp \/ UNCHANGED rateVars
  PROVE  RateInv'
<1>1. /\ passed' = passed /\ refused' = refused /\ asks' = asks /\ now' \in {now, now + 1}
      /\ now' \in 0..MaxNow /\ now <= now' /\ now' \in Nat
  BY RateNumbers DEF Tick, CleanUp, rateVars
<1>2. /\ DOMAIN entries' \subseteq DOMAIN entries
      /\ entries' = [b \in DOMAIN entries' |-> entries'[b]]
      /\ \A b \in DOMAIN entries' : entries'[b] = entries[b]
      /\ \A b \in DOMAIN entries \ DOMAIN entries' : ~(now < entries[b].resetAt) /\ now' = now
  <2>1. CASE CleanUp
    BY <2>1 DEF CleanUp, Kept
  <2>2. CASE Tick \/ UNCHANGED rateVars
    <3>1. entries' = entries
      BY <2>2 DEF Tick, rateVars
    <3> QED BY <3>1 DEF RateInv, RateType
  <2> QED BY <2>1, <2>2
<1>3. /\ \A b, lo, hi : Within(b, lo, hi)' = {k \in DOMAIN passed : passed[k].from = b /\ passed[k].at \in lo'..hi'}
      /\ \A b, lo : Since(b, lo)' = {k \in DOMAIN passed : passed[k].from = b /\ passed[k].at >= lo'}
  BY <1>1 DEF Within, Since
<1>4. RateType'
  <2>1. \A k \in DOMAIN passed : passed[k].at <= now'
    BY <1>1, RateNumbers
  <2> QED BY <1>1, <1>2, <2>1 DEF RateInv, RateType
<1>5. ASSUME NEW b \in Addresses, b \in DOMAIN entries'
      PROVE  WindowFits(b)'
  <2>1. WindowFits(b) /\ Begin(b)' = Begin(b) /\ b \in DOMAIN entries /\ entries'[b] = entries[b]
    BY <1>2, <1>5 DEF RateInv, Begin
  <2>2. Begin(b)' <= now'
    BY <1>1, <2>1, RateNumbers DEF WindowFits
  <2>3. Since(b, Begin(b))' = Since(b, Begin(b))
    BY <1>1, <2>1 DEF Since
  <2>4. \A t : Within(b, t, Begin(b) - 1)' = Within(b, t, Begin(b) - 1)
    BY <1>1, <2>1 DEF Within
  <2>5. /\ Cardinality(Since(b, Begin(b))') <= MaxRequests
        /\ Cardinality(Since(b, Begin(b))') >= entries'[b].count
             \/ Cardinality(Since(b, Begin(b))') >= MaxRequests
        /\ Cardinality(Since(b, Begin(b))') <= entries'[b].count
        /\ \A k \in DOMAIN passed' : passed'[k].from = b => passed'[k].at < entries'[b].resetAt
    BY <1>1, <2>1, <2>3 DEF WindowFits, AtMost
  <2>6. \A t \in Int : t >= Begin(b)' - WindowMs =>
           Cardinality(Within(b, t, Begin(b) - 1)') <= MaxRequests
    BY <2>1, <2>4 DEF WindowFits, AtMost
  <2> QED BY <2>2, <2>5, <2>6 DEF WindowFits, AtMost
<1>6. ASSUME NEW b \in Addresses, b \notin DOMAIN entries'
      PROVE  NoWindow(b)'
  <2>1. NoWindow(b)
    <3>1. CASE b \notin DOMAIN entries
      BY <3>1 DEF RateInv
    <3>2. CASE b \in DOMAIN entries
      BY <1>2, <1>6, <3>2, OverFacts, RateNumbers
    <3> QED BY <3>1, <3>2
  <2>2. \A k \in DOMAIN passed' : passed'[k].from = b => passed'[k].at < now'
    BY <1>1, <2>1, RateNumbers DEF NoWindow
  <2>3. ASSUME NEW t \in Int, t >= now' - WindowMs
        PROVE  Cardinality(Since(b, t)') <= MaxRequests
    <3>1. t >= now - WindowMs
      BY <1>1, <2>3, RateNumbers
    <3>2. Since(b, t)' = Since(b, t)
      BY <1>1 DEF Since
    <3> QED BY <2>1, <3>1, <3>2 DEF NoWindow, AtMost
  <2> QED BY <2>2, <2>3 DEF NoWindow, AtMost
<1>7. \A b \in Addresses, t \in Int :
         Cardinality(Within(b, t, t + WindowMs - 1)') <= 2 * MaxRequests
  BY <1>1 DEF RateInv, AtMost, Within
<1>8. RefusalIsEarned'
  BY <1>1 DEF RateInv, RefusalIsEarned, Admitted
<1> QED BY <1>4, <1>5, <1>6, <1>7, <1>8 DEF RateInv, AtMost

-----------------------------------------------------------------------------
\* At the start nobody has asked.
LEMMA RateStart == RateInit => RateInv
<1> SUFFICES ASSUME RateInit PROVE RateInv
  OBVIOUS
<1>1. /\ now = 0 /\ entries = <<>> /\ asks = 0 /\ passed = <<>> /\ refused = {}
      /\ DOMAIN passed = {} /\ DOMAIN entries = {}
  BY DEF RateInit
<1>2. WindowMs \in Nat /\ MaxRequests \in Nat /\ MaxNow \in Nat /\ MaxAsks \in Nat
  BY RateAssumption
<1>3. RateType
  <2>1. entries = [a \in DOMAIN entries |-> entries[a]]
    BY <1>1
  <2> QED BY <1>1, <1>2, <2>1 DEF RateType
<1>4. \A a, lo, hi : Since(a, lo) = {} /\ Within(a, lo, hi) = {}
  BY <1>1 DEF Since, Within
<1>5. Cardinality({}) = 0 /\ 0 <= MaxRequests /\ 0 <= 2 * MaxRequests
  BY <1>2, FS_EmptySet
<1>6. \A a \in Addresses : NoWindow(a)
  BY <1>1, <1>4, <1>5 DEF NoWindow, AtMost
<1>7. RefusalIsEarned
  BY <1>1 DEF RefusalIsEarned
<1> QED BY <1>1, <1>3, <1>4, <1>5, <1>6, <1>7 DEF RateInv, AtMost

\* The limiter is exact: in any stretch as long as a window an address gets at
\* most two windows' worth through, and nobody is refused who has not used up
\* his requests (rateLimit and its clean-up timer).
THEOREM LimitHolds == RateSpec => []LimitIsExact
<1>1. RateInv /\ [RateNext]_rateVars => RateInv'
  BY OpenStep, CountStep, QuietStep DEF RateNext
<1>2. ASSUME RateInv
      PROVE  LimitIsExact
  <2>1. RateTypeOK
    BY <1>2, RateNumbers DEF RateInv, RateType, RateTypeOK
  <2>2. ASSUME NEW a \in Addresses, NEW t \in 0..now
        PROVE  Admitted(a, t, t + WindowMs - 1) <= 2 * MaxRequests
    <3>1. Admitted(a, t, t + WindowMs - 1) = Cardinality(Within(a, t, t + WindowMs - 1))
      BY DEF Admitted, Within
    <3> QED BY <1>2, <3>1 DEF RateInv, AtMost
  <2> QED BY <1>2, <2>1, <2>2 DEF LimitIsExact, BurstIsBounded, RateInv
<1> QED BY <1>1, <1>2, RateStart, PTL DEF RateSpec
=============================================================================
