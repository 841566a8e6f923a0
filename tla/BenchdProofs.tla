---------------------------- MODULE BenchdProofs ----------------------------
(***************************************************************************)
(* Proofs about benchd: BenchdLock, BenchdServer and BenchdSessions, for   *)
(* every set of connections, jobs and requests and every bound.  The lock  *)
(* grants in the order of the requests, loses none, arms its timers for    *)
(* what they guard only and accounts for every violation, and it           *)
(* implements the abstract JobLock; the throttle snapshots report an event *)
(* once and to the job it belongs to, whatever messages and timeouts come  *)
(* in between; and benchmarks run alone as long as every job gives its     *)
(* lock back, because a job does so after its own processes have ended.    *)
(***************************************************************************)
EXTENDS BenchdServer, BenchdSessions, FiniteSets, FiniteSetTheorems, TLAPS

-----------------------------------------------------------------------------
(* The lock.                                                               *)

-----------------------------------------------------------------------------
(* Sequences.                                                              *)

\* What Append does to length and entries.
LEMMA AppendFacts ==
  ASSUME NEW S, NEW s \in Seq(S), NEW e \in S
  PROVE  /\ Append(s, e) \in Seq(S)
         /\ Len(Append(s, e)) = Len(s) + 1
         /\ \A i \in 1..Len(s) : Append(s, e)[i] = s[i]
         /\ Append(s, e)[Len(s) + 1] = e
  OBVIOUS

\* What Tail and Head do to a sequence that is not empty.
LEMMA TailFacts ==
  ASSUME NEW S, NEW s \in Seq(S), s # <<>>
  PROVE  /\ Len(s) \in Nat \ {0}
         /\ Head(s) = s[1]
         /\ Head(s) \in S
         /\ Tail(s) \in Seq(S)
         /\ Len(Tail(s)) = Len(s) - 1
         /\ \A i \in 1..(Len(s) - 1) : Tail(s)[i] = s[i + 1]
  OBVIOUS

-----------------------------------------------------------------------------
(* Types.                                                                  *)

\* grantLock keeps the types.
LEMMA GrantLockType ==
  ASSUME TypeOK, NEW req \in Request, NEW armed \in SUBSET (Nat \ {0}),
         GrantLock(req, armed)
  PROVE  /\ holder' \in ActiveLock
         /\ arms' \in Nat
         /\ timers' \subseteq Nat \ {0}
         /\ grants' \in Seq(Nat \ {0})
         /\ known' \subseteq Nat \ {0}
<1>1. Len(grants) + 1 \in Nat \ {0} /\ arms + 1 \in Nat \ {0}
  BY DEF TypeOK
<1>2. req.rid \in Nat \ {0} /\ req.client \in Clients /\ req.job \in Jobs
  BY DEF Request
<1>3. grants' \in Seq(Nat \ {0})
  BY <1>2, AppendFacts DEF GrantLock, DrawToken, ArmTimer, TypeOK
<1>4. holder' \in ActiveLock
  BY <1>1, <1>2 DEF GrantLock, DrawToken, ArmTimer, ActiveLock
<1>5. arms' \in Nat /\ timers' \subseteq Nat \ {0} /\ known' \subseteq Nat \ {0}
  BY <1>1 DEF GrantLock, DrawToken, ArmTimer, TypeOK
<1> QED BY <1>3, <1>4, <1>5

\* grantNext keeps the types.
LEMMA GrantNextType ==
  ASSUME TypeOK, NEW armed \in SUBSET (Nat \ {0}), GrantNext(armed)
  PROVE  /\ holder' \in ActiveLock \cup {NoHolder}
         /\ queue' \in Seq(Request)
         /\ arms' \in Nat
         /\ timers' \subseteq Nat \ {0}
         /\ grants' \in Seq(Nat \ {0})
         /\ known' \subseteq Nat \ {0}
<1>1. CASE queue = <<>>
  BY <1>1 DEF GrantNext, TypeOK
<1>2. CASE queue # <<>>
  <2>1. Head(queue) \in Request /\ Tail(queue) \in Seq(Request)
    BY <1>2, TailFacts DEF TypeOK
  <2>2. GrantLock(Head(queue), armed) /\ queue' = Tail(queue)
    BY <1>2 DEF GrantNext
  <2> QED BY <2>1, <2>2, GrantLockType
<1> QED BY <1>1, <1>2

\* Every step keeps the types.
LEMMA TypeStep == TypeOK /\ [Next]_vars => TypeOK'
<1> SUFFICES ASSUME TypeOK, [Next]_vars PROVE TypeOK'
  OBVIOUS
<1> USE DEF TypeOK, lockVars, ConnState
<1>1. ASSUME NEW c \in Clients, Connect(c) PROVE TypeOK'
  BY <1>1 DEF Connect
<1>2. ASSUME NEW c \in Clients, PeerLeaves(c) PROVE TypeOK'
  BY <1>2 DEF PeerLeaves
<1>3. ASSUME NEW c \in Clients, HandleDisconnect(c) PROVE TypeOK'
  <2>1. PICK n \in 0..Len(queue) : \E keep \in [1..n -> 1..Len(queue)] :
          queue' = [i \in 1..n |-> queue[keep[i]]]
    BY <1>3 DEF HandleDisconnect
  <2>2. PICK keep \in [1..n -> 1..Len(queue)] :
          queue' = [i \in 1..n |-> queue[keep[i]]]
    BY <2>1
  <2>3. queue' \in Seq(Request)
    BY <2>2
  <2>4. withdrawn' \subseteq Nat \ {0}
    <3>1. \A k \in 1..Len(queue) : queue[k] \in Request
      OBVIOUS
    <3> HIDE DEF TypeOK
    <3>2. \A k \in 1..Len(queue) : queue[k].rid \in Nat \ {0}
      BY <3>1 DEF Request
    <3>3. withdrawn' = withdrawn \cup
            {queue[k].rid : k \in {k \in 1..Len(queue) : queue[k].client = c}}
      BY <1>3 DEF HandleDisconnect
    <3>4. withdrawn \subseteq Nat \ {0}
      BY DEF TypeOK
    <3> QED BY <3>2, <3>3, <3>4
  <2> QED BY <2>3, <2>4, <1>3 DEF HandleDisconnect
<1>4. ASSUME NEW c \in Clients, NEW j \in Jobs, Acquire(c, j) PROVE TypeOK'
  <2> DEFINE req == [rid |-> acquires + 1, client |-> c, job |-> j]
  <2>1. req \in Request
    BY DEF Request
  <2>2. CASE Free /\ GrantLock(req, timers) /\ UNCHANGED queue
    <3>1. /\ holder' \in ActiveLock /\ arms' \in Nat /\ timers' \subseteq Nat \ {0}
          /\ grants' \in Seq(Nat \ {0}) /\ known' \subseteq Nat \ {0}
      BY <2>1, <2>2, GrantLockType
    <3> QED BY <3>1, <2>2, <1>4 DEF Acquire
  <2>3. CASE ~Free /\ queue' = Append(queue, req)
             /\ UNCHANGED <<holder, timers, arms, grants, known>>
    <3>1. queue' \in Seq(Request)
      BY <2>1, <2>3, AppendFacts
    <3> QED BY <3>1, <2>3, <1>4 DEF Acquire
  <2> QED BY <2>2, <2>3, <1>4 DEF Acquire
<1>5. ASSUME NEW c \in Clients, NEW j \in Jobs, NEW t \in known, Release(c, j, t)
      PROVE TypeOK'
  <2>1. holder \in ActiveLock
    BY <1>5 DEF Release, Free
  <2>2. violations' \in Seq(Violation)
    <3>1. [token |-> holder.token, job |-> j, reason |-> "action_not_used"] \in Violation
      BY <2>1 DEF ActiveLock, Violation, Reason
    <3> QED BY <3>1, <1>5, AppendFacts DEF Release
  <2>3. ClearTimeout \in SUBSET (Nat \ {0})
    BY DEF ClearTimeout
  <2>4. GrantNext(ClearTimeout)
    BY <1>5 DEF Release
  <2>5. released' \subseteq Nat \ {0}
    BY <1>5 DEF Release
  <2> HIDE DEF TypeOK
  <2>6. /\ holder' \in ActiveLock \cup {NoHolder} /\ queue' \in Seq(Request)
        /\ arms' \in Nat /\ timers' \subseteq Nat \ {0}
        /\ grants' \in Seq(Nat \ {0}) /\ known' \subseteq Nat \ {0}
    BY <2>3, <2>4, GrantNextType
  <2> QED BY <2>2, <2>5, <2>6, <1>5 DEF Release, TypeOK
<1>6. ASSUME NEW c \in Clients, NEW t \in known, MarkActionInvoked(c, t) PROVE TypeOK'
  <2>1. holder \in ActiveLock /\ t \in Nat \ {0}
    BY <1>6 DEF MarkActionInvoked, ValidateToken, Free
  <2>2. holder' \in ActiveLock
    BY <2>1, <1>6 DEF MarkActionInvoked, ActiveLock
  <2> QED BY <2>1, <2>2, <1>6 DEF MarkActionInvoked
<1>7. ASSUME NEW c \in Clients, SetCurrentTimeout(c) PROVE TypeOK'
  <2>1. holder \in ActiveLock /\ arms + 1 \in Nat \ {0}
    BY <1>7 DEF SetCurrentTimeout, ArmTimer, Free
  <2>2. holder' \in ActiveLock
    BY <2>1, <1>7 DEF SetCurrentTimeout, ArmTimer, ActiveLock
  <2> QED BY <2>1, <2>2, <1>7 DEF SetCurrentTimeout, ArmTimer, ClearTimeout
<1>8. ASSUME NEW k \in timers, TimerFires(k) PROVE TypeOK'
  <2>1. CASE Free
    BY <2>1, <1>8 DEF TimerFires
  <2>2. CASE ~Free
    <3>1. holder \in ActiveLock
      BY <2>2 DEF Free
    <3>2. violations' \in Seq(Violation)
      <4>1. [token |-> holder.token, job |-> holder.job, reason |-> "job_timeout"] \in Violation
        BY <3>1 DEF ActiveLock, Violation, Reason
      <4>2. violations \in Seq(Violation)
        OBVIOUS
      <4> HIDE DEF TypeOK
      <4> QED BY <4>1, <4>2, <1>8, <2>2, AppendFacts DEF TimerFires
    <3>3. ClearTimeout \ {k} \in SUBSET (Nat \ {0})
      BY DEF ClearTimeout
    <3>4. GrantNext(ClearTimeout \ {k})
      BY <1>8, <2>2 DEF TimerFires
    <3> HIDE DEF TypeOK
    <3>5. /\ holder' \in ActiveLock \cup {NoHolder} /\ queue' \in Seq(Request)
          /\ arms' \in Nat /\ timers' \subseteq Nat \ {0}
          /\ grants' \in Seq(Nat \ {0}) /\ known' \subseteq Nat \ {0}
      BY <3>3, <3>4, GrantNextType
    <3> QED BY <3>2, <3>5, <1>8 DEF TimerFires, TypeOK
  <2> QED BY <2>1, <2>2
<1>9. CASE UNCHANGED vars
  BY <1>9 DEF vars
<1> QED
  BY <1>1, <1>2, <1>3, <1>4, <1>5, <1>6, <1>7, <1>8, <1>9 DEF Next

\* LockManager's fields always have their types.
THEOREM TypeCorrect == Spec => []TypeOK
<1>1. Init => TypeOK
  BY DEF Init, TypeOK, ConnState
<1> QED BY <1>1, TypeStep, PTL DEF Spec

-----------------------------------------------------------------------------
(* What the private methods do, once types are known.                      *)

\* grantLock installs a holder with the next token and a fresh timer.
LEMMA GrantLockEffect ==
  ASSUME TypeOK, NEW req \in Request, NEW armed \in SUBSET (Nat \ {0}), GrantLock(req, armed)
  PROVE  /\ ~Free'
         /\ holder'.rid = req.rid
         /\ holder'.token = Len(grants) + 1
         /\ holder'.timer = arms + 1
         /\ holder'.actionInvoked = FALSE
         /\ timers' = armed \cup {arms + 1}
         /\ grants' = Append(grants, req.rid)
<1>1. Len(grants) + 1 \in Nat \ {0} /\ arms + 1 \in Nat \ {0}
  BY DEF TypeOK
<1>2. holder' \in ActiveLock
  BY <1>1 DEF GrantLock, DrawToken, ArmTimer, ActiveLock, Request
<1> QED BY <1>2, NoHolderAssumption DEF GrantLock, DrawToken, ArmTimer, Free

\* grantNext either leaves the lock free, with nobody waiting, or grants the
\* first entry of the queue and removes it.
LEMMA GrantNextEffect ==
  ASSUME TypeOK, NEW armed \in SUBSET (Nat \ {0}), GrantNext(armed)
  PROVE  \/ /\ queue = <<>> /\ queue' = <<>>
            /\ Free'
            /\ timers' = armed
            /\ grants' = grants
         \/ /\ queue # <<>> /\ queue' = Tail(queue)
            /\ queue[1] \in Request
            /\ ~Free'
            /\ holder'.rid = queue[1].rid
            /\ holder'.token = Len(grants) + 1
            /\ holder'.timer = arms + 1
            /\ holder'.actionInvoked = FALSE
            /\ timers' = armed \cup {arms + 1}
            /\ grants' = Append(grants, queue[1].rid)
<1>1. CASE queue = <<>>
  BY <1>1 DEF GrantNext, Free
<1>2. CASE queue # <<>>
  <2>1. Head(queue) = queue[1] /\ Head(queue) \in Request
    BY <1>2, TailFacts DEF TypeOK
  <2>2. GrantLock(Head(queue), armed) /\ queue' = Tail(queue)
    BY <1>2 DEF GrantNext
  <2> QED BY <1>2, <2>1, <2>2, GrantLockEffect
<1> QED BY <1>1, <1>2

\* handleDisconnect keeps a subsequence of the queue: the entries of the other
\* connections, each once and in their order.
LEMMA DisconnectEffect ==
  ASSUME TypeOK, NEW c \in Clients, HandleDisconnect(c)
  PROVE  \E keep \in [1..Len(queue') -> 1..Len(queue)] :
           /\ \A i, j \in 1..Len(queue') : i < j => keep[i] < keep[j]
           /\ \A k \in 1..Len(queue) :
                queue[k].client # c <=> \E i \in 1..Len(queue') : keep[i] = k
           /\ \A i \in 1..Len(queue') : queue'[i] = queue[keep[i]]
<1>1. PICK n \in 0..Len(queue) : \E keep \in [1..n -> 1..Len(queue)] :
       /\ \A i, j \in 1..n : i < j => keep[i] < keep[j]
       /\ \A k \in 1..Len(queue) :
            queue[k].client # c <=> \E i \in 1..n : keep[i] = k
       /\ queue' = [i \in 1..n |-> queue[keep[i]]]
  BY DEF HandleDisconnect
<1>2. Len(queue) \in Nat /\ n \in Nat
  BY DEF TypeOK
<1>3. Len(queue') = n
  BY <1>1, <1>2
<1> QED BY <1>1, <1>3

-----------------------------------------------------------------------------
(* Timers.                                                                 *)

TimerInv == TimerIsHolders /\ NoIdleLock

\* Ending a grant with grantNext, its timer cleared, keeps TimerInv.
LEMMA GrantNextTimer ==
  ASSUME TypeOK, GrantNext({})
  PROVE  TimerInv'
<1>1. {} \in SUBSET (Nat \ {0})
  OBVIOUS
<1>2. \/ queue' = <<>> /\ Free' /\ timers' = {}
      \/ ~Free' /\ timers' = {arms + 1} /\ holder'.timer = arms + 1
  BY <1>1, GrantNextEffect
<1> QED BY <1>2 DEF TimerInv, TimerIsHolders, NoIdleLock

\* Every step keeps TimerInv.
LEMMA TimerStep == TypeOK /\ TimerInv /\ [Next]_vars => TimerInv'
<1> SUFFICES ASSUME TypeOK, TimerInv, [Next]_vars PROVE TimerInv'
  OBVIOUS
<1>0. ~Free => ClearTimeout = {}
  BY DEF TimerInv, TimerIsHolders, ClearTimeout
<1>1. ASSUME NEW c \in Clients, Connect(c) \/ PeerLeaves(c) PROVE TimerInv'
  BY <1>1 DEF Connect, PeerLeaves, TimerInv, TimerIsHolders, NoIdleLock, lockVars, Free
<1>2. ASSUME NEW c \in Clients, HandleDisconnect(c) PROVE TimerInv'
  <2>1. queue = <<>> => queue' = <<>>
    BY <1>2 DEF HandleDisconnect
  <2> QED
    BY <2>1, <1>2 DEF HandleDisconnect, TimerInv, TimerIsHolders, NoIdleLock, Free
<1>3. ASSUME NEW c \in Clients, NEW j \in Jobs, Acquire(c, j) PROVE TimerInv'
  <2> DEFINE req == [rid |-> acquires + 1, client |-> c, job |-> j]
  <2>1. CASE Free /\ GrantLock(req, timers) /\ UNCHANGED queue
    <3>1. req \in Request
      BY DEF Request, TypeOK
    <3>2. timers = {}
      BY <2>1 DEF TimerInv, TimerIsHolders
    <3> QED BY <2>1, <3>1, <3>2, GrantLockEffect DEF TimerInv, TimerIsHolders, NoIdleLock
  <2>2. CASE ~Free /\ UNCHANGED <<holder, timers, arms, grants, known>>
    BY <2>2 DEF TimerInv, TimerIsHolders, NoIdleLock, Free
  <2> QED BY <2>1, <2>2, <1>3 DEF Acquire
<1>4. ASSUME NEW c \in Clients, NEW j \in Jobs, NEW t \in known, Release(c, j, t)
      PROVE TimerInv'
  BY <1>0, <1>4, GrantNextTimer DEF Release
<1>5. ASSUME NEW c \in Clients, NEW t \in known, MarkActionInvoked(c, t) PROVE TimerInv'
  <2>1. holder \in ActiveLock /\ ~Free
    BY <1>5 DEF MarkActionInvoked, ValidateToken, Free, TypeOK
  <2>2. holder' \in ActiveLock /\ holder'.timer = holder.timer
    BY <2>1, <1>5 DEF MarkActionInvoked, ActiveLock
  <2>3. ~Free'
    BY <2>2, NoHolderAssumption DEF Free
  <2> QED
    BY <1>5, <2>1, <2>2, <2>3 DEF MarkActionInvoked, TimerInv, TimerIsHolders, NoIdleLock
<1>6. ASSUME NEW c \in Clients, SetCurrentTimeout(c) PROVE TimerInv'
  <2>1. holder \in ActiveLock /\ arms + 1 \in Nat \ {0}
    BY <1>6 DEF SetCurrentTimeout, ArmTimer, Free, TypeOK
  <2>2. holder' \in ActiveLock /\ holder'.timer = arms + 1
    BY <2>1, <1>6 DEF SetCurrentTimeout, ArmTimer, ActiveLock
  <2>3. ~Free' /\ timers' = {arms + 1}
    BY <1>0, <1>6, <2>2, NoHolderAssumption DEF Free, SetCurrentTimeout, ArmTimer
  <2> QED BY <2>2, <2>3 DEF TimerInv, TimerIsHolders, NoIdleLock
<1>7. ASSUME NEW k \in timers, TimerFires(k) PROVE TimerInv'
  <2>1. ~Free
    BY DEF TimerInv, TimerIsHolders
  <2>2. ClearTimeout \ {k} = {}
    BY <1>0, <2>1
  <2> QED BY <2>1, <2>2, <1>7, GrantNextTimer DEF TimerFires
<1>8. CASE UNCHANGED vars
  BY <1>8 DEF vars, lockVars, TimerInv, TimerIsHolders, NoIdleLock, Free
<1> QED BY <1>1, <1>2, <1>3, <1>4, <1>5, <1>6, <1>7, <1>8 DEF Next

\* The one armed timer is the holder's, so no timer outlives its grant; and
\* the lock is never free while a request waits.
THEOREM TimersAreSafe == Spec => [](TimerIsHolders /\ NoIdleLock)
<1>1. Init => TimerInv
  BY DEF Init, TimerInv, TimerIsHolders, NoIdleLock, Free
<1>2. TypeOK /\ TimerInv /\ [Next]_vars => TimerInv'
  BY TimerStep
<1>3. TimerInv => TimerIsHolders /\ NoIdleLock
  BY DEF TimerInv
<1> QED BY <1>1, <1>2, <1>3, TypeCorrect, PTL DEF Spec

\* A request is queued only behind a holder: every end of a grant has granted
\* the next one.
THEOREM NobodyWaitsForAFreeLock == Spec => []NoIdleLock
BY TimersAreSafe, PTL

-----------------------------------------------------------------------------
(* The order of the requests.                                              *)

\* Requests are numbered as they arrive.
RidsArrived ==
  /\ \A t \in 1..Len(grants) : grants[t] <= acquires
  /\ \A i \in 1..Len(queue) : queue[i].rid <= acquires

OrderInv == FifoOrder /\ HolderIsLatestGrant /\ RidsArrived

\* The elements of the two sequences have their types.
LEMMA Elements ==
  ASSUME TypeOK
  PROVE  /\ Len(queue) \in Nat /\ Len(grants) \in Nat /\ acquires \in Nat
         /\ \A i \in 1..Len(queue) : /\ queue[i] \in Request
                                    /\ queue[i].rid \in Nat \ {0}
                                    /\ queue[i].client \in Clients
         /\ \A t \in 1..Len(grants) : grants[t] \in Nat \ {0}
<1>1. queue \in Seq(Request) /\ grants \in Seq(Nat \ {0}) /\ acquires \in Nat
  BY DEF TypeOK
<1>2. \A i \in 1..Len(queue) : queue[i] \in Request
  BY <1>1
<1>3. \A i \in 1..Len(queue) : queue[i].rid \in Nat \ {0} /\ queue[i].client \in Clients
  BY <1>2 DEF Request
<1> QED BY <1>1, <1>2, <1>3

\* Ending a grant with grantNext keeps the order.
LEMMA GrantNextOrder ==
  ASSUME TypeOK, OrderInv, NEW armed \in SUBSET (Nat \ {0}), GrantNext(armed),
         acquires' = acquires
  PROVE  OrderInv'
<1>1. CASE queue = <<>> /\ queue' = <<>> /\ Free' /\ grants' = grants
  BY <1>1, Elements DEF OrderInv, FifoOrder, HolderIsLatestGrant, RidsArrived
<1>2. CASE /\ queue # <<>> /\ queue' = Tail(queue)
           /\ queue[1] \in Request
           /\ ~Free'
           /\ holder'.rid = queue[1].rid
           /\ holder'.token = Len(grants) + 1
           /\ grants' = Append(grants, queue[1].rid)
  <2> DEFINE r == queue[1].rid
  <2>1. /\ Len(queue) \in Nat \ {0} /\ Len(queue') = Len(queue) - 1
        /\ \A i \in 1..Len(queue') : queue'[i] = queue[i + 1]
    BY <1>2, TailFacts DEF TypeOK
  <2>2. r \in Nat \ {0}
    BY <2>1, Elements
  <2>3. /\ Len(grants') = Len(grants) + 1
        /\ \A t \in 1..Len(grants) : grants'[t] = grants[t]
        /\ grants'[Len(grants) + 1] = r
    BY <1>2, <2>2, AppendFacts DEF TypeOK
  <2>4. \A t \in 1..Len(grants') : t \in 1..Len(grants) \/ t = Len(grants) + 1
    BY <2>3, Elements
  <2>5. \A i \in 1..Len(queue') : i + 1 \in 1..Len(queue) /\ 1 < i + 1
    BY <2>1
  <2>6. 1 \in 1..Len(queue)
    BY <2>1
  <2>7. FifoOrder'
    <3>1. \A t, u \in 1..Len(grants') : t < u => grants'[t] < grants'[u]
      BY <2>3, <2>4, <2>6, Elements DEF OrderInv, FifoOrder
    <3>2. \A i, k \in 1..Len(queue') : i < k => queue'[i].rid < queue'[k].rid
      <4> SUFFICES ASSUME NEW i \in 1..Len(queue'), NEW k \in 1..Len(queue'), i < k
                   PROVE  queue'[i].rid < queue'[k].rid
        OBVIOUS
      <4>1. queue'[i] = queue[i + 1] /\ queue'[k] = queue[k + 1]
        BY <2>1
      <4>2. i + 1 \in 1..Len(queue) /\ k + 1 \in 1..Len(queue) /\ i + 1 < k + 1
        BY <2>1
      <4>3. queue[i + 1].rid < queue[k + 1].rid
        BY <4>2 DEF OrderInv, FifoOrder
      <4> QED BY <4>1, <4>3
    <3>3. \A t \in 1..Len(grants'), i \in 1..Len(queue') : grants'[t] < queue'[i].rid
      <4> SUFFICES ASSUME NEW t \in 1..Len(grants'), NEW i \in 1..Len(queue')
                   PROVE  grants'[t] < queue'[i].rid
        OBVIOUS
      <4>1. queue'[i].rid = queue[i + 1].rid
        BY <2>1
      <4>2. CASE t \in 1..Len(grants)
        BY <4>1, <4>2, <2>3, <2>5 DEF OrderInv, FifoOrder
      <4>3. CASE t = Len(grants) + 1
        BY <4>1, <4>3, <2>3, <2>5, <2>6 DEF OrderInv, FifoOrder
      <4> QED BY <2>4, <4>2, <4>3
    <3> QED BY <3>1, <3>2, <3>3 DEF FifoOrder
  <2>8. HolderIsLatestGrant'
    BY <1>2, <2>3 DEF HolderIsLatestGrant
  <2>9. RidsArrived'
    BY <1>2, <2>1, <2>3, <2>4, <2>5, <2>6 DEF OrderInv, RidsArrived
  <2> QED BY <2>7, <2>8, <2>9 DEF OrderInv
<1> QED BY <1>1, <1>2, GrantNextEffect

\* Every step keeps the order.
LEMMA OrderStep == TypeOK /\ TimerInv /\ OrderInv /\ [Next]_vars => OrderInv'
<1> SUFFICES ASSUME TypeOK, TimerInv, OrderInv, [Next]_vars PROVE OrderInv'
  OBVIOUS
<1>1. ASSUME NEW c \in Clients, Connect(c) \/ PeerLeaves(c) PROVE OrderInv'
  BY <1>1 DEF Connect, PeerLeaves, lockVars, OrderInv, FifoOrder,
              HolderIsLatestGrant, RidsArrived, Free
<1>2. ASSUME NEW c \in Clients, HandleDisconnect(c) PROVE OrderInv'
  <2>1. PICK keep \in [1..Len(queue') -> 1..Len(queue)] :
           /\ \A i, j \in 1..Len(queue') : i < j => keep[i] < keep[j]
           /\ \A i \in 1..Len(queue') : queue'[i] = queue[keep[i]]
    BY <1>2, DisconnectEffect
  <2>2. UNCHANGED <<holder, acquires, grants>>
    BY <1>2 DEF HandleDisconnect
  <2>3. \A i \in 1..Len(queue') : keep[i] \in 1..Len(queue)
    BY <2>1
  <2>4. FifoOrder'
    BY <2>1, <2>2, <2>3 DEF OrderInv, FifoOrder
  <2>5. HolderIsLatestGrant' /\ RidsArrived'
    BY <2>1, <2>2, <2>3 DEF OrderInv, HolderIsLatestGrant, RidsArrived, Free
  <2> QED BY <2>4, <2>5 DEF OrderInv
<1>3. ASSUME NEW c \in Clients, NEW j \in Jobs, Acquire(c, j) PROVE OrderInv'
  <2> DEFINE req == [rid |-> acquires + 1, client |-> c, job |-> j]
  <2>0. req \in Request /\ req.rid = acquires + 1 /\ acquires' = acquires + 1
    BY <1>3 DEF Request, TypeOK, Acquire
  <2>1. CASE Free /\ GrantLock(req, timers) /\ UNCHANGED queue
    <3>1. queue = <<>> /\ queue' = <<>> /\ timers \in SUBSET (Nat \ {0})
      BY <2>1 DEF TimerInv, NoIdleLock, TypeOK
    <3>2. /\ ~Free' /\ holder'.rid = acquires + 1 /\ holder'.token = Len(grants) + 1
          /\ grants' = Append(grants, acquires + 1)
      BY <2>0, <2>1, <3>1, GrantLockEffect
    <3>3. /\ Len(grants') = Len(grants) + 1
          /\ \A t \in 1..Len(grants) : grants'[t] = grants[t]
          /\ grants'[Len(grants) + 1] = acquires + 1
      BY <3>2, AppendFacts DEF TypeOK
    <3>4. \A t \in 1..Len(grants') : t \in 1..Len(grants) \/ t = Len(grants) + 1
      BY <3>3, Elements
    <3>5. Len(queue') = 0
      BY <3>1
    <3>6. FifoOrder'
      BY <3>3, <3>4, <3>5, Elements DEF OrderInv, FifoOrder, RidsArrived
    <3>7. HolderIsLatestGrant' /\ RidsArrived'
      BY <2>0, <3>2, <3>3, <3>4, <3>5, Elements
      DEF OrderInv, HolderIsLatestGrant, RidsArrived
    <3> QED BY <3>6, <3>7 DEF OrderInv
  <2>2. CASE /\ ~Free /\ queue' = Append(queue, req)
             /\ UNCHANGED <<holder, timers, arms, grants, known>>
    <3>1. /\ Len(queue') = Len(queue) + 1
          /\ \A i \in 1..Len(queue) : queue'[i] = queue[i]
          /\ queue'[Len(queue) + 1] = req
      BY <2>0, <2>2, AppendFacts DEF TypeOK
    <3>2. \A i \in 1..Len(queue') : i \in 1..Len(queue) \/ i = Len(queue) + 1
      BY <3>1, Elements
    <3> HIDE DEF req
    <3>3. FifoOrder'
      <4>1. \A i, k \in 1..Len(queue') : i < k => queue'[i].rid < queue'[k].rid
        <5> SUFFICES ASSUME NEW i \in 1..Len(queue'), NEW k \in 1..Len(queue'), i < k
                     PROVE  queue'[i].rid < queue'[k].rid
          OBVIOUS
        <5>1. i \in 1..Len(queue) /\ queue'[i] = queue[i]
          BY <3>1, Elements
        <5>2. CASE k \in 1..Len(queue)
          BY <5>1, <5>2, <3>1 DEF OrderInv, FifoOrder
        <5>3. CASE k = Len(queue) + 1
          BY <5>1, <5>3, <2>0, <3>1, Elements DEF OrderInv, RidsArrived
        <5> QED BY <5>2, <5>3, <3>2
      <4>2. \A t \in 1..Len(grants'), i \in 1..Len(queue') : grants'[t] < queue'[i].rid
        BY <2>0, <2>2, <3>1, <3>2, Elements DEF OrderInv, FifoOrder, RidsArrived
      <4> QED BY <4>1, <4>2, <2>2 DEF OrderInv, FifoOrder
    <3>4. HolderIsLatestGrant' /\ RidsArrived'
      BY <2>0, <2>2, <3>1, <3>2, Elements
      DEF OrderInv, HolderIsLatestGrant, RidsArrived, Free
    <3> QED BY <3>3, <3>4 DEF OrderInv
  <2> QED BY <2>1, <2>2, <1>3 DEF Acquire
<1>4. ASSUME NEW c \in Clients, NEW j \in Jobs, NEW t \in known, Release(c, j, t)
      PROVE OrderInv'
  <2>1. ClearTimeout \in SUBSET (Nat \ {0})
    BY DEF ClearTimeout, TypeOK
  <2> QED BY <1>4, <2>1, GrantNextOrder DEF Release
<1>5. ASSUME NEW c \in Clients, NEW t \in known, MarkActionInvoked(c, t) PROVE OrderInv'
  <2>1. holder \in ActiveLock /\ ~Free
    BY <1>5 DEF MarkActionInvoked, ValidateToken, Free, TypeOK
  <2>2. holder'.token = holder.token /\ holder'.rid = holder.rid
    BY <2>1, <1>5 DEF MarkActionInvoked, ActiveLock
  <2> QED
    BY <1>5, <2>1, <2>2
    DEF MarkActionInvoked, OrderInv, FifoOrder, HolderIsLatestGrant, RidsArrived
<1>6. ASSUME NEW c \in Clients, SetCurrentTimeout(c) PROVE OrderInv'
  <2>1. holder \in ActiveLock /\ ~Free
    BY <1>6 DEF SetCurrentTimeout, ArmTimer, Free, TypeOK
  <2>2. holder'.token = holder.token /\ holder'.rid = holder.rid
    BY <2>1, <1>6 DEF SetCurrentTimeout, ArmTimer, ActiveLock
  <2> QED
    BY <1>6, <2>1, <2>2
    DEF SetCurrentTimeout, ArmTimer, OrderInv, FifoOrder, HolderIsLatestGrant, RidsArrived
<1>7. ASSUME NEW k \in timers, TimerFires(k) PROVE OrderInv'
  <2>1. ~Free
    BY DEF TimerInv, TimerIsHolders
  <2>2. ClearTimeout \ {k} \in SUBSET (Nat \ {0})
    BY DEF ClearTimeout, TypeOK
  <2> QED BY <1>7, <2>1, <2>2, GrantNextOrder DEF TimerFires
<1>8. CASE UNCHANGED vars
  BY <1>8 DEF vars, lockVars, OrderInv, FifoOrder, HolderIsLatestGrant, RidsArrived, Free
<1> QED BY <1>1, <1>2, <1>3, <1>4, <1>5, <1>6, <1>7, <1>8 DEF Next

\* Grants are made in the order in which the requests arrived, whatever leaves
\* the queue in between and whatever ends the grants.
THEOREM LockIsFifo == Spec => []FifoOrder
<1>1. Init => TypeOK /\ TimerInv /\ OrderInv
  BY DEF Init, TypeOK, ConnState, TimerInv, TimerIsHolders, NoIdleLock, Free,
         OrderInv, FifoOrder, HolderIsLatestGrant, RidsArrived
<1>2. TypeOK /\ TimerInv /\ OrderInv /\ [Next]_vars => (TypeOK /\ TimerInv /\ OrderInv)'
  BY TypeStep, TimerStep, OrderStep
<1>3. OrderInv => FifoOrder
  BY DEF OrderInv
<1> QED BY <1>1, <1>2, <1>3, PTL DEF Spec

-----------------------------------------------------------------------------
(* The conservation of the requests.                                       *)

RequestInv == QueueConnected /\ EveryRequestOnce

\* Taking the first entry off an ordered queue takes exactly its rid away.
LEMMA RidsTail ==
  ASSUME TypeOK, FifoOrder, queue # <<>>
  PROVE  Rids(Tail(queue)) = Rids(queue) \ {queue[1].rid} /\ queue[1].rid \in Rids(queue)
<1>1. /\ Len(queue) \in Nat \ {0} /\ Len(Tail(queue)) = Len(queue) - 1
      /\ \A i \in 1..(Len(queue) - 1) : Tail(queue)[i] = queue[i + 1]
  BY TailFacts DEF TypeOK
<1>2. 1 \in 1..Len(queue)
  BY <1>1
<1>3. ASSUME NEW x \in Rids(Tail(queue)) PROVE x \in Rids(queue) \ {queue[1].rid}
  <2>1. PICK i \in 1..Len(Tail(queue)) : x = Tail(queue)[i].rid
    BY <1>3 DEF Rids
  <2>2. i + 1 \in 1..Len(queue) /\ 1 < i + 1 /\ x = queue[i + 1].rid
    BY <1>1, <2>1
  <2>3. queue[1].rid < queue[i + 1].rid
    BY <1>2, <2>2 DEF FifoOrder
  <2> QED BY <1>2, <2>2, <2>3, Elements DEF Rids
<1>4. ASSUME NEW x \in Rids(queue) \ {queue[1].rid} PROVE x \in Rids(Tail(queue))
  <2>1. PICK i \in 1..Len(queue) : x = queue[i].rid
    BY <1>4 DEF Rids
  <2>2. i # 1
    BY <1>4, <2>1
  <2>3. i - 1 \in 1..Len(Tail(queue)) /\ Tail(queue)[i - 1] = queue[i]
    BY <1>1, <2>2
  <2> QED BY <2>1, <2>3 DEF Rids
<1> QED BY <1>2, <1>3, <1>4 DEF Rids

\* Appending a request appends its rid.
LEMMA RidsAppend ==
  ASSUME TypeOK, NEW req \in Request
  PROVE  Rids(Append(queue, req)) = Rids(queue) \cup {req.rid}
<1>1. /\ Len(queue) \in Nat /\ Len(Append(queue, req)) = Len(queue) + 1
      /\ \A i \in 1..Len(queue) : Append(queue, req)[i] = queue[i]
      /\ Append(queue, req)[Len(queue) + 1] = req
  BY AppendFacts DEF TypeOK
<1>2. 1..(Len(queue) + 1) = 1..Len(queue) \cup {Len(queue) + 1}
  BY <1>1
<1> QED BY <1>1, <1>2 DEF Rids

\* Granting a request adds its rid to the granted ones.
LEMMA GrantedAppend ==
  ASSUME TypeOK, NEW r \in Nat \ {0}, grants' = Append(grants, r)
  PROVE  Granted' = Granted \cup {r}
<1>1. /\ Len(grants) \in Nat /\ Len(grants') = Len(grants) + 1
      /\ \A i \in 1..Len(grants) : grants'[i] = grants[i]
      /\ grants'[Len(grants) + 1] = r
  BY AppendFacts DEF TypeOK
<1>2. 1..(Len(grants) + 1) = 1..Len(grants) \cup {Len(grants) + 1}
  BY <1>1
<1> QED BY <1>1, <1>2 DEF Granted

\* Ending a grant moves one request from waiting to granted, or none.
LEMMA GrantNextRequests ==
  ASSUME TypeOK, FifoOrder, RequestInv, NEW armed \in SUBSET (Nat \ {0}),
         GrantNext(armed), UNCHANGED <<conn, acquires, withdrawn>>
  PROVE  RequestInv'
<1>1. CASE queue = <<>> /\ queue' = <<>> /\ grants' = grants
  BY <1>1 DEF RequestInv, QueueConnected, EveryRequestOnce, Granted, Rids
<1>2. CASE /\ queue # <<>> /\ queue' = Tail(queue)
           /\ grants' = Append(grants, queue[1].rid)
  <2>1. Rids(queue') = Rids(queue) \ {queue[1].rid} /\ queue[1].rid \in Rids(queue)
    BY <1>2, RidsTail
  <2>2. /\ Len(queue) \in Nat \ {0} /\ Len(queue') = Len(queue) - 1
        /\ \A i \in 1..Len(queue') : queue'[i] = queue[i + 1]
    BY <1>2, TailFacts DEF TypeOK
  <2>3. Granted' = Granted \cup {queue[1].rid}
    BY <1>2, <2>2, Elements, GrantedAppend
  <2>4. QueueConnected'
    BY <2>2 DEF RequestInv, QueueConnected
  <2>5. EveryRequestOnce'
    <3>1. /\ Granted' \cup withdrawn' \cup Rids(queue)' = 1..acquires'
          /\ Granted' \cap withdrawn' = {}
          /\ (Granted' \cup withdrawn') \cap Rids(queue)' = {}
      BY <2>1, <2>3 DEF RequestInv, EveryRequestOnce
    <3> QED BY <3>1 DEF EveryRequestOnce
  <2> QED BY <2>4, <2>5 DEF RequestInv
<1> QED BY <1>1, <1>2, GrantNextEffect

\* A disconnection takes exactly its client's rids off an ordered queue.
LEMMA DisconnectRids ==
  ASSUME TypeOK, FifoOrder, NEW c \in Clients, HandleDisconnect(c)
  PROVE  LET gone == {queue[k].rid : k \in {k \in 1..Len(queue) : queue[k].client = c}}
         IN /\ withdrawn' = withdrawn \cup gone
            /\ gone \subseteq Rids(queue)
            /\ Rids(queue') = Rids(queue) \ gone
<1> DEFINE gone == {queue[k].rid : k \in {k \in 1..Len(queue) : queue[k].client = c}}
<1>1. PICK keep \in [1..Len(queue') -> 1..Len(queue)] :
        /\ \A k \in 1..Len(queue) :
             queue[k].client # c <=> \E i \in 1..Len(queue') : keep[i] = k
        /\ \A i \in 1..Len(queue') : queue'[i] = queue[keep[i]]
  BY DisconnectEffect
<1>2. withdrawn' = withdrawn \cup gone
  BY DEF HandleDisconnect
<1>3. gone \subseteq Rids(queue)
  BY DEF Rids
<1>4. ASSUME NEW x \in Rids(queue') PROVE x \in Rids(queue) \ gone
  <2>1. PICK i \in 1..Len(queue') : x = queue'[i].rid
    BY <1>4 DEF Rids
  <2>2. keep[i] \in 1..Len(queue) /\ queue[keep[i]].client # c /\ x = queue[keep[i]].rid
    BY <1>1, <2>1
  <2>3. \A k \in 1..Len(queue) : queue[k].rid = x => k = keep[i]
    BY <2>2, Elements DEF FifoOrder
  <2> QED BY <2>2, <2>3 DEF Rids
<1>5. ASSUME NEW x \in Rids(queue) \ gone PROVE x \in Rids(queue')
  <2>1. PICK k \in 1..Len(queue) : x = queue[k].rid
    BY <1>5 DEF Rids
  <2>2. queue[k].client # c
    BY <1>5, <2>1
  <2>3. PICK i \in 1..Len(queue') : keep[i] = k
    BY <1>1, <2>2
  <2> QED BY <1>1, <2>1, <2>3 DEF Rids
<1> QED BY <1>2, <1>3, <1>4, <1>5

\* Every step keeps RequestInv.
LEMMA RequestStep ==
  TypeOK /\ TimerInv /\ OrderInv /\ RequestInv /\ [Next]_vars => RequestInv'
<1> SUFFICES ASSUME TypeOK, TimerInv, OrderInv, RequestInv, [Next]_vars PROVE RequestInv'
  OBVIOUS
<1>0. FifoOrder
  BY DEF OrderInv
<1>a. UNCHANGED <<conn, queue, acquires, grants, withdrawn>> => RequestInv'
  <2> SUFFICES ASSUME UNCHANGED <<conn, queue, acquires, grants, withdrawn>>
               PROVE  RequestInv'
    OBVIOUS
  <2>1. Granted' = Granted /\ Rids(queue)' = Rids(queue)
    BY DEF Granted, Rids
  <2> QED BY <2>1 DEF RequestInv, QueueConnected, EveryRequestOnce
<1>1. ASSUME NEW c \in Clients, Connect(c) \/ PeerLeaves(c) PROVE RequestInv'
  <2>1. /\ conn' \in {[conn EXCEPT ![c] = "open"], [conn EXCEPT ![c] = "gone"]}
        /\ UNCHANGED <<queue, acquires, grants, withdrawn>>
    BY <1>1 DEF Connect, PeerLeaves, lockVars
  <2>2. QueueConnected'
    BY <2>1, Elements DEF RequestInv, QueueConnected, TypeOK
  <2> QED BY <2>1, <2>2 DEF RequestInv, EveryRequestOnce, Granted, Rids
<1>2. ASSUME NEW c \in Clients, HandleDisconnect(c) PROVE RequestInv'
  <2>1. PICK keep \in [1..Len(queue') -> 1..Len(queue)] :
           /\ \A k \in 1..Len(queue) :
                queue[k].client # c <=> \E i \in 1..Len(queue') : keep[i] = k
           /\ \A i \in 1..Len(queue') : queue'[i] = queue[keep[i]]
    BY <1>2, DisconnectEffect
  <2>2. conn' = [conn EXCEPT ![c] = "closed"] /\ UNCHANGED <<acquires, grants>>
    BY <1>2 DEF HandleDisconnect
  <2>3. QueueConnected'
    <3> SUFFICES ASSUME NEW i \in 1..Len(queue') PROVE conn'[queue'[i].client] # "closed"
      BY DEF QueueConnected
    <3>1. keep[i] \in 1..Len(queue) /\ queue[keep[i]].client # c
      BY <2>1
    <3> QED BY <2>1, <2>2, <3>1, Elements DEF RequestInv, QueueConnected, TypeOK
  <2>4. EveryRequestOnce'
    <3>1. Granted' = Granted
      BY <2>2 DEF Granted
    <3>2. /\ Granted' \cup withdrawn' \cup Rids(queue') = 1..acquires'
          /\ Granted' \cap withdrawn' = {}
          /\ (Granted' \cup withdrawn') \cap Rids(queue') = {}
      BY <1>0, <1>2, <2>2, <3>1, DisconnectRids DEF RequestInv, EveryRequestOnce
    <3> QED BY <3>2 DEF EveryRequestOnce, Rids
  <2> QED BY <2>3, <2>4 DEF RequestInv
<1>3. ASSUME NEW c \in Clients, NEW j \in Jobs, Acquire(c, j) PROVE RequestInv'
  <2> DEFINE req == [rid |-> acquires + 1, client |-> c, job |-> j]
  <2>0. /\ req \in Request /\ req.rid = acquires + 1 /\ req.client = c
        /\ acquires' = acquires + 1
        /\ conn[c] # "closed" /\ UNCHANGED <<conn, withdrawn>>
    BY <1>3 DEF Request, TypeOK, Acquire
  <2>1. 1..acquires' = 1..acquires \cup {acquires + 1} /\ acquires + 1 \notin 1..acquires
    BY <2>0, Elements
  <2>2. CASE Free /\ GrantLock(req, timers) /\ UNCHANGED queue
    <3>1. timers \in SUBSET (Nat \ {0})
      BY DEF TypeOK
    <3>2. grants' = Append(grants, acquires + 1)
      BY <2>0, <2>2, <3>1, GrantLockEffect
    <3>3. Granted' = Granted \cup {acquires + 1}
      BY <3>2, GrantedAppend, Elements
    <3>4. /\ Granted' \cup withdrawn' \cup Rids(queue) = 1..acquires'
          /\ Granted' \cap withdrawn' = {}
          /\ (Granted' \cup withdrawn') \cap Rids(queue) = {}
      BY <2>0, <2>1, <3>3 DEF RequestInv, EveryRequestOnce
    <3> QED BY <2>0, <2>2, <3>4 DEF RequestInv, QueueConnected, EveryRequestOnce, Rids
  <2>3. CASE /\ ~Free /\ queue' = Append(queue, req)
             /\ UNCHANGED <<holder, timers, arms, grants, known>>
    <3>1. /\ Len(queue') = Len(queue) + 1
          /\ \A i \in 1..Len(queue) : queue'[i] = queue[i]
          /\ queue'[Len(queue) + 1] = req
      BY <2>0, <2>3, AppendFacts DEF TypeOK
    <3>2. \A i \in 1..Len(queue') : i \in 1..Len(queue) \/ i = Len(queue) + 1
      BY <3>1, Elements
    <3>3. Rids(queue') = Rids(queue) \cup {acquires + 1}
      BY <2>0, <2>3, RidsAppend
    <3> HIDE DEF req
    <3>4. QueueConnected'
      BY <2>0, <3>1, <3>2 DEF RequestInv, QueueConnected
    <3>5. Granted' = Granted
      BY <2>3 DEF Granted
    <3>6. /\ Granted' \cup withdrawn' \cup Rids(queue') = 1..acquires'
          /\ Granted' \cap withdrawn' = {}
          /\ (Granted' \cup withdrawn') \cap Rids(queue') = {}
      BY <2>0, <2>1, <3>3, <3>5 DEF RequestInv, EveryRequestOnce
    <3> QED BY <3>4, <3>6 DEF RequestInv, EveryRequestOnce, Rids
  <2> QED BY <2>2, <2>3, <1>3 DEF Acquire
<1>4. ASSUME NEW c \in Clients, NEW j \in Jobs, NEW t \in known, Release(c, j, t)
      PROVE RequestInv'
  <2>1. ClearTimeout \in SUBSET (Nat \ {0})
    BY DEF ClearTimeout, TypeOK
  <2> QED BY <1>0, <1>4, <2>1, GrantNextRequests DEF Release
<1>5. ASSUME NEW c \in Clients, NEW t \in known, MarkActionInvoked(c, t) PROVE RequestInv'
  BY <1>a, <1>5 DEF MarkActionInvoked
<1>6. ASSUME NEW c \in Clients, SetCurrentTimeout(c) PROVE RequestInv'
  BY <1>a, <1>6 DEF SetCurrentTimeout, ArmTimer
<1>7. ASSUME NEW k \in timers, TimerFires(k) PROVE RequestInv'
  <2>1. ~Free
    BY DEF TimerInv, TimerIsHolders
  <2>2. ClearTimeout \ {k} \in SUBSET (Nat \ {0})
    BY DEF ClearTimeout, TypeOK
  <2> QED BY <1>0, <1>7, <2>1, <2>2, GrantNextRequests DEF TimerFires
<1>8. CASE UNCHANGED vars
  BY <1>a, <1>8 DEF vars, lockVars
<1> QED BY <1>1, <1>2, <1>3, <1>4, <1>5, <1>6, <1>7, <1>8 DEF Next

\* No request is lost, answered twice or granted after its connection's
\* disconnection was handled.
THEOREM NoRequestIsLost == Spec => [](QueueConnected /\ EveryRequestOnce)
<1> DEFINE IInv == TypeOK /\ TimerInv /\ OrderInv /\ RequestInv
<1>1. Init => IInv
  <2>1. Init => TypeOK
    BY DEF Init, TypeOK, ConnState
  <2>2. Init => TimerInv /\ OrderInv /\ RequestInv
    BY DEF Init, TimerInv, TimerIsHolders, NoIdleLock, Free, OrderInv, FifoOrder,
           HolderIsLatestGrant, RidsArrived, RequestInv, QueueConnected,
           EveryRequestOnce, Granted, Rids
  <2> QED BY <2>1, <2>2
<1>2. IInv /\ [Next]_vars => IInv'
  BY TypeStep, TimerStep, OrderStep, RequestStep
<1>3. IInv => QueueConnected /\ EveryRequestOnce
  BY DEF RequestInv
<1> HIDE DEF IInv
<1> QED BY <1>1, <1>2, <1>3, PTL DEF Spec

\* The queue holds requests of connections whose end was not handled yet.
THEOREM QueueIsConnected == Spec => []QueueConnected
BY NoRequestIsLost, PTL

\* The queue and the grants are sound.
THEOREM QueueIsCorrect == Spec => []QueueIsSound
<1>1. TypeOK /\ NoIdleLock /\ QueueConnected /\ FifoOrder /\ EveryRequestOnce => QueueIsSound
  BY DEF QueueIsSound
<1> QED BY <1>1, TypeCorrect, TimersAreSafe, LockIsFifo, NoRequestIsLost, PTL

-----------------------------------------------------------------------------
(* The accounting of violations.                                           *)

\* What ViolationsAreEarned rests on: releases are of ended grants, check-ins
\* of grants that were made, and the holder's flag remembers its check-in.
CheckInsRecorded ==
  /\ released \subseteq Ended
  /\ checkedIn \subseteq 1..Len(grants)
  /\ ~Free => (holder.actionInvoked <=> holder.token \in checkedIn)

AccountInv == ViolationsAreEarned /\ CheckInsRecorded

\* The violations as a set of pairs.
Reported(vs) == {<<vs[i].token, vs[i].reason>> : i \in 1..Len(vs)}

\* One more violation is one more pair; it keeps the order of the tokens when
\* its token is above those reported before.
LEMMA ReportedAppend ==
  ASSUME TypeOK, NEW v \in Violation,
         \A i, k \in 1..Len(violations) :
           i < k => violations[i].token < violations[k].token,
         \A i \in 1..Len(violations) : violations[i].token < v.token,
         violations' = Append(violations, v)
  PROVE  /\ Reported(violations') = Reported(violations) \cup {<<v.token, v.reason>>}
         /\ \A i, k \in 1..Len(violations') :
              i < k => violations'[i].token < violations'[k].token
<1>1. /\ Len(violations) \in Nat /\ Len(violations') = Len(violations) + 1
      /\ \A i \in 1..Len(violations) : violations'[i] = violations[i]
      /\ violations'[Len(violations) + 1] = v
  BY AppendFacts DEF TypeOK
<1>2. 1..Len(violations') = 1..Len(violations) \cup {Len(violations) + 1}
  BY <1>1
<1>3. Reported(violations') = Reported(violations) \cup {<<v.token, v.reason>>}
  BY <1>1, <1>2 DEF Reported
<1>4. ASSUME NEW i \in 1..Len(violations'), NEW k \in 1..Len(violations'), i < k
      PROVE  violations'[i].token < violations'[k].token
  <2>1. i \in 1..Len(violations) /\ violations'[i] = violations[i]
    BY <1>1, <1>4
  <2>2. CASE k \in 1..Len(violations)
    BY <1>1, <1>4, <2>1, <2>2
  <2>3. CASE k = Len(violations) + 1
    BY <1>1, <2>1, <2>3
  <2> QED BY <1>2, <2>2, <2>3
<1> QED BY <1>3, <1>4

\* The holder's grant is the latest; the ended ones are those before it.
LEMMA EndedBelow ==
  ASSUME TypeOK, OrderInv
  PROVE  /\ Free => Ended = 1..Len(grants)
         /\ ~Free => /\ holder \in ActiveLock
                     /\ holder.token = Len(grants)
                     /\ holder.token \in Nat \ {0}
                     /\ Ended = 1..(Len(grants) - 1)
                     /\ Ended \cup {holder.token} = 1..Len(grants)
<1>1. Len(grants) \in Nat
  BY Elements
<1>2. ~Free => holder \in ActiveLock
  BY DEF Free, TypeOK
<1>3. ~Free => holder.token \in Nat \ {0} /\ holder.token = Len(grants)
  BY <1>2 DEF ActiveLock, OrderInv, HolderIsLatestGrant
<1> QED BY <1>1, <1>2, <1>3 DEF Ended

\* grantNext ends the holder's grant and no other, and the next holder has not
\* checked in.
LEMMA GrantNextEnded ==
  ASSUME TypeOK, OrderInv, AccountInv, ~Free, NEW armed \in SUBSET (Nat \ {0}),
         GrantNext(armed), UNCHANGED checkedIn
  PROVE  /\ Ended' = Ended \cup {holder.token}
         /\ holder.token \notin Ended
         /\ checkedIn' \subseteq 1..Len(grants')
         /\ ~Free' => (holder'.actionInvoked <=> holder'.token \in checkedIn')
<1>1. /\ Len(grants) \in Nat /\ holder.token = Len(grants)
      /\ Ended \cup {holder.token} = 1..Len(grants)
      /\ Ended = 1..(Len(grants) - 1)
  BY EndedBelow, Elements
<1>2. holder.token \notin Ended
  BY <1>1
<1>3. checkedIn' \subseteq 1..Len(grants)
  BY DEF AccountInv, CheckInsRecorded
<1>4. CASE Free' /\ grants' = grants
  BY <1>1, <1>2, <1>3, <1>4 DEF Ended
<1>5. CASE /\ queue # <<>> /\ queue[1] \in Request
           /\ ~Free' /\ holder'.token = Len(grants) + 1
           /\ holder'.actionInvoked = FALSE
           /\ grants' = Append(grants, queue[1].rid)
  <2>1. Len(grants') = Len(grants) + 1
    <3>1. queue[1].rid \in Nat \ {0}
      BY <1>5 DEF Request
    <3> QED BY <1>5, <3>1, AppendFacts DEF TypeOK
  <2>2. Ended' = 1..Len(grants)
    BY <1>1, <1>5, <2>1 DEF Ended
  <2> QED BY <1>1, <1>2, <1>3, <1>5, <2>1, <2>2
<1> QED BY <1>4, <1>5, GrantNextEffect

\* Steps that end no grant, report nothing and release nothing.
LEMMA SameAccount ==
  ASSUME AccountInv, UNCHANGED <<released, checkedIn, violations>>, Ended' = Ended,
         CheckInsRecorded'
  PROVE  AccountInv'
BY DEF AccountInv, ViolationsAreEarned

\* Every step keeps AccountInv.
LEMMA AccountStep ==
  TypeOK /\ TimerInv /\ OrderInv /\ AccountInv /\ [Next]_vars => AccountInv'
<1> SUFFICES ASSUME TypeOK, TimerInv, OrderInv, AccountInv, [Next]_vars PROVE AccountInv'
  OBVIOUS
<1>a. \A i \in 1..Len(violations) : violations[i].token \in Ended
  <2>1. \A i \in 1..Len(violations) :
          <<violations[i].token, violations[i].reason>>
            \in {<<t, "job_timeout">> : t \in Ended \ released}
               \cup {<<t, "action_not_used">> : t \in released \ checkedIn}
    BY DEF AccountInv, ViolationsAreEarned
  <2> QED BY <2>1 DEF AccountInv, CheckInsRecorded
<1>b. UNCHANGED <<holder, grants, checkedIn, released, violations>> => AccountInv'
  <2> SUFFICES ASSUME UNCHANGED <<holder, grants, checkedIn, released, violations>>
               PROVE  AccountInv'
    OBVIOUS
  <2>1. Ended' = Ended
    BY DEF Ended, Free
  <2>2. CheckInsRecorded'
    BY <2>1 DEF AccountInv, CheckInsRecorded, Free
  <2> QED BY <2>1, <2>2, SameAccount
<1>1. ASSUME NEW c \in Clients, Connect(c) \/ PeerLeaves(c) \/ HandleDisconnect(c)
      PROVE AccountInv'
  BY <1>b, <1>1 DEF Connect, PeerLeaves, HandleDisconnect, lockVars
<1>3. ASSUME NEW c \in Clients, NEW j \in Jobs, Acquire(c, j) PROVE AccountInv'
  <2> DEFINE req == [rid |-> acquires + 1, client |-> c, job |-> j]
  <2>0. UNCHANGED <<checkedIn, released, violations>>
    BY <1>3 DEF Acquire
  <2>1. CASE Free /\ GrantLock(req, timers)
    <3>1. req \in Request /\ timers \in SUBSET (Nat \ {0})
      BY DEF Request, TypeOK
    <3>2. /\ ~Free' /\ holder'.token = Len(grants) + 1 /\ holder'.actionInvoked = FALSE
          /\ grants' = Append(grants, acquires + 1)
      BY <2>1, <3>1, GrantLockEffect
    <3>3. Len(grants) \in Nat /\ Len(grants') = Len(grants) + 1
      BY <3>2, Elements, AppendFacts DEF TypeOK
    <3>4. Ended' = Ended
      BY <2>1, <3>2, <3>3, EndedBelow DEF Ended
    <3>5. CheckInsRecorded'
      BY <2>0, <3>2, <3>3, <3>4 DEF AccountInv, CheckInsRecorded
    <3> QED BY <2>0, <3>4, <3>5, SameAccount
  <2>2. CASE UNCHANGED <<holder, timers, arms, grants, known>>
    BY <1>b, <2>0, <2>2
  <2> QED BY <2>1, <2>2, <1>3 DEF Acquire
<1>4. ASSUME NEW c \in Clients, NEW j \in Jobs, NEW t \in known, Release(c, j, t)
      PROVE AccountInv'
  <2>1. ClearTimeout \in SUBSET (Nat \ {0})
    BY DEF ClearTimeout, TypeOK
  <2>2. ~Free /\ t = holder.token /\ released' = released \cup {t} /\ checkedIn' = checkedIn
    BY <1>4 DEF Release
  <2>3. /\ Ended' = Ended \cup {t} /\ t \notin Ended
        /\ CheckInsRecorded'
    BY <1>4, <2>1, <2>2, GrantNextEnded DEF Release, AccountInv, CheckInsRecorded
  <2>4. Ended' \ released' = Ended \ released
    BY <2>2, <2>3 DEF AccountInv, CheckInsRecorded
  <2>5. holder \in ActiveLock /\ t = Len(grants) /\ Ended = 1..(Len(grants) - 1)
    BY <2>2, EndedBelow
  <2>6. CASE holder.actionInvoked
    <3>1. violations' = violations
      BY <1>4, <2>6 DEF Release
    <3>2. released' \ checkedIn' = released \ checkedIn
      BY <2>2, <2>6 DEF AccountInv, CheckInsRecorded
    <3> QED BY <2>3, <2>4, <3>1, <3>2 DEF AccountInv, ViolationsAreEarned
  <2>7. CASE ~holder.actionInvoked
    <3> DEFINE v == [token |-> holder.token, job |-> j, reason |-> "action_not_used"]
    <3>1. violations' = Append(violations, v)
      BY <1>4, <2>7 DEF Release
    <3>2. v \in Violation /\ v.token = t /\ v.reason = "action_not_used"
      BY <2>2, <2>5 DEF Violation, Reason, ActiveLock
    <3>3. released' \ checkedIn' = (released \ checkedIn) \cup {t}
      BY <2>2, <2>7 DEF AccountInv, CheckInsRecorded
    <3>4. \A i \in 1..Len(violations) : violations[i].token < t
      BY <1>a, <2>5, Elements
    <3> HIDE DEF v
    <3>5. /\ Reported(violations') = Reported(violations) \cup {<<t, "action_not_used">>}
          /\ \A i, k \in 1..Len(violations') :
               i < k => violations'[i].token < violations'[k].token
      BY <3>1, <3>2, <3>4, ReportedAppend DEF AccountInv, ViolationsAreEarned
    <3> QED BY <2>3, <2>4, <3>3, <3>5 DEF AccountInv, ViolationsAreEarned, Reported
  <2> QED BY <2>6, <2>7
<1>5. ASSUME NEW c \in Clients, NEW t \in known, MarkActionInvoked(c, t) PROVE AccountInv'
  <2>1. /\ ~Free /\ t = holder.token /\ checkedIn' = checkedIn \cup {t}
        /\ UNCHANGED <<grants, released, violations>>
    BY <1>5 DEF MarkActionInvoked, ValidateToken
  <2>2. /\ holder \in ActiveLock /\ t = Len(grants) /\ Len(grants) \in Nat \ {0}
        /\ Ended = 1..(Len(grants) - 1)
    BY <2>1, EndedBelow
  <2>3. /\ holder' \in ActiveLock /\ holder'.token = holder.token
        /\ holder'.actionInvoked = TRUE
    BY <2>2, <1>5 DEF MarkActionInvoked, ActiveLock
  <2>4. ~Free'
    BY <2>3, NoHolderAssumption DEF Free
  <2>5. Ended' = Ended
    BY <2>1, <2>3, <2>4 DEF Ended
  <2>6. CheckInsRecorded'
    <3>1. released' \subseteq Ended'
      BY <2>1, <2>5 DEF AccountInv, CheckInsRecorded
    <3>2. checkedIn' \subseteq 1..Len(grants')
      <4>1. checkedIn \subseteq 1..Len(grants)
        BY DEF AccountInv, CheckInsRecorded
      <4>2. t \in 1..Len(grants)
        BY <2>2
      <4> QED BY <2>1, <4>1, <4>2
    <3>3. holder'.actionInvoked /\ holder'.token \in checkedIn'
      BY <2>1, <2>3
    <3> QED BY <3>1, <3>2, <3>3 DEF CheckInsRecorded
  <2>7. t \notin released
    BY <2>2 DEF AccountInv, CheckInsRecorded
  <2>8. released' \ checkedIn' = released \ checkedIn
    BY <2>1, <2>7
  <2> QED BY <2>1, <2>5, <2>6, <2>8 DEF AccountInv, ViolationsAreEarned
<1>6. ASSUME NEW c \in Clients, SetCurrentTimeout(c) PROVE AccountInv'
  <2>1. ~Free /\ UNCHANGED <<grants, checkedIn, released, violations>>
    BY <1>6 DEF SetCurrentTimeout, ArmTimer
  <2>2. holder \in ActiveLock /\ arms + 1 \in Nat \ {0}
    BY <2>1 DEF Free, TypeOK
  <2>3. /\ holder' \in ActiveLock /\ holder'.token = holder.token
        /\ holder'.actionInvoked = holder.actionInvoked
    BY <2>2, <1>6 DEF SetCurrentTimeout, ArmTimer, ActiveLock
  <2>4. ~Free'
    BY <2>3, NoHolderAssumption DEF Free
  <2>5. Ended' = Ended
    BY <2>1, <2>3, <2>4 DEF Ended
  <2>6. CheckInsRecorded'
    BY <2>1, <2>3, <2>4, <2>5 DEF AccountInv, CheckInsRecorded
  <2> QED BY <2>1, <2>5, <2>6, SameAccount
<1>7. ASSUME NEW k \in timers, TimerFires(k) PROVE AccountInv'
  <2>1. ~Free
    BY DEF TimerInv, TimerIsHolders
  <2>2. ClearTimeout \ {k} \in SUBSET (Nat \ {0})
    BY DEF ClearTimeout, TypeOK
  <2> DEFINE t == holder.token
             v == [token |-> holder.token, job |-> holder.job, reason |-> "job_timeout"]
  <2>3. UNCHANGED <<checkedIn, released>> /\ violations' = Append(violations, v)
    BY <1>7, <2>1 DEF TimerFires
  <2>4. /\ Ended' = Ended \cup {t} /\ t \notin Ended
        /\ CheckInsRecorded'
    BY <1>7, <2>1, <2>2, <2>3, GrantNextEnded DEF TimerFires, AccountInv, CheckInsRecorded
  <2>5. Ended' \ released' = (Ended \ released) \cup {t}
    BY <2>3, <2>4 DEF AccountInv, CheckInsRecorded
  <2>6. /\ holder \in ActiveLock /\ t = Len(grants) /\ Len(grants) \in Nat
        /\ Ended = 1..(Len(grants) - 1)
    BY <2>1, EndedBelow, Elements
  <2>7. v \in Violation /\ v.token = t /\ v.reason = "job_timeout"
    BY <2>6 DEF Violation, Reason, ActiveLock
  <2>8. \A i \in 1..Len(violations) : violations[i].token < t
    BY <1>a, <2>6
  <2> HIDE DEF v, t
  <2>9. /\ Reported(violations') = Reported(violations) \cup {<<t, "job_timeout">>}
        /\ \A i, n \in 1..Len(violations') :
             i < n => violations'[i].token < violations'[n].token
    BY <2>3, <2>7, <2>8, ReportedAppend DEF AccountInv, ViolationsAreEarned
  <2> QED BY <2>3, <2>4, <2>5, <2>9 DEF AccountInv, ViolationsAreEarned, Reported
<1>8. CASE UNCHANGED vars
  BY <1>b, <1>8 DEF vars, lockVars
<1> QED BY <1>1, <1>3, <1>4, <1>5, <1>6, <1>7, <1>8 DEF Next

\* Exactly the earned violations are broadcast, each once: a timeout for each
\* ended grant that was not released, and an unused action for each released
\* grant that never checked in.
THEOREM ViolationsAreAccounted == Spec => []ViolationsAreEarned
<1> DEFINE IInv == TypeOK /\ TimerInv /\ OrderInv /\ AccountInv
<1>1. Init => IInv
  <2>1. Init => TypeOK
    BY DEF Init, TypeOK, ConnState
  <2>2. Init => TimerInv /\ OrderInv
    BY DEF Init, TimerInv, TimerIsHolders, NoIdleLock, Free, OrderInv, FifoOrder,
           HolderIsLatestGrant, RidsArrived
  <2>3. Init => AccountInv
    BY DEF Init, AccountInv, ViolationsAreEarned, CheckInsRecorded, Ended, Free
  <2> QED BY <2>1, <2>2, <2>3
<1>2. IInv /\ [Next]_vars => IInv'
  BY TypeStep, TimerStep, OrderStep, AccountStep
<1>3. IInv => ViolationsAreEarned
  BY DEF AccountInv
<1> HIDE DEF IInv
<1> QED BY <1>1, <1>2, <1>3, PTL DEF Spec

-----------------------------------------------------------------------------
(* The implementation of JobLock.                                          *)

\* The owner the refinement mapping shows to JobLock.
Owner == IF Free THEN 0 ELSE holder.rid

\* Ending a grant with grantNext finishes the owner's ticket.
LEMMA GrantNextFinishes ==
  ASSUME TypeOK, FifoOrder, ~Free, NEW armed \in SUBSET (Nat \ {0}),
         GrantNext(armed), UNCHANGED acquires
  PROVE  Abstract!Finish
<1>1. holder.rid \in Nat \ {0}
  <2>1. holder \in ActiveLock
    BY DEF Free, TypeOK
  <2> QED BY <2>1 DEF ActiveLock
<1>2. Owner # 0
  BY <1>1 DEF Owner
<1>3. CASE queue = <<>> /\ queue' = <<>> /\ Free'
  <2>1. Rids(queue) = {} /\ Rids(queue') = {}
    BY <1>3 DEF Rids
  <2>2. Owner' = 0
    BY <1>3 DEF Owner
  <2> QED BY <1>2, <2>1, <2>2 DEF Abstract!Finish, Owner, Rids
<1>4. CASE /\ queue # <<>> /\ queue' = Tail(queue)
           /\ ~Free' /\ holder'.rid = queue[1].rid
  <2> DEFINE r == queue[1].rid
  <2>1. Rids(queue') = Rids(queue) \ {r} /\ r \in Rids(queue)
    BY <1>4, RidsTail
  <2>2. Owner' = r
    BY <1>4 DEF Owner
  <2>3. \A u \in Rids(queue) : r <= u
    <3> SUFFICES ASSUME NEW i \in 1..Len(queue) PROVE r <= queue[i].rid
      BY DEF Rids
    <3>1. 1 \in 1..Len(queue) /\ (i = 1 \/ 1 < i)
      BY Elements
    <3>2. queue[1].rid \in Nat /\ queue[i].rid \in Nat
      BY <3>1, Elements
    <3> QED BY <3>1, <3>2 DEF FifoOrder
  <2> HIDE DEF r
  <2>4. Rids(queue)' = Rids(queue) \ {r}
    BY <2>1 DEF Rids
  <2> QED BY <1>2, <2>1, <2>2, <2>3, <2>4 DEF Abstract!Finish, Owner
<1> QED BY <1>3, <1>4, GrantNextEffect

\* Every step of the LockManager is a step of JobLock or changes nothing it
\* shows.
LEMMA RefinementStep ==
  TypeOK /\ TimerInv /\ OrderInv /\ [Next]_vars => [Abstract!Next]_(Abstract!vars)
<1> SUFFICES ASSUME TypeOK, TimerInv, OrderInv, [Next]_vars
             PROVE  [Abstract!Next]_(Abstract!vars)
  OBVIOUS
<1>0. FifoOrder
  BY DEF OrderInv
<1>a. UNCHANGED <<acquires, queue>> /\ Owner' = Owner => UNCHANGED Abstract!vars
  BY DEF Abstract!vars, Owner, Rids
<1>1. ASSUME NEW c \in Clients, Connect(c) \/ PeerLeaves(c) PROVE UNCHANGED Abstract!vars
  BY <1>a, <1>1 DEF Connect, PeerLeaves, lockVars, Owner, Free
<1>2. ASSUME NEW c \in Clients, HandleDisconnect(c) PROVE Abstract!GiveUp
  <2> DEFINE gone == {queue[k].rid : k \in {k \in 1..Len(queue) : queue[k].client = c}}
  <2>1. gone \subseteq Rids(queue) /\ Rids(queue') = Rids(queue) \ gone
    BY <1>0, <1>2, DisconnectRids
  <2>2. UNCHANGED <<acquires, holder>>
    BY <1>2 DEF HandleDisconnect
  <2>3. Rids(queue)' = Rids(queue) \ gone
    BY <2>1 DEF Rids
  <2>4. Owner' = Owner
    BY <2>2 DEF Owner, Free
  <2> HIDE DEF gone
  <2> QED BY <2>1, <2>2, <2>3, <2>4 DEF Abstract!GiveUp, Owner
<1>3. ASSUME NEW c \in Clients, NEW j \in Jobs, Acquire(c, j) PROVE Abstract!Arrive
  <2> DEFINE req == [rid |-> acquires + 1, client |-> c, job |-> j]
  <2>0. /\ req \in Request /\ req.rid = acquires + 1
        /\ acquires < MaxAcquires /\ acquires' = acquires + 1
    BY <1>3 DEF Request, TypeOK, Acquire
  <2>1. CASE Free /\ GrantLock(req, timers) /\ UNCHANGED queue
    <3>1. timers \in SUBSET (Nat \ {0})
      BY DEF TypeOK
    <3>2. ~Free' /\ holder'.rid = acquires + 1
      BY <2>0, <2>1, <3>1, GrantLockEffect
    <3>3. Owner = 0 /\ Owner' = acquires'
      BY <2>0, <2>1, <3>2 DEF Owner
    <3>4. Rids(queue)' = Rids(queue)
      BY <2>1 DEF Rids
    <3> QED BY <2>0, <3>3, <3>4 DEF Abstract!Arrive, Owner
  <2>2. CASE /\ ~Free /\ queue' = Append(queue, req)
             /\ UNCHANGED <<holder, timers, arms, grants, known>>
    <3>1. holder.rid \in Nat \ {0}
      <4>1. holder \in ActiveLock
        BY <2>2 DEF Free, TypeOK
      <4> QED BY <4>1 DEF ActiveLock
    <3>2. Owner # 0 /\ Owner' = Owner
      BY <2>2, <3>1 DEF Owner, Free
    <3>3. Rids(queue') = Rids(queue) \cup {acquires'}
      BY <2>0, <2>2, RidsAppend
    <3>4. Rids(queue)' = Rids(queue) \cup {acquires'}
      BY <3>3 DEF Rids
    <3> QED BY <2>0, <3>2, <3>4 DEF Abstract!Arrive, Owner
  <2> QED BY <2>1, <2>2, <1>3 DEF Acquire
<1>4. ASSUME NEW c \in Clients, NEW j \in Jobs, NEW t \in known, Release(c, j, t)
      PROVE Abstract!Finish
  <2>1. ClearTimeout \in SUBSET (Nat \ {0})
    BY DEF ClearTimeout, TypeOK
  <2> QED BY <1>0, <1>4, <2>1, GrantNextFinishes DEF Release
<1>5. ASSUME NEW c \in Clients, NEW t \in known, MarkActionInvoked(c, t)
      PROVE UNCHANGED Abstract!vars
  <2>1. holder \in ActiveLock /\ ~Free
    BY <1>5 DEF MarkActionInvoked, ValidateToken, Free, TypeOK
  <2>2. holder' \in ActiveLock /\ holder'.rid = holder.rid
    BY <2>1, <1>5 DEF MarkActionInvoked, ActiveLock
  <2>3. Owner' = Owner
    BY <2>1, <2>2, NoHolderAssumption DEF Owner, Free
  <2> QED BY <1>a, <1>5, <2>3 DEF MarkActionInvoked
<1>6. ASSUME NEW c \in Clients, SetCurrentTimeout(c) PROVE UNCHANGED Abstract!vars
  <2>1. holder \in ActiveLock /\ ~Free /\ arms + 1 \in Nat \ {0}
    BY <1>6 DEF SetCurrentTimeout, ArmTimer, Free, TypeOK
  <2>2. holder' \in ActiveLock /\ holder'.rid = holder.rid
    BY <2>1, <1>6 DEF SetCurrentTimeout, ArmTimer, ActiveLock
  <2>3. Owner' = Owner
    BY <2>1, <2>2, NoHolderAssumption DEF Owner, Free
  <2> QED BY <1>a, <1>6, <2>3 DEF SetCurrentTimeout, ArmTimer
<1>7. ASSUME NEW k \in timers, TimerFires(k) PROVE Abstract!Finish
  <2>1. ~Free
    BY DEF TimerInv, TimerIsHolders
  <2>2. ClearTimeout \ {k} \in SUBSET (Nat \ {0})
    BY DEF ClearTimeout, TypeOK
  <2> QED BY <1>0, <1>7, <2>1, <2>2, GrantNextFinishes DEF TimerFires
<1>8. CASE UNCHANGED vars
  BY <1>a, <1>8 DEF vars, lockVars, Owner, Free
<1> QED
  BY <1>1, <1>2, <1>3, <1>4, <1>5, <1>6, <1>7, <1>8 DEF Next, Abstract!Next

\* The LockManager implements the abstract lock: one owner at a time, passed
\* in the step that ends a grant to the lowest ticket that still waits.
THEOREM LockImplementsJobLock == Spec => Abstract!Spec
<1>1. Init => TypeOK /\ TimerInv /\ OrderInv
  BY DEF Init, TypeOK, ConnState, TimerInv, TimerIsHolders, NoIdleLock, Free,
         OrderInv, FifoOrder, HolderIsLatestGrant, RidsArrived
<1>2. TypeOK /\ TimerInv /\ OrderInv /\ [Next]_vars => (TypeOK /\ TimerInv /\ OrderInv)'
  BY TypeStep, TimerStep, OrderStep
<1>3. Init => Abstract!Init
  BY DEF Init, Abstract!Init, Free, Rids
<1> QED BY <1>1, <1>2, <1>3, RefinementStep, PTL DEF Spec, Abstract!Spec

-----------------------------------------------------------------------------
(* The throttle snapshots.                                                 *)

\* The lock's invariant, with the accounting of its releases.
LockInv == TypeOK /\ TimerInv /\ OrderInv /\ AccountInv

\* What was reported of a core lies below the snapshot the next diff is taken
\* from.
DisjointSpans ==
  throttleBaseline # NoSnapshot =>
    \A k \in DOMAIN throttleBaseline :
      /\ throttleBaseline[k] <= throttleCount[k]
      /\ k \notin blind => reported[k] <= throttleBaseline[k]

ThrottleInv == ThrottleTypeOK /\ DisjointSpans /\ EventsReportedOnce /\ NoForeignEvents

ServerInv == LockInv /\ ThrottleInv

-----------------------------------------------------------------------------

\* A Map from cores has cores for keys.
LEMMA CoreMapKeys ==
  ASSUME NEW S, NEW f \in CoreMap(S)
  PROVE  DOMAIN f \in SUBSET Cores /\ \A k \in DOMAIN f : f[k] \in S
<1>1. PICK R \in SUBSET Cores : f \in [R -> S]
  BY DEF CoreMap
<1> QED BY <1>1

\* A Map that is built over some cores is one.
LEMMA CoreMapBuilt ==
  ASSUME NEW S, NEW R \in SUBSET Cores, R # {}, NEW f \in [R -> S]
  PROVE  f \in CoreMap(S)
BY DEF CoreMap

\* The lock's own steps and the messages around them are steps of the lock.
LEMMA LockPart == [ServerNext]_serverVars => [Next]_vars
<1> SUFFICES ASSUME [ServerNext]_serverVars PROVE [Next]_vars
  OBVIOUS
<1>1. ASSUME NEW c \in Clients, NEW j \in Jobs, NEW R \in SUBSET Cores, AcquireMsg(c, j, R)
      PROVE [Next]_vars
  BY <1>1 DEF AcquireMsg, Next
<1>2. ASSUME NEW c \in Clients, NEW j \in Jobs, NEW t \in known, NEW R \in SUBSET Cores,
             ReleaseMsg(c, j, t, R)
      PROVE [Next]_vars
  BY <1>2 DEF ReleaseMsg, Next
<1>3. ASSUME NEW c \in Clients, NEW t \in known, CheckinMsg(c, t) PROVE [Next]_vars
  BY <1>3 DEF CheckinMsg, Next
<1>4. ASSUME NEW k \in timers, TimeoutEvent(k) PROVE [Next]_vars
  BY <1>4 DEF TimeoutEvent, Next
<1>5. ASSUME NEW k \in Cores, CoreThrottles(k) PROVE [Next]_vars
  BY <1>5 DEF CoreThrottles
<1>6. CASE OtherEvent
  BY <1>6 DEF OtherEvent, Next
<1>7. CASE UNCHANGED serverVars
  BY <1>7 DEF serverVars
<1> QED BY <1>1, <1>2, <1>3, <1>4, <1>5, <1>6, <1>7 DEF ServerNext

\* A step makes one grant or none, and releases the holder's or none.
LEMMA GrantsGrow ==
  ASSUME LockInv, [Next]_vars
  PROVE  /\ Len(grants) \in Nat
         /\ Len(grants') \in {Len(grants), Len(grants) + 1}
         /\ released \subseteq 1..Len(grants)
         /\ ~Free => Len(grants) \notin released
<1>0. TypeOK /\ OrderInv /\ Len(grants) \in Nat
  BY Elements DEF LockInv
<1>1. released \subseteq 1..Len(grants) /\ (~Free => Len(grants) \notin released)
  <2>1. released \subseteq Ended
    BY DEF LockInv, AccountInv, CheckInsRecorded
  <2> QED BY <1>0, <2>1, EndedBelow
<1>2. ASSUME NEW r \in Nat \ {0}, grants' = Append(grants, r)
      PROVE  Len(grants') = Len(grants) + 1
  BY <1>0, <1>2, AppendFacts DEF TypeOK
<1>3. ASSUME NEW armed \in SUBSET (Nat \ {0}), GrantNext(armed)
      PROVE  Len(grants') \in {Len(grants), Len(grants) + 1}
  <2>1. CASE grants' = grants
    BY <2>1
  <2>2. CASE queue # <<>> /\ queue[1] \in Request /\ grants' = Append(grants, queue[1].rid)
    <3>1. queue[1].rid \in Nat \ {0}
      BY <2>2 DEF Request
    <3> QED BY <2>2, <3>1, <1>2
  <2> QED BY <1>0, <1>3, <2>1, <2>2, GrantNextEffect
<1>4. timers \in SUBSET (Nat \ {0})
  BY <1>0 DEF TypeOK
<1>5. ASSUME NEW c \in Clients, NEW j \in Jobs, Acquire(c, j)
      PROVE  Len(grants') \in {Len(grants), Len(grants) + 1}
  <2> DEFINE req == [rid |-> acquires + 1, client |-> c, job |-> j]
  <2>1. req \in Request /\ req.rid \in Nat \ {0}
    BY <1>0 DEF TypeOK, Request
  <2>2. CASE GrantLock(req, timers)
    <3>1. grants' = Append(grants, req.rid)
      BY <2>2 DEF GrantLock
    <3> QED BY <2>1, <3>1, <1>2
  <2>3. CASE UNCHANGED grants
    BY <2>3
  <2> QED BY <1>5, <2>2, <2>3 DEF Acquire
<1>6. ASSUME NEW c \in Clients, NEW j \in Jobs, NEW t \in known, Release(c, j, t)
      PROVE  Len(grants') \in {Len(grants), Len(grants) + 1}
  BY <1>3, <1>4, <1>6 DEF Release, ClearTimeout
<1>7. ASSUME NEW k \in timers, TimerFires(k)
      PROVE  Len(grants') \in {Len(grants), Len(grants) + 1}
  <2>1. CASE UNCHANGED grants
    BY <2>1
  <2>2. CASE GrantNext(ClearTimeout \ {k})
    BY <1>3, <1>4, <2>2 DEF ClearTimeout
  <2> QED BY <1>7, <2>1, <2>2 DEF TimerFires
<1>8. ASSUME UNCHANGED grants PROVE Len(grants') \in {Len(grants), Len(grants) + 1}
  BY <1>8
<1>9. ASSUME NEW c \in Clients,
             \/ Connect(c) \/ PeerLeaves(c) \/ HandleDisconnect(c) \/ SetCurrentTimeout(c)
             \/ \E t \in known : MarkActionInvoked(c, t)
      PROVE  UNCHANGED grants
  BY <1>9 DEF Connect, PeerLeaves, HandleDisconnect, SetCurrentTimeout, MarkActionInvoked,
              lockVars
<1>10. Len(grants') \in {Len(grants), Len(grants) + 1}
  BY <1>5, <1>6, <1>7, <1>8, <1>9 DEF Next, vars, lockVars
<1> QED BY <1>0, <1>1, <1>10

\* A message or an event that releases nothing and leaves the snapshots alone
\* keeps the invariant.
LEMMA SnapshotsStay ==
  ASSUME LockInv, ThrottleInv, [Next]_vars, UNCHANGED <<throttleVars, released>>
  PROVE  ThrottleInv'
<1>1. /\ Len(grants) \in Nat /\ Len(grants') \in {Len(grants), Len(grants) + 1}
      /\ released \subseteq 1..Len(grants)
  BY GrantsGrow
<1>2. ThrottleTypeOK'
  BY <1>1 DEF ThrottleInv, ThrottleTypeOK, throttleVars
<1>3. DisjointSpans' /\ EventsReportedOnce'
  BY DEF ThrottleInv, DisjointSpans, EventsReportedOnce, throttleVars
<1>4. NoForeignEvents'
  <2> SUFFICES ASSUME throttleBaseline # NoSnapshot, NEW t \in snapGrant..Len(grants'),
                      t \in released
               PROVE  t \in unread
    BY DEF NoForeignEvents, throttleVars
  <2>1. snapGrant \in Nat
    BY <1>1 DEF ThrottleInv, ThrottleTypeOK
  <2>2. t \in snapGrant..Len(grants)
    BY <1>1, <2>1
  <2> QED BY <2>2 DEF ThrottleInv, NoForeignEvents
<1> QED BY <1>2, <1>3, <1>4 DEF ThrottleInv

\* A reading is a snapshot of the cores it could read, or none.
LEMMA ReadingType ==
  ASSUME ThrottleTypeOK, NEW R \in SUBSET Cores
  PROVE  /\ ReadThrottleCounts(R) \in CoreMap(0..MaxThrottle) \cup {NoSnapshot}
         /\ ReadThrottleCounts(R) # NoSnapshot =>
              /\ DOMAIN ReadThrottleCounts(R) = R
              /\ \A k \in R : ReadThrottleCounts(R)[k] = throttleCount[k]
<1>1. CASE R = {}
  BY <1>1 DEF ReadThrottleCounts
<1>2. CASE R # {}
  <2>1. [k \in R |-> throttleCount[k]] \in [R -> 0..MaxThrottle]
    BY DEF ThrottleTypeOK
  <2> QED BY <1>2, <2>1, CoreMapBuilt DEF ReadThrottleCounts
<1> QED BY <1>1, <1>2

\* lock.acquire keeps the invariant: the new snapshot starts where all that is
\* reported has ended, in the grant that is current after the message.
LEMMA AcquireMsgStep ==
  ASSUME LockInv, LockInv', ThrottleInv, NEW c \in Clients, NEW j \in Jobs,
         NEW R \in SUBSET Cores, AcquireMsg(c, j, R)
  PROVE  ThrottleInv'
<1>0. [Next]_vars /\ UNCHANGED released
  BY DEF AcquireMsg, Acquire, Next
<1>1. /\ Len(grants) \in Nat /\ Len(grants') \in {Len(grants), Len(grants) + 1}
      /\ released \subseteq 1..Len(grants) /\ (~Free => Len(grants) \notin released)
  BY <1>0, GrantsGrow
<1>2. /\ throttleBaseline' = ReadThrottleCounts(R) /\ lastThrottleResult' = NoSnapshot
      /\ snapGrant' = Len(grants')
      /\ UNCHANGED <<throttleCount, reported, blind, unread>>
  BY DEF AcquireMsg
<1>3. ThrottleTypeOK'
  <2>1. throttleBaseline' \in CoreMap(0..MaxThrottle) \cup {NoSnapshot}
    BY <1>2, ReadingType DEF ThrottleInv
  <2>2. snapGrant' \in 0..Len(grants') /\ unread' \subseteq 1..Len(grants')
    BY <1>1, <1>2 DEF ThrottleInv, ThrottleTypeOK
  <2> QED BY <1>2, <2>1, <2>2 DEF ThrottleInv, ThrottleTypeOK
<1>4. DisjointSpans' /\ EventsReportedOnce'
  <2>1. ThrottleTypeOK /\ EventsReportedOnce
    BY DEF ThrottleInv
  <2>2. \A k \in R : throttleCount[k] \in Nat /\ reported[k] \in Nat
    BY <2>1, ThrottleAssumption DEF ThrottleTypeOK
  <2>3. throttleBaseline' # NoSnapshot =>
          /\ DOMAIN throttleBaseline' = R
          /\ \A k \in R : throttleBaseline'[k] = throttleCount[k]
    BY <1>2, <2>1, ReadingType
  <2> QED BY <1>2, <2>1, <2>2, <2>3 DEF DisjointSpans, EventsReportedOnce
<1>5. NoForeignEvents'
  <2>1. Len(grants') \notin released'
    <3>1. CASE Len(grants') = Len(grants) + 1
      BY <1>0, <1>1, <3>1
    <3>2. CASE Len(grants') = Len(grants)
      <4>1. ~Free
        <5>1. SUFFICES ASSUME Free PROVE FALSE
          OBVIOUS
        <5> DEFINE req == [rid |-> acquires + 1, client |-> c, job |-> j]
        <5>2. GrantLock(req, timers)
          BY <5>1 DEF AcquireMsg, Acquire
        <5>3. req.rid \in Nat \ {0} /\ grants' = Append(grants, req.rid)
          BY <5>2 DEF GrantLock, LockInv, TypeOK
        <5> QED BY <3>2, <5>3, <1>1, AppendFacts DEF LockInv, TypeOK
      <4> QED BY <1>0, <1>1, <3>2, <4>1
    <3> QED BY <1>1, <3>1, <3>2
  <2>2. snapGrant'..Len(grants') = {Len(grants')}
    BY <1>1, <1>2
  <2> QED BY <2>1, <2>2 DEF NoForeignEvents
<1> QED BY <1>3, <1>4, <1>5 DEF ThrottleInv

\* What a diff makes of a core is a number that, for a core the snapshot holds,
\* reaches from the snapshot to the count.
LEMMA DeltaType ==
  ASSUME ThrottleInv, throttleBaseline # NoSnapshot, NEW k \in Cores
  PROVE  /\ Delta(k) \in 0..MaxThrottle
         /\ k \in DOMAIN throttleBaseline => throttleBaseline[k] + Delta(k) = throttleCount[k]
<1>1. throttleCount[k] \in 0..MaxThrottle /\ throttleBaseline \in CoreMap(0..MaxThrottle)
  BY DEF ThrottleInv, ThrottleTypeOK
<1>2. CASE k \in DOMAIN throttleBaseline
  <2>1. /\ throttleBaseline[k] \in 0..MaxThrottle
        /\ throttleBaseline[k] <= throttleCount[k]
    BY <1>1, <1>2, CoreMapKeys DEF ThrottleInv, DisjointSpans
  <2> QED BY <1>1, <1>2, <2>1, ThrottleAssumption DEF Delta
<1>3. CASE k \notin DOMAIN throttleBaseline
  BY <1>1, <1>3, ThrottleAssumption DEF Delta
<1> QED BY <1>2, <1>3

\* A diff that reports: each core that was readable at the snapshot is reported
\* up to its count, no further.
LEMMA DiffResultEffect ==
  ASSUME ThrottleInv, throttleBaseline # NoSnapshot, NEW R \in SUBSET Cores, R # {},
         DiffResult(R), UNCHANGED throttleCount
  PROVE  /\ lastThrottleResult' \in CoreMap(1..MaxThrottle) \cup {NoSnapshot}
         /\ reported' \in [Cores -> Nat]
         /\ blind' \subseteq Cores
         /\ EventsReportedOnce'
<1>0. ThrottleTypeOK /\ DisjointSpans /\ EventsReportedOnce
  BY DEF ThrottleInv
<1>1. \A k \in Cores : /\ Delta(k) \in 0..MaxThrottle
                       /\ reported[k] \in Nat /\ throttleCount[k] \in Nat
  BY <1>0, DeltaType, ThrottleAssumption DEF ThrottleTypeOK
<1>2. lastThrottleResult' \in CoreMap(1..MaxThrottle) \cup {NoSnapshot}
  <2>1. CASE Throttled(R) = {}
    BY <1>0, <2>1 DEF DiffResult, ThrottleTypeOK
  <2>2. CASE Throttled(R) # {}
    <3>1. Throttled(R) \in SUBSET Cores
      BY DEF Throttled
    <3>2. \A k \in Throttled(R) : Delta(k) \in 1..MaxThrottle
      BY <1>1, ThrottleAssumption DEF Throttled
    <3>3. [k \in Throttled(R) |-> Delta(k)] \in [Throttled(R) -> 1..MaxThrottle]
      BY <3>2
    <3>4. [k \in Throttled(R) |-> Delta(k)] \in CoreMap(1..MaxThrottle)
      BY <2>2, <3>1, <3>3, CoreMapBuilt
    <3> QED BY <2>2, <3>4 DEF DiffResult
  <2> QED BY <2>1, <2>2
<1>3. reported' \in [Cores -> Nat]
  <2>1. \A k \in Cores :
          reported[k] + (IF k \in Throttled(R) THEN Delta(k) ELSE 0) \in Nat
    BY <1>1, ThrottleAssumption
  <2> QED BY <2>1 DEF DiffResult
<1>4. blind' \subseteq Cores
  BY <1>0 DEF DiffResult, ThrottleTypeOK
<1>5. ASSUME NEW k \in Cores \ blind' PROVE reported'[k] <= throttleCount'[k]
  <2>1. /\ k \in Cores /\ k \notin blind
        /\ k \in R => k \in DOMAIN throttleBaseline
    BY <1>5 DEF DiffResult
  <2>2. reported'[k] = reported[k] + (IF k \in Throttled(R) THEN Delta(k) ELSE 0)
    BY <2>1 DEF DiffResult
  <2>3. CASE k \in Throttled(R)
    <3>1. /\ throttleBaseline[k] + Delta(k) = throttleCount[k]
          /\ reported[k] <= throttleBaseline[k] /\ throttleBaseline[k] \in Nat
      <4>1. k \in DOMAIN throttleBaseline
        BY <2>1, <2>3 DEF Throttled
      <4>2. throttleBaseline \in CoreMap(0..MaxThrottle)
        BY <1>0 DEF ThrottleTypeOK
      <4>3. throttleBaseline[k] \in Nat
        BY <4>1, <4>2, CoreMapKeys, ThrottleAssumption
      <4> QED BY <1>0, <2>1, <4>1, <4>3, DeltaType DEF DisjointSpans
    <3> QED BY <1>1, <2>1, <2>2, <2>3, <3>1
  <2>4. CASE k \notin Throttled(R)
    BY <1>0, <1>1, <2>1, <2>2, <2>4 DEF EventsReportedOnce
  <2> QED BY <2>3, <2>4
<1>6. EventsReportedOnce'
  BY <1>5 DEF EventsReportedOnce
<1> QED BY <1>2, <1>3, <1>4, <1>6

\* lock.release keeps the invariant, accepted or refused: after a diff there is
\* no snapshot, and one that was not diffed is known as unread or as none.
LEMMA ReleaseMsgStep ==
  ASSUME LockInv, ThrottleInv, NEW c \in Clients, NEW j \in Jobs, NEW t \in known,
         NEW R \in SUBSET Cores, ReleaseMsg(c, j, t, R)
  PROVE  ThrottleInv'
<1>0. /\ [Next]_vars
      /\ released' \subseteq released \cup {t}
      /\ UNCHANGED <<throttleCount, snapGrant>>
  <2>1. CASE Release(c, j, t)
    BY <2>1 DEF ReleaseMsg, Release, Next
  <2>2. CASE UNCHANGED vars
    BY <2>2 DEF ReleaseMsg, vars, lockVars
  <2> QED BY <2>1, <2>2 DEF ReleaseMsg
<1>1. /\ Len(grants) \in Nat /\ Len(grants') \in {Len(grants), Len(grants) + 1}
      /\ released \subseteq 1..Len(grants)
  BY <1>0, GrantsGrow
<1>2. t \in 1..Len(grants)
  <2>1. ~Free /\ holder.token = t
    BY DEF ReleaseMsg, ValidateToken
  <2> QED BY <1>1, <2>1, EndedBelow DEF LockInv
<1>3. unread \subseteq unread' /\ unread' \subseteq 1..Len(grants') /\ (R = {} => t \in unread')
  BY <1>1, <1>2 DEF ReleaseMsg, ThrottleInv, ThrottleTypeOK
<1>4. CASE throttleBaseline = NoSnapshot \/ R = {}
  <2>1. UNCHANGED <<throttleBaseline, lastThrottleResult, reported, blind>>
    BY <1>4 DEF ReleaseMsg, DiffThrottleCounts
  <2>2. ThrottleTypeOK'
    BY <1>0, <1>1, <1>3, <2>1 DEF ThrottleInv, ThrottleTypeOK
  <2>3. DisjointSpans' /\ EventsReportedOnce'
    BY <1>0, <2>1 DEF ThrottleInv, DisjointSpans, EventsReportedOnce
  <2>4. NoForeignEvents'
    <3> SUFFICES ASSUME throttleBaseline # NoSnapshot, NEW u \in snapGrant..Len(grants'),
                        u \in released'
                 PROVE  u \in unread'
      BY <1>0, <2>1 DEF NoForeignEvents
    <3>1. CASE u = t
      BY <1>3, <1>4, <3>1
    <3>2. CASE u \in released
      <4>1. snapGrant \in Nat /\ u \in 1..Len(grants)
        BY <1>1, <3>2 DEF ThrottleInv, ThrottleTypeOK
      <4>2. u \in snapGrant..Len(grants)
        BY <1>1, <4>1
      <4> QED BY <1>3, <3>2, <4>2 DEF ThrottleInv, NoForeignEvents
    <3> QED BY <1>0, <3>1, <3>2
  <2> QED BY <2>2, <2>3, <2>4 DEF ThrottleInv
<1>5. CASE throttleBaseline # NoSnapshot /\ R # {}
  <2>1. DiffResult(R) /\ throttleBaseline' = NoSnapshot
    BY <1>5 DEF ReleaseMsg, DiffThrottleCounts
  <2>2. /\ lastThrottleResult' \in CoreMap(1..MaxThrottle) \cup {NoSnapshot}
        /\ reported' \in [Cores -> Nat] /\ blind' \subseteq Cores
        /\ EventsReportedOnce'
    BY <1>0, <1>5, <2>1, DiffResultEffect
  <2>3. ThrottleTypeOK'
    BY <1>0, <1>1, <1>3, <2>1, <2>2 DEF ThrottleInv, ThrottleTypeOK
  <2> QED BY <2>1, <2>2, <2>3 DEF ThrottleInv, DisjointSpans, NoForeignEvents
<1> QED BY <1>4, <1>5

\* The kernel's counting keeps it: the counts grow beyond what was reported.
LEMMA ThrottleStep ==
  ASSUME LockInv, ThrottleInv, NEW k \in Cores, CoreThrottles(k)
  PROVE  ThrottleInv'
<1>1. /\ throttleCount[k] < MaxThrottle
      /\ throttleCount' = [throttleCount EXCEPT ![k] = @ + 1]
      /\ UNCHANGED <<throttleBaseline, lastThrottleResult, reported, blind, snapGrant, unread>>
      /\ UNCHANGED <<grants, released>>
  BY DEF CoreThrottles, vars, lockVars
<1>2. ThrottleTypeOK /\ DisjointSpans /\ EventsReportedOnce /\ NoForeignEvents
  BY DEF ThrottleInv
<1>3. \A i \in Cores : /\ throttleCount[i] \in 0..MaxThrottle
                       /\ throttleCount'[i] \in 0..MaxThrottle
                       /\ throttleCount[i] <= throttleCount'[i]
  BY <1>1, <1>2, ThrottleAssumption DEF ThrottleTypeOK
<1>4. ThrottleTypeOK'
  <2>1. throttleCount' \in [Cores -> 0..MaxThrottle]
    BY <1>1, <1>2, <1>3 DEF ThrottleTypeOK
  <2> QED BY <1>1, <1>2, <2>1 DEF ThrottleTypeOK
<1>5. EventsReportedOnce'
  <2>1. \A i \in Cores : reported[i] \in Nat
    BY <1>2 DEF ThrottleTypeOK
  <2> QED BY <1>1, <1>2, <1>3, <2>1 DEF EventsReportedOnce
<1>6. DisjointSpans'
  <2> SUFFICES ASSUME throttleBaseline # NoSnapshot, NEW i \in DOMAIN throttleBaseline
               PROVE  throttleBaseline[i] <= throttleCount'[i]
    BY <1>1, <1>2 DEF DisjointSpans
  <2>1. i \in Cores /\ throttleBaseline[i] \in 0..MaxThrottle
    BY <1>2, CoreMapKeys DEF ThrottleTypeOK
  <2>2. throttleBaseline[i] <= throttleCount[i]
    BY <1>2 DEF DisjointSpans
  <2> QED BY <1>3, <2>1, <2>2
<1>7. NoForeignEvents'
  BY <1>1, <1>2 DEF NoForeignEvents
<1> QED BY <1>4, <1>5, <1>6, <1>7 DEF ThrottleInv

\* Every message, timeout and throttle event keeps the invariant.
LEMMA ServerStep == ServerInv /\ [ServerNext]_serverVars => ServerInv'
<1> SUFFICES ASSUME ServerInv, [ServerNext]_serverVars PROVE ServerInv'
  OBVIOUS
<1>0. /\ [Next]_vars /\ LockInv /\ ThrottleInv /\ LockInv'
  BY LockPart, TypeStep, TimerStep, OrderStep, AccountStep DEF ServerInv, LockInv
<1> SUFFICES ThrottleInv'
  BY <1>0 DEF ServerInv
<1>1. ASSUME NEW c \in Clients, NEW j \in Jobs, NEW R \in SUBSET Cores, AcquireMsg(c, j, R)
      PROVE  ThrottleInv'
  BY <1>0, <1>1, AcquireMsgStep
<1>2. ASSUME NEW c \in Clients, NEW j \in Jobs, NEW t \in known, NEW R \in SUBSET Cores,
             ReleaseMsg(c, j, t, R)
      PROVE  ThrottleInv'
  BY <1>0, <1>2, ReleaseMsgStep
<1>3. ASSUME NEW c \in Clients, NEW t \in known, CheckinMsg(c, t) PROVE ThrottleInv'
  <2>1. UNCHANGED <<throttleVars, released>>
    BY <1>3 DEF CheckinMsg, MarkActionInvoked
  <2> QED BY <1>0, <2>1, SnapshotsStay
<1>4. ASSUME NEW k \in timers, TimeoutEvent(k) PROVE ThrottleInv'
  <2>1. UNCHANGED <<throttleVars, released>>
    BY <1>4 DEF TimeoutEvent, TimerFires
  <2> QED BY <1>0, <2>1, SnapshotsStay
<1>5. ASSUME NEW k \in Cores, CoreThrottles(k) PROVE ThrottleInv'
  BY <1>0, <1>5, ThrottleStep
<1>6. CASE OtherEvent
  <2>1. UNCHANGED <<throttleVars, released>>
    BY <1>6 DEF OtherEvent, Connect, PeerLeaves, HandleDisconnect, SetCurrentTimeout, lockVars
  <2> QED BY <1>0, <2>1, SnapshotsStay
<1>7. CASE UNCHANGED serverVars
  <2>1. UNCHANGED <<throttleVars, released>>
    BY <1>7 DEF serverVars, vars, lockVars
  <2> QED BY <1>0, <2>1, SnapshotsStay
<1> QED BY <1>0, <1>1, <1>2, <1>3, <1>4, <1>5, <1>6, <1>7 DEF ServerNext

\* What the daemon tells of throttling: no event of a core that was readable at
\* its snapshots is told twice, and no job is told of another's but of one that
\* timed out or whose counters could not be read, whatever acquires, refused
\* releases, timeouts, disconnections and unreadable counters come in between.
THEOREM ThrottleCorrect == ServerSpec => []ThrottleAccounted
<1>1. ServerInit => ServerInv
  <2>1. ServerInit => TypeOK
    BY DEF ServerInit, Init, TypeOK, ConnState
  <2>2. ServerInit => TimerInv /\ OrderInv
    BY DEF ServerInit, Init, TimerInv, TimerIsHolders, NoIdleLock, Free, OrderInv, FifoOrder,
           HolderIsLatestGrant, RidsArrived
  <2>3. ServerInit => AccountInv
    BY DEF ServerInit, Init, AccountInv, ViolationsAreEarned, CheckInsRecorded, Ended, Free
  <2>4. ServerInit => ThrottleInv
    <3> SUFFICES ASSUME ServerInit PROVE ThrottleInv
      OBVIOUS
    <3>1. \A k \in Cores : throttleCount[k] \in Nat /\ reported[k] = 0
      BY ThrottleAssumption DEF ServerInit
    <3> QED BY <3>1 DEF ServerInit, Init, ThrottleInv, ThrottleTypeOK, DisjointSpans,
                        EventsReportedOnce, NoForeignEvents
  <2> QED BY <2>1, <2>2, <2>3, <2>4 DEF ServerInv, LockInv
<1>2. ServerInv /\ [ServerNext]_serverVars => ServerInv'
  BY ServerStep
<1>3. ServerInv => ThrottleAccounted
  BY DEF ServerInv, LockInv, ThrottleInv, ThrottleAccounted, ServerTypeOK
<1> QED BY <1>1, <1>2, <1>3, PTL DEF ServerSpec

\* The snapshots and results are of the machine's cores and stay within what
\* the kernel has counted.
THEOREM ServerTypeCorrect == ServerSpec => []ServerTypeOK
<1>1. ThrottleAccounted => ServerTypeOK
  BY DEF ThrottleAccounted
<1> QED BY <1>1, ThrottleCorrect, PTL

\* No event of a core that was readable at the snapshots is reported twice.
THEOREM NoEventReportedTwice == ServerSpec => []EventsReportedOnce
<1>1. ThrottleAccounted => EventsReportedOnce
  BY DEF ThrottleAccounted
<1> QED BY <1>1, ThrottleCorrect, PTL

\* No job is told of the throttling of a job that gave the lock back and was
\* measured when it did.
THEOREM ReleasedJobsAreNotBlamed == ServerSpec => []NoForeignEvents
<1>1. ThrottleAccounted => NoForeignEvents
  BY DEF ThrottleAccounted
<1> QED BY <1>1, ThrottleCorrect, PTL

-----------------------------------------------------------------------------
(* The benchmark sessions.                                                 *)

\* The sessions Map, the prepares under way, the processes and the temporary
\* files are of prepares that were handled; each prepare gives one session at
\* most; a killAll loop stays within the Map, which only grows.
SessionBooks ==
  /\ opened \in Seq(Nat) /\ Len(opened) <= MaxSessions
  /\ sessions \in Seq(Opened)
  /\ preparing \in SUBSET Opened
  /\ IsFiniteSet(preparing)
  /\ Cardinality(preparing) + Len(sessions) <= Len(opened)
  /\ proc \in [Ids -> ProcState]
  /\ \A s \in Ids : proc[s] # "none" => s \in Opened
  /\ cgroup \in [Ids -> Ids \cup {0}]
  /\ \A u \in Ids : cgroup[u] # 0 => u \in Opened
  /\ spared \in SUBSET Ids
  /\ killers \in SUBSET [token : Nat, at : Ids, captured : SUBSET Ids]
  /\ \A k \in killers : k.at <= Len(sessions)
  /\ tmpfs \in SUBSET Opened

\* As long as no job timed out, whatever runs or awaits its validation is of
\* the job that holds the lock, and so are the temporary files.
HolderRunsAlone ==
  TimedOut = {} =>
    /\ \A s \in Opened : Active(s) => ValidateToken(opened[s])
    /\ \A s \in tmpfs : ValidateToken(opened[s])

SessionsInv == TypeOK /\ TimerInv /\ SessionBooks /\ HolderRunsAlone

\* To the lock, the daemon with its sessions is the daemon.
LEMMA SessionsLockStep == [SessionsNext]_allVars => [Next]_vars
<1> SUFFICES ASSUME [SessionsNext]_allVars PROVE [Next]_vars
  OBVIOUS
<1>1. CASE LockEvent
  BY <1>1 DEF LockEvent, Next
<1>2. ASSUME NEW t \in known, Prepare(t) PROVE [Next]_vars
  BY <1>2 DEF Prepare
<1>3. ASSUME NEW s \in preparing, PrepareDone(s) \/ PrepareFails(s) PROVE [Next]_vars
  BY <1>3 DEF PrepareDone, PrepareFails
<1>4. ASSUME NEW s \in Opened, Validate(s) \/ ValidateDone(s) \/ WriteTmpfs(s) \/ ProcessEnds(s)
      PROVE  [Next]_vars
  BY <1>4 DEF Validate, ValidateDone, WriteTmpfs, ProcessEnds
<1>5. ASSUME NEW c \in Clients, NEW j \in Jobs, NEW t \in known, ReleaseJob(c, j, t)
      PROVE  [Next]_vars
  BY <1>5 DEF ReleaseJob, Next
<1>6. ASSUME NEW k \in timers, JobTimeout(k) PROVE [Next]_vars
  BY <1>6 DEF JobTimeout, Next
<1>7. ASSUME NEW k \in killers, KillNext(k) PROVE [Next]_vars
  BY <1>7 DEF KillNext
<1>8. CASE UNCHANGED allVars
  BY <1>8 DEF allVars
<1> QED BY <1>1, <1>2, <1>3, <1>4, <1>5, <1>6, <1>7, <1>8 DEF SessionsNext

\* A violation that was reported stays reported.
LEMMA TimedOutGrows ==
  ASSUME TypeOK, NEW v \in Violation, violations' = Append(violations, v)
  PROVE  /\ TimedOut \subseteq TimedOut'
         /\ v.reason = "job_timeout" => v.token \in TimedOut'
<1>1. /\ violations \in Seq(Violation)
      /\ Len(violations') = Len(violations) + 1
      /\ \A i \in 1..Len(violations) : violations'[i] = violations[i]
      /\ violations'[Len(violations) + 1] = v
  BY AppendFacts DEF TypeOK
<1>2. 1..Len(violations) \subseteq 1..Len(violations') /\ Len(violations') \in 1..Len(violations')
  BY <1>1
<1> QED BY <1>1, <1>2 DEF TimedOut

\* The loops under way stay within a Map that does not shrink.
LEMMA KillersStay ==
  ASSUME SessionBooks, UNCHANGED killers, Len(sessions') >= Len(sessions), Len(sessions) \in Nat,
         Len(sessions') \in Nat
  PROVE  /\ killers' \in SUBSET [token : Nat, at : Ids, captured : SUBSET Ids]
         /\ \A k \in killers' : k.at <= Len(sessions')
<1>1. \A k \in killers : k.at \in Nat /\ k.at <= Len(sessions)
  BY DEF SessionBooks, Ids
<1> QED BY <1>1 DEF SessionBooks

\* What Prepare records.
LEMMA PrepareStep ==
  ASSUME SessionsInv, NEW t \in known, Prepare(t)
  PROVE  SessionBooks' /\ HolderRunsAlone'
<1> USE SessionsAssumption
<1>0. /\ TypeOK /\ SessionBooks /\ HolderRunsAlone
      /\ t \in Nat
      /\ Len(opened) \in Nat /\ Len(sessions) \in Nat
  BY DEF SessionsInv, SessionBooks, TypeOK
<1>1. /\ opened' \in Seq(Nat)
      /\ Len(opened') = Len(opened) + 1 /\ Len(opened') <= MaxSessions
      /\ \A s \in Opened : opened'[s] = opened[s]
      /\ Opened' = Opened \cup {Len(opened) + 1}
  BY <1>0 DEF Prepare, SessionBooks, Opened
<1>2. /\ preparing' = preparing \cup {Len(opened) + 1}
      /\ UNCHANGED <<holder, violations, sessions, proc, cgroup, killers, spared, tmpfs>>
  BY DEF Prepare, vars, lockVars
<1>3. /\ IsFiniteSet(preparing') /\ Cardinality(preparing') = Cardinality(preparing) + 1
      /\ Cardinality(preparing) \in Nat
  <2>1. Len(opened) + 1 \notin preparing
    BY <1>0 DEF SessionBooks, Opened
  <2>2. IsFiniteSet(preparing)
    BY <1>0 DEF SessionBooks
  <2>3. /\ IsFiniteSet(preparing \cup {Len(opened) + 1})
        /\ Cardinality(preparing \cup {Len(opened) + 1}) = Cardinality(preparing) + 1
    BY <2>1, <2>2, FS_AddElement
  <2> QED BY <1>2, <2>2, <2>3, FS_CardinalityType
<1>4. sessions' \in Seq(Opened') /\ preparing' \in SUBSET Opened' /\ tmpfs' \in SUBSET Opened'
  BY <1>0, <1>1, <1>2 DEF SessionBooks
<1>5. Cardinality(preparing') + Len(sessions') <= Len(opened')
  BY <1>0, <1>1, <1>2, <1>3 DEF SessionBooks
<1>6. SessionBooks'
  BY <1>0, <1>1, <1>2, <1>3, <1>4, <1>5 DEF SessionBooks, Ids
<1>7. HolderRunsAlone'
  <2>1. Len(opened) + 1 \in Ids /\ Len(opened) + 1 \notin Opened
    BY <1>0, <1>1 DEF Ids, Opened
  <2>2. ~Active(Len(opened) + 1)
    BY <1>0, <2>1 DEF SessionBooks, Active
  <2>3. TimedOut' = TimedOut
    BY <1>2 DEF TimedOut
  <2>4. ASSUME TimedOut' = {}, NEW s \in Opened', Active(s)' PROVE ValidateToken(opened[s])'
    <3>1. Active(s) /\ s \in Opened
      BY <1>1, <1>2, <2>2, <2>4 DEF Active
    <3> QED BY <1>0, <1>1, <1>2, <2>3, <2>4, <3>1 DEF HolderRunsAlone, ValidateToken, Free
  <2>5. ASSUME TimedOut' = {}, NEW s \in tmpfs' PROVE ValidateToken(opened[s])'
    <3>1. s \in tmpfs /\ s \in Opened
      BY <1>0, <1>2 DEF SessionBooks
    <3> QED BY <1>0, <1>1, <1>2, <2>3, <2>5, <3>1 DEF HolderRunsAlone, ValidateToken, Free
  <2> QED BY <2>4, <2>5 DEF HolderRunsAlone
<1> QED BY <1>6, <1>7

\* A prepare that ends leaves one session, or none.
LEMMA PrepareEnds ==
  ASSUME SessionsInv, NEW s \in preparing, PrepareDone(s) \/ PrepareFails(s)
  PROVE  SessionBooks' /\ HolderRunsAlone'
<1> USE SessionsAssumption
<1>0. /\ SessionBooks /\ HolderRunsAlone
      /\ Len(opened) \in Nat /\ Len(sessions) \in Nat
  BY DEF SessionsInv, SessionBooks
<1>1. /\ preparing' = preparing \ {s}
      /\ sessions' = sessions \/ sessions' = Append(sessions, s)
      /\ UNCHANGED <<holder, violations, opened, proc, cgroup, killers, spared, tmpfs>>
  BY DEF PrepareDone, PrepareFails, vars, lockVars
<1>2. /\ IsFiniteSet(preparing') /\ Cardinality(preparing') = Cardinality(preparing) - 1
      /\ Cardinality(preparing) \in Nat /\ Cardinality(preparing') \in Nat
  BY <1>0, <1>1, FS_RemoveElement, FS_CardinalityType DEF SessionBooks
<1>3. /\ sessions' \in Seq(Opened)
      /\ Len(sessions') <= Len(sessions) + 1 /\ Len(sessions') >= Len(sessions)
      /\ Len(sessions') \in Nat
  <2>1. sessions \in Seq(Opened) /\ s \in Opened
    BY <1>0 DEF SessionBooks
  <2>2. CASE sessions' = sessions
    BY <1>0, <2>1, <2>2
  <2>3. CASE sessions' = Append(sessions, s)
    BY <1>0, <2>1, <2>3, AppendFacts
  <2> QED BY <1>1, <2>2, <2>3
<1>4. /\ killers' \in SUBSET [token : Nat, at : Ids, captured : SUBSET Ids]
      /\ \A k \in killers' : k.at <= Len(sessions')
  BY <1>0, <1>1, <1>3, KillersStay
<1>5. Cardinality(preparing') + Len(sessions') <= Len(opened')
  BY <1>0, <1>1, <1>2, <1>3 DEF SessionBooks
<1>6. SessionBooks'
  BY <1>0, <1>1, <1>2, <1>3, <1>4, <1>5 DEF SessionBooks, Opened
<1>7. HolderRunsAlone'
  BY <1>0, <1>1 DEF HolderRunsAlone, TimedOut, ValidateToken, Free, Opened, Active
<1> QED BY <1>6, <1>7

\* What a validation, its end, a write and the end of a process do.
LEMMA ProcessStep ==
  ASSUME SessionsInv, NEW s \in Opened,
         Validate(s) \/ ValidateDone(s) \/ WriteTmpfs(s) \/ ProcessEnds(s)
  PROVE  SessionBooks' /\ HolderRunsAlone'
<1> USE SessionsAssumption
<1>0. /\ SessionBooks /\ HolderRunsAlone /\ s \in Ids
      /\ Len(opened) \in Nat /\ Len(sessions) \in Nat
  BY DEF SessionsInv, SessionBooks, Opened, Ids
<1>1. /\ UNCHANGED <<holder, violations, opened, sessions, preparing, killers>>
      /\ \/ UNCHANGED proc
         \/ proc' = [proc EXCEPT ![s] = "asking"] /\ ValidateToken(opened[s])
         \/ proc' = [proc EXCEPT ![s] = "running"] /\ Active(s)
         \/ proc' = [proc EXCEPT ![s] = "dead"]
      /\ tmpfs' = tmpfs \/ (tmpfs' = tmpfs \cup {s} /\ Active(s))
      /\ cgroup' \in [Ids -> Ids \cup {0}] /\ spared' \in SUBSET Ids
      /\ \A u \in Ids : cgroup'[u] # 0 => u \in Opened
  <2>0. Opened \subseteq Ids
    BY <1>0 DEF SessionBooks, Opened, Ids
  <2>1. CASE Validate(s)
    BY <1>0, <2>1 DEF Validate, vars, lockVars, SessionBooks
  <2>2. CASE ValidateDone(s)
    <3>1. /\ cgroup' \in [Ids -> Ids \cup {0}] /\ spared' \in SUBSET Ids
          /\ \A u \in Ids : cgroup'[u] # 0 => u \in Opened
      BY <1>0, <2>0, <2>2 DEF ValidateDone, SessionBooks
    <3> QED BY <1>0, <2>2, <3>1 DEF ValidateDone, Active, vars, lockVars
  <2>3. CASE WriteTmpfs(s)
    BY <1>0, <2>3 DEF WriteTmpfs, Active, vars, lockVars, SessionBooks
  <2>4. CASE ProcessEnds(s)
    <3>1. /\ cgroup' \in [Ids -> Ids \cup {0}] /\ spared' \in SUBSET Ids
          /\ \A u \in Ids : cgroup'[u] # 0 => u \in Opened
      BY <1>0, <2>4 DEF ProcessEnds, SessionBooks
    <3> QED BY <1>0, <2>4, <3>1 DEF ProcessEnds, vars, lockVars
  <2> QED BY <2>1, <2>2, <2>3, <2>4
<1>2. /\ proc' \in [Ids -> ProcState]
      /\ \A u \in Ids : proc'[u] # "none" => u \in Opened
      /\ \A u \in Ids : proc'[u] \in {"asking", "running"}
                          => Active(u) \/ (u = s /\ ValidateToken(opened[s]))
  BY <1>0, <1>1 DEF SessionBooks, ProcState, Active
<1>3. SessionBooks'
  BY <1>0, <1>1, <1>2 DEF SessionBooks, Opened
<1>4. HolderRunsAlone'
  <2>1. TimedOut' = TimedOut /\ Opened' = Opened
    BY <1>1 DEF TimedOut, Opened
  <2>2. \A u \in Opened : ValidateToken(opened[u])' <=> ValidateToken(opened[u])
    BY <1>1 DEF ValidateToken, Free
  <2>3. Opened \subseteq Ids /\ tmpfs' \subseteq Opened
    <3>1. Len(opened) <= MaxSessions /\ tmpfs \subseteq Opened
      BY <1>0 DEF SessionBooks
    <3>2. Opened \subseteq Ids
      BY <1>0, <3>1 DEF Opened, Ids
    <3> QED BY <1>1, <3>1, <3>2
  <2>4. ASSUME TimedOut = {}, NEW u \in Opened, Active(u)' PROVE ValidateToken(opened[u])
    BY <1>0, <1>2, <2>3, <2>4 DEF HolderRunsAlone, Active
  <2>5. ASSUME TimedOut = {}, NEW u \in tmpfs' PROVE ValidateToken(opened[u])
    BY <1>0, <1>1, <2>3, <2>5 DEF HolderRunsAlone
  <2> QED BY <1>1, <2>1, <2>2, <2>3, <2>4, <2>5 DEF HolderRunsAlone
<1> QED BY <1>3, <1>4

\* The end of a job.  Its processes are gone and the files are removed, so the
\* next job finds neither.
LEMMA ReleaseStep ==
  ASSUME SessionsInv, NEW c \in Clients, NEW j \in Jobs, NEW t \in known, ReleaseJob(c, j, t)
  PROVE  SessionBooks' /\ HolderRunsAlone'
<1>0. TypeOK /\ SessionBooks /\ HolderRunsAlone
  BY DEF SessionsInv
<1>1. /\ UNCHANGED <<opened, sessions, preparing, proc, cgroup, killers, spared>>
      /\ tmpfs' = {}
      /\ ValidateToken(t)
      /\ \A s \in Opened : opened[s] = t => ~Active(s)
      /\ Release(c, j, t) \/ UNCHANGED vars
  BY DEF ReleaseJob
<1>2. SessionBooks'
  BY <1>0, <1>1 DEF SessionBooks, Opened
<1>3. TimedOut \subseteq TimedOut'
  <2>1. CASE Release(c, j, t)
    <3> DEFINE v == [token |-> holder.token, job |-> j, reason |-> "action_not_used"]
    <3>1. holder \in ActiveLock /\ v \in Violation
      BY <1>0, <2>1 DEF Release, Free, TypeOK, ActiveLock, Violation, Reason
    <3>2. violations' = violations \/ violations' = Append(violations, v)
      BY <2>1 DEF Release
    <3> HIDE DEF v
    <3> QED BY <1>0, <3>1, <3>2, TimedOutGrows DEF TimedOut
  <2>2. CASE UNCHANGED vars
    BY <2>2 DEF vars, lockVars, TimedOut
  <2> QED BY <1>1, <2>1, <2>2
<1>4. ASSUME TimedOut' = {} PROVE \A s \in Opened : ~Active(s)
  <2>1. TimedOut = {}
    BY <1>3, <1>4
  <2>2. \A s \in Opened : Active(s) => opened[s] = t
    BY <1>0, <1>1, <2>1 DEF HolderRunsAlone, ValidateToken
  <2> QED BY <1>1, <2>2
<1>5. HolderRunsAlone'
  BY <1>1, <1>4 DEF HolderRunsAlone, Opened, Active
<1> QED BY <1>2, <1>5

\* A timeout is on record from then on, and starts a killAll that looks at a
\* session of the Map if there is one.
LEMMA TimeoutStep ==
  ASSUME SessionsInv, NEW k \in timers, JobTimeout(k)
  PROVE  SessionBooks' /\ HolderRunsAlone'
<1> USE SessionsAssumption
<1> DEFINE K == [token : Nat, at : Ids, captured : SUBSET Ids]
<1>0. /\ TypeOK /\ TimerInv /\ SessionBooks
      /\ Len(opened) \in Nat /\ Len(sessions) \in Nat
  BY DEF SessionsInv, SessionBooks
<1>1. holder \in ActiveLock /\ ~Free
  BY <1>0 DEF TimerInv, TimerIsHolders, Free, TypeOK
<1>2. /\ UNCHANGED <<opened, sessions, preparing, proc, cgroup, spared>>
      /\ tmpfs' = {}
      /\ TimerFires(k)
  BY DEF JobTimeout
<1>3. killers' \in SUBSET K /\ \A l \in killers' : l.at <= Len(sessions')
  <2>1. killers \in SUBSET K /\ \A l \in killers : l.at <= Len(sessions)
    BY <1>0 DEF SessionBooks
  <2>2. CASE sessions = <<>>
    BY <1>2, <2>1, <2>2 DEF JobTimeout
  <2>3. CASE sessions # <<>>
    <3> DEFINE new == [token |-> holder.token, at |-> 1,
                       captured |-> {s \in Ids : cgroup[s] # 0}]
    <3>1. Len(sessions) >= 1 /\ 1 \in Ids
      <4>1. Len(sessions) >= 1
        BY <1>0, <2>3 DEF SessionBooks
      <4>2. Len(sessions) <= Len(opened) /\ Len(opened) <= MaxSessions
        BY <1>0, FS_CardinalityType DEF SessionBooks
      <4> QED BY <1>0, <4>1, <4>2 DEF Ids
    <3>2. holder.token \in Nat /\ {s \in Ids : cgroup[s] # 0} \in SUBSET Ids
      BY <1>0, <1>1 DEF ActiveLock, SessionBooks
    <3>3. new \in K /\ new.at <= Len(sessions)
      BY <3>1, <3>2
    <3>4. killers' = killers \cup {new}
      BY <2>3 DEF JobTimeout
    <3> HIDE DEF new, K
    <3> QED BY <1>2, <2>1, <3>3, <3>4
  <2> QED BY <2>2, <2>3
<1>4. SessionBooks'
  BY <1>0, <1>2, <1>3 DEF SessionBooks, Opened
<1>5. TimedOut' # {}
  <2> DEFINE v == [token |-> holder.token, job |-> holder.job, reason |-> "job_timeout"]
  <2>1. v \in Violation /\ v.reason = "job_timeout"
    BY <1>1 DEF ActiveLock, Violation, Reason
  <2>2. violations' = Append(violations, v)
    BY <1>1, <1>2 DEF TimerFires
  <2> HIDE DEF v
  <2> QED BY <1>0, <2>1, <2>2, TimedOutGrows
<1> QED BY <1>4, <1>5 DEF HolderRunsAlone

\* A write to cgroup.kill: what dies was running, and the loop goes on only
\* where there is a next session.
LEMMA KillStep ==
  ASSUME SessionsInv, NEW k \in killers, KillNext(k)
  PROVE  SessionBooks' /\ HolderRunsAlone'
<1> USE SessionsAssumption
<1> DEFINE K == [token : Nat, at : Ids, captured : SUBSET Ids]
<1>0. /\ SessionBooks /\ HolderRunsAlone
      /\ Len(opened) \in Nat /\ Len(sessions) \in Nat
  BY DEF SessionsInv, SessionBooks
<1>1. /\ k \in K /\ k.at \in 1..Len(sessions)
      /\ Len(sessions) <= MaxSessions
  BY <1>0, FS_CardinalityType DEF SessionBooks, Ids
<1>2. PICK s \in Opened : s = sessions[k.at]
  BY <1>0, <1>1 DEF SessionBooks
<1>3. s \in Ids
  BY <1>0 DEF SessionBooks, Opened, Ids
<1>4. /\ \/ proc' = [u \in Ids |-> IF u \in Members(s) THEN "dead" ELSE proc[u]]
         \/ proc' = proc
      /\ cgroup' \in [Ids -> Ids \cup {0}] /\ spared' \in SUBSET Ids
      /\ \A u \in Ids : cgroup'[u] # 0 => u \in Opened
      /\ UNCHANGED <<holder, violations, opened, sessions, preparing, tmpfs>>
  <2>1. UNCHANGED <<holder, violations, opened, sessions, preparing, tmpfs>>
    BY DEF KillNext, vars, lockVars
  <2>2. CASE KillWorks(s)
    BY <1>0, <2>1, <2>2 DEF KillWorks, SessionBooks
  <2>3. CASE KillFails(s)
    BY <1>0, <2>1, <2>3 DEF KillFails, SessionBooks, Members
  <2> QED BY <1>2, <2>1, <2>2, <2>3 DEF KillNext
<1>5. killers' \in SUBSET K /\ \A l \in killers' : l.at <= Len(sessions')
  <2> DEFINE next == [k EXCEPT !.at = @ + 1]
  <2>1. ASSUME k.at < Len(sessions) PROVE next \in K /\ next.at <= Len(sessions)
    <3>1. k.at + 1 \in Ids
      BY <1>0, <1>1, <2>1 DEF Ids
    <3>2. next = [token |-> k.token, at |-> k.at + 1, captured |-> k.captured]
      BY <1>1
    <3> QED BY <1>0, <1>1, <2>1, <3>1, <3>2
  <2>2. killers' = (killers \ {k}) \cup (IF k.at < Len(sessions) THEN {next} ELSE {})
    BY DEF KillNext, GoOn
  <2>3. killers \in SUBSET K /\ \A l \in killers : l.at <= Len(sessions)
    BY <1>0 DEF SessionBooks
  <2> HIDE DEF next, K
  <2> QED BY <1>4, <2>1, <2>2, <2>3
<1>6. /\ proc' \in [Ids -> ProcState]
      /\ \A u \in Ids : proc'[u] \in {proc[u], "dead"}
  BY <1>0, <1>3, <1>4 DEF SessionBooks, ProcState
<1>7. SessionBooks'
  <2>1. \A u \in Ids : proc'[u] # "none" => u \in Opened'
    <3>1. \A u \in Members(s) : u \in Opened
      BY <1>0, <1>3 DEF Members, SessionBooks, Ids
    <3>2. Opened' = Opened
      BY <1>4 DEF Opened
    <3> QED BY <1>0, <1>4, <3>1, <3>2 DEF SessionBooks
  <2> QED BY <1>0, <1>4, <1>5, <1>6, <2>1 DEF SessionBooks, Opened
<1>8. HolderRunsAlone'
  <2>1. Opened \subseteq Ids
    BY <1>0 DEF SessionBooks, Opened, Ids
  <2>2. \A u \in Opened : Active(u)' => Active(u)
    BY <1>6, <2>1 DEF Active
  <2>3. TimedOut' = TimedOut /\ Opened' = Opened
    BY <1>4 DEF TimedOut, Opened
  <2>4. \A t : ValidateToken(t)' <=> ValidateToken(t)
    BY <1>4 DEF ValidateToken, Free
  <2> QED BY <1>0, <1>4, <2>2, <2>3, <2>4 DEF HolderRunsAlone
<1> QED BY <1>7, <1>8

\* Connections, acquires and check-ins.  A free lock is granted only when
\* nothing is active, since there was no holder to be active for.
LEMMA LockEventStep ==
  ASSUME SessionsInv, LockEvent
  PROVE  SessionBooks' /\ HolderRunsAlone'
<1>0. TypeOK /\ SessionBooks /\ HolderRunsAlone
  BY DEF SessionsInv
<1>1. UNCHANGED <<opened, sessions, preparing, proc, cgroup, killers, spared, tmpfs>>
  BY DEF LockEvent, cgroupVars
<1>2. SessionBooks'
  BY <1>0, <1>1 DEF SessionBooks, Opened
<1>3. violations' = violations
  BY DEF LockEvent, Connect, PeerLeaves, HandleDisconnect, Acquire, MarkActionInvoked, lockVars
<1>4. \A t : ValidateToken(t) => ValidateToken(t)'
  <2>1. CASE holder' = holder
    BY <2>1 DEF ValidateToken, Free
  <2>2. CASE Free
    BY <2>2 DEF ValidateToken
  <2>3. ASSUME NEW c \in Clients, NEW t \in known, MarkActionInvoked(c, t)
        PROVE  \A u : ValidateToken(u) => ValidateToken(u)'
    <3>1. holder \in ActiveLock
      BY <1>0, <2>3 DEF MarkActionInvoked, ValidateToken, Free, TypeOK
    <3>2. holder' \in ActiveLock /\ holder'.token = holder.token
      BY <2>3, <3>1 DEF MarkActionInvoked, ActiveLock
    <3>3. ~Free'
      BY <3>2, NoHolderAssumption DEF Free
    <3> QED BY <3>2, <3>3 DEF ValidateToken
  <2>4. \/ holder' = holder \/ Free
        \/ \E c \in Clients, t \in known : MarkActionInvoked(c, t)
    BY DEF LockEvent, Connect, PeerLeaves, HandleDisconnect, Acquire, lockVars
  <2> QED BY <2>1, <2>2, <2>3, <2>4
<1>5. HolderRunsAlone'
  BY <1>0, <1>1, <1>3, <1>4 DEF HolderRunsAlone, TimedOut, Opened, Active
<1> QED BY <1>2, <1>5

\* Every step of the daemon, the jobs and their processes keeps the invariant.
LEMMA SessionsStep == SessionsInv /\ [SessionsNext]_allVars => SessionsInv'
<1> SUFFICES ASSUME SessionsInv, [SessionsNext]_allVars PROVE SessionsInv'
  OBVIOUS
<1>0. TypeOK' /\ TimerInv'
  BY SessionsLockStep, TypeStep, TimerStep DEF SessionsInv
<1> SUFFICES SessionBooks' /\ HolderRunsAlone'
  BY <1>0 DEF SessionsInv
<1>1. CASE UNCHANGED allVars
  BY <1>1 DEF allVars, vars, lockVars, cgroupVars, SessionsInv, SessionBooks,
              HolderRunsAlone, Opened, TimedOut, ValidateToken, Free, Active
<1> QED
  BY <1>1, LockEventStep, PrepareStep, PrepareEnds, ProcessStep, ReleaseStep, TimeoutStep, KillStep
  DEF SessionsNext

\* The daemon with its sessions still is the lock: whatever is proved of the
\* lock holds of it, the order of the grants and the abstract lock included.
THEOREM SessionsKeepTheLock == SessionsSpec => Spec
<1>1. SessionsInit => Init
  BY DEF SessionsInit
<1>2. [SessionsNext]_allVars => [Next]_vars
  BY SessionsLockStep
<1> QED BY <1>1, <1>2, PTL DEF SessionsSpec, Spec

\* As long as every job before it gave its lock back, a benchmark runs alone
\* and finds no files of another job under the tmpfs: the token is checked when
\* its session is validated and never again, and yet no process outlives its
\* token unless a timeout took the lock away.
THEOREM BenchmarksRunAlone == SessionsSpec => []SessionsAreSound
<1>1. SessionsInit => SessionsInv
  <2>1. SessionsInit => TypeOK /\ TimerInv
    BY DEF SessionsInit, Init, TypeOK, ConnState, TimerInv, TimerIsHolders, NoIdleLock, Free
  <2>2. SessionsInit => SessionBooks /\ HolderRunsAlone
    <3>1. IsFiniteSet({}) /\ Cardinality({}) = 0
      BY FS_EmptySet
    <3> QED BY <3>1, SessionsAssumption
            DEF SessionsInit, SessionBooks, HolderRunsAlone, Opened, Active, ProcState
  <2> QED BY <2>1, <2>2 DEF SessionsInv
<1>2. SessionsInv /\ [SessionsNext]_allVars => SessionsInv'
  BY SessionsStep
<1>3. SessionsInv => SessionsAreSound
  <2> SUFFICES ASSUME SessionsInv PROVE SessionsAreSound
    OBVIOUS
  <2>1. SessionBooks /\ HolderRunsAlone /\ TypeOK
    BY DEF SessionsInv
  <2>2. /\ Len(opened) \in Nat /\ Len(sessions) \in Nat
        /\ Opened \subseteq Ids /\ Len(sessions) <= Len(opened)
    BY <2>1, SessionsAssumption, FS_CardinalityType DEF SessionBooks, Opened, Ids
  <2>3. SessionsTypeOK
    BY <2>1, <2>2 DEF SessionBooks, SessionsTypeOK
  <2>4. ReleasedJobsAreExclusive
    BY <2>1 DEF HolderRunsAlone, ReleasedJobsAreExclusive, Running, Active, ValidateToken
  <2> QED BY <2>3, <2>4 DEF SessionsAreSound
<1> QED BY <1>1, <1>2, <1>3, PTL DEF SessionsSpec
=============================================================================
