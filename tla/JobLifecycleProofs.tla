------------------------- MODULE JobLifecycleProofs -------------------------
(***************************************************************************)
(* Proofs about JobLifecycle, for every set of runners and any number of   *)
(* jobs, crashes and deaths: a benchmark runs under its own job's lock,    *)
(* its scratch directory is kept, and strikes tell the truth.              *)
(***************************************************************************)
EXTENDS JobLifecycle, SequenceTheorems, TLAPS

\* Types, and the counters behind them: a job has drawn a token, waits for
\* one, or has given up.
CountInv ==
  /\ JobsTypeOK
  /\ tokens + Len(queue) <= jobs
  /\ ~Free => holder.job \in 1..jobs /\ holder.token = tokens
  /\ \A k \in 1..Len(queue) : queue[k].job \in 1..jobs
  /\ ~up => Free /\ queue = <<>>

\* Whoever has the token of the present grant was granted it for this job.
Knows(r, t) == ~Free /\ holder.token = t => holder.by = r /\ holder.job = job[r]

\* Where tokens are: with a hook that has just been granted, in a file that a
\* failed hook may have left, with the action.
TokenInv ==
  \A r \in Runners :
    /\ Knows(r, mail[r]) /\ Knows(r, file[r]) /\ Knows(r, act[r])
    /\ mail[r] # 0 => pc[r] = "asking"
    /\ pc[r] = "idle" => job[r] = 0 /\ mail[r] = 0 /\ act[r] = 0
    /\ pc[r] \in InAction => act[r] # 0

\* No two actors run one job.
OwnJobs == \A a, b \in Actors : job[a] = job[b] /\ job[a] # 0 => a = b

\* A job is queued once and not after its grant; what is queued has neither
\* checked in nor released.
QueueInv ==
  /\ \A k \in 1..Len(queue) :
       /\ queue[k].job \notin checkedIn \cup released
       /\ ~Free => queue[k].job # holder.job
  /\ \A k, l \in 1..Len(queue) : queue[k].job = queue[l].job => k = l

\* The grant knows whether its job has checked in.
InvokedInv ==
  ~Free => /\ holder.job \notin released
           /\ (holder.invoked <=> holder.job \in checkedIn)

\* From the check of its token on, bench-exec has its job's lock or has lost it.
ExecUnderLock ==
  \A r \in Runners : pc[r] \in InExec => Holds(r) \/ job[r] \in lost

\* The directory is made before the token is checked.
ScratchInv ==
  \A r \in Runners :
    /\ pc[r] = "spawned" /\ scratch[r] /\ Valid(act[r]) => act[r] \in tmp
    /\ pc[r] \in InExec /\ scratch[r] /\ job[r] \notin lost => act[r] \in tmp

IInv ==
  /\ CountInv /\ TokenInv /\ OwnJobs /\ QueueInv /\ InvokedInv
  /\ StrikesTellTheTruth /\ ExecUnderLock /\ ScratchInv

-----------------------------------------------------------------------------
(* What a grant, and the end of a request, leave behind.                   *)

\* A sequence without its k-th element.
LEMMA RemoveAt ==
  ASSUME NEW S, NEW s \in Seq(S), NEW k \in 1..Len(s)
  PROVE  LET t == SubSeq(s, 1, k - 1) \o SubSeq(s, k + 1, Len(s))
         IN  /\ t \in Seq(S) /\ Len(t) = Len(s) - 1
             /\ \A i \in 1..Len(t) : t[i] = s[IF i < k THEN i ELSE i + 1]
<1> DEFINE u == SubSeq(s, 1, k - 1)
           v == SubSeq(s, k + 1, Len(s))
           t == u \o v
<1>1. /\ u \in Seq(S) /\ Len(u) = k - 1 /\ \A i \in 1..k - 1 : u[i] = s[i]
      /\ v \in Seq(S) /\ Len(v) = Len(s) - k /\ \A i \in 1..Len(s) - k : v[i] = s[k + i]
  OBVIOUS
<1> HIDE DEF u, v
<1>2. /\ t \in Seq(S) /\ Len(t) = Len(u) + Len(v)
      /\ \A i \in 1..Len(u) + Len(v) : t[i] = IF i <= Len(u) THEN u[i] ELSE v[i - Len(u)]
  BY <1>1, ConcatProperties
<1> HIDE DEF t
<1>3. Len(t) = Len(s) - 1
  BY <1>1, <1>2
<1>4. ASSUME NEW i \in 1..Len(t) PROVE t[i] = s[IF i < k THEN i ELSE i + 1]
  <2>1. CASE i < k
    BY <1>1, <1>2, <2>1
  <2>2. CASE k <= i
    <3>1. i - (k - 1) \in 1..Len(s) - k
      BY <1>3, <2>2
    <3>2. t[i] = v[i - (k - 1)]
      BY <1>1, <1>2, <1>3, <2>2
    <3>3. v[i - (k - 1)] = s[k + (i - (k - 1))] /\ k + (i - (k - 1)) = i + 1
      BY <1>1, <3>1
    <3> QED BY <3>2, <3>3, <2>2
  <2> QED BY <2>1, <2>2, <1>3
<1> QED BY <1>2, <1>3, <1>4 DEF t, u, v

\* A grant as a fact about the next state: the token is new, only the
\* hook of the granted job learns it, and the job leaves the queue.
Granted(by, j) ==
  /\ tokens' = tokens + 1
  /\ holder' = [by |-> by, job |-> j, token |-> tokens + 1, invoked |-> FALSE]
  /\ holder' \in Grants /\ holder' # NoHolder
  /\ mail' \in [Runners -> 0..tokens']
  /\ \A r \in Runners : mail'[r] # mail[r] => r = by /\ mail'[r] = tokens + 1

\* A grant has the type of one.
LEMMA GrantTypes ==
  ASSUME CountInv, NEW by \in Actors, NEW j \in Jobs, NEW waits \in BOOLEAN,
         tokens < MaxJobs, Grant([by |-> by, job |-> j], waits)
  PROVE  Granted(by, j)
<1>1. tokens \in Nat /\ tokens + 1 \in 1..MaxJobs /\ mail \in [Runners -> 0..tokens]
  BY JobsAssumption DEF CountInv, JobsTypeOK
<1>2. /\ tokens' = tokens + 1
      /\ holder' = [by |-> by, job |-> j, token |-> tokens + 1, invoked |-> FALSE]
      /\ mail' = [r \in Runners |-> IF r = by /\ waits THEN tokens + 1 ELSE mail[r]]
  BY DEF Grant
<1>3. holder' \in Grants
  BY <1>1, <1>2 DEF Grants
<1>4. holder' # NoHolder
  BY <1>3, NoHolderAssumption
<1>5. mail' \in [Runners -> 0..tokens']
  BY <1>1, <1>2
<1> QED BY <1>2, <1>3, <1>4, <1>5 DEF Granted

\* After the end of a grant the next job in the queue has the lock, or nobody.
LEMMA GrantNextDoes ==
  ASSUME CountInv, QueueInv, GrantNext
  PROVE  /\ queue' \in Seq([by : Actors, job : Jobs])
         /\ tokens' \in Nat /\ tokens <= tokens' /\ tokens' + Len(queue') <= jobs
         /\ mail' \in [Runners -> 0..tokens']
         /\ \A k \in 1..Len(queue') : \E l \in 1..Len(queue) : queue'[k] = queue[l]
         /\ \A k, l \in 1..Len(queue') : queue'[k].job = queue'[l].job => k = l
         /\ \/ holder' = NoHolder /\ mail' = mail
            \/ \E l \in 1..Len(queue) :
                 /\ Granted(queue[l].by, queue[l].job)
                 /\ \A k \in 1..Len(queue') : queue'[k].job # queue[l].job
                 /\ \A r \in Runners :
                      mail'[r] # mail[r] => pc[r] = "asking" /\ job[r] = queue[l].job
<1>1. /\ queue \in Seq([by : Actors, job : Jobs]) /\ tokens \in Nat /\ jobs \in 0..MaxJobs
      /\ mail \in [Runners -> 0..tokens] /\ tokens + Len(queue) <= jobs
  BY JobsAssumption DEF CountInv, JobsTypeOK
<1>2. CASE queue = <<>> /\ holder' = NoHolder /\ UNCHANGED <<queue, tokens, mail>>
  BY <1>1, <1>2 DEF QueueInv
<1>3. CASE /\ queue # <<>> /\ queue' = Tail(queue)
           /\ Grant(Head(queue), Waits(Head(queue)))
  <2>1. /\ 1 \in 1..Len(queue) /\ Head(queue) = queue[1]
        /\ queue' \in Seq([by : Actors, job : Jobs]) /\ Len(queue') = Len(queue) - 1
        /\ \A k \in 1..Len(queue') : k + 1 \in 1..Len(queue) /\ queue'[k] = queue[k + 1]
    BY <1>1, <1>3
  <2>2. PICK e \in [by : Actors, job : Jobs] : e = queue[1]
    <3>1. ASSUME NEW S, queue \in Seq(S) PROVE queue[1] \in S
      BY <2>1, <3>1
    <3>2. queue[1] \in [by : Actors, job : Jobs]
      BY <1>1, <3>1
    <3> QED BY <3>2
  <2>3. e.by \in Actors /\ e.job \in Jobs /\ e = [by |-> e.by, job |-> e.job]
    BY <2>2
  <2>4. tokens < MaxJobs
    BY <1>1, <2>1, JobsAssumption
  <2>5. Waits(e) \in BOOLEAN /\ Grant([by |-> e.by, job |-> e.job], Waits(e))
    BY <1>3, <2>1, <2>2, <2>3 DEF Waits
  <2>6. Granted(e.by, e.job)
    BY <2>3, <2>4, <2>5, GrantTypes
  <2>7. \A r \in Runners : mail'[r] # mail[r] => pc[r] = "asking" /\ job[r] = e.job
    BY <2>5 DEF Grant, Waits
  <2>8. \A k, l \in 1..Len(queue') : queue'[k].job = queue'[l].job => k = l
    <3> SUFFICES ASSUME NEW k \in 1..Len(queue'), NEW l \in 1..Len(queue'),
                        queue'[k].job = queue'[l].job
                 PROVE  k = l
      OBVIOUS
    <3>1. /\ k + 1 \in 1..Len(queue) /\ l + 1 \in 1..Len(queue)
          /\ queue[k + 1].job = queue[l + 1].job
      BY <2>1
    <3>2. k + 1 = l + 1
      BY <3>1 DEF QueueInv
    <3> QED BY <3>2, <2>1
  <2>9. \A k \in 1..Len(queue') : queue'[k].job # queue[1].job
    <3> SUFFICES ASSUME NEW k \in 1..Len(queue') PROVE queue'[k].job # queue[1].job
      OBVIOUS
    <3>1. k + 1 \in 1..Len(queue) /\ queue'[k] = queue[k + 1] /\ k + 1 # 1
      BY <2>1
    <3> QED BY <3>1, <2>1 DEF QueueInv
  <2>10. /\ tokens' \in Nat /\ tokens <= tokens' /\ tokens' + Len(queue') <= jobs
         /\ mail' \in [Runners -> 0..tokens']
    BY <1>1, <2>1, <2>6 DEF Granted
  <2> QED BY <2>1, <2>2, <2>6, <2>7, <2>8, <2>9, <2>10
<1> QED BY <1>2, <1>3 DEF GrantNext

-----------------------------------------------------------------------------
(* Steps that leave the lock alone.                                        *)

\* While the daemon's tables and the accounts stay as they are and no new job
\* is started, what is known of them stays true.
LEMMA QuietKeeps ==
  ASSUME CountInv, OwnJobs, QueueInv, InvokedInv, StrikesTellTheTruth, JobsTypeOK',
         UNCHANGED <<up, holder, queue, tokens, jobs, checkedIn, released, struck>>,
         \A a \in Actors : job'[a] \in {job[a], 0}
  PROVE  CountInv' /\ OwnJobs' /\ QueueInv' /\ InvokedInv' /\ StrikesTellTheTruth'
<1>1. CountInv'
  BY DEF CountInv, Free
<1>2. OwnJobs'
  BY DEF OwnJobs
<1>3. QueueInv'
  BY DEF QueueInv, Free
<1>4. InvokedInv' /\ StrikesTellTheTruth'
  BY DEF InvokedInv, StrikesTellTheTruth, Free
<1> QED BY <1>1, <1>2, <1>3, <1>4

\* The hook reads its answer and writes the token to the file.
LEMMA WriteTokenStep == ASSUME IInv, NEW r \in Runners, WriteToken(r) PROVE IInv'
<1>0. CountInv /\ TokenInv /\ OwnJobs /\ QueueInv /\ InvokedInv /\ StrikesTellTheTruth
      /\ ExecUnderLock /\ ScratchInv /\ JobsTypeOK
  BY DEF IInv, CountInv
<1>1. PICK t \in {mail[r], file[r]} : file' = [file EXCEPT ![r] = t]
  BY DEF WriteToken
<1>2. /\ mail' = [mail EXCEPT ![r] = 0] /\ pc' = [pc EXCEPT ![r] = "steps"]
      /\ UNCHANGED <<daemon, tmp, job, jobs, act, scratch, told, bounds>>
  BY DEF WriteToken, Goes
<1>3. JobsTypeOK'
  <2>1. mail \in [Runners -> 0..tokens] /\ file \in [Runners -> 0..tokens] /\ tokens \in Nat
    BY <1>0, JobsAssumption DEF JobsTypeOK
  <2>2. file' \in [Runners -> 0..tokens] /\ mail' \in [Runners -> 0..tokens]
    BY <1>1, <1>2, <2>1
  <2>3. pc' \in [Actors -> {"idle", "asking", "steps", "after", "building", "gone"} \cup InAction]
    BY <1>0, <1>2 DEF JobsTypeOK
  <2> QED BY <1>0, <1>2, <2>2, <2>3 DEF JobsTypeOK, daemon, told, bounds
<1>4. TokenInv'
  BY <1>0, <1>1, <1>2 DEF TokenInv, Knows, Free, JobsTypeOK, Actors, daemon, CountInv, InAction, InExec
<1>5. ExecUnderLock' /\ ScratchInv'
  BY <1>0, <1>2 DEF InExec, ExecUnderLock, ScratchInv, Holds, Valid, Free, JobsTypeOK, Actors,
     daemon, told
<1> QED BY <1>0, <1>2, <1>3, <1>4, <1>5, QuietKeeps DEF IInv, daemon, told

\* A step of the job's processes that leaves the tokens, and who holds what,
\* alone, and takes nobody into the two places where the directory must be there.
LEMMA WalkStep ==
  ASSUME IInv, NEW r \in Runners, NEW to, to \in {"steps", "after"} \cup InAction,
         pc[r] \in {"steps"} \cup InAction, Goes(r, to),
         sessions' \in SUBSET (1..tokens), tmp' \in SUBSET (1..tokens), tmp \subseteq tmp',
         \/ act' = act
         \/ act' = [act EXCEPT ![r] = file[r]] /\ to \notin {"spawned"} \cup InExec,
         scratch' \in [Runners -> BOOLEAN], \A q \in Runners \ {r} : scratch'[q] = scratch[q],
         to \in InAction => act'[r] # 0,
         to = "spawned" /\ scratch'[r] => act[r] \in tmp',
         to \in InExec => /\ scratch' = scratch
                         /\ \/ pc[r] \in InExec
                            \/ pc[r] = "spawned" /\ Valid(act[r]),
         UNCHANGED <<up, holder, queue, tokens, job, jobs, mail, file, told, bounds>>
  PROVE  IInv'
<1>0. CountInv /\ TokenInv /\ OwnJobs /\ QueueInv /\ InvokedInv /\ StrikesTellTheTruth
      /\ ExecUnderLock /\ ScratchInv /\ JobsTypeOK
  BY DEF IInv, CountInv
<1>1. /\ pc \in [Actors -> {"idle", "asking", "steps", "after", "building", "gone"} \cup InAction]
      /\ r \in Actors
      /\ pc' = [pc EXCEPT ![r] = to]
  BY <1>0 DEF JobsTypeOK, Actors, Goes
<1>2. /\ pc'[r] = to /\ \A q \in Runners \ {r} : pc'[q] = pc[q]
      /\ pc' \in [Actors -> {"idle", "asking", "steps", "after", "building", "gone"} \cup InAction]
  BY <1>1 DEF Actors
<1>3. act' \in [Runners -> 0..tokens] /\ \A q \in Runners \ {r} : act'[q] = act[q]
  BY <1>0 DEF JobsTypeOK
<1>4. JobsTypeOK'
  BY <1>0, <1>2, <1>3 DEF JobsTypeOK, told, bounds
<1>5. TokenInv'
  <2>1. \A q \in Runners : act'[q] \in {act[q], file[q]}
    BY <1>0 DEF JobsTypeOK
  <2>2. pc[r] \notin {"idle", "asking"} /\ to \notin {"idle", "asking"}
    BY DEF InAction, InExec
  <2> QED BY <1>0, <1>2, <1>3, <2>1, <2>2 DEF TokenInv, Knows, Free
<1>6. ExecUnderLock'
  <2>1. to \in InExec => Holds(r) \/ job[r] \in lost
    BY <1>0 DEF TokenInv, Knows, Valid, Holds, ExecUnderLock
  <2> QED BY <1>0, <1>2, <2>1 DEF ExecUnderLock, Holds, Free, told
<1>7. ScratchInv'
  <2>1. ASSUME NEW q \in Runners, q # r
        PROVE  /\ pc'[q] = "spawned" /\ scratch'[q] /\ Valid(act[q])' => act'[q] \in tmp'
               /\ pc'[q] \in InExec /\ scratch'[q] /\ job'[q] \notin lost' => act'[q] \in tmp'
    BY <1>0, <1>2, <1>3, <2>1 DEF ScratchInv, Valid, Free, told
  <2>2. CASE to = "spawned"
    BY <1>0, <1>2, <2>1, <2>2 DEF ScratchInv
  <2>3. CASE to \in InExec
    <3>1. to # "spawned" /\ scratch' = scratch /\ act[r] = act'[r]
      BY <2>3 DEF InExec
    <3>2. scratch[r] /\ job[r] \notin lost => act[r] \in tmp
      BY <1>0, <2>3 DEF ScratchInv
    <3> QED BY <1>2, <2>1, <2>3, <3>1, <3>2 DEF ScratchInv, told
  <2>4. CASE to \notin {"spawned"} \cup InExec
    BY <1>0, <1>2, <2>1, <2>4 DEF ScratchInv
  <2> QED BY <2>2, <2>3, <2>4
<1>8. CountInv' /\ OwnJobs' /\ QueueInv' /\ InvokedInv' /\ StrikesTellTheTruth'
  BY <1>0, <1>4, QuietKeeps DEF told
<1> QED BY <1>4, <1>5, <1>6, <1>7, <1>8 DEF IInv

\* The other steps of a job's processes are walks.
LEMMA ProcessSteps ==
  ASSUME IInv, NEW r \in Runners,
         \/ StepsEnd(r) \/ ReadToken(r) \/ GetConfig(r) \/ Cooled(r)
         \/ Prepare(r) \/ Spawn(r) \/ Validate(r) \/ Joined(r) \/ RunCommand(r)
  PROVE  IInv'
<1>0. /\ act \in [Runners -> 0..tokens] /\ scratch \in [Runners -> BOOLEAN]
      /\ sessions \in SUBSET (1..tokens) /\ tmp \in SUBSET (1..tokens)
      /\ holder \in Grants \cup {NoHolder} /\ tokens \in Nat
      /\ pc[r] \in InAction => act[r] # 0
  BY JobsAssumption DEF IInv, CountInv, TokenInv, JobsTypeOK
<1>1. CASE StepsEnd(r)
  BY <1>0, <1>1, WalkStep DEF StepsEnd, daemon, InAction, InExec
<1>2. CASE ReadToken(r)
  <2>1. PICK to \in {"after", "read"} : Goes(r, to) /\ (to = "read" => file[r] # 0)
    BY <1>2 DEF ReadToken
  <2>2. act'[r] = file[r]
    BY <1>0, <1>2 DEF ReadToken
  <2> QED BY <1>0, <1>2, <2>1, <2>2, WalkStep DEF ReadToken, daemon, InAction, InExec
<1>3. CASE GetConfig(r)
  <2>1. /\ scratch' \in [Runners -> BOOLEAN]
        /\ \A q \in Runners \ {r} : scratch'[q] = scratch[q]
    BY <1>0, <1>3 DEF GetConfig
  <2> QED BY <1>0, <1>3, <2>1, WalkStep DEF GetConfig, daemon, InAction, InExec
<1>4. CASE Cooled(r)
  BY <1>0, <1>4, WalkStep DEF Cooled, daemon, InAction, InExec
<1>5. CASE Prepare(r)
  <2>1. PICK to \in {"after", "ready"} : Goes(r, to)
    BY <1>5 DEF Prepare
  <2>2. Valid(act[r]) => act[r] \in 1..tokens
    BY <1>0 DEF Valid
  <2>3. sessions' \in SUBSET (1..tokens)
    BY <1>0, <1>5, <2>2 DEF Prepare
  <2> QED BY <1>0, <1>5, <2>1, <2>3, WalkStep DEF Prepare, InAction, InExec
<1>6. CASE Spawn(r)
  <2>1. act[r] \in 1..tokens /\ act' = act /\ Goes(r, "spawned")
    BY <1>0, <1>6 DEF IInv, TokenInv, Spawn, InAction, InExec
  <2>2. /\ tmp' \in SUBSET (1..tokens) /\ tmp \subseteq tmp'
        /\ scratch'[r] => act[r] \in tmp'
    BY <1>0, <1>6, <2>1 DEF Spawn
  <2> QED BY <1>0, <1>6, <2>1, <2>2, WalkStep DEF Spawn, daemon, InAction, InExec
<1>7. CASE Validate(r)
  <2>1. PICK to \in {"after", "joining"} :
          Goes(r, to) /\ (to = "joining" => Valid(act[r]))
    BY <1>7 DEF Validate
  <2> QED BY <1>0, <1>7, <2>1, WalkStep DEF Validate, daemon, InAction, InExec
<1>8. CASE Joined(r)
  BY <1>0, <1>8, WalkStep DEF Joined, daemon, InAction, InExec
<1>9. CASE RunCommand(r)
  <2>1. PICK to \in {"running", "after"} : Goes(r, to)
    BY <1>9 DEF RunCommand
  <2> QED BY <1>0, <1>9, <2>1, WalkStep DEF RunCommand, daemon, InAction, InExec
<1> QED BY <1>1, <1>2, <1>3, <1>4, <1>5, <1>6, <1>7, <1>8, <1>9

\* The container dies: its files and what its processes knew are gone.
LEMMA RunnerDiesStep == ASSUME IInv, NEW r \in Runners, RunnerDies(r) PROVE IInv'
<1>0. CountInv /\ TokenInv /\ OwnJobs /\ QueueInv /\ InvokedInv /\ StrikesTellTheTruth
      /\ ExecUnderLock /\ ScratchInv /\ JobsTypeOK
  BY DEF IInv, CountInv
<1>1. /\ pc' = [pc EXCEPT ![r] = "idle"] /\ mail' = [mail EXCEPT ![r] = 0]
      /\ file' = [file EXCEPT ![r] = 0] /\ job' = [job EXCEPT ![r] = 0]
      /\ act' = [act EXCEPT ![r] = 0] /\ scratch' = [scratch EXCEPT ![r] = FALSE]
      /\ deaths < MaxDeaths /\ deaths' = deaths + 1
      /\ UNCHANGED <<daemon, tmp, jobs, told, crashes>>
  BY DEF RunnerDies, Goes, Forgets
<1>2. JobsTypeOK'
  <2>1. deaths' \in 0..MaxDeaths
    BY <1>0, <1>1, JobsAssumption DEF JobsTypeOK
  <2> QED BY <1>0, <1>1, <2>1 DEF JobsTypeOK, Actors, InAction, InExec, daemon, told
<1>3. TokenInv'
  <2>1. \A q \in Runners \ {r} :
          /\ pc'[q] = pc[q] /\ mail'[q] = mail[q] /\ file'[q] = file[q]
          /\ job'[q] = job[q] /\ act'[q] = act[q]
    BY <1>0, <1>1 DEF JobsTypeOK, Actors
  <2>2. pc'[r] = "idle" /\ mail'[r] = 0 /\ file'[r] = 0 /\ job'[r] = 0 /\ act'[r] = 0
    BY <1>0, <1>1 DEF JobsTypeOK, Actors
  <2>3. Free \/ holder.token # 0
    BY <1>0, NoHolderAssumption DEF JobsTypeOK, Free, Grants
  <2>4. UNCHANGED holder
    BY <1>1 DEF daemon
  <2> QED BY <1>0, <2>1, <2>2, <2>3, <2>4 DEF TokenInv, Knows, Free, InAction, InExec
<1>4. ExecUnderLock' /\ ScratchInv'
  BY <1>0, <1>1 DEF InExec, ExecUnderLock, ScratchInv, Holds, Valid, Free, JobsTypeOK, Actors,
     daemon, told
<1>5. \A a \in Actors : job'[a] \in {job[a], 0}
  BY <1>0, <1>1 DEF JobsTypeOK
<1> QED BY <1>0, <1>1, <1>2, <1>3, <1>4, <1>5, QuietKeeps DEF IInv, daemon, told

\* systemd starts the daemon; it knows of nobody.
LEMMA RestartStep == ASSUME IInv, Restart PROVE IInv'
<1>0. CountInv /\ TokenInv /\ OwnJobs /\ QueueInv /\ InvokedInv /\ StrikesTellTheTruth
      /\ ExecUnderLock /\ ScratchInv /\ JobsTypeOK
  BY DEF IInv, CountInv
<1>1. /\ up' = TRUE /\ Free
      /\ UNCHANGED <<holder, queue, tokens, sessions, tmp, pc, job, jobs, mail, file, act,
                     scratch, told, bounds>>
  BY <1>0 DEF Restart, CountInv
<1>2. JobsTypeOK'
  BY <1>0, <1>1 DEF JobsTypeOK, told, bounds
<1>3. CountInv' /\ TokenInv' /\ OwnJobs'
  BY <1>0, <1>1, <1>2 DEF CountInv, TokenInv, Knows, OwnJobs, Free
<1>4. QueueInv' /\ InvokedInv' /\ StrikesTellTheTruth'
  BY <1>0, <1>1 DEF QueueInv, InvokedInv, StrikesTellTheTruth, Free, told
<1>5. ExecUnderLock' /\ ScratchInv'
  BY <1>0, <1>1 DEF ExecUnderLock, ScratchInv, Holds, Valid, Free, told
<1> QED BY <1>3, <1>4, <1>5 DEF IInv

\* The daemon dies and forgets; what ran under its lock is on the list of those
\* that lost it.
LEMMA CrashStep == ASSUME IInv, Crash PROVE IInv'
<1>0. CountInv /\ TokenInv /\ OwnJobs /\ QueueInv /\ InvokedInv /\ StrikesTellTheTruth
      /\ ExecUnderLock /\ ScratchInv /\ JobsTypeOK
  BY DEF IInv, CountInv
<1>1. /\ up' = FALSE /\ holder' = NoHolder /\ queue' = <<>> /\ sessions' = {}
      /\ lost' = lost \cup Overtaken /\ pc' = RejectPending
      /\ crashes < MaxCrashes /\ crashes' = crashes + 1
      /\ UNCHANGED <<tokens, tmp, job, jobs, mail, file, act, scratch,
                     checkedIn, released, struck, deaths>>
  BY DEF Crash
<1>2. /\ pc' \in [Actors -> {"idle", "asking", "steps", "after", "building", "gone"} \cup InAction]
      /\ \A a \in Actors : \/ pc'[a] = pc[a]
                           \/ pc'[a] = "after" /\ (a \in Runners => mail[a] = 0 \/ pc[a] = "joining")
  BY <1>0, <1>1 DEF RejectPending, JobsTypeOK
<1>3. Overtaken \subseteq 1..jobs
  BY <1>0 DEF Overtaken, CountInv, JobsTypeOK, Free
<1>4. JobsTypeOK'
  <2>1. crashes' \in 0..MaxCrashes
    BY <1>0, <1>1, JobsAssumption DEF JobsTypeOK
  <2>2. queue' \in Seq([by : Actors, job : Jobs])
    BY <1>1
  <2>3. lost' \subseteq 1..jobs'
    BY <1>0, <1>1, <1>3 DEF JobsTypeOK
  <2> QED BY <1>0, <1>1, <1>2, <2>1, <2>2, <2>3 DEF JobsTypeOK
<1>5. CountInv'
  <2>1. tokens \in Nat /\ jobs \in Nat /\ Len(queue) \in Nat
    BY <1>0, JobsAssumption DEF JobsTypeOK
  <2>2. tokens + Len(queue) <= jobs
    BY <1>0 DEF CountInv
  <2>3. Len(queue') = 0 /\ Free'
    BY <1>1 DEF Free
  <2>4. tokens' + Len(queue') <= jobs'
    BY <1>1, <2>1, <2>2, <2>3
  <2> QED BY <1>1, <1>4, <2>3, <2>4 DEF CountInv
<1>6. TokenInv'
  BY <1>0, <1>1, <1>2 DEF TokenInv, Knows, Free, Actors, InAction, InExec
<1>7. OwnJobs' /\ QueueInv' /\ InvokedInv' /\ StrikesTellTheTruth'
  BY <1>0, <1>1 DEF OwnJobs, QueueInv, InvokedInv, StrikesTellTheTruth, Free
<1>8. ExecUnderLock' /\ ScratchInv'
  <2>1. ASSUME NEW r \in Runners, pc'[r] \in InExec
        PROVE  pc[r] \in InExec /\ job'[r] \in lost'
    BY <1>0, <1>1, <1>2, <2>1 DEF InExec, ExecUnderLock, Holds, Overtaken, Actors
  <2>2. \A r \in Runners : ~Valid(act[r])'
    BY <1>1 DEF Valid
  <2>3. ExecUnderLock'
    BY <2>1 DEF ExecUnderLock
  <2>4. ScratchInv'
    BY <2>1, <2>2 DEF ScratchInv
  <2> QED BY <2>3, <2>4
<1> QED BY <1>5, <1>6, <1>7, <1>8 DEF IInv

\* A queued request goes with its connection.
LEMMA DisconnectedStep == ASSUME IInv, Disconnected PROVE IInv'
<1>0. CountInv /\ TokenInv /\ OwnJobs /\ QueueInv /\ InvokedInv /\ StrikesTellTheTruth
      /\ ExecUnderLock /\ ScratchInv /\ JobsTypeOK
  BY DEF IInv, CountInv
<1>1. PICK k \in 1..Len(queue) :
        queue' = SubSeq(queue, 1, k - 1) \o SubSeq(queue, k + 1, Len(queue))
  BY DEF Disconnected
<1>2. /\ up
      /\ UNCHANGED <<up, holder, tokens, sessions, tmp, pc, job, jobs, mail, file, act, scratch,
                     told, bounds>>
  BY DEF Disconnected
<1>3. queue \in Seq([by : Actors, job : Jobs])
  BY <1>0 DEF JobsTypeOK
<1>4. /\ queue' \in Seq([by : Actors, job : Jobs]) /\ Len(queue') = Len(queue) - 1
      /\ \A i \in 1..Len(queue') : queue'[i] = queue[IF i < k THEN i ELSE i + 1]
  BY <1>1, <1>3, RemoveAt
<1>5. Len(queue) \in Nat
  BY <1>3
<1>6. JobsTypeOK'
  BY <1>0, <1>2, <1>4 DEF JobsTypeOK, told, bounds
<1>7. CountInv'
  <2>1. /\ tokens \in Nat /\ jobs \in Nat /\ tokens + Len(queue) <= jobs
        /\ ~Free => holder.job \in 1..jobs /\ holder.token = tokens
    BY <1>0, JobsAssumption DEF CountInv, JobsTypeOK
  <2>2. tokens + Len(queue') <= jobs
    BY <1>4, <1>5, <2>1
  <2>3. ASSUME NEW i \in 1..Len(queue') PROVE queue'[i].job \in 1..jobs
    <3>1. (IF i < k THEN i ELSE i + 1) \in 1..Len(queue)
      BY <1>4, <1>5
    <3> QED BY <1>0, <1>4, <3>1 DEF CountInv
  <2> QED BY <1>2, <1>6, <2>1, <2>2, <2>3 DEF CountInv, Free
<1>8. QueueInv'
  <2>1. \A i \in 1..Len(queue') :
          /\ queue'[i].job \notin checkedIn \cup released
          /\ ~Free => queue'[i].job # holder.job
    BY <1>0, <1>4, <1>5 DEF QueueInv
  <2>2. ASSUME NEW i \in 1..Len(queue'), NEW j \in 1..Len(queue'),
               queue'[i].job = queue'[j].job
        PROVE  i = j
    <3> DEFINE I == IF i < k THEN i ELSE i + 1
               J == IF j < k THEN j ELSE j + 1
    <3>1. I \in 1..Len(queue) /\ J \in 1..Len(queue) /\ queue[I].job = queue[J].job
      BY <1>4, <1>5, <2>2
    <3>2. I = J
      BY <1>0, <3>1 DEF QueueInv
    <3> QED BY <3>2
  <2> QED BY <1>2, <2>1, <2>2 DEF QueueInv, Free, told
<1>9. TokenInv' /\ OwnJobs' /\ InvokedInv' /\ StrikesTellTheTruth'
  BY <1>0, <1>2 DEF TokenInv, Knows, OwnJobs, InvokedInv, StrikesTellTheTruth, Free, told
<1>10. ExecUnderLock' /\ ScratchInv'
  BY <1>0, <1>2 DEF ExecUnderLock, ScratchInv, Holds, Valid, Free, told
<1> QED BY <1>7, <1>8, <1>9, <1>10 DEF IInv

-----------------------------------------------------------------------------
(* The check-in, and steps that ask for the lock.                          *)

\* The action checks in its own job: the token it has is the grant's.
LEMMA CheckInStep == ASSUME IInv, NEW r \in Runners, CheckIn(r) PROVE IInv'
<1>0. CountInv /\ TokenInv /\ OwnJobs /\ QueueInv /\ InvokedInv /\ StrikesTellTheTruth
      /\ ExecUnderLock /\ ScratchInv /\ JobsTypeOK
  BY DEF IInv, CountInv
<1>1. CASE ~Valid(act[r])
  <2>1. act \in [Runners -> 0..tokens] /\ act[r] # 0
    BY <1>0 DEF JobsTypeOK, TokenInv, CheckIn, InAction, InExec
  <2>2. /\ pc[r] = "read" /\ Goes(r, "after")
        /\ UNCHANGED <<up, holder, queue, tokens, sessions, tmp, job, jobs, mail, file, act,
                       scratch, told, bounds>>
    BY <1>1 DEF CheckIn, told
  <2> QED BY <1>0, <2>1, <2>2, WalkStep DEF InAction, InExec, JobsTypeOK
<1>2. CASE Valid(act[r])
  <2>1. /\ pc[r] = "read" /\ pc' = [pc EXCEPT ![r] = "checked"]
        /\ holder' = [holder EXCEPT !.invoked = TRUE]
        /\ checkedIn' = checkedIn \cup {job[r]}
        /\ UNCHANGED <<up, queue, tokens, sessions, tmp, job, jobs, mail, file, act, scratch,
                       released, struck, lost, bounds>>
    BY <1>2 DEF CheckIn, Goes
  <2>2. up /\ ~Free /\ holder.by = r /\ holder.job = job[r] /\ holder \in Grants
    BY <1>0, <1>2 DEF Valid, TokenInv, Knows, JobsTypeOK, Free
  <2>3. /\ holder' \in Grants /\ holder'.by = holder.by /\ holder'.job = holder.job
        /\ holder'.token = holder.token /\ holder'.invoked
    BY <2>1, <2>2 DEF Grants
  <2>4. ~Free'
    BY <2>3, NoHolderAssumption DEF Free
  <2>5. JobsTypeOK'
    <3>1. checkedIn' \subseteq 1..jobs
      BY <1>0, <2>1, <2>2 DEF JobsTypeOK, CountInv
    <3> QED BY <1>0, <2>1, <2>3, <3>1 DEF JobsTypeOK, Actors, InAction, InExec, bounds
  <2>6. CountInv'
    BY <1>0, <2>1, <2>2, <2>3, <2>5 DEF CountInv
  <2>7. TokenInv' /\ OwnJobs'
    BY <1>0, <2>1, <2>2, <2>3 DEF TokenInv, Knows, OwnJobs, JobsTypeOK, Actors, InAction, InExec
  <2>8. QueueInv'
    <3>1. \A k \in 1..Len(queue) : queue[k].job # job[r]
      BY <1>0, <2>2 DEF QueueInv
    <3> QED BY <1>0, <2>1, <2>2, <2>3, <3>1 DEF QueueInv
  <2>9. InvokedInv' /\ StrikesTellTheTruth'
    <3>1. job[r] \notin released
      BY <1>0, <2>2 DEF InvokedInv
    <3> QED BY <1>0, <2>1, <2>2, <2>3, <3>1 DEF InvokedInv, StrikesTellTheTruth
  <2>10. ExecUnderLock' /\ ScratchInv'
    BY <1>0, <2>1, <2>2, <2>3, <2>4
       DEF InExec, ExecUnderLock, ScratchInv, Holds, Valid, JobsTypeOK, Actors
  <2> QED BY <2>6, <2>7, <2>8, <2>9, <2>10 DEF IInv
<1> QED BY <1>1, <1>2

\* A new job asks: it is granted a free lock, or is the last in the queue.
LEMMA AcquireKeeps ==
  ASSUME IInv, NEW a \in Actors, NEW to, to \in {"asking", "building", "gone"},
         pc[a] \in {"idle", "gone"}, a \in Runners => pc[a] = "idle" /\ to = "asking",
         up, Goes(a, to), Acquire(a),
         UNCHANGED <<up, sessions, tmp, file, act, scratch, told, bounds>>
  PROVE  IInv'
<1>0. CountInv /\ TokenInv /\ OwnJobs /\ QueueInv /\ InvokedInv /\ StrikesTellTheTruth
      /\ ExecUnderLock /\ ScratchInv /\ JobsTypeOK
  BY DEF IInv, CountInv
<1>1. /\ tokens \in Nat /\ jobs \in Nat /\ jobs < MaxJobs /\ MaxJobs \in Nat
      /\ Len(queue) \in Nat /\ tokens + Len(queue) <= jobs
      /\ queue \in Seq([by : Actors, job : Jobs])
      /\ checkedIn \subseteq 1..jobs /\ released \subseteq 1..jobs
  BY <1>0, JobsAssumption DEF CountInv, JobsTypeOK, Acquire
<1>2. /\ jobs' = jobs + 1 /\ jobs + 1 \in Jobs
      /\ job' = [job EXCEPT ![a] = jobs + 1] /\ pc' = [pc EXCEPT ![a] = to]
  BY <1>1 DEF Acquire, Goes, Jobs
<1>3. /\ job' \in [Actors -> 0..jobs'] /\ job'[a] = jobs + 1
      /\ \A b \in Actors \ {a} : job'[b] = job[b] /\ job[b] \in 0..jobs /\ pc'[b] = pc[b]
      /\ pc'[a] = to
      /\ pc' \in [Actors -> {"idle", "asking", "steps", "after", "building", "gone"} \cup InAction]
  BY <1>0, <1>1, <1>2 DEF JobsTypeOK
<1>4. OwnJobs'
  BY <1>0, <1>1, <1>3 DEF OwnJobs
<1>5. /\ \A r \in Runners : r # a => r \in Actors \ {a}
      /\ \A r \in Runners : pc'[r] \in InExec \/ pc'[r] = "spawned" =>
           r # a /\ pc'[r] = pc[r] /\ job'[r] = job[r]
      /\ \A r \in Runners : pc'[r] \in InAction => r # a /\ pc'[r] = pc[r]
      /\ \A r \in Runners : pc'[r] = "idle" => r # a /\ pc'[r] = pc[r] /\ job'[r] = job[r]
      /\ a \in Runners => job[a] = 0 /\ mail[a] = 0 /\ act[a] = 0
  BY <1>0, <1>3 DEF Actors, InAction, InExec, TokenInv
<1>6. CASE Free /\ Grant([by |-> a, job |-> jobs + 1], TRUE) /\ UNCHANGED queue
  <2>1. Granted(a, jobs + 1)
    <3>1. tokens < MaxJobs
      BY <1>1
    <3>2. PICK waits \in BOOLEAN : Grant([by |-> a, job |-> jobs + 1], waits)
      BY <1>6, Zenon
    <3> QED BY <1>0, <1>2, <3>1, <3>2, GrantTypes
  <2>2. /\ tokens' = tokens + 1 /\ holder' \in Grants /\ ~Free'
        /\ holder'.by = a /\ holder'.job = jobs + 1 /\ holder'.token = tokens + 1
        /\ holder'.invoked = FALSE
        /\ mail' \in [Runners -> 0..tokens']
        /\ \A r \in Runners : mail'[r] # mail[r] => r = a /\ mail'[r] = tokens + 1
    BY <2>1 DEF Granted, Free
  <2>3. /\ file \in [Runners -> 0..tokens] /\ act \in [Runners -> 0..tokens]
        /\ mail \in [Runners -> 0..tokens]
    BY <1>0 DEF JobsTypeOK
  <2>4. JobsTypeOK'
    <3>1. /\ sessions' \subseteq 1..tokens' /\ tmp' \subseteq 1..tokens'
          /\ file' \in [Runners -> 0..tokens'] /\ act' \in [Runners -> 0..tokens']
      BY <1>0, <1>1, <2>2, <2>3 DEF JobsTypeOK
    <3>2. /\ tokens' \in 0..MaxJobs /\ jobs' \in 0..MaxJobs
          /\ checkedIn' \subseteq 1..jobs' /\ released' \subseteq 1..jobs'
          /\ struck' \subseteq 1..jobs' /\ lost' \subseteq 1..jobs'
      BY <1>0, <1>1, <1>2, <2>2 DEF JobsTypeOK, told
    <3> QED BY <1>0, <1>3, <1>6, <2>2, <3>1, <3>2 DEF JobsTypeOK, bounds
  <2>5. CountInv'
    BY <1>0, <1>1, <1>2, <1>6, <2>2, <2>4 DEF CountInv
  <2>6. TokenInv'
    <3>1. ASSUME NEW r \in Runners
          PROVE  /\ Knows(r, mail[r])' /\ Knows(r, file[r])' /\ Knows(r, act[r])'
                 /\ mail'[r] # 0 => pc'[r] = "asking"
                 /\ pc'[r] = "idle" => job'[r] = 0 /\ mail'[r] = 0 /\ act'[r] = 0
                 /\ pc'[r] \in InAction => act'[r] # 0
      <4>1. file[r] # tokens + 1 /\ act[r] # tokens + 1 /\ mail[r] # tokens + 1
        BY <1>1, <2>3
      <4>2. CASE r = a
        BY <1>3, <1>5, <2>2, <4>1, <4>2 DEF Knows, InAction, InExec
      <4>3. CASE r # a
        BY <1>0, <1>3, <1>5, <2>2, <4>1, <4>3 DEF TokenInv, Knows
      <4> QED BY <4>2, <4>3
    <3> QED BY <3>1 DEF TokenInv
  <2>7. QueueInv'
    BY <1>0, <1>1, <1>6, <2>2 DEF QueueInv, CountInv, told
  <2>8. InvokedInv' /\ StrikesTellTheTruth'
    BY <1>0, <1>1, <2>2 DEF InvokedInv, StrikesTellTheTruth, told
  <2>9. ExecUnderLock' /\ ScratchInv'
    <3>1. \A r \in Runners : ~Valid(act[r])'
      BY <1>1, <2>2, <2>3 DEF Valid
    <3> QED BY <1>0, <1>5, <1>6, <3>1 DEF ExecUnderLock, ScratchInv, Holds, told
  <2> QED BY <1>4, <2>5, <2>6, <2>7, <2>8, <2>9 DEF IInv
<1>7. CASE /\ ~Free /\ queue' = Append(queue, [by |-> a, job |-> jobs + 1])
           /\ UNCHANGED <<holder, tokens, mail>>
  <2>1. /\ queue' \in Seq([by : Actors, job : Jobs]) /\ Len(queue') = Len(queue) + 1
        /\ \A k \in 1..Len(queue) : queue'[k] = queue[k]
        /\ queue'[Len(queue) + 1].job = jobs + 1
    <3>1. [by |-> a, job |-> jobs + 1] \in [by : Actors, job : Jobs]
      BY <1>2
    <3>2. PICK e \in [by : Actors, job : Jobs] : e = [by |-> a, job |-> jobs + 1]
      BY <3>1
    <3> QED BY <1>1, <1>7, <3>2
  <2>2. JobsTypeOK'
    <3>1. /\ jobs' \in 0..MaxJobs
          /\ checkedIn' \subseteq 1..jobs' /\ released' \subseteq 1..jobs'
          /\ struck' \subseteq 1..jobs' /\ lost' \subseteq 1..jobs'
      BY <1>0, <1>1, <1>2 DEF JobsTypeOK, told
    <3> QED BY <1>0, <1>3, <1>7, <2>1, <3>1 DEF JobsTypeOK, bounds
  <2>3. \A k \in 1..Len(queue') :
          \/ k \in 1..Len(queue) /\ queue'[k] = queue[k] /\ queue[k].job \in 1..jobs
          \/ k = Len(queue) + 1 /\ queue'[k].job = jobs + 1
    BY <1>0, <1>1, <2>1 DEF CountInv
  <2>4. holder.job \in 1..jobs /\ holder.token = tokens /\ ~Free'
    BY <1>0, <1>7 DEF CountInv, Free
  <2>5. CountInv'
    BY <1>0, <1>1, <1>2, <1>7, <2>1, <2>2, <2>3, <2>4 DEF CountInv
  <2>6. QueueInv'
    <3>1. \A k \in 1..Len(queue') :
            queue'[k].job \notin checkedIn \cup released /\ queue'[k].job # holder.job
      BY <1>0, <1>1, <1>7, <2>3, <2>4 DEF QueueInv
    <3>2. \A k, l \in 1..Len(queue') : queue'[k].job = queue'[l].job => k = l
      BY <1>0, <1>1, <2>3 DEF QueueInv
    <3> QED BY <1>7, <3>1, <3>2 DEF QueueInv, told
  <2>7. TokenInv'
    <3>1. ASSUME NEW r \in Runners
          PROVE  /\ Knows(r, mail[r])' /\ Knows(r, file[r])' /\ Knows(r, act[r])'
                 /\ mail'[r] # 0 => pc'[r] = "asking"
                 /\ pc'[r] = "idle" => job'[r] = 0 /\ mail'[r] = 0 /\ act'[r] = 0
                 /\ pc'[r] \in InAction => act'[r] # 0
      <4>1. CASE r = a
        <5>1. holder.token # 0 /\ holder.job # 0
          BY <1>0, <1>7 DEF JobsTypeOK, Free, Grants, Jobs
        <5>2. ~Free /\ holder.token = file[r] => FALSE
          BY <1>0, <1>5, <4>1, <5>1 DEF TokenInv, Knows
        <5> QED BY <1>3, <1>5, <1>7, <4>1, <5>1, <5>2 DEF Knows, Free, InAction, InExec
      <4>2. CASE r # a
        BY <1>0, <1>3, <1>5, <1>7, <4>2 DEF TokenInv, Knows, Free
      <4> QED BY <4>1, <4>2
    <3> QED BY <3>1 DEF TokenInv
  <2>8. InvokedInv' /\ StrikesTellTheTruth'
    BY <1>0, <1>7 DEF InvokedInv, StrikesTellTheTruth, Free, told
  <2>9. ExecUnderLock' /\ ScratchInv'
    BY <1>0, <1>5, <1>7 DEF ExecUnderLock, ScratchInv, Holds, Valid, Free, told
  <2> QED BY <1>4, <2>5, <2>6, <2>7, <2>8, <2>9 DEF IInv
<1> QED BY <1>6, <1>7 DEF Acquire

\* job-started asks for the lock, or fails with its job where nobody answers.
LEMMA AskLockStep == ASSUME IInv, NEW r \in Runners, AskLock(r) PROVE IInv'
<1>0. CountInv /\ TokenInv /\ OwnJobs /\ QueueInv /\ InvokedInv /\ StrikesTellTheTruth
      /\ ExecUnderLock /\ ScratchInv /\ JobsTypeOK
  BY DEF IInv, CountInv
<1>1. CASE up
  BY <1>1, AcquireKeeps DEF AskLock, Actors
<1>2. CASE ~up
  <2>1. /\ pc[r] = "idle" /\ jobs < MaxJobs
        /\ jobs' = jobs + 1 /\ job' = [job EXCEPT ![r] = jobs + 1]
        /\ pc' = [pc EXCEPT ![r] = "after"]
        /\ UNCHANGED <<up, holder, queue, tokens, mail, sessions, tmp, file, act, scratch,
                       told, bounds>>
    BY <1>2 DEF AskLock, Goes
  <2>2. Free /\ queue = <<>> /\ tokens \in Nat /\ jobs \in Nat /\ MaxJobs \in Nat
    BY <1>0, <1>2, JobsAssumption DEF CountInv, JobsTypeOK
  <2>3. /\ job' \in [Actors -> 0..jobs'] /\ job'[r] = jobs + 1 /\ pc'[r] = "after"
        /\ \A b \in Actors \ {r} : job'[b] = job[b] /\ job[b] \in 0..jobs /\ pc'[b] = pc[b]
        /\ pc' \in [Actors -> {"idle", "asking", "steps", "after", "building", "gone"} \cup InAction]
    BY <1>0, <2>1, <2>2 DEF JobsTypeOK, Actors
  <2>4. JobsTypeOK'
    <3>1. /\ jobs' \in 0..MaxJobs
          /\ checkedIn' \subseteq 1..jobs' /\ released' \subseteq 1..jobs'
          /\ struck' \subseteq 1..jobs' /\ lost' \subseteq 1..jobs'
      BY <1>0, <2>1, <2>2 DEF JobsTypeOK, told
    <3> QED BY <1>0, <2>1, <2>3, <3>1 DEF JobsTypeOK, bounds
  <2>5. CountInv'
    BY <1>0, <2>1, <2>2, <2>4 DEF CountInv, Free
  <2>6. TokenInv'
    BY <1>0, <2>1, <2>2, <2>3 DEF TokenInv, Knows, Free, Actors, InAction, InExec
  <2>7. OwnJobs'
    BY <1>0, <2>2, <2>3 DEF OwnJobs
  <2>8. QueueInv' /\ InvokedInv' /\ StrikesTellTheTruth'
    BY <1>0, <2>1, <2>2 DEF QueueInv, InvokedInv, StrikesTellTheTruth, Free, told
  <2>9. ExecUnderLock' /\ ScratchInv'
    BY <1>0, <2>1, <2>2, <2>3
       DEF InExec, ExecUnderLock, ScratchInv, Holds, Valid, Free, Actors, told
  <2> QED BY <2>5, <2>6, <2>7, <2>8, <2>9 DEF IInv
<1> QED BY <1>1, <1>2

\* The update script asks.
LEMMA ScriptAsksStep == ASSUME IInv, ScriptAsks PROVE IInv'
<1>1. PICK to \in {"building", "gone"} : Goes(Script, to)
  BY DEF ScriptAsks
<1> QED BY <1>1, AcquireKeeps, JobsAssumption DEF ScriptAsks, Actors

-----------------------------------------------------------------------------
(* The end of a grant.                                                     *)

\* Whatever ends a grant: the next in the queue is granted with a token nobody
\* has seen, and nobody else learns it.
LEMMA EndKeeps ==
  ASSUME IInv, up, ~Free, GrantNext,
         UNCHANGED <<up, sessions, jobs, checkedIn, bounds>>, tmp' = {},
         \/ UNCHANGED <<released, struck>>
         \/ /\ released' = released \cup {holder.job}
            /\ struck' = IF holder.invoked THEN struck ELSE struck \cup {holder.job},
         lost' \in SUBSET (1..jobs), lost \subseteq lost',
         scratch' \in [Runners -> BOOLEAN],
         file' \in [Runners -> 0..tokens], act' \in [Runners -> 0..tokens],
         pc' \in [Actors -> {"idle", "asking", "steps", "after", "building", "gone"} \cup InAction],
         job' \in [Actors -> 0..jobs], \A a \in Actors : job'[a] \in {job[a], 0},
         \A r \in Runners :
           /\ pc[r] = "asking" => pc'[r] = "asking" /\ job'[r] = job[r]
           /\ pc'[r] = "idle" => job'[r] = 0 /\ act'[r] = 0 /\ pc[r] # "asking"
           /\ pc'[r] \in InAction => pc'[r] = pc[r] /\ act'[r] = act[r]
           /\ pc'[r] \in InExec => job'[r] \in lost'
  PROVE  IInv'
<1>0. CountInv /\ TokenInv /\ OwnJobs /\ QueueInv /\ InvokedInv /\ StrikesTellTheTruth
      /\ ExecUnderLock /\ ScratchInv /\ JobsTypeOK
  BY DEF IInv, CountInv
<1>1. /\ queue' \in Seq([by : Actors, job : Jobs])
      /\ tokens' \in Nat /\ tokens <= tokens' /\ tokens' + Len(queue') <= jobs
      /\ mail' \in [Runners -> 0..tokens']
      /\ \A k \in 1..Len(queue') : \E l \in 1..Len(queue) : queue'[k] = queue[l]
      /\ \A k, l \in 1..Len(queue') : queue'[k].job = queue'[l].job => k = l
  BY <1>0, GrantNextDoes
<1>2. \/ holder' = NoHolder /\ mail' = mail
      \/ \E l \in 1..Len(queue) :
           /\ Granted(queue[l].by, queue[l].job)
           /\ \A k \in 1..Len(queue') : queue'[k].job # queue[l].job
           /\ \A r \in Runners : mail'[r] # mail[r] => pc[r] = "asking" /\ job[r] = queue[l].job
  BY <1>0, GrantNextDoes
<1>3. /\ tokens \in Nat /\ jobs \in Nat /\ jobs <= MaxJobs /\ MaxJobs \in Nat
      /\ holder.job \in 1..jobs /\ Len(queue') \in Nat
      /\ mail \in [Runners -> 0..tokens]
      /\ released \subseteq 1..jobs /\ struck \subseteq 1..jobs
  BY <1>0, <1>1, JobsAssumption DEF CountInv, JobsTypeOK
<1>4. /\ released' \subseteq released \cup {holder.job}
      /\ released' \subseteq 1..jobs /\ struck' \subseteq 1..jobs
  BY <1>3
<1>5. \A l \in 1..Len(queue) :
        queue[l].job \in 1..jobs /\ queue[l].job \notin checkedIn \cup released'
  BY <1>0, <1>4 DEF CountInv, QueueInv
<1>6. \/ holder' = NoHolder /\ mail' = mail
      \/ /\ tokens' = tokens + 1
         /\ holder' \in Grants /\ holder'.token = tokens' /\ holder'.invoked = FALSE
         /\ holder'.job \in 1..jobs /\ holder'.job \notin checkedIn \cup released'
         /\ \A k \in 1..Len(queue') : queue'[k].job # holder'.job
         /\ \A r \in Runners : mail'[r] # mail[r] =>
              /\ mail'[r] = tokens' /\ holder'.by = r
              /\ pc[r] = "asking" /\ job[r] = holder'.job
  BY <1>2, <1>5 DEF Granted
<1>7. JobsTypeOK'
  <2>1. holder' \in Grants \cup {NoHolder}
    BY <1>6
  <2>2. /\ tokens' \in 0..MaxJobs /\ sessions' \subseteq 1..tokens' /\ tmp' \subseteq 1..tokens'
        /\ file' \in [Runners -> 0..tokens'] /\ act' \in [Runners -> 0..tokens']
    BY <1>0, <1>1, <1>3 DEF JobsTypeOK
  <2> QED BY <1>0, <1>1, <1>3, <1>4, <2>1, <2>2 DEF JobsTypeOK, bounds
<1>8. CountInv'
  <2>1. \A k \in 1..Len(queue') : queue'[k].job \in 1..jobs
    BY <1>1, <1>5
  <2> QED BY <1>1, <1>6, <1>7, <2>1 DEF CountInv, Free
<1>9. TokenInv'
  <2>1. ASSUME NEW r \in Runners
        PROVE  /\ Knows(r, mail[r])' /\ Knows(r, file[r])' /\ Knows(r, act[r])'
               /\ mail'[r] # 0 => pc'[r] = "asking"
               /\ pc'[r] = "idle" => job'[r] = 0 /\ mail'[r] = 0 /\ act'[r] = 0
               /\ pc'[r] \in InAction => act'[r] # 0
    <3>1. file'[r] # tokens + 1 /\ act'[r] # tokens + 1 /\ mail[r] # tokens + 1
      BY <1>3
    <3>2. mail[r] # 0 => pc[r] = "asking"
      BY <1>0 DEF TokenInv
    <3>3. mail'[r] # 0 => pc[r] = "asking"
      BY <1>6, <3>2
    <3>4. Knows(r, mail[r])' /\ Knows(r, file[r])' /\ Knows(r, act[r])'
      BY <1>6, <3>1 DEF Knows, Free
    <3>5. pc'[r] \in InAction => act'[r] # 0
      BY <1>0 DEF TokenInv
    <3> QED BY <3>3, <3>4, <3>5
  <2> QED BY <2>1 DEF TokenInv
<1>10. OwnJobs'
  BY <1>0 DEF OwnJobs
<1>11. QueueInv'
  <2>1. \A k \in 1..Len(queue') : queue'[k].job \notin checkedIn \cup released'
    BY <1>1, <1>5
  <2> QED BY <1>1, <1>6, <2>1 DEF QueueInv, Free
<1>12. InvokedInv' /\ StrikesTellTheTruth'
  <2>1. InvokedInv'
    BY <1>6 DEF InvokedInv, Free
  <2>2. holder.invoked <=> holder.job \in checkedIn
    BY <1>0 DEF InvokedInv
  <2>3. struck' = released' \ checkedIn
    <3>1. CASE UNCHANGED <<released, struck>>
      BY <1>0, <3>1 DEF StrikesTellTheTruth
    <3>2. CASE /\ released' = released \cup {holder.job} /\ holder.invoked
               /\ struck' = struck
      BY <1>0, <2>2, <3>2 DEF StrikesTellTheTruth
    <3>3. CASE /\ released' = released \cup {holder.job} /\ ~holder.invoked
               /\ struck' = struck \cup {holder.job}
      BY <1>0, <2>2, <3>3 DEF StrikesTellTheTruth
    <3> QED BY <3>1, <3>2, <3>3
  <2> QED BY <2>1, <2>3 DEF StrikesTellTheTruth
<1>13. ExecUnderLock'
  BY DEF ExecUnderLock
<1>14. ScratchInv'
  <2>1. \A r \in Runners : ~Valid(act[r])'
    BY <1>3, <1>6 DEF Valid, Free
  <2> QED BY <2>1 DEF ScratchInv
<1> QED BY <1>8, <1>9, <1>10, <1>11, <1>12, <1>13, <1>14 DEF IInv

\* The timer ends the grant and writes down whose command ran.
LEMMA TimeoutStep == ASSUME IInv, Timeout PROVE IInv'
<1>0. CountInv /\ ExecUnderLock /\ TokenInv /\ JobsTypeOK
  BY DEF IInv, CountInv
<1>1. PICK killed \in SUBSET {r \in Runners : pc[r] \in InExec} :
        pc' = [a \in Actors |-> IF a \in killed THEN "after" ELSE pc[a]]
  BY DEF Timeout
<1>2. /\ up /\ ~Free /\ lost' = lost \cup Overtaken /\ tmp' = {} /\ GrantNext
      /\ UNCHANGED <<up, sessions, job, jobs, file, act, scratch, checkedIn, released, struck, bounds>>
  BY DEF Timeout
<1>3. /\ pc' \in [Actors -> {"idle", "asking", "steps", "after", "building", "gone"} \cup InAction]
      /\ \A r \in Runners : pc'[r] # pc[r] => pc[r] \in InExec /\ pc'[r] = "after"
  BY <1>0, <1>1 DEF JobsTypeOK, Actors
<1>4. lost' \in SUBSET (1..jobs) /\ lost \subseteq lost'
  BY <1>0, <1>2 DEF Overtaken, CountInv, JobsTypeOK
<1>5. \A r \in Runners : pc'[r] \in InExec => job'[r] \in lost'
  BY <1>0, <1>2, <1>3 DEF ExecUnderLock, Holds, Overtaken
<1>6. /\ scratch' \in [Runners -> BOOLEAN] /\ job' \in [Actors -> 0..jobs]
      /\ file' \in [Runners -> 0..tokens] /\ act' \in [Runners -> 0..tokens]
      /\ \A a \in Actors : job'[a] \in {job[a], 0}
  BY <1>0, <1>2 DEF JobsTypeOK
<1>7. \A r \in Runners :
        /\ pc[r] = "asking" => pc'[r] = "asking" /\ job'[r] = job[r]
        /\ pc'[r] = "idle" => job'[r] = 0 /\ act'[r] = 0 /\ pc[r] # "asking"
        /\ pc'[r] \in InAction => pc'[r] = pc[r] /\ act'[r] = act[r]
  BY <1>0, <1>2, <1>3 DEF TokenInv, InAction, InExec
<1> QED BY <1>2, <1>3, <1>4, <1>5, <1>6, <1>7, EndKeeps

\* The last hook releases with the token of the file, or leaves the file.
LEMMA JobCompletedStep == ASSUME IInv, NEW r \in Runners, JobCompleted(r) PROVE IInv'
<1>0. CountInv /\ TokenInv /\ OwnJobs /\ QueueInv /\ InvokedInv /\ StrikesTellTheTruth
      /\ ExecUnderLock /\ ScratchInv /\ JobsTypeOK
  BY DEF IInv, CountInv
<1>1. /\ pc[r] = "after" /\ pc' = [pc EXCEPT ![r] = "idle"]
      /\ job' = [job EXCEPT ![r] = 0] /\ act' = [act EXCEPT ![r] = 0]
      /\ scratch' = [scratch EXCEPT ![r] = FALSE]
      /\ UNCHANGED <<up, sessions, jobs, checkedIn, lost, bounds>>
  BY DEF JobCompleted, Goes, Forgets
<1>2. /\ pc' \in [Actors -> {"idle", "asking", "steps", "after", "building", "gone"} \cup InAction]
      /\ job' \in [Actors -> 0..jobs] /\ act' \in [Runners -> 0..tokens]
      /\ scratch' \in [Runners -> BOOLEAN]
      /\ pc'[r] = "idle" /\ job'[r] = 0 /\ act'[r] = 0 /\ scratch'[r] = FALSE
      /\ \A q \in Runners \ {r} : /\ pc'[q] = pc[q] /\ job'[q] = job[q]
                                  /\ act'[q] = act[q] /\ scratch'[q] = scratch[q]
      /\ \A a \in Actors : job'[a] \in {job[a], 0}
  <2>1. 0 \in 0..jobs /\ 0 \in 0..tokens
    BY <1>0, JobsAssumption DEF JobsTypeOK
  <2> QED BY <1>0, <1>1, <2>1 DEF JobsTypeOK, Actors, InAction, InExec
<1>3. CASE Valid(file[r])
  <2>1. /\ Release /\ file' = [file EXCEPT ![r] = 0]
        /\ up /\ ~Free /\ holder.by = r /\ holder.job = job[r]
    BY <1>0, <1>3 DEF JobCompleted, Valid, TokenInv, Knows
  <2>2. file' \in [Runners -> 0..tokens] /\ lost' \in SUBSET (1..jobs) /\ lost \subseteq lost'
    BY <1>0, <1>1, <2>1, JobsAssumption DEF JobsTypeOK
  <2>3. \A q \in Runners : pc'[q] \in InExec => job'[q] \in lost'
    BY <1>0, <1>1, <1>2, <2>1 DEF InExec, ExecUnderLock, Holds
  <2>4. \A q \in Runners :
          /\ pc[q] = "asking" => pc'[q] = "asking" /\ job'[q] = job[q]
          /\ pc'[q] = "idle" => job'[q] = 0 /\ act'[q] = 0 /\ pc[q] # "asking"
          /\ pc'[q] \in InAction => pc'[q] = pc[q] /\ act'[q] = act[q]
    BY <1>0, <1>1, <1>2 DEF TokenInv, InAction, InExec
  <2> QED BY <1>1, <1>2, <2>1, <2>2, <2>3, <2>4, EndKeeps DEF Release
<1>4. CASE ~Valid(file[r])
  <2>1. UNCHANGED <<holder, queue, tokens, mail, tmp, released, struck, file>>
    BY <1>4 DEF JobCompleted
  <2>2. JobsTypeOK'
    BY <1>0, <1>1, <1>2, <2>1 DEF JobsTypeOK, bounds
  <2>3. TokenInv'
    <3>1. Free \/ holder.token # file[r]
      BY <1>0, <1>4, NoHolderAssumption
         DEF Valid, CountInv, JobsTypeOK, Grants, Free
    <3>2. Free \/ holder.token # 0
      BY <1>0 DEF JobsTypeOK, Grants, Free
    <3>3. mail[r] = 0
      BY <1>0, <1>1 DEF TokenInv
    <3> QED BY <1>0, <1>2, <2>1, <3>1, <3>2, <3>3 DEF TokenInv, Knows, Free, InAction, InExec
  <2>4. ExecUnderLock' /\ ScratchInv'
    BY <1>0, <1>1, <1>2, <2>1 DEF InExec, ExecUnderLock, ScratchInv, Holds, Valid, Free
  <2> QED BY <1>0, <1>1, <1>2, <2>1, <2>2, <2>3, <2>4, QuietKeeps DEF IInv
<1> QED BY <1>3, <1>4

\* The script gives its grant back, if it still has it.
LEMMA ScriptEndsStep == ASSUME IInv, ScriptEnds PROVE IInv'
<1>0. CountInv /\ TokenInv /\ OwnJobs /\ QueueInv /\ InvokedInv /\ StrikesTellTheTruth
      /\ ExecUnderLock /\ ScratchInv /\ JobsTypeOK
  BY DEF IInv, CountInv
<1>1. /\ pc' = [pc EXCEPT ![Script] = "idle"]
      /\ UNCHANGED <<up, sessions, job, jobs, file, act, scratch, checkedIn, lost, bounds>>
  BY DEF ScriptEnds, Goes
<1>2. /\ pc' \in [Actors -> {"idle", "asking", "steps", "after", "building", "gone"} \cup InAction]
      /\ \A r \in Runners : pc'[r] = pc[r]
  BY <1>0, <1>1, JobsAssumption DEF JobsTypeOK, Actors
<1>3. CASE up /\ ~Free /\ holder.job = job[Script]
  <2>1. Release
    BY <1>3 DEF ScriptEnds
  <2>2. /\ lost' \in SUBSET (1..jobs) /\ lost \subseteq lost'
        /\ scratch' \in [Runners -> BOOLEAN] /\ job' \in [Actors -> 0..jobs]
        /\ file' \in [Runners -> 0..tokens] /\ act' \in [Runners -> 0..tokens]
        /\ \A a \in Actors : job'[a] \in {job[a], 0}
    BY <1>0, <1>1 DEF JobsTypeOK
  <2>3. \A r \in Runners : pc'[r] \in InExec => job'[r] \in lost'
    <3>1. ASSUME NEW r \in Runners, Holds(r) PROVE FALSE
      <4>1. job[r] = job[Script] /\ job[r] # 0 /\ r \in Actors /\ Script \in Actors
        BY <1>0, <1>3, <3>1 DEF Holds, CountInv, JobsTypeOK, Actors
      <4>2. r = Script
        BY <1>0, <4>1 DEF OwnJobs
      <4> QED BY <4>2, JobsAssumption
    <3> QED BY <1>0, <1>1, <1>2, <3>1 DEF ExecUnderLock
  <2>4. \A r \in Runners :
          /\ pc[r] = "asking" => pc'[r] = "asking" /\ job'[r] = job[r]
          /\ pc'[r] = "idle" => job'[r] = 0 /\ act'[r] = 0 /\ pc[r] # "asking"
          /\ pc'[r] \in InAction => pc'[r] = pc[r] /\ act'[r] = act[r]
    BY <1>0, <1>1, <1>2 DEF TokenInv
  <2> QED BY <1>1, <1>2, <1>3, <2>1, <2>2, <2>3, <2>4, EndKeeps DEF Release
<1>4. CASE ~(up /\ ~Free /\ holder.job = job[Script])
  <2>1. UNCHANGED <<holder, queue, tokens, mail, tmp, released, struck>>
    BY <1>4 DEF ScriptEnds
  <2>2. JobsTypeOK'
    BY <1>0, <1>1, <1>2, <2>1 DEF JobsTypeOK, bounds
  <2>3. TokenInv'
    BY <1>0, <1>1, <1>2, <2>1 DEF TokenInv, Knows, Free
  <2>4. ExecUnderLock' /\ ScratchInv'
    BY <1>0, <1>1, <1>2, <2>1 DEF ExecUnderLock, ScratchInv, Holds, Valid, Free
  <2> QED BY <1>0, <1>1, <2>1, <2>2, <2>3, <2>4, QuietKeeps DEF IInv
<1> QED BY <1>3, <1>4

-----------------------------------------------------------------------------
(* The theorems.                                                           *)

\* At the start nobody has asked.
LEMMA JobsStart == Init => IInv
<1> SUFFICES ASSUME Init PROVE IInv
  OBVIOUS
<1>1. JobsTypeOK
  <2>1. queue \in Seq([by : Actors, job : Jobs])
    BY DEF Init
  <2>2. /\ 0 \in 0..0 /\ 0 \in 0..MaxJobs /\ 0 \in 0..MaxCrashes /\ 0 \in 0..MaxDeaths
    BY JobsAssumption
  <2> QED BY <2>1, <2>2 DEF Init, JobsTypeOK
<1>2. CountInv
  BY <1>1 DEF Init, CountInv, Free
<1>3. TokenInv /\ OwnJobs /\ QueueInv /\ InvokedInv /\ StrikesTellTheTruth
  BY DEF InExec, Init, TokenInv, Knows, OwnJobs, QueueInv, InvokedInv, StrikesTellTheTruth, Free,
     InAction, Actors
<1>4. ExecUnderLock /\ ScratchInv
  BY DEF InExec, Init, ExecUnderLock, ScratchInv, Actors
<1> QED BY <1>2, <1>3, <1>4 DEF IInv

\* Every step keeps the invariant.
LEMMA JobsStep == IInv /\ [JobsNext]_vars => IInv'
<1> SUFFICES ASSUME IInv, [JobsNext]_vars PROVE IInv'
  OBVIOUS
<1>1. ASSUME NEW r \in Runners, JobStep(r) PROVE IInv'
  BY <1>1, WriteTokenStep, JobCompletedStep, CheckInStep, ProcessSteps DEF JobStep
<1>2. CASE UNCHANGED vars
  <2>1. UNCHANGED <<up, holder, queue, tokens, sessions, tmp, pc, job, jobs, mail, file, act,
                    scratch, checkedIn, released, struck, lost, crashes, deaths>>
    BY <1>2 DEF vars, daemon, told, bounds
  <2>2. CountInv'
    BY <2>1 DEF IInv, CountInv, JobsTypeOK, Free
  <2>3. TokenInv' /\ OwnJobs' /\ QueueInv' /\ InvokedInv' /\ StrikesTellTheTruth'
    BY <2>1 DEF IInv, TokenInv, Knows, OwnJobs, QueueInv, InvokedInv, StrikesTellTheTruth, Free
  <2>4. ExecUnderLock' /\ ScratchInv'
    BY <2>1 DEF IInv, ExecUnderLock, ScratchInv, Holds, Valid, Free
  <2> QED BY <2>2, <2>3, <2>4 DEF IInv
<1> QED BY <1>1, <1>2, TimeoutStep, DisconnectedStep, CrashStep, RestartStep, ScriptAsksStep,
           ScriptEndsStep, AskLockStep, RunnerDiesStep DEF JobsNext

\* The invariant holds in every behaviour.
LEMMA JobsInvariant == JobsSpec => []IInv
  BY JobsStart, JobsStep, PTL DEF JobsSpec

\* The daemon, the runners and the files of tokens have their types for any
\* set of runners and any number of jobs: no more tokens are drawn than jobs
\* have asked.
THEOREM JobsTypeCorrect == JobsSpec => []JobsTypeOK
<1>1. IInv => JobsTypeOK
  BY DEF IInv, CountInv
<1> QED BY <1>1, JobsInvariant, PTL

\* A benchmark command runs only under its own job's lock, or has lost that
\* lock since its token was checked: no token of an earlier job starts one.
THEOREM BenchmarksRunUnderLock == JobsSpec => []BenchmarkUnderLock
<1>1. IInv => BenchmarkUnderLock
  BY DEF IInv, ExecUnderLock, BenchmarkUnderLock, InExec
<1> QED BY <1>1, JobsInvariant, PTL

\* The scratch directory of a benchmark that runs is kept until it loses the
\* lock: no release of anybody else empties the tmpfs.
THEOREM ScratchIsKept == JobsSpec => []ScratchKept
<1>1. IInv => ScratchKept
  BY DEF IInv, ScratchInv, ScratchKept, InExec
<1> QED BY <1>1, JobsInvariant, PTL

\* A benchmark has the machine and its scratch directory for itself.
THEOREM BenchmarksAreSafe == JobsSpec => []BenchmarkIsSafe
<1>1. JobsTypeOK /\ BenchmarkUnderLock /\ ScratchKept => BenchmarkIsSafe
  BY DEF BenchmarkIsSafe
<1> QED BY <1>1, JobsTypeCorrect, BenchmarksRunUnderLock, ScratchIsKept, PTL

\* A job is struck exactly if it gave the lock back without a check-in, for any
\* number of failed hooks, files left behind, crashes and dead containers.
THEOREM StrikesAreTrue == JobsSpec => []StrikesTellTheTruth
<1>1. IInv => StrikesTellTheTruth
  BY DEF IInv
<1> QED BY <1>1, JobsInvariant, PTL

=============================================================================
