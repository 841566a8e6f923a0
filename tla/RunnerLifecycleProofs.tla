----------------------- MODULE RunnerLifecycleProofs -----------------------
(***************************************************************************)
(* Proofs about RunnerLifecycle, for every number of rows, runs, crashes,  *)
(* tries and checks: which credential a runner registers with, whatever    *)
(* workflows, replays, late callbacks and restarts come in between.        *)
(***************************************************************************)
EXTENDS RunnerLifecycle, TLAPS

-----------------------------------------------------------------------------
(* Rows, runs and handlers.                                                *)

\* The null row is the one without a number.
LEMMA RowFacts ==
  ASSUME row \in Row \cup {NoRow}
  PROVE  /\ row.gen \in Nat
         /\ row = NoRow <=> row.gen = 0
         /\ row # NoRow => row \in Row
  BY DEF Row, NoRow

\* An UPDATE of the status touches nothing else.
LEMMA SetStatusFacts ==
  ASSUME row \in Row \cup {NoRow}, NEW g, NEW s \in Status, SetStatus(g, s)
  PROVE  /\ row' \in Row \cup {NoRow}
         /\ row'.gen = row.gen
         /\ row = NoRow => row' = NoRow
         /\ row' # row => /\ row # NoRow /\ row' # NoRow
                          /\ row.gen = g /\ row'.token = row.token /\ row'.status = s
  BY DEF SetStatus, Row, NoRow

\* A change of one run leaves the others.
LEMMA UpdateRun ==
  ASSUME runs \in Seq(Run), NEW r \in DOMAIN runs, NEW e \in Run,
         runs' = [runs EXCEPT ![r] = e]
  PROVE  /\ runs' \in Seq(Run) /\ DOMAIN runs' = DOMAIN runs /\ Len(runs') = Len(runs)
         /\ runs'[r] = e
         /\ \A q \in DOMAIN runs : q # r => runs'[q] = runs[q]
  OBVIOUS

\* What one more try, or the end of a run, makes of it.
LEMMA ReplayedFacts ==
  ASSUME NEW run \in Run, NEW b \in BOOLEAN
  PROVE  /\ Finished(run) \in Run /\ Finished(run).pc = "done"
         /\ Finished(run).kind = run.kind /\ Finished(run).gen = run.gen
         /\ Finished(run).token = 0 /\ ~Finished(run).asked
         /\ Replayed(run, b) \in Run
         /\ Replayed(run, b).kind = run.kind /\ Replayed(run, b).gen = run.gen
         /\ ~Replayed(run, b).asked
         /\ \/ Replayed(run, b).pc = "done" /\ Replayed(run, b).token = 0
            \/ /\ Replayed(run, b).pc = run.pc /\ Replayed(run, b).token = run.token
               /\ Replayed(run, b).ran = run.ran
<1>1. NewRun(run.kind, run.gen) \in Run
  BY RunnerAssumption DEF Run, NewRun
<1>2. /\ Finished(run) \in Run /\ Finished(run).pc = "done"
      /\ Finished(run).kind = run.kind /\ Finished(run).gen = run.gen
      /\ Finished(run).token = 0 /\ ~Finished(run).asked
  BY <1>1 DEF Run, Finished, NewRun
<1>3. CASE run.tries + 1 = MaxTries
  BY <1>2, <1>3 DEF Replayed
<1>4. CASE run.tries + 1 # MaxTries
  <2>1. run.tries + 1 \in 0..(MaxTries - 1)
    BY <1>4, RunnerAssumption DEF Run
  <2>2. Replayed(run, b) = [run EXCEPT !.tries = run.tries + 1, !.asked = FALSE,
                                       !.sawFailure = b]
    BY <1>4 DEF Replayed
  <2>3. /\ Replayed(run, b) \in Run
        /\ Replayed(run, b).kind = run.kind /\ Replayed(run, b).gen = run.gen
        /\ ~Replayed(run, b).asked
        /\ Replayed(run, b).pc = run.pc /\ Replayed(run, b).token = run.token
        /\ Replayed(run, b).ran = run.ran
    BY <2>1, <2>2 DEF Run
  <2> QED BY <1>2, <2>3
<1> QED BY <1>3, <1>4

\* A step that changes runs in one place, or not at all, and keeps what the
\* run is for.
ChangesRun(r) ==
  /\ runs' \in Seq(Run) /\ DOMAIN runs' = DOMAIN runs /\ Len(runs') = Len(runs)
  /\ \A q \in DOMAIN runs : q # r => runs'[q] = runs[q]
  /\ runs'[r].kind = runs[r].kind /\ runs'[r].gen = runs[r].gen

\* What a run that throws becomes, and what its catch does to the row.
LEMMA ThrowFacts ==
  ASSUME runs \in Seq(Run), row \in Row \cup {NoRow}, NEW r \in DOMAIN runs, NEW b \in BOOLEAN,
         Throw(r, b)
  PROVE  /\ ChangesRun(r) /\ worker' = 0
         /\ ~runs'[r].asked
         /\ \/ runs'[r].pc = "done" /\ runs'[r].token = 0 
            \/ runs'[r].pc = runs[r].pc /\ runs'[r].token = runs[r].token
               /\ runs'[r].ran = runs[r].ran
         /\ row' \in Row \cup {NoRow} /\ row'.gen = row.gen
         /\ row' # row => /\ row # NoRow /\ row' # NoRow
                          /\ row'.token = row.token /\ row'.status = "failed"
<1>1. runs[r] \in Run
  OBVIOUS
<1>2. runs' = [runs EXCEPT ![r] = Replayed(runs[r], b)] /\ worker' = 0
  BY DEF Throw
<1>3. Replayed(runs[r], b) \in Run
  BY <1>1, ReplayedFacts
<1>4. ChangesRun(r) /\ runs'[r] = Replayed(runs[r], b)
  <2>1. Replayed(runs[r], b).kind = runs[r].kind /\ Replayed(runs[r], b).gen = runs[r].gen
    BY <1>1, ReplayedFacts
  <2> QED BY <1>2, <1>3, <2>1, UpdateRun DEF ChangesRun
<1>5. /\ row' \in Row \cup {NoRow} /\ row'.gen = row.gen
      /\ row' # row => /\ row # NoRow /\ row' # NoRow
                       /\ row'.token = row.token /\ row'.status = "failed"
  BY SetStatusFacts DEF Throw, Status
<1> QED BY <1>1, <1>2, <1>4, <1>5, ReplayedFacts

\* The same for a step that has attempts of its own left.
LEMMA AgainFacts ==
  ASSUME runs \in Seq(Run), NEW r \in DOMAIN runs, Again(r)
  PROVE  /\ ChangesRun(r) /\ worker' = 0 /\ row' = row
         /\ ~runs'[r].asked /\ runs'[r].pc = runs[r].pc /\ runs'[r].token = runs[r].token
         /\ runs'[r].ran = runs[r].ran
<1> DEFINE e == [runs[r] EXCEPT !.tries = runs[r].tries + 1, !.asked = FALSE]
<1>1. runs[r] \in Run
  OBVIOUS
<1>2. e \in Run
  <2>1. runs[r].tries + 1 < MaxTries
    BY DEF Again
  <2>2. runs[r].tries + 1 \in 0..(MaxTries - 1)
    <3>1. runs[r].tries \in 0..(MaxTries - 1)
      BY <1>1 DEF Run
    <3> QED BY <2>1, <3>1, RunnerAssumption
  <2> QED BY <1>1, <2>2 DEF Run
<1>3. runs' = [runs EXCEPT ![r] = e] /\ worker' = 0 /\ row' = row
  BY <1>1 DEF Again
<1>4. /\ e.kind = runs[r].kind /\ e.gen = runs[r].gen /\ ~e.asked /\ e.pc = runs[r].pc
      /\ e.token = runs[r].token /\ e.ran = runs[r].ran
  BY <1>1 DEF Run
<1> HIDE DEF e
<1> QED BY <1>2, <1>3, <1>4, UpdateRun DEF ChangesRun

\* What Append does to a sequence of any kind.
LEMMA AppendOne ==
  ASSUME NEW S, NEW s \in Seq(S), NEW e \in S
  PROVE  /\ Append(s, e) \in Seq(S) /\ Len(Append(s, e)) = Len(s) + 1
         /\ \A i \in 1..Len(s) : Append(s, e)[i] = s[i]
         /\ Append(s, e)[Len(s) + 1] = e
  OBVIOUS

\* Removing a handler keeps the others in their order.
LEMMA RemoveHandler ==
  ASSUME ctl \in Seq(Handler), NEW i \in DOMAIN ctl
  PROVE  /\ RemoveAt(ctl, i) \in Seq(Handler)
         /\ Len(RemoveAt(ctl, i)) = Len(ctl) - 1
         /\ \A j \in DOMAIN RemoveAt(ctl, i) :
              RemoveAt(ctl, i)[j] = IF j < i THEN ctl[j] ELSE ctl[j + 1]
<1> DEFINE a == SubSeq(ctl, 1, i - 1)
           b == SubSeq(ctl, i + 1, Len(ctl))
<1>1. a \in Seq(Handler) /\ Len(a) = i - 1 /\ \A j \in 1..(i - 1) : a[j] = ctl[j]
  OBVIOUS
<1>2. /\ b \in Seq(Handler) /\ Len(b) = Len(ctl) - i
      /\ \A j \in 1..(Len(ctl) - i) : b[j] = ctl[j + i]
  OBVIOUS
<1>3. RemoveAt(ctl, i) = a \o b
  BY DEF RemoveAt
<1> HIDE DEF a, b
<1>0. Len(ctl) \in Nat /\ i \in 1..Len(ctl)
  OBVIOUS
<1>4. /\ a \o b \in Seq(Handler) /\ Len(a \o b) = Len(ctl) - 1
      /\ DOMAIN (a \o b) = 1..(Len(ctl) - 1)
  BY <1>0, <1>1, <1>2
<1>5. ASSUME NEW j \in 1..(Len(ctl) - 1), j < i PROVE (a \o b)[j] = ctl[j]
  BY <1>0, <1>1, <1>2, <1>5
<1>6. ASSUME NEW j \in 1..(Len(ctl) - 1), j >= i PROVE (a \o b)[j] = ctl[j + 1]
  <2>1. (a \o b)[j] = b[j - (i - 1)]
    BY <1>0, <1>1, <1>2, <1>6
  <2>2. j - (i - 1) \in 1..(Len(ctl) - i) /\ (j - (i - 1)) + i = j + 1
    BY <1>0, <1>6
  <2> QED BY <1>2, <2>1, <2>2
<1>7. \A j \in 1..(Len(ctl) - 1) :
        (a \o b)[j] = IF j < i THEN ctl[j] ELSE ctl[j + 1]
  <2> SUFFICES ASSUME NEW j \in 1..(Len(ctl) - 1)
               PROVE  (a \o b)[j] = IF j < i THEN ctl[j] ELSE ctl[j + 1]
    OBVIOUS
  <2>1. j < i \/ j >= i
    BY <1>0
  <2> QED BY <1>5, <1>6, <2>1
<1> QED BY <1>3, <1>4, <1>7

-----------------------------------------------------------------------------
(* The steps of a workflow: what becomes of the run and of the row.        *)

\* Marking a row changes its status and marks the run's step as done.
LEMMA MarkFacts ==
  ASSUME runs \in Seq(Run), row \in Row \cup {NoRow}, NEW r \in DOMAIN runs, MarkRow(r)
  PROVE  /\ ChangesRun(r)
         /\ runs[r].pc = "mark" /\ runs'[r].pc = "mark"
         /\ runs'[r].asked = runs[r].asked /\ runs'[r].token = runs[r].token
         /\ row' \in Row \cup {NoRow} /\ row'.gen = row.gen
         /\ row' # row =>
              /\ row # NoRow /\ row' # NoRow
              /\ row.gen = runs[r].gen /\ row'.token = row.token
              /\ row'.status \in {"provisioning", "healing", "removing"}
              /\ runs[r].kind = "deprovision" => row'.status = "removing"
<1> DEFINE e == [runs[r] EXCEPT !.ran = TRUE]
           mark == CASE runs[r].kind = "provision" -> "provisioning"
                     [] runs[r].kind = "heal" -> "healing"
                     [] OTHER -> "removing"
<1>1. runs[r] \in Run
  OBVIOUS
<1>2. /\ e \in Run /\ e.kind = runs[r].kind /\ e.gen = runs[r].gen /\ e.pc = runs[r].pc
      /\ e.asked = runs[r].asked /\ e.token = runs[r].token
  BY <1>1 DEF Run
<1>3. runs' = [runs EXCEPT ![r] = e] /\ runs[r].pc = "mark" /\ SetStatus(runs[r].gen, mark)
  BY DEF MarkRow
<1>4. /\ mark \in {"provisioning", "healing", "removing"}
      /\ runs[r].kind = "deprovision" => mark = "removing"
  BY <1>1 DEF Run
<1> HIDE DEF e, mark
<1>5. /\ row' \in Row \cup {NoRow} /\ row'.gen = row.gen
      /\ row' # row => /\ row # NoRow /\ row' # NoRow /\ row.gen = runs[r].gen
                       /\ row'.token = row.token /\ row'.status = mark
  <2>1. mark \in Status
    BY <1>4 DEF Status
  <2> QED BY <1>3, <2>1, SetStatusFacts
<1> QED BY <1>2, <1>3, <1>4, <1>5, UpdateRun DEF ChangesRun

\* Drawing a token gives the same one to the run and, if it is there, to the row.
LEMMA DrawFacts ==
  ASSUME runs \in Seq(Run), row \in Row \cup {NoRow}, tokens \in Nat,
         NEW r \in DOMAIN runs, DrawToken(r)
  PROVE  /\ ChangesRun(r) /\ tokens' = tokens + 1
         /\ runs[r].pc = "token" /\ runs'[r].pc = "token"
         /\ runs'[r].asked = runs[r].asked /\ runs'[r].token = tokens + 1
         /\ row' \in Row \cup {NoRow} /\ row'.gen = row.gen
         /\ row.gen # runs[r].gen => row' = row
         /\ row.gen = runs[r].gen => /\ row # NoRow /\ row' # NoRow
                                     /\ row'.token = tokens + 1 /\ row'.status = row.status
<1> DEFINE e == [runs[r] EXCEPT !.ran = TRUE, !.token = tokens + 1]
<1>1. runs[r] \in Run /\ tokens + 1 \in Nat
  OBVIOUS
<1>2. /\ e \in Run /\ e.kind = runs[r].kind /\ e.gen = runs[r].gen /\ e.pc = runs[r].pc
      /\ e.asked = runs[r].asked /\ e.token = tokens + 1
  BY <1>1 DEF Run
<1>3. runs' = [runs EXCEPT ![r] = e] /\ runs[r].pc = "token" /\ tokens' = tokens + 1
  BY DEF DrawToken
<1>4. row' = IF row.gen = runs[r].gen THEN [row EXCEPT !.token = tokens + 1] ELSE row
  BY DEF DrawToken
<1>5. runs[r].gen \in Nat \ {0}
  BY <1>1 DEF Run
<1>6. CASE row.gen = runs[r].gen
  <2>1. row \in Row /\ row # NoRow
    BY <1>5, <1>6, RowFacts
  <2>2. row' = [row EXCEPT !.token = tokens + 1]
    BY <1>4, <1>6
  <2>3. row' \in Row /\ row'.gen = row.gen /\ row'.token = tokens + 1 /\ row'.status = row.status
    BY <1>1, <2>1, <2>2 DEF Row
  <2>4. row' # NoRow
    BY <1>5, <1>6, <2>3 DEF NoRow
  <2> HIDE DEF e
  <2> QED BY <1>2, <1>3, <1>6, <2>1, <2>3, <2>4, UpdateRun DEF ChangesRun
<1>7. CASE row.gen # runs[r].gen
  <2> HIDE DEF e
  <2> QED BY <1>2, <1>3, <1>4, <1>7, UpdateRun DEF ChangesRun
<1> QED BY <1>6, <1>7

\* Deleting the row ends the run.
LEMMA DeleteFacts ==
  ASSUME runs \in Seq(Run), row \in Row \cup {NoRow}, NEW r \in DOMAIN runs, DeleteRow(r)
  PROVE  /\ ChangesRun(r)
         /\ runs[r].pc = "delete" /\ runs'[r].pc = "done" /\ runs'[r].token = 0
         /\ ~runs'[r].asked
         /\ row' = row \/ row' = NoRow
<1>1. runs[r] \in Run
  OBVIOUS
<1>2. /\ runs' = [runs EXCEPT ![r] = Finished(runs[r])]
      /\ runs[r].pc = "delete" /\ (row' = row \/ row' = NoRow)
  BY DEF DeleteRow
<1>3. /\ Finished(runs[r]) \in Run /\ Finished(runs[r]).pc = "done"
      /\ Finished(runs[r]).kind = runs[r].kind /\ Finished(runs[r]).gen = runs[r].gen
      /\ Finished(runs[r]).token = 0 /\ ~Finished(runs[r]).asked
  BY <1>1, ReplayedFacts
<1> QED BY <1>2, <1>3, UpdateRun DEF ChangesRun

\* The removal from GitHub touches no row.
LEMMA GithubFacts ==
  ASSUME runs \in Seq(Run), NEW r \in DOMAIN runs, RemoveFromGithub(r)
  PROVE  /\ ChangesRun(r)
         /\ runs[r].pc = "github" /\ runs'[r].pc = "delete" /\ runs'[r].token = runs[r].token
         /\ runs'[r].asked = runs[r].asked
<1> DEFINE e == [runs[r] EXCEPT !.pc = "delete"]
<1>1. runs[r] \in Run
  OBVIOUS
<1>2. /\ e \in Run /\ e.kind = runs[r].kind /\ e.gen = runs[r].gen /\ e.pc = "delete"
      /\ e.asked = runs[r].asked /\ e.token = runs[r].token
  BY <1>1 DEF Run
<1>3. runs' = [runs EXCEPT ![r] = e] /\ runs[r].pc = "github"
  BY DEF RemoveFromGithub
<1> HIDE DEF e
<1> QED BY <1>2, <1>3, UpdateRun DEF ChangesRun

\* A request to runner-ctld comes last and its run waits.
LEMMA AskFacts ==
  ASSUME runs \in Seq(Run), ctl \in Seq(Handler), NEW r \in DOMAIN runs, AskCtl(r)
  PROVE  /\ ChangesRun(r)
         /\ runs[r].pc = "container" /\ runs'[r].pc = "container"
         /\ runs'[r].token = runs[r].token /\ runs'[r].asked /\ ~runs[r].asked
         /\ ~runs[r].ran /\ ~runs'[r].ran
         /\ ctl' \in Seq(Handler) /\ Len(ctl') = Len(ctl) + 1
         /\ \A i \in DOMAIN ctl : ctl'[i] = ctl[i]
<1> DEFINE e == [runs[r] EXCEPT !.asked = TRUE]
           h == [kind |-> IF runs[r].kind = "deprovision" THEN "deprovision" ELSE "provision",
                 pc |-> "stop", heard |-> TRUE]
<1>1. runs[r] \in Run
  OBVIOUS
<1>2. /\ e \in Run /\ e.kind = runs[r].kind /\ e.gen = runs[r].gen /\ e.pc = runs[r].pc
      /\ e.asked /\ e.token = runs[r].token /\ e.ran = runs[r].ran
  BY <1>1 DEF Run
<1>3. /\ runs' = [runs EXCEPT ![r] = e] /\ runs[r].pc = "container"
      /\ ~runs[r].asked /\ ~runs[r].ran /\ ctl' = Append(ctl, h)
  BY DEF AskCtl
<1>4. h \in Handler
  BY DEF Handler
<1> HIDE DEF e, h
<1>5. /\ ctl' \in Seq(Handler) /\ Len(ctl') = Len(ctl) + 1
      /\ \A i \in DOMAIN ctl : ctl'[i] = ctl[i]
  <2>1. DOMAIN ctl = 1..Len(ctl)
    OBVIOUS
  <2> QED BY <1>3, <1>4, <2>1, AppendOne
<1> QED BY <1>2, <1>3, <1>5, UpdateRun DEF ChangesRun

\* A stored result takes the run to its next step.
LEMMA MemoizeFacts ==
  ASSUME runs \in Seq(Run), NEW r \in DOMAIN runs, Memoize(r),
         runs[r].pc \in {"mark", "token", "container", "github"}
  PROVE  /\ ChangesRun(r)
         /\ runs'[r].pc = After(runs[r].pc, runs[r].kind)
         /\ runs'[r].token = runs[r].token /\ runs'[r].asked = runs[r].asked /\ ~runs'[r].ran
<1> DEFINE e == [runs[r] EXCEPT !.ran = FALSE, !.pc = After(runs[r].pc, runs[r].kind)]
<1>1. runs[r] \in Run
  OBVIOUS
<1>2. After(runs[r].pc, runs[r].kind) \in {"container", "token", "github", "check", "delete"}
  BY DEF After
<1>3. /\ e \in Run /\ e.kind = runs[r].kind /\ e.gen = runs[r].gen
      /\ e.pc = After(runs[r].pc, runs[r].kind)
      /\ e.asked = runs[r].asked /\ e.token = runs[r].token /\ ~e.ran
  BY <1>1, <1>2 DEF Run
<1>4. runs' = [runs EXCEPT ![r] = e]
  BY <1>1 DEF Memoize
<1> HIDE DEF e
<1> QED BY <1>3, <1>4, UpdateRun DEF ChangesRun

-----------------------------------------------------------------------------
(* Types, and who waits for runner-ctld.                                   *)

\* Only the step that talks to runner-ctld waits for an answer, and only a
\* step has a result that is not stored.
AskInv ==
  \A r \in DOMAIN runs :
     /\ runs[r].asked => runs[r].pc = "container" /\ ~runs[r].ran
     /\ runs[r].ran => runs[r].pc \in {"mark", "token", "container"}

\* An answer that somebody waits for is the worker's, and there is only one.
HeardInv ==
  \A i \in DOMAIN ctl : ctl[i].heard =>
     /\ worker # 0 /\ runs[worker].asked
     /\ \A j \in DOMAIN ctl : ctl[j].heard => j = i

\* The env file names a row.
EnvInv == envfile = NoEnv \/ envfile.gen # 0

\* The row expects a token that was drawn.
TokenInv == row # NoRow => row.token <= tokens

TypeInv == RunnerTypeOK /\ AskInv /\ HeardInv /\ EnvInv /\ TokenInv

\* A run that works while it does not wait has no handler that it waits for.
LEMMA NobodyWaits ==
  ASSUME HeardInv, NEW r \in DOMAIN runs, worker \in {0, r}, ~runs[r].asked
  PROVE  \A i \in DOMAIN ctl : ~ctl[i].heard
  BY DEF HeardInv

\* One run changes, all handlers are unheard: what is left to show is about it.
LEMMA OneRun ==
  ASSUME AskInv, NEW r \in DOMAIN runs, ChangesRun(r), \A i \in DOMAIN ctl' : ~ctl'[i].heard,
         runs'[r].asked => runs'[r].pc = "container" /\ ~runs'[r].ran,
         runs'[r].ran => runs'[r].pc \in {"mark", "token", "container"}
  PROVE  AskInv' /\ HeardInv'
<1>1. AskInv'
  BY DEF AskInv, ChangesRun
<1>2. HeardInv'
  BY DEF HeardInv
<1> QED BY <1>1, <1>2

\* A step that throws or is tried again.
LEMMA ThrowsFacts ==
  ASSUME runs \in Seq(Run), row \in Row \cup {NoRow}, NEW r \in DOMAIN runs, StepThrows(r)
  PROVE  /\ ChangesRun(r) /\ worker' = 0
         /\ ~runs'[r].asked
         /\ \/ runs'[r].pc = "done" /\ runs'[r].token = 0
            \/ runs'[r].pc = runs[r].pc /\ runs'[r].token = runs[r].token
               /\ runs'[r].ran = runs[r].ran
         /\ row' \in Row \cup {NoRow} /\ row'.gen = row.gen
         /\ row' # row => /\ row # NoRow /\ row' # NoRow
                          /\ row'.token = row.token /\ row'.status = "failed"
<1>1. CASE Throw(r, FALSE)
  BY <1>1, ThrowFacts
<1>2. CASE Again(r)
  BY <1>2, AgainFacts
<1> QED BY <1>1, <1>2 DEF StepThrows

\* A check of the registration ends the run, fails it or waits for the next.
LEMMA CheckFacts ==
  ASSUME runs \in Seq(Run), row \in Row \cup {NoRow}, worker \in Nat,
         NEW r \in DOMAIN runs, CheckRegistration(r)
  PROVE  /\ ChangesRun(r) /\ worker' \in {0, r}
         /\ runs[r].pc = "check"
         /\ runs'[r].asked => runs[r].asked
         /\ \/ runs'[r].pc = "done" /\ runs'[r].token = 0
            \/ runs'[r].pc = "check" /\ runs'[r].token = runs[r].token
               /\ runs'[r].ran = runs[r].ran
         /\ row' \in Row \cup {NoRow} /\ row'.gen = row.gen
         /\ row' # row => /\ row # NoRow /\ row' # NoRow
                          /\ row'.token = row.token /\ row'.status = "failed"
<1>0. runs[r] \in Run /\ runs[r].pc = "check"
  BY DEF CheckRegistration
<1>1. CASE \E b \in BOOLEAN : Throw(r, b)
  BY <1>0, <1>1, ThrowFacts
<1>2. CASE runs' = [runs EXCEPT ![r] = Finished(@)] /\ worker' = 0 /\ UNCHANGED row
  <2>1. runs' = [runs EXCEPT ![r] = Finished(runs[r])]
    BY <1>2
  <2>2. /\ Finished(runs[r]) \in Run /\ Finished(runs[r]).pc = "done"
        /\ Finished(runs[r]).kind = runs[r].kind /\ Finished(runs[r]).gen = runs[r].gen
        /\ Finished(runs[r]).token = 0 /\ ~Finished(runs[r]).asked
    BY <1>0, ReplayedFacts
  <2>3. ChangesRun(r) /\ runs'[r] = Finished(runs[r])
    BY <2>1, <2>2, UpdateRun DEF ChangesRun
  <2> QED BY <1>0, <1>2, <2>2, <2>3
<1>3. CASE /\ runs[r].checks # MaxChecks
           /\ runs' = [runs EXCEPT ![r].checks = @ + 1]
           /\ worker' \in {0, r} /\ UNCHANGED row
  <2> DEFINE e == [runs[r] EXCEPT !.checks = runs[r].checks + 1]
  <2>1. runs[r].checks + 1 \in 0..MaxChecks
    <3>1. runs[r].checks \in 0..MaxChecks
      BY <1>0 DEF Run
    <3> QED BY <1>3, <3>1, RunnerAssumption
  <2>2. /\ e \in Run /\ e.kind = runs[r].kind /\ e.gen = runs[r].gen /\ e.pc = runs[r].pc
        /\ e.asked = runs[r].asked /\ e.token = runs[r].token /\ e.ran = runs[r].ran
    BY <1>0, <2>1 DEF Run
  <2>3. runs' = [runs EXCEPT ![r] = e]
    BY <1>3
  <2> HIDE DEF e
  <2>4. ChangesRun(r) /\ runs'[r] = e
    BY <2>2, <2>3, UpdateRun DEF ChangesRun
  <2> QED BY <1>0, <1>3, <2>2, <2>4
<1>4. CASE runs[r].sawFailure \/ runs[r].checks = MaxChecks
  <2>1. Throw(r, runs[r].sawFailure) /\ runs[r].sawFailure \in BOOLEAN
    BY <1>0, <1>4 DEF CheckRegistration, Run
  <2> QED BY <1>1, <2>1
<1>5. CASE ~(runs[r].sawFailure \/ runs[r].checks = MaxChecks)
  <2>1. \/ runs' = [runs EXCEPT ![r] = Finished(@)] /\ worker' = 0 /\ UNCHANGED row
        \/ Throw(r, TRUE)
        \/ /\ runs' = [runs EXCEPT ![r].checks = @ + 1]
           /\ worker' \in {0, r} /\ UNCHANGED row
    BY <1>5 DEF CheckRegistration
  <2> QED BY <1>1, <1>2, <1>3, <1>5, <2>1
<1> QED BY <1>4, <1>5

\* Every step of a workflow keeps the types and the bookkeeping of answers.
LEMMA WorkflowType == TypeInv /\ WorkflowStep => TypeInv'
<1> SUFFICES ASSUME TypeInv, NEW r \in DOMAIN runs,
                    \/ RunStep(r) \/ AskCtl(r) \/ Memoize(r) \/ CheckRegistration(r)
                    \/ StepFails(r)
             PROVE  TypeInv'
  BY DEF WorkflowStep
<1>0. RunnerTypeOK /\ AskInv /\ HeardInv /\ EnvInv /\ TokenInv
  BY DEF TypeInv
<1>a. /\ runs \in Seq(Run) /\ row \in Row \cup {NoRow} /\ tokens \in Nat /\ worker \in Nat
      /\ ctl \in Seq(Handler) /\ runs[r] \in Run /\ r \in 1..Len(runs) /\ Len(runs) \in Nat
  BY <1>0 DEF RunnerTypeOK
<1>1. ASSUME worker \in {0, r}, ~runs[r].asked, ChangesRun(r), worker' \in {0, r}, ctl' = ctl,
             runs'[r].asked => runs'[r].pc = "container" /\ ~runs'[r].ran,
             runs'[r].ran => runs'[r].pc \in {"mark", "token", "container"},
             row' \in Row \cup {NoRow}, row'.gen = row.gen \/ row' = NoRow,
             tokens' \in {tokens, tokens + 1},
             row' = row \/ row' = NoRow \/ (row # NoRow /\ row'.token \in {row.token, tokens'}),
             UNCHANGED <<gens, spent, envfile, container, calls, check, posting, crashes>>
      PROVE  TypeInv'
  <2>1. \A i \in DOMAIN ctl' : ~ctl'[i].heard
    BY <1>0, <1>1, NobodyWaits
  <2>2. AskInv' /\ HeardInv'
    BY <1>0, <1>1, <2>1, OneRun
  <2>3. runs' \in Seq(Run) /\ worker' \in 0..Len(runs')
    BY <1>a, <1>1 DEF ChangesRun
  <2>4. row'.gen <= gens
    BY <1>0, <1>1, <1>a DEF RunnerTypeOK, NoRow
  <2>5. tokens' \in Nat /\ spent \subseteq 1..tokens'
    BY <1>0, <1>1, <1>a DEF RunnerTypeOK
  <2>6. TokenInv'
    <3>1. row # NoRow => row.token \in Nat
      BY <1>a, RowFacts DEF Row
    <3> QED BY <1>0, <1>1, <1>a, <2>5, <3>1 DEF TokenInv
  <2> QED BY <1>0, <1>1, <2>2, <2>3, <2>4, <2>5, <2>6 DEF TypeInv, RunnerTypeOK, EnvInv
<1>2. CASE RunStep(r)
  <2>1. /\ worker \in {0, r} /\ ctl' = ctl
        /\ UNCHANGED <<gens, spent, envfile, container, calls, check, posting, crashes>>
        /\ ~runs[r].ran
    BY <1>2 DEF RunStep, Works, netVars
  <2>2. CASE MarkRow(r) /\ worker' = r
    <3>1. /\ ChangesRun(r) /\ runs[r].pc = "mark" /\ runs'[r].pc = "mark"
          /\ runs'[r].asked = runs[r].asked /\ row' \in Row \cup {NoRow} /\ row'.gen = row.gen
          /\ row' = row \/ (row # NoRow /\ row'.token = row.token)
      BY <1>a, <2>2, MarkFacts
    <3>2. ~runs[r].asked /\ tokens' = tokens
      BY <1>0, <2>2, <3>1 DEF AskInv, MarkRow
    <3> QED BY <1>1, <2>1, <2>2, <3>1, <3>2
  <2>3. CASE DrawToken(r) /\ worker' = r
    <3>1. /\ ChangesRun(r) /\ runs[r].pc = "token" /\ runs'[r].pc = "token"
          /\ runs'[r].asked = runs[r].asked /\ row' \in Row \cup {NoRow} /\ row'.gen = row.gen
          /\ tokens' = tokens + 1 /\ (row' = row \/ (row # NoRow /\ row'.token = tokens'))
      BY <1>a, <2>3, DrawFacts
    <3>2. ~runs[r].asked
      BY <1>0, <3>1 DEF AskInv
    <3> QED BY <1>1, <2>1, <2>3, <3>1, <3>2
  <2>4. CASE DeleteRow(r)
    <3>1. /\ ChangesRun(r) /\ runs[r].pc = "delete" /\ ~runs'[r].asked
          /\ row' = row \/ row' = NoRow
      BY <1>a, <2>4, DeleteFacts
    <3>2. ~runs[r].asked /\ tokens' = tokens /\ worker' = 0 /\ ~runs'[r].ran
      <4>1. runs'[r] = Finished(runs[r])
        BY <1>a, <2>4 DEF DeleteRow
      <4> QED BY <1>0, <2>4, <3>1, <4>1 DEF AskInv, DeleteRow, Finished, NewRun
    <3> QED BY <1>1, <1>a, <2>1, <3>1, <3>2
  <2>5. CASE RemoveFromGithub(r)
    <3>1. /\ ChangesRun(r) /\ runs[r].pc = "github" /\ runs'[r].asked = runs[r].asked
      BY <1>a, <2>5, GithubFacts
    <3>2. ~runs[r].asked /\ tokens' = tokens /\ worker' = r /\ row' = row /\ ~runs'[r].ran
      <4>1. runs'[r] = [runs[r] EXCEPT !.pc = "delete"]
        BY <1>a, <2>5 DEF RemoveFromGithub
      <4>2. runs'[r].ran = runs[r].ran
        BY <1>a, <4>1 DEF Run
      <4> QED BY <1>0, <2>1, <2>5, <3>1, <4>2 DEF AskInv, RemoveFromGithub
    <3> QED BY <1>1, <1>a, <2>1, <3>1, <3>2
  <2> QED BY <1>2, <2>2, <2>3, <2>4, <2>5 DEF RunStep
<1>3. CASE Memoize(r)
  <2>1. /\ worker = r /\ runs[r].ran /\ worker' \in {0, r} /\ row' = row /\ tokens' = tokens
        /\ ctl' = ctl
        /\ UNCHANGED <<gens, spent, envfile, container, calls, check, posting, crashes>>
    BY <1>3 DEF Memoize, workerRest, outerVars
  <2>2. ~runs[r].asked /\ runs[r].pc \in {"mark", "token", "container", "github"}
    BY <1>0, <2>1 DEF AskInv
  <2>3. /\ ChangesRun(r) /\ runs'[r].asked = runs[r].asked /\ ~runs'[r].ran
    BY <1>a, <1>3, <2>2, MemoizeFacts
  <2> QED BY <1>1, <1>a, <2>1, <2>2, <2>3
<1>4. CASE CheckRegistration(r)
  <2>1. /\ worker \in {0, r} /\ tokens' = tokens /\ ctl' = ctl
        /\ UNCHANGED <<gens, spent, envfile, container, calls, check, posting, crashes>>
    BY <1>4 DEF CheckRegistration, Works, workerRest, outerVars
  <2>2. /\ ChangesRun(r) /\ worker' \in {0, r} /\ runs[r].pc = "check"
        /\ runs'[r].asked => runs[r].asked
        /\ row' \in Row \cup {NoRow} /\ row'.gen = row.gen
        /\ row' = row \/ (row # NoRow /\ row'.token = row.token)
    BY <1>a, <1>4, CheckFacts
  <2>3. ~runs[r].asked /\ ~runs[r].ran
    BY <1>0, <2>2 DEF AskInv
  <2>4. ~runs'[r].ran
    <3>1. \/ runs'[r] = Finished(runs[r])
          \/ \E b \in BOOLEAN : runs'[r] = Replayed(runs[r], b)
          \/ runs'[r] = [runs[r] EXCEPT !.checks = runs[r].checks + 1]
      BY <1>a, <1>4 DEF CheckRegistration, Throw, Run
    <3>2. /\ ~Finished(runs[r]).ran
          /\ \A b \in BOOLEAN : ~Replayed(runs[r], b).ran
          /\ ~[runs[r] EXCEPT !.checks = runs[r].checks + 1].ran
      BY <1>a, <2>3 DEF Finished, NewRun, Replayed, Run
    <3> QED BY <3>1, <3>2
  <2> QED BY <1>1, <2>1, <2>2, <2>3, <2>4
<1>5. CASE StepFails(r)
  <2>1. /\ worker \in {0, r} /\ tokens' = tokens /\ ctl' = ctl /\ ~runs[r].asked /\ ~runs[r].ran
        /\ UNCHANGED <<gens, spent, envfile, container, calls, check, posting, crashes>>
        /\ StepThrows(r)
    BY <1>5 DEF StepFails, Works, workerRest, outerVars
  <2>2. /\ ChangesRun(r) /\ worker' = 0 /\ ~runs'[r].asked
        /\ row' \in Row \cup {NoRow} /\ row'.gen = row.gen
        /\ row' = row \/ (row # NoRow /\ row'.token = row.token)
    BY <1>a, <2>1, ThrowsFacts
  <2>3. ~runs'[r].ran
    <3>1. \/ \E b \in BOOLEAN : runs'[r] = Replayed(runs[r], b)
          \/ runs'[r].ran = runs[r].ran
      BY <1>a, <2>1, AgainFacts DEF StepThrows, Throw
    <3>2. \A b \in BOOLEAN : ~Replayed(runs[r], b).ran
      BY <1>a, <2>1 DEF Finished, NewRun, Replayed, Run
    <3> QED BY <2>1, <3>1, <3>2
  <2> QED BY <1>1, <2>1, <2>2, <2>3
<1>6. CASE AskCtl(r)
  <2>1. /\ worker \in {0, r} /\ worker' = r
        /\ UNCHANGED <<row, gens, tokens, spent, container, calls, check, posting, crashes>>
    BY <1>6 DEF AskCtl, Works, outerVars
  <2>2. /\ ChangesRun(r) /\ runs[r].pc = "container" /\ runs'[r].pc = "container"
        /\ runs'[r].asked /\ ~runs[r].asked /\ ~runs'[r].ran
        /\ ctl' \in Seq(Handler) /\ Len(ctl') = Len(ctl) + 1
        /\ \A i \in DOMAIN ctl : ctl'[i] = ctl[i]
    BY <1>a, <1>6, AskFacts
  <2>3. \A i \in DOMAIN ctl : ~ctl[i].heard
    BY <1>0, <2>1, <2>2, NobodyWaits
  <2>4. AskInv'
    BY <1>0, <2>2 DEF AskInv, ChangesRun
  <2>5. HeardInv'
    <3>1. \A i \in DOMAIN ctl' : ctl'[i].heard => i = Len(ctl) + 1
      BY <1>a, <2>2, <2>3
    <3>2. worker' # 0 /\ runs'[worker'].asked
      BY <1>a, <2>1, <2>2
    <3> QED BY <3>1, <3>2 DEF HeardInv
  <2>6. envfile' \in Credential /\ EnvInv'
    <3>1. envfile' = envfile \/ envfile' = [gen |-> runs[r].gen, token |-> runs[r].token]
      BY <1>6 DEF AskCtl, WriteEnv
    <3>2. runs[r].gen \in Nat \ {0} /\ runs[r].token \in Nat
      BY <1>a DEF Run
    <3>3. envfile \in Credential
      BY <1>0 DEF RunnerTypeOK
    <3> QED BY <1>0, <3>1, <3>2, <3>3 DEF Credential, EnvInv
  <2>7. runs' \in Seq(Run) /\ worker' \in 0..Len(runs')
    BY <1>a, <2>1, <2>2 DEF ChangesRun
  <2> QED BY <1>0, <2>1, <2>2, <2>4, <2>5, <2>6, <2>7 DEF TypeInv, RunnerTypeOK, TokenInv
<1> QED BY <1>2, <1>3, <1>4, <1>5, <1>6

\* An answer of runner-ctld reaches the run that waits for it, or nobody.
LEMMA AnswerFacts ==
  ASSUME TypeInv, NEW i \in DOMAIN ctl, NEW ok \in BOOLEAN, Answer(i, ok)
  PROVE  /\ ctl' \in Seq(Handler) /\ AskInv' /\ HeardInv'
         /\ worker' \in 0..Len(runs') /\ runs' \in Seq(Run)
         /\ row' \in Row \cup {NoRow} /\ row'.gen = row.gen
         /\ \/ runs' = runs /\ row' = row
            \/ /\ worker \in DOMAIN runs /\ ChangesRun(worker) /\ runs[worker].pc = "container"
               /\ \/ runs'[worker].pc = "done" /\ runs'[worker].token = 0
                  \/ /\ runs'[worker].pc = "container"
                     /\ runs'[worker].token = runs[worker].token
               /\ row' # row => /\ row # NoRow /\ row' # NoRow
                                /\ row'.token = row.token /\ row'.status = "failed"
<1>0. RunnerTypeOK /\ AskInv /\ HeardInv /\ EnvInv /\ TokenInv
  BY DEF TypeInv
<1>a. /\ runs \in Seq(Run) /\ row \in Row \cup {NoRow} /\ worker \in 0..Len(runs)
      /\ ctl \in Seq(Handler) /\ Len(runs) \in Nat /\ DOMAIN runs = 1..Len(runs)
  BY <1>0 DEF RunnerTypeOK
<1>b. ctl' = RemoveAt(ctl, i)
  BY DEF Answer
<1>c. /\ ctl' \in Seq(Handler) /\ Len(ctl') = Len(ctl) - 1
      /\ \A j \in DOMAIN ctl' : ctl'[j] = IF j < i THEN ctl[j] ELSE ctl[j + 1]
  BY <1>a, <1>b, RemoveHandler
<1>1. CASE ~ctl[i].heard
  <2>1. UNCHANGED <<row, runs, worker>>
    BY <1>1 DEF Answer
  <2>2. HeardInv'
    <3> SUFFICES ASSUME NEW j \in DOMAIN ctl', ctl'[j].heard
                 PROVE  /\ worker # 0 /\ runs[worker].asked
                        /\ \A k \in DOMAIN ctl' : ctl'[k].heard => k = j
      BY <2>1 DEF HeardInv
    <3> DEFINE old(k) == IF k < i THEN k ELSE k + 1
    <3>1. \A k \in DOMAIN ctl' : old(k) \in DOMAIN ctl /\ ctl'[k] = ctl[old(k)]
      BY <1>a, <1>c
    <3>2. /\ worker # 0 /\ runs[worker].asked
          /\ \A k \in DOMAIN ctl' : ctl'[k].heard => old(k) = old(j)
      BY <1>0, <3>1 DEF HeardInv
    <3>3. \A k \in DOMAIN ctl' : old(k) = old(j) => k = j
      BY <1>a, <1>c
    <3> QED BY <3>2, <3>3
  <2> QED BY <1>0, <1>a, <1>c, <2>1, <2>2 DEF AskInv
<1>2. CASE ctl[i].heard
  <2>1. /\ worker \in DOMAIN runs /\ runs[worker].asked /\ runs[worker].pc = "container"
        /\ ~runs[worker].ran
    BY <1>0, <1>a, <1>2 DEF HeardInv, AskInv
  <2>2. \A j \in DOMAIN ctl' : ~ctl'[j].heard
    <3>1. \A k \in DOMAIN ctl : ctl[k].heard => k = i
      BY <1>0, <1>2 DEF HeardInv
    <3>2. ASSUME NEW j \in DOMAIN ctl'
          PROVE  \E k \in DOMAIN ctl : k # i /\ ctl'[j] = ctl[k]
      <4>1. CASE j < i
        <5>1. j \in DOMAIN ctl /\ j # i /\ ctl'[j] = ctl[j]
          BY <1>a, <1>c, <4>1
        <5> QED BY <5>1
      <4>2. CASE ~(j < i)
        <5>1. j + 1 \in DOMAIN ctl /\ j + 1 # i /\ ctl'[j] = ctl[j + 1]
          BY <1>a, <1>c, <4>2
        <5> QED BY <5>1
      <4> QED BY <4>1, <4>2
    <3> QED BY <3>1, <3>2
  <2>3. CASE ok
    <3> DEFINE e == [runs[worker] EXCEPT !.ran = TRUE, !.asked = FALSE]
    <3>1. runs' = [runs EXCEPT ![worker] = e] /\ row' = row /\ worker' = worker
      BY <1>2, <2>3 DEF Answer
    <3>2. runs[worker] \in Run
      BY <1>a, <2>1
    <3>3. /\ e \in Run /\ e.kind = runs[worker].kind /\ e.gen = runs[worker].gen
          /\ e.pc = runs[worker].pc /\ ~e.asked /\ e.token = runs[worker].token
      BY <3>2 DEF Run
    <3> HIDE DEF e
    <3>4. ChangesRun(worker) /\ runs'[worker] = e
      BY <1>a, <2>1, <3>1, <3>3, UpdateRun DEF ChangesRun
    <3>5. AskInv' /\ HeardInv'
      BY <1>0, <2>1, <2>2, <3>3, <3>4, OneRun
    <3> QED BY <1>a, <1>c, <2>1, <3>1, <3>3, <3>4, <3>5 DEF ChangesRun
  <2>4. CASE ~ok
    <3>1. StepThrows(worker)
      BY <1>2, <2>4 DEF Answer
    <3>2. /\ ChangesRun(worker) /\ worker' = 0 /\ ~runs'[worker].asked
          /\ \/ runs'[worker].pc = "done" /\ runs'[worker].token = 0
             \/ runs'[worker].pc = runs[worker].pc /\ runs'[worker].token = runs[worker].token
                /\ runs'[worker].ran = runs[worker].ran
          /\ row' \in Row \cup {NoRow} /\ row'.gen = row.gen
          /\ row' # row => /\ row # NoRow /\ row' # NoRow
                           /\ row'.token = row.token /\ row'.status = "failed"
      BY <1>a, <2>1, <3>1, ThrowsFacts
    <3>3. ~runs'[worker].ran
      <4>1. \/ \E b \in BOOLEAN : runs'[worker] = Replayed(runs[worker], b)
            \/ runs'[worker].ran = runs[worker].ran
        BY <1>a, <2>1, <3>1, AgainFacts DEF StepThrows, Throw
      <4>2. \A b \in BOOLEAN : ~Replayed(runs[worker], b).ran
        BY <1>a, <2>1 DEF Finished, NewRun, Replayed, Run
      <4> QED BY <2>1, <4>1, <4>2
    <3>4. AskInv' /\ HeardInv'
      BY <1>0, <2>1, <2>2, <3>2, <3>3, OneRun
    <3> QED BY <1>a, <1>c, <2>1, <3>2, <3>4 DEF ChangesRun
  <2> QED BY <2>3, <2>4
<1> QED BY <1>1, <1>2

\* So does every step of runner-ctld.
LEMMA CtlType == TypeInv /\ CtlStep => TypeInv'
<1> SUFFICES ASSUME TypeInv, NEW i \in DOMAIN ctl, CtlStops(i) \/ CtlRuns(i) \/ CtlUnlinks(i),
                    UNCHANGED <<gens, tokens, spent, calls, check, posting, crashes>>
             PROVE  TypeInv'
  BY DEF CtlStep, outerVars
<1>0. RunnerTypeOK /\ AskInv /\ HeardInv /\ EnvInv /\ TokenInv
  BY DEF TypeInv
<1>a. ctl \in Seq(Handler) /\ ctl[i] \in Handler /\ i \in 1..Len(ctl) /\ envfile \in Credential
  BY <1>0 DEF RunnerTypeOK
<1>1. CASE CtlStops(i)
  <2> DEFINE e == [ctl[i] EXCEPT !.pc = IF ctl[i].kind = "provision" THEN "run" ELSE "unlink"]
  <2>1. /\ ctl' = [ctl EXCEPT ![i] = e] /\ container' = NoContainer
        /\ UNCHANGED <<row, runs, worker, envfile>>
    BY <1>1 DEF CtlStops
  <2>2. e \in Handler /\ e.heard = ctl[i].heard
    BY <1>a DEF Handler
  <2> HIDE DEF e
  <2>3. /\ ctl' \in Seq(Handler) /\ DOMAIN ctl' = DOMAIN ctl
        /\ \A j \in DOMAIN ctl : ctl'[j].heard = ctl[j].heard
    BY <1>a, <2>1, <2>2
  <2>4. AskInv' /\ HeardInv'
    BY <1>0, <2>1, <2>3 DEF AskInv, HeardInv
  <2> QED BY <1>0, <2>1, <2>3, <2>4 DEF TypeInv, RunnerTypeOK, EnvInv, TokenInv
<1>2. ASSUME NEW ok \in BOOLEAN, Answer(i, ok), envfile' \in Credential, EnvInv',
             container' \in [state : {"starting", "up"}, gen : Nat \ {0}, token : Nat]
                            \cup {NoContainer}
      PROVE  TypeInv'
  <2>1. /\ ctl' \in Seq(Handler) /\ AskInv' /\ HeardInv'
        /\ worker' \in 0..Len(runs') /\ runs' \in Seq(Run)
        /\ row' \in Row \cup {NoRow} /\ row'.gen = row.gen
        /\ row' = row \/ (row # NoRow /\ row'.token = row.token)
    BY <1>2, AnswerFacts
  <2> QED BY <1>0, <1>2, <2>1 DEF TypeInv, RunnerTypeOK, TokenInv
<1>3. CASE CtlUnlinks(i)
  <2>1. /\ envfile' \in Credential /\ EnvInv' /\ container' = container
        /\ Answer(i, TRUE)
    BY <1>3 DEF CtlUnlinks, NoEnv, Credential, EnvInv
  <2> QED BY <1>0, <1>2, <2>1 DEF RunnerTypeOK
<1>4. CASE CtlRuns(i)
  <2>1. envfile' = envfile /\ EnvInv'
    BY <1>0, <1>4 DEF CtlRuns, EnvInv
  <2>2. CASE UNCHANGED container /\ Answer(i, FALSE)
    BY <1>0, <1>2, <1>a, <2>1, <2>2 DEF RunnerTypeOK
  <2>3. CASE /\ envfile # NoEnv /\ Answer(i, TRUE)
             /\ container' = [state |-> "starting", gen |-> envfile.gen,
                              token |-> envfile.token]
    <3>1. envfile.gen \in Nat \ {0} /\ envfile.token \in Nat
      BY <1>0, <1>a, <2>3 DEF Credential, EnvInv
    <3> QED BY <1>2, <1>a, <2>1, <2>3, <3>1
  <2> QED BY <1>4, <2>2, <2>3 DEF CtlRuns
<1> QED BY <1>1, <1>3, <1>4

\* A run that is created comes last and has done nothing.
LEMMA NewRunFacts ==
  ASSUME TypeInv, NEW kind \in {"provision", "heal", "deprovision"}, NEW gen \in Nat \ {0},
         runs' = Append(runs, NewRun(kind, gen)), worker' = worker, ctl' = ctl
  PROVE  /\ runs' \in Seq(Run) /\ Len(runs') = Len(runs) + 1
         /\ \A q \in DOMAIN runs : runs'[q] = runs[q]
         /\ runs'[Len(runs) + 1] = NewRun(kind, gen)
         /\ worker' \in 0..Len(runs') /\ AskInv' /\ HeardInv'
<1>0. RunnerTypeOK /\ AskInv /\ HeardInv /\ EnvInv /\ TokenInv
  BY DEF TypeInv
<1>a. /\ runs \in Seq(Run) /\ Len(runs) \in Nat /\ DOMAIN runs = 1..Len(runs)
      /\ worker \in 0..Len(runs)
  BY <1>0 DEF RunnerTypeOK
<1>1. NewRun(kind, gen) \in Run
  BY RunnerAssumption DEF Run, NewRun
<1>2. /\ runs' \in Seq(Run) /\ Len(runs') = Len(runs) + 1
      /\ \A q \in DOMAIN runs : runs'[q] = runs[q]
      /\ runs'[Len(runs) + 1] = NewRun(kind, gen)
  BY <1>a, <1>1, AppendOne
<1>3. \A q \in DOMAIN runs' : q \in DOMAIN runs \/ q = Len(runs) + 1
  BY <1>a, <1>2
<1>4. ~NewRun(kind, gen).asked /\ ~NewRun(kind, gen).ran
  BY DEF NewRun
<1>5. AskInv'
  BY <1>0, <1>2, <1>3, <1>4 DEF AskInv
<1>6. HeardInv'
  <2>1. worker # 0 => runs'[worker] = runs[worker]
    BY <1>a, <1>2
  <2> QED BY <1>0, <2>1 DEF HeardInv
<1> QED BY <1>a, <1>2, <1>5, <1>6

\* A step that changes neither runs nor handlers nor the env file keeps what is
\* known of them.
LEMMA SameRuns ==
  ASSUME TypeInv, UNCHANGED <<runs, worker, ctl, envfile>>
  PROVE  AskInv' /\ HeardInv' /\ EnvInv'
  BY DEF TypeInv, AskInv, HeardInv, EnvInv

\* So do the routes and what happens to the container.
LEMMA RouteType ==
  ASSUME TypeInv,
         \/ CreateRunner \/ StartProvision
         \/ \E hasToken \in BOOLEAN : DeleteRunner(hasToken)
         \/ \E c \in calls : Callback(c)
         \/ StrikeOut \/ ResetStrikes \/ ContainerRegisters \/ ContainerExits
  PROVE  TypeInv'
<1>0. RunnerTypeOK /\ AskInv /\ HeardInv /\ EnvInv /\ TokenInv
  BY DEF TypeInv
<1>a. /\ row \in Row \cup {NoRow} /\ row.gen \in Nat /\ (row = NoRow <=> row.gen = 0)
      /\ (row # NoRow => row \in Row) /\ NoRow.gen = 0
  BY <1>0, RowFacts DEF RunnerTypeOK, NoRow
<1>1. CASE CreateRunner
  <2>1. /\ row' = [gen |-> gens + 1, status |-> "pending", token |-> 0]
        /\ gens' = gens + 1 /\ posting' = gens + 1
        /\ UNCHANGED <<tokens, spent, runs, worker, ctl, envfile, container, calls, check, crashes>>
    BY <1>1 DEF CreateRunner, netVars
  <2>2. row' \in Row /\ row'.gen = gens + 1 /\ row'.token = 0
    BY <1>0, <2>1 DEF RunnerTypeOK, Row, Status
  <2> QED BY <1>0, <2>1, <2>2, SameRuns DEF TypeInv, RunnerTypeOK, TokenInv
<1>2. CASE StartProvision
  <2>1. /\ posting # 0 /\ posting' = 0
        /\ UNCHANGED <<gens, tokens, spent, worker, ctl, envfile, container, calls, check, crashes>>
        /\ row' = row \/ row' = NoRow
        /\ runs' = runs \/ runs' = Append(runs, NewRun("provision", posting))
    BY <1>2 DEF StartProvision, StartRun, netVars
  <2>2. runs' \in Seq(Run) /\ worker' \in 0..Len(runs') /\ AskInv' /\ HeardInv'
    <3>1. posting \in Nat \ {0}
      BY <1>0, <2>1 DEF RunnerTypeOK
    <3>2. CASE runs' = runs
      BY <1>0, <2>1, <3>2, SameRuns DEF RunnerTypeOK
    <3>3. CASE runs' = Append(runs, NewRun("provision", posting))
      BY <2>1, <3>1, <3>3, NewRunFacts
    <3> QED BY <2>1, <3>2, <3>3
  <2> QED BY <1>0, <1>a, <2>1, <2>2 DEF TypeInv, RunnerTypeOK, EnvInv, TokenInv
<1>3. ASSUME NEW hasToken \in BOOLEAN, DeleteRunner(hasToken) PROVE TypeInv'
  <2>1. /\ row # NoRow /\ (row' = row \/ row' = NoRow)
        /\ runs' = runs \/ runs' = Append(runs, NewRun("deprovision", row.gen))
        /\ UNCHANGED <<gens, tokens, spent, worker, ctl, envfile, container, calls, check,
                       posting, crashes>>
    BY <1>3 DEF DeleteRunner, StartRun, netVars
  <2>2. runs' \in Seq(Run) /\ worker' \in 0..Len(runs') /\ AskInv' /\ HeardInv'
    <3>1. row.gen \in Nat \ {0}
      BY <1>a, <2>1
    <3>2. CASE runs' = runs
      BY <1>0, <2>1, <3>2, SameRuns DEF RunnerTypeOK
    <3>3. CASE runs' = Append(runs, NewRun("deprovision", row.gen))
      BY <2>1, <3>1, <3>3, NewRunFacts
    <3> QED BY <2>1, <3>2, <3>3
  <2> QED BY <1>0, <1>a, <2>1, <2>2 DEF TypeInv, RunnerTypeOK, EnvInv, TokenInv
<1>4. ASSUME NEW c \in calls, Callback(c) PROVE TypeInv'
  <2>1. /\ calls' = calls \ {c}
        /\ \/ row # NoRow /\ CallAccepted(c) /\ Register(c)
           \/ UNCHANGED <<row, spent>>
        /\ UNCHANGED <<gens, tokens, runs, worker, ctl, envfile, container, check, posting, crashes>>
    BY <1>4 DEF Callback, outerVars
  <2>2. /\ row' \in Row \cup {NoRow} /\ row'.gen = row.gen /\ spent' \subseteq 1..tokens
        /\ TokenInv'
    <3>1. CASE UNCHANGED <<row, spent>>
      BY <1>0, <2>1, <3>1 DEF RunnerTypeOK, TokenInv
    <3>2. CASE row # NoRow /\ CallAccepted(c) /\ Register(c)
      <4>1. /\ row' = [row EXCEPT !.status = "online", !.token = 0] /\ spent' = spent \cup {c.token}
            /\ row.token = c.token /\ row.token # 0
        BY <3>2 DEF CallAccepted, Register
      <4>2. row' \in Row /\ row'.gen = row.gen /\ row'.token = 0
        BY <1>a, <3>2, <4>1 DEF Row, Status
      <4>3. c.token \in 1..tokens
        <5>1. row.token \in Nat
          BY <1>a, <3>2 DEF Row
        <5> QED BY <1>0, <3>2, <4>1, <5>1 DEF TokenInv, RunnerTypeOK
      <4> QED BY <1>0, <2>1, <4>1, <4>2, <4>3 DEF RunnerTypeOK, TokenInv
    <3> QED BY <2>1, <3>1, <3>2
  <2> QED BY <1>0, <1>a, <2>1, <2>2, SameRuns DEF TypeInv, RunnerTypeOK
<1>5. CASE StrikeOut \/ ResetStrikes
  <2>1. /\ row # NoRow
        /\ \E status \in Status : row' = [row EXCEPT !.status = status]
        /\ UNCHANGED <<gens, tokens, spent, runs, worker, ctl, envfile, container, calls, check,
                       posting, crashes>>
    BY <1>5 DEF StrikeOut, ResetStrikes, Status, netVars, outerVars
  <2>2. row' \in Row /\ row'.gen = row.gen /\ row'.token = row.token
    BY <1>a, <2>1 DEF Row
  <2> QED BY <1>0, <2>1, <2>2, SameRuns DEF TypeInv, RunnerTypeOK, TokenInv
<1>6. CASE ContainerRegisters
  <2>1. /\ container # NoContainer
        /\ container' = [container EXCEPT !.state = "up"]
        /\ calls' = calls \cup {[gen |-> container.gen, token |-> container.token]}
        /\ UNCHANGED <<row, gens, tokens, spent, runs, worker, ctl, envfile, check, posting, crashes>>
    BY <1>6 DEF ContainerRegisters, outerVars
  <2>2. container \in [state : {"starting", "up"}, gen : Nat \ {0}, token : Nat]
    BY <1>0, <2>1 DEF RunnerTypeOK
  <2>3. /\ container' \in [state : {"starting", "up"}, gen : Nat \ {0}, token : Nat]
        /\ calls' \subseteq Credential
    <3>1. container' \in [state : {"starting", "up"}, gen : Nat \ {0}, token : Nat]
      BY <2>1, <2>2
    <3>2. [gen |-> container.gen, token |-> container.token] \in Credential
      BY <2>2 DEF Credential
    <3>3. calls \subseteq Credential
      BY <1>0 DEF RunnerTypeOK
    <3> QED BY <2>1, <3>1, <3>2, <3>3
  <2> QED BY <1>0, <2>1, <2>3, SameRuns DEF TypeInv, RunnerTypeOK, TokenInv
<1>7. CASE ContainerExits
  <2>1. /\ container' = NoContainer
        /\ UNCHANGED <<row, gens, tokens, spent, runs, worker, ctl, envfile, calls, check,
                       posting, crashes>>
    BY <1>7 DEF ContainerExits, outerVars
  <2> QED BY <1>0, <2>1, SameRuns DEF TypeInv, RunnerTypeOK, TokenInv
<1> QED BY <1>1, <1>2, <1>3, <1>4, <1>5, <1>6, <1>7

\* What the health check is about to act on is a row that was there.
CheckInv == check = NoCheck \/ check.gen # 0

\* The health check marks a row that is online, and starts a heal, or does
\* neither.
LEMMA MarkOfflineFacts ==
  ASSUME TypeInv, NEW g \in Nat \ {0}, MarkOfflineAndHeal(g), worker' = worker, ctl' = ctl
  PROVE  /\ row' \in Row \cup {NoRow} /\ row'.gen = row.gen
         /\ row' # row => /\ row # NoRow /\ row' # NoRow
                          /\ row'.token = row.token /\ row'.status = "offline"
         /\ \/ runs' = runs
            \/ runs' = Append(runs, NewRun("heal", g)) /\ row.gen = g /\ row # NoRow
         /\ runs' \in Seq(Run) /\ worker' \in 0..Len(runs') /\ AskInv' /\ HeardInv'
<1>0. RunnerTypeOK /\ AskInv /\ HeardInv
  BY DEF TypeInv
<1>a. /\ row \in Row \cup {NoRow} /\ runs \in Seq(Run) /\ worker \in 0..Len(runs)
      /\ row = NoRow <=> row.gen = 0
  BY <1>0, RowFacts DEF RunnerTypeOK
<1>1. CASE row.gen = g /\ row.status = "online"
  <2>1. /\ SetStatus(g, "offline")
        /\ runs' = runs \/ runs' = Append(runs, NewRun("heal", g))
    BY <1>1 DEF MarkOfflineAndHeal, StartHeal
  <2>2. /\ row' \in Row \cup {NoRow} /\ row'.gen = row.gen
        /\ row' # row => /\ row # NoRow /\ row' # NoRow
                         /\ row'.token = row.token /\ row'.status = "offline"
    BY <1>a, <2>1, SetStatusFacts DEF Status
  <2>3. row # NoRow
    BY <1>a, <1>1
  <2>4. runs' \in Seq(Run) /\ worker' \in 0..Len(runs') /\ AskInv' /\ HeardInv'
    <3>1. CASE runs' = runs
      BY <1>0, <1>a, <3>1 DEF AskInv, HeardInv
    <3>2. CASE runs' = Append(runs, NewRun("heal", g))
      BY <3>2, NewRunFacts
    <3> QED BY <2>1, <3>1, <3>2
  <2> QED BY <1>1, <2>1, <2>2, <2>3, <2>4
<1>2. CASE ~(row.gen = g /\ row.status = "online")
  <2>1. row' = row /\ runs' = runs
    BY <1>2 DEF MarkOfflineAndHeal
  <2> QED BY <1>0, <1>a, <2>1 DEF AskInv, HeardInv
<1> QED BY <1>1, <1>2

\* The steps of the health check keep the types.
LEMMA CheckType == TypeInv /\ CheckInv /\ CheckStep => TypeInv' /\ CheckInv'
<1> SUFFICES ASSUME TypeInv, CheckInv, CheckReads \/ CheckHears \/ CheckActs,
                    UNCHANGED <<gens, tokens, spent, worker, ctl, envfile, container, calls,
                                posting, crashes>>
             PROVE  TypeInv' /\ CheckInv'
  BY DEF CheckStep, netVars
<1>0. RunnerTypeOK /\ AskInv /\ HeardInv /\ EnvInv /\ TokenInv
  BY DEF TypeInv
<1>a. /\ row \in Row \cup {NoRow} /\ row.gen \in Nat /\ (row # NoRow => row.gen # 0)
      /\ check \in [gen : Nat, seen : {"idle", "asking", "running", "dead", "lost"}]
  BY <1>0, RowFacts DEF RunnerTypeOK
<1>1. CASE CheckReads
  <2>1. /\ row # NoRow /\ check' = [gen |-> row.gen, seen |-> "asking"]
        /\ UNCHANGED <<row, runs>>
    BY <1>1 DEF CheckReads
  <2>2. /\ check' \in [gen : Nat, seen : {"idle", "asking", "running", "dead", "lost"}]
        /\ check'.gen # 0
    BY <1>a, <2>1
  <2> QED BY <1>0, <2>1, <2>2, SameRuns DEF TypeInv, RunnerTypeOK, TokenInv, CheckInv
<1>2. CASE CheckHears
  <2>1. PICK seen \in {"running", "dead"} : check' = [check EXCEPT !.seen = seen]
    BY <1>2 DEF CheckHears
  <2>2. UNCHANGED <<row, runs>> /\ check.seen = "asking"
    BY <1>2 DEF CheckHears
  <2>3. check.gen # 0
    BY <2>2 DEF CheckInv, NoCheck
  <2>4. /\ check' \in [gen : Nat, seen : {"idle", "asking", "running", "dead", "lost"}]
        /\ check'.gen # 0
    BY <1>a, <2>1, <2>3
  <2> QED BY <1>0, <2>2, <2>4, SameRuns DEF TypeInv, RunnerTypeOK, TokenInv, CheckInv
<1>3. CASE CheckActs
  <2>1. /\ check' = NoCheck /\ check.seen # "idle"
        /\ MarkOfflineAndHeal(check.gen) \/ UNCHANGED <<row, runs>>
    BY <1>3 DEF CheckActs
  <2>2. check.gen \in Nat \ {0}
    BY <1>a, <2>1 DEF CheckInv, NoCheck
  <2>3. /\ row' \in Row \cup {NoRow} /\ row'.gen = row.gen
        /\ row' = row \/ (row # NoRow /\ row'.token = row.token)
        /\ runs' \in Seq(Run) /\ worker' \in 0..Len(runs') /\ AskInv' /\ HeardInv'
    <3>1. CASE MarkOfflineAndHeal(check.gen)
      BY <2>2, <3>1, MarkOfflineFacts
    <3>2. CASE UNCHANGED <<row, runs>>
      BY <1>0, <1>a, <3>2, SameRuns DEF RunnerTypeOK
    <3> QED BY <2>1, <3>1, <3>2
  <2>4. check' \in [gen : Nat, seen : {"idle", "asking", "running", "dead", "lost"}]
    BY <2>1 DEF NoCheck
  <2> QED BY <1>0, <2>1, <2>3, <2>4 DEF TypeInv, RunnerTypeOK, EnvInv, TokenInv, CheckInv
<1> QED BY <1>1, <1>2, <1>3

\* A run that bench-web forgot has neither a result nor a request.
LEMMA WebCrashFacts ==
  ASSUME TypeInv, WebCrash
  PROVE  /\ runs' \in Seq(Run) /\ DOMAIN runs' = DOMAIN runs /\ Len(runs') = Len(runs)
         /\ \A q \in DOMAIN runs :
              /\ runs'[q].kind = runs[q].kind /\ runs'[q].gen = runs[q].gen
              /\ runs'[q].pc = runs[q].pc /\ runs'[q].token = runs[q].token
              /\ ~runs'[q].ran /\ ~runs'[q].asked
         /\ ctl' \in Seq(Handler) /\ \A i \in DOMAIN ctl' : ~ctl'[i].heard
<1>0. runs \in Seq(Run) /\ ctl \in Seq(Handler)
  BY DEF TypeInv, RunnerTypeOK
<1> DEFINE e(q) == [runs[q] EXCEPT !.ran = FALSE, !.asked = FALSE]
           h(i) == [ctl[i] EXCEPT !.heard = FALSE]
<1>1. runs' = [q \in DOMAIN runs |-> e(q)] /\ ctl' = [i \in DOMAIN ctl |-> h(i)]
  BY DEF WebCrash
<1>2. \A q \in DOMAIN runs :
        /\ e(q) \in Run /\ e(q).kind = runs[q].kind /\ e(q).gen = runs[q].gen
        /\ e(q).pc = runs[q].pc /\ e(q).token = runs[q].token /\ ~e(q).ran /\ ~e(q).asked
  <2> SUFFICES ASSUME NEW q \in DOMAIN runs
               PROVE  /\ e(q) \in Run /\ e(q).kind = runs[q].kind /\ e(q).gen = runs[q].gen
                      /\ e(q).pc = runs[q].pc /\ e(q).token = runs[q].token
                      /\ ~e(q).ran /\ ~e(q).asked
    OBVIOUS
  <2>1. runs[q] \in Run
    BY <1>0
  <2> QED BY <2>1 DEF Run
<1>3. \A i \in DOMAIN ctl : h(i) \in Handler /\ ~h(i).heard
  <2> SUFFICES ASSUME NEW i \in DOMAIN ctl PROVE h(i) \in Handler /\ ~h(i).heard
    OBVIOUS
  <2>1. ctl[i] \in Handler
    BY <1>0
  <2> QED BY <2>1 DEF Handler
<1> HIDE DEF e, h
<1>4. runs' \in Seq(Run) /\ DOMAIN runs' = DOMAIN runs /\ Len(runs') = Len(runs)
  <2>1. DOMAIN runs = 1..Len(runs) /\ Len(runs) \in Nat
    BY <1>0
  <2> QED BY <1>1, <1>2, <2>1
<1>5. ctl' \in Seq(Handler) /\ DOMAIN ctl' = DOMAIN ctl
  <2>1. DOMAIN ctl = 1..Len(ctl) /\ Len(ctl) \in Nat
    BY <1>0
  <2> QED BY <1>1, <1>3, <2>1
<1> QED BY <1>1, <1>2, <1>3, <1>4, <1>5

\* A death of bench-web or of runner-ctld keeps the types.
LEMMA CrashType == TypeInv /\ CheckInv /\ (WebCrash \/ CtlCrash) => TypeInv' /\ CheckInv'
<1> SUFFICES ASSUME TypeInv, CheckInv, WebCrash \/ CtlCrash PROVE TypeInv' /\ CheckInv'
  OBVIOUS
<1>0. RunnerTypeOK /\ AskInv /\ HeardInv /\ EnvInv /\ TokenInv
  BY DEF TypeInv
<1>c. crashes' = crashes + 1 /\ crashes < MaxCrashes
  BY DEF WebCrash, CtlCrash
<1>d. crashes' \in 0..MaxCrashes
  BY <1>0, <1>c, RunnerAssumption DEF RunnerTypeOK
<1>1. CASE WebCrash
  <2>1. /\ worker' = 0 /\ check' = NoCheck /\ posting' = 0
        /\ UNCHANGED <<row, gens, tokens, spent, envfile, container, calls>>
    BY <1>1 DEF WebCrash
  <2>2. runs' \in Seq(Run) /\ AskInv' /\ HeardInv' /\ ctl' \in Seq(Handler)
    BY <1>1, WebCrashFacts DEF AskInv, HeardInv
  <2>3. check' \in [gen : Nat, seen : {"idle", "asking", "running", "dead", "lost"}]
    BY <2>1 DEF NoCheck
  <2>4. posting' \in 0..gens' /\ worker' \in 0..Len(runs')
    BY <1>0, <2>1, <2>2 DEF RunnerTypeOK
  <2> QED BY <1>0, <1>d, <2>1, <2>2, <2>3, <2>4
          DEF TypeInv, RunnerTypeOK, EnvInv, TokenInv, CheckInv
<1>2. CASE CtlCrash
  <2>1. /\ ctl' = <<>> /\ UNCHANGED <<gens, tokens, spent, envfile, container, calls, posting>>
        /\ check' = IF check.seen = "asking" THEN [check EXCEPT !.seen = "lost"] ELSE check
        /\ \/ UNCHANGED <<row, runs, worker>>
           \/ (\E i \in DOMAIN ctl : ctl[i].heard) /\ StepThrows(worker)
    BY <1>2 DEF CtlCrash
  <2>2. /\ check' \in [gen : Nat, seen : {"idle", "asking", "running", "dead", "lost"}]
        /\ CheckInv'
    <3>1. check \in [gen : Nat, seen : {"idle", "asking", "running", "dead", "lost"}]
      BY <1>0 DEF RunnerTypeOK
    <3>2. CASE check.seen = "asking"
      <4>1. check.gen # 0
        BY <3>2 DEF CheckInv, NoCheck
      <4>2. check' = [check EXCEPT !.seen = "lost"]
        BY <2>1, <3>2
      <4> QED BY <3>1, <4>1, <4>2 DEF CheckInv
    <3>3. CASE check.seen # "asking"
      BY <2>1, <3>1, <3>3 DEF CheckInv
    <3> QED BY <3>2, <3>3
  <2>3. ctl' \in Seq(Handler) /\ HeardInv'
    BY <2>1 DEF HeardInv
  <2>4. /\ runs' \in Seq(Run) /\ worker' \in 0..Len(runs') /\ AskInv'
        /\ row' \in Row \cup {NoRow} /\ row'.gen = row.gen
        /\ row' = row \/ (row # NoRow /\ row'.token = row.token)
    <3>1. CASE UNCHANGED <<row, runs, worker>>
      BY <1>0, <3>1 DEF RunnerTypeOK, AskInv
    <3>2. CASE (\E i \in DOMAIN ctl : ctl[i].heard) /\ StepThrows(worker)
      <4>a. runs \in Seq(Run) /\ row \in Row \cup {NoRow} /\ worker \in 0..Len(runs)
        BY <1>0 DEF RunnerTypeOK
      <4>1. worker \in DOMAIN runs /\ runs[worker].asked
        BY <1>0, <3>2, <4>a DEF HeardInv
      <4>2. ~runs[worker].ran
        BY <1>0, <4>1 DEF AskInv
      <4>3. /\ ChangesRun(worker) /\ worker' = 0 /\ ~runs'[worker].asked
            /\ row' \in Row \cup {NoRow} /\ row'.gen = row.gen
            /\ row' = row \/ (row # NoRow /\ row'.token = row.token)
        BY <3>2, <4>a, <4>1, ThrowsFacts
      <4>4. ~runs'[worker].ran
        <5>1. \/ \E b \in BOOLEAN : runs'[worker] = Replayed(runs[worker], b)
              \/ runs'[worker].ran = runs[worker].ran
          BY <3>2, <4>a, <4>1, AgainFacts DEF StepThrows, Throw
        <5>2. \A b \in BOOLEAN : ~Replayed(runs[worker], b).ran
          BY <4>a, <4>1, <4>2 DEF Finished, NewRun, Replayed, Run
        <5> QED BY <4>2, <5>1, <5>2
      <4>5. AskInv'
        BY <1>0, <4>1, <4>3, <4>4 DEF AskInv, ChangesRun
      <4>6. worker' \in 0..Len(runs')
        BY <4>a, <4>3 DEF ChangesRun
      <4> QED BY <4>3, <4>5, <4>6 DEF ChangesRun
    <3> QED BY <2>1, <3>1, <3>2
  <2> QED BY <1>0, <1>d, <2>1, <2>2, <2>3, <2>4 DEF TypeInv, RunnerTypeOK, EnvInv, TokenInv
<1> QED BY <1>1, <1>2

\* Every step keeps the types and the bookkeeping.
LEMMA TypeStep == TypeInv /\ CheckInv /\ [RunnerNext]_runnerVars => TypeInv' /\ CheckInv'
<1> SUFFICES ASSUME TypeInv, CheckInv, [RunnerNext]_runnerVars PROVE TypeInv' /\ CheckInv'
  OBVIOUS
<1>1. CASE \/ CreateRunner \/ StartProvision
           \/ \E hasToken \in BOOLEAN : DeleteRunner(hasToken)
           \/ \E c \in calls : Callback(c)
           \/ StrikeOut \/ ResetStrikes \/ ContainerRegisters \/ ContainerExits
  <2>1. check' = check
    BY <1>1 DEF CreateRunner, StartProvision, DeleteRunner, Callback, StrikeOut, ResetStrikes,
                ContainerRegisters, ContainerExits, outerVars
  <2> QED BY <1>1, <2>1, RouteType DEF CheckInv
<1>2. CASE WorkflowStep
  <2>1. check' = check
    BY <1>2 DEF WorkflowStep, RunStep, AskCtl, Memoize, CheckRegistration, StepFails,
                workerRest, outerVars
  <2> QED BY <1>2, <2>1, WorkflowType DEF CheckInv
<1>3. CASE CtlStep
  <2>1. check' = check
    BY <1>3 DEF CtlStep, outerVars
  <2> QED BY <1>3, <2>1, CtlType DEF CheckInv
<1>4. CASE CheckStep
  BY <1>4, CheckType
<1>5. CASE WebCrash \/ CtlCrash
  BY <1>5, CrashType
<1>6. CASE UNCHANGED runnerVars
  BY <1>6 DEF runnerVars, netVars, outerVars, TypeInv, RunnerTypeOK, AskInv, HeardInv, EnvInv,
              TokenInv, CheckInv
<1> QED BY <1>1, <1>2, <1>3, <1>4, <1>5, <1>6 DEF RunnerNext

\* And they hold at the start.
LEMMA TypeInit == RunnerInit => TypeInv /\ CheckInv
  BY RunnerAssumption DEF RunnerInit, TypeInv, RunnerTypeOK, AskInv, HeardInv, EnvInv, TokenInv,
     CheckInv, NoRow, NoEnv, NoContainer, NoCheck, Credential

\* The state of a runner has its type in every run.
THEOREM RunnerTypeCorrect == RunnerSpec => []RunnerTypeOK
<1>1. RunnerInit => TypeInv /\ CheckInv
  BY TypeInit
<1>2. TypeInv /\ CheckInv /\ [RunnerNext]_runnerVars => TypeInv' /\ CheckInv'
  BY TypeStep
<1>3. TypeInv => RunnerTypeOK
  BY DEF TypeInv
<1> QED BY <1>1, <1>2, <1>3, PTL DEF RunnerSpec

-----------------------------------------------------------------------------
(* Credentials.  A run that has not stored a token is the newest that      *)
(* registers a container of its row, the row is not online, and what the   *)
(* row expects is not yet out of the run's hands.                          *)

\* A run that still has to draw its token, or to store it.
Draws(r) == runs[r].kind # "deprovision" /\ runs[r].pc \in {"mark", "token"}

\* A token that left bench-web.
OutOfHands(t) ==
  \/ envfile.token = t
  \/ container # NoContainer /\ container.token = t
  \/ \E c \in calls : c.token = t

\* A token that left bench-web or can leave it.
Handed(t) == OutOfHands(t) \/ \E q \in DOMAIN runs : ~Draws(q) /\ runs[q].token = t

\* All that is known was drawn.
KnownInv ==
  /\ \A q \in DOMAIN runs : /\ runs[q].gen <= gens /\ runs[q].token <= tokens
                            /\ runs[q].pc = "token" => runs[q].kind # "deprovision"
  /\ \A t \in Nat : OutOfHands(t) => t <= tokens

DrawsLast ==
  \A r, q \in DOMAIN runs :
     Draws(r) /\ runs[q].kind # "deprovision" /\ runs[q].gen = runs[r].gen => q <= r

DrawInv ==
  \A r \in DOMAIN runs : Draws(r) /\ runs[r].gen = row.gen =>
     /\ row.status # "online"
     /\ \A t \in Nat \ {0} : row.token = t => ~Handed(t)
     /\ \A q \in DOMAIN runs : q # r /\ runs[q].token # 0 => runs[q].token # row.token
     /\ runs[r].pc = "token" /\ runs[r].ran => row.token = runs[r].token

\* The POST that awaits its run is the only one that knows the row.
PostInv ==
  posting # 0 =>
    /\ \A q \in DOMAIN runs : runs[q].gen = posting => runs[q].kind = "deprovision"
    /\ row.gen = posting => row.token = 0 /\ row.status # "online"

FreshInv == row # NoRow => row.token \notin spent

RegInv == /\ KnownInv /\ DrawsLast /\ DrawInv /\ PostInv /\ FreshInv
          /\ OnlineHasSpent /\ ExpectsNewest

\* What a step that draws and accepts no token may make of a run.
Kept(q) ==
  /\ runs'[q].kind = runs[q].kind /\ runs'[q].gen = runs[q].gen
  /\ \/ runs'[q].pc = "done" /\ runs'[q].token = 0
     \/ /\ runs'[q].token = runs[q].token
        /\ \/ /\ runs'[q].pc = runs[q].pc
              /\ runs[q].pc = "token" /\ runs'[q].ran => runs[q].ran
           \/ /\ runs[q].pc = "mark" /\ runs[q].kind # "deprovision"
              /\ runs'[q].pc = "token" /\ ~runs'[q].ran
           \/ /\ runs'[q].pc \in {"container", "check", "github", "delete"}
              /\ \/ runs[q].kind = "deprovision" \/ runs[q].pc \in {"container", "check"}
                 \/ runs[q].pc = "github" /\ runs'[q].pc = "delete"

\* A run that such a step may create.
Added(q) ==
  /\ q = Len(runs) + 1
  /\ runs'[q].pc = "mark" /\ runs'[q].token = 0 /\ runs'[q].gen <= gens
  /\ \/ runs'[q].kind = "deprovision"
     \/ /\ \A p \in DOMAIN runs : Draws(p) => runs[p].gen # runs'[q].gen
        /\ row'.gen = runs'[q].gen => row'.token = 0 /\ row'.status # "online"
        /\ runs'[q].gen # posting'

\* What it may make of the row.
RowKept ==
  \/ row' = row
  \/ row' = NoRow
  \/ /\ row # NoRow /\ row' # NoRow /\ row'.gen = row.gen /\ row'.token = row.token
     /\ row'.status # "online"
     /\ row'.status \in {"provisioning", "healing"} =>
          \E d \in DOMAIN runs : /\ runs[d].gen = row.gen /\ Draws(d)
                                 /\ runs'[d].pc \in {"mark", "token"}

Quiet ==
  /\ UNCHANGED <<gens, tokens, spent>> /\ posting' \in {posting, 0}
  /\ RowKept
  /\ DOMAIN runs \subseteq DOMAIN runs'
  /\ \A q \in DOMAIN runs : Kept(q)
  /\ \A q \in DOMAIN runs' : q \notin DOMAIN runs => Added(q)
  /\ \A t \in Nat \ {0} : OutOfHands(t)' => Handed(t)

\* The row that such a step leaves, seen from a run of its number.
LEMMA QuietRow ==
  ASSUME TypeInv, RowKept, NEW g \in Nat \ {0}, row'.gen = g
  PROVE  /\ row # NoRow /\ row' # NoRow /\ row.gen = g /\ row'.token = row.token
         /\ row'.status = row.status \/ row'.status # "online"
<1>1. row \in Row \cup {NoRow} /\ (row = NoRow <=> row.gen = 0)
  BY RowFacts DEF TypeInv, RunnerTypeOK
<1>2. NoRow.gen = 0
  BY DEF NoRow
<1> QED BY <1>1, <1>2 DEF RowKept

\* A run that draws its token after such a step did so before, or is new.
LEMMA KeptDraws ==
  ASSUME NEW q \in DOMAIN runs, Kept(q)
  PROVE  /\ Draws(q)' => /\ Draws(q) /\ runs'[q].token = runs[q].token
                         /\ runs'[q].pc = "token" /\ runs'[q].ran =>
                              runs[q].pc = "token" /\ runs[q].ran
         /\ ~Draws(q)' => runs'[q].token = 0 \/ (~Draws(q) /\ runs'[q].token = runs[q].token)
  BY DEF Kept, Draws

\* No token leaves bench-web in such a step that could not leave it before.
LEMMA QuietHanded ==
  ASSUME Quiet, NEW t \in Nat \ {0}, Handed(t)'
  PROVE  Handed(t)
<1>1. CASE OutOfHands(t)'
  BY <1>1 DEF Quiet
<1>2. ASSUME NEW q \in DOMAIN runs', ~Draws(q)', runs'[q].token = t PROVE Handed(t)
  <2>1. CASE q \in DOMAIN runs
    <3>1. ~Draws(q) /\ runs[q].token = t
      BY <1>2, <2>1, KeptDraws DEF Quiet
    <3> QED BY <2>1, <3>1 DEF Handed
  <2>2. CASE q \notin DOMAIN runs
    BY <1>2, <2>2 DEF Quiet, Added
  <2> QED BY <2>1, <2>2
<1> QED BY <1>1, <1>2 DEF Handed

\* Such a step keeps what is known of credentials.
LEMMA QuietReg ==
  ASSUME TypeInv, TypeInv', RegInv, Quiet
  PROVE  RegInv'
<1>a. /\ gens \in Nat /\ tokens \in Nat /\ posting \in Nat
      /\ runs \in Seq(Run) /\ runs' \in Seq(Run) /\ row' \in Row \cup {NoRow}
      /\ Len(runs) \in Nat /\ DOMAIN runs = 1..Len(runs)
  BY DEF TypeInv, RunnerTypeOK
<1>b. /\ gens' = gens /\ tokens' = tokens /\ spent' = spent /\ posting' \in {posting, 0}
      /\ RowKept /\ DOMAIN runs \subseteq DOMAIN runs'
      /\ \A q \in DOMAIN runs : Kept(q)
      /\ \A q \in DOMAIN runs' : q \notin DOMAIN runs => Added(q)
  BY DEF Quiet
<1>c. KnownInv /\ DrawsLast /\ DrawInv /\ PostInv /\ FreshInv /\ OnlineHasSpent /\ ExpectsNewest
  BY DEF RegInv
<1>d. \A q \in DOMAIN runs : /\ runs[q] \in Run
                             /\ runs'[q].kind = runs[q].kind /\ runs'[q].gen = runs[q].gen
  BY <1>a, <1>b DEF Kept
<1>e. \A q \in DOMAIN runs' : runs'[q] \in Run /\ runs'[q].gen \in Nat \ {0}
                              /\ runs'[q].token \in Nat
  <2> SUFFICES ASSUME NEW q \in DOMAIN runs'
               PROVE  runs'[q] \in Run /\ runs'[q].gen \in Nat \ {0} /\ runs'[q].token \in Nat
    OBVIOUS
  <2>1. runs'[q] \in Run
    BY <1>a
  <2> QED BY <2>1 DEF Run
<1>f. row'.gen = 0 <=> row' = NoRow
  BY <1>a DEF Row, NoRow
<1>1. KnownInv'
  <2>1. ASSUME NEW q \in DOMAIN runs'
        PROVE  /\ runs'[q].gen <= gens /\ runs'[q].token <= tokens
               /\ runs'[q].pc = "token" => runs'[q].kind # "deprovision"
    <3>1. CASE q \in DOMAIN runs
      <4>1. Kept(q) /\ runs[q].gen <= gens /\ runs[q].token <= tokens
            /\ (runs[q].pc = "token" => runs[q].kind # "deprovision")
        BY <1>b, <1>c, <3>1 DEF KnownInv
      <4> QED BY <1>a, <4>1 DEF Kept
    <3>2. CASE q \notin DOMAIN runs
      BY <1>a, <1>b, <3>2 DEF Added
    <3> QED BY <3>1, <3>2
  <2>2. ASSUME NEW t \in Nat, OutOfHands(t)' PROVE t <= tokens
    <3>1. CASE t = 0
      BY <1>a, <3>1
    <3>2. CASE t # 0
      <4>1. Handed(t)
        BY <2>2, <3>2 DEF Quiet
      <4> QED BY <1>c, <4>1 DEF Handed, KnownInv
    <3> QED BY <3>1, <3>2
  <2> QED BY <1>b, <2>1, <2>2 DEF KnownInv
<1>2. DrawsLast'
  <2> SUFFICES ASSUME NEW r \in DOMAIN runs', NEW q \in DOMAIN runs', Draws(r)',
                      runs'[q].kind # "deprovision", runs'[q].gen = runs'[r].gen
               PROVE  q <= r
    BY DEF DrawsLast
  <2>1. CASE r \in DOMAIN runs /\ q \in DOMAIN runs
    <3>1. Draws(r)
      BY <1>b, <2>1, KeptDraws
    <3> QED BY <1>c, <1>d, <2>1, <3>1 DEF DrawsLast
  <2>2. CASE r \in DOMAIN runs /\ q \notin DOMAIN runs
    <3>1. Draws(r)
      BY <1>b, <2>2, KeptDraws
    <3>2. Added(q)
      BY <1>b, <2>2
    <3> QED BY <1>d, <2>2, <3>1, <3>2 DEF Added
  <2>3. CASE r \notin DOMAIN runs
    <3>1. r = Len(runs) + 1
      BY <1>b, <2>3 DEF Added
    <3>2. q \in 1..Len(runs) \/ q = Len(runs) + 1
      BY <1>a, <1>b DEF Added
    <3> QED BY <1>a, <3>1, <3>2
  <2> QED BY <2>1, <2>2, <2>3
<1>3. DrawInv'
  <2> SUFFICES ASSUME NEW r \in DOMAIN runs', Draws(r)', runs'[r].gen = row'.gen
               PROVE  /\ row'.status # "online"
                      /\ \A t \in Nat \ {0} : row'.token = t => ~Handed(t)'
                      /\ \A q \in DOMAIN runs' : q # r /\ runs'[q].token # 0 =>
                                                    runs'[q].token # row'.token
                      /\ runs'[r].pc = "token" /\ runs'[r].ran => row'.token = runs'[r].token
    BY DEF DrawInv
  <2>1. /\ row # NoRow /\ row' # NoRow /\ row.gen = runs'[r].gen /\ row'.token = row.token
        /\ row'.status = row.status \/ row'.status # "online"
    BY <1>b, <1>e, QuietRow
  <2>3. CASE r \in DOMAIN runs
    <3>1. /\ Draws(r) /\ runs'[r].token = runs[r].token
          /\ runs'[r].pc = "token" /\ runs'[r].ran => runs[r].pc = "token" /\ runs[r].ran
      BY <1>b, <2>3, KeptDraws
    <3>2. /\ row.status # "online"
          /\ \A t \in Nat \ {0} : row.token = t => ~Handed(t)
          /\ \A q \in DOMAIN runs : q # r /\ runs[q].token # 0 => runs[q].token # row.token
          /\ runs[r].pc = "token" /\ runs[r].ran => row.token = runs[r].token
      BY <1>c, <1>d, <2>1, <2>3, <3>1 DEF DrawInv
    <3>3. \A t \in Nat \ {0} : row.token = t => ~Handed(t)'
      BY <3>2, QuietHanded
    <3>4. ASSUME NEW q \in DOMAIN runs', q # r, runs'[q].token # 0
          PROVE  runs'[q].token # row.token
      <4>1. q \in DOMAIN runs /\ runs'[q].token = runs[q].token
        BY <1>b, <3>4 DEF Kept, Added
      <4> QED BY <3>2, <3>4, <4>1
    <3> QED BY <2>1, <3>1, <3>2, <3>3, <3>4
  <2>4. CASE r \notin DOMAIN runs
    <3>1. Added(r) /\ runs'[r].kind # "deprovision"
      BY <1>b, <2>4 DEF Draws
    <3> QED BY <2>1, <3>1 DEF Added
  <2> QED BY <2>3, <2>4
<1>4. PostInv'
  <2> SUFFICES ASSUME posting' # 0
               PROVE  /\ \A q \in DOMAIN runs' : runs'[q].gen = posting' =>
                                                   runs'[q].kind = "deprovision"
                      /\ row'.gen = posting' => row'.token = 0 /\ row'.status # "online"
    BY DEF PostInv
  <2>1. posting' = posting /\ posting # 0
    BY <1>b
  <2>2. ASSUME NEW q \in DOMAIN runs', runs'[q].gen = posting
        PROVE  runs'[q].kind = "deprovision"
    <3>1. CASE q \in DOMAIN runs
      BY <1>c, <1>d, <2>1, <2>2, <3>1 DEF PostInv
    <3>2. CASE q \notin DOMAIN runs
      BY <1>b, <2>1, <2>2, <3>2 DEF Added
    <3> QED BY <3>1, <3>2
  <2>3. ASSUME row'.gen = posting PROVE row'.token = 0 /\ row'.status # "online"
    <3>1. /\ row.gen = posting /\ row'.token = row.token
          /\ row'.status = row.status \/ row'.status # "online"
      BY <1>a, <1>b, <2>1, <2>3, QuietRow
    <3> QED BY <1>c, <2>1, <3>1 DEF PostInv
  <2> QED BY <2>1, <2>2, <2>3
<1>5. FreshInv' /\ OnlineHasSpent'
  <2>1. CASE row' = row \/ row' = NoRow
    BY <1>b, <1>c, <2>1 DEF FreshInv, OnlineHasSpent
  <2>2. CASE row # NoRow /\ row'.token = row.token /\ row'.status # "online"
    BY <1>b, <1>c, <2>2 DEF FreshInv, OnlineHasSpent
  <2> QED BY <1>b, <2>1, <2>2 DEF RowKept
<1>6. ExpectsNewest'
  <2> SUFFICES ASSUME NEW r \in DOMAIN runs',
                      runs'[r].gen = row'.gen, runs'[r].kind # "deprovision",
                      runs'[r].pc \in {"container", "check"},
                      \A q \in DOMAIN runs' : runs'[q].gen = row'.gen
                                              /\ runs'[q].kind # "deprovision" => q <= r,
                      row'.status \in {"provisioning", "healing"}
               PROVE  row'.token = runs'[r].token
    BY DEF ExpectsNewest, Registers
  <2>1. /\ row # NoRow /\ row' # NoRow /\ row.gen = row'.gen /\ row'.token = row.token
    BY <1>b, <1>e, QuietRow
  <2>2. r \in DOMAIN runs
    BY <1>b DEF Added
  <2>3. /\ runs[r].pc \in {"container", "check"} /\ runs'[r].token = runs[r].token
        /\ runs[r].gen = row.gen /\ runs[r].kind # "deprovision"
    BY <1>b, <2>1, <2>2 DEF Kept
  <2>4. \A q \in DOMAIN runs : runs[q].gen = row.gen /\ runs[q].kind # "deprovision" => q <= r
    BY <1>b, <1>d, <2>1
  <2>5. CASE row' = row
    BY <1>c, <2>2, <2>3, <2>4, <2>5 DEF ExpectsNewest, Registers
  <2>6. CASE row' # row
    <3>1. PICK d \in DOMAIN runs : runs[d].gen = row.gen /\ Draws(d)
      BY <1>b, <2>1, <2>6 DEF RowKept
    <3>2. d <= r
      BY <2>4, <3>1 DEF Draws
    <3>3. r <= d
      BY <1>c, <2>2, <2>3, <3>1 DEF DrawsLast
    <3>4. d = r
      BY <1>a, <2>2, <3>2, <3>3
    <3> QED BY <2>3, <3>1, <3>4 DEF Draws
  <2> QED BY <2>5, <2>6
<1> QED BY <1>1, <1>2, <1>3, <1>4, <1>5, <1>6 DEF RegInv

-----------------------------------------------------------------------------
(* Which steps are quiet.                                                  *)

\* A step that changes one run as a quiet step may.
LEMMA QuietOne ==
  ASSUME NEW r \in DOMAIN runs, ChangesRun(r), Kept(r), UNCHANGED <<gens, tokens, spent>>,
         posting' \in {posting, 0}, RowKept, \A t \in Nat \ {0} : OutOfHands(t)' => Handed(t)
  PROVE  Quiet
<1>1. \A q \in DOMAIN runs : Kept(q)
  BY DEF ChangesRun, Kept
<1> QED BY <1>1 DEF Quiet, ChangesRun

\* A step that changes no run.
LEMMA QuietNone ==
  ASSUME runs' = runs, UNCHANGED <<gens, tokens, spent>>,
         posting' \in {posting, 0}, RowKept, \A t \in Nat \ {0} : OutOfHands(t)' => Handed(t)
  PROVE  Quiet
<1>1. \A q \in DOMAIN runs : Kept(q)
  BY DEF Kept
<1> QED BY <1>1 DEF Quiet

\* Where no token travels.
LEMMA SameNet ==
  ASSUME UNCHANGED <<envfile, container, calls>>
  PROVE  \A t \in Nat \ {0} : OutOfHands(t)' => Handed(t)
  BY DEF OutOfHands, Handed

\* A throw, or what the row looks like after an update of the status.
LEMMA StatusKept ==
  ASSUME row'.gen = row.gen,
         row' # row => /\ row # NoRow /\ row' # NoRow /\ row'.token = row.token
                       /\ row'.status \in Status \ {"online", "provisioning", "healing"}
  PROVE  RowKept
  BY DEF RowKept

\* A new run comes last.
LEMMA QuietAppend ==
  ASSUME TypeInv, NEW kind \in {"provision", "heal", "deprovision"}, NEW g \in Nat \ {0},
         runs' = Append(runs, NewRun(kind, g)), worker' = worker, ctl' = ctl,
         UNCHANGED <<gens, tokens, spent>>, posting' \in {posting, 0}, RowKept, g <= gens,
         \A t \in Nat \ {0} : OutOfHands(t)' => Handed(t),
         \/ kind = "deprovision"
         \/ /\ \A p \in DOMAIN runs : Draws(p) => runs[p].gen # g
            /\ row'.gen = g => row'.token = 0 /\ row'.status # "online"
            /\ g # posting'
  PROVE  Quiet
<1>1. /\ runs' \in Seq(Run) /\ Len(runs') = Len(runs) + 1
      /\ \A q \in DOMAIN runs : runs'[q] = runs[q]
      /\ runs'[Len(runs) + 1] = NewRun(kind, g)
  BY NewRunFacts
<1>2. /\ DOMAIN runs = 1..Len(runs) /\ Len(runs) \in Nat /\ DOMAIN runs' = 1..Len(runs')
  BY <1>1 DEF TypeInv, RunnerTypeOK
<1>3. \A q \in DOMAIN runs : Kept(q)
  BY <1>1 DEF Kept
<1>4. ASSUME NEW q \in DOMAIN runs', q \notin DOMAIN runs PROVE Added(q)
  <2>1. q = Len(runs) + 1
    BY <1>1, <1>2, <1>4
  <2> QED BY <1>1, <2>1 DEF Added, NewRun
<1> QED BY <1>1, <1>2, <1>3, <1>4 DEF Quiet

\* The steps of a workflow, but for those that draw or store a token.
LEMMA QuietWorkflow ==
  ASSUME TypeInv, RegInv, NEW r \in DOMAIN runs,
         \/ RunStep(r) /\ ~DrawToken(r)
         \/ AskCtl(r)
         \/ Memoize(r) /\ runs[r].pc # "token"
         \/ CheckRegistration(r) \/ StepFails(r)
  PROVE  Quiet
<1>0. RunnerTypeOK /\ AskInv
  BY DEF TypeInv
<1>a. /\ runs \in Seq(Run) /\ row \in Row \cup {NoRow} /\ tokens \in Nat /\ worker \in Nat
      /\ ctl \in Seq(Handler) /\ runs[r] \in Run
  BY <1>0 DEF RunnerTypeOK
<1>b. runs[r].kind \in {"provision", "heal", "deprovision"} /\ (row = NoRow <=> row.gen = 0)
      /\ runs[r].gen # 0
  BY <1>a, RowFacts DEF Run
<1>1. CASE RunStep(r) /\ ~DrawToken(r)
  <2>1. UNCHANGED <<gens, spent, envfile, container, calls, posting>>
    BY <1>1 DEF RunStep, netVars
  <2>2. CASE MarkRow(r)
    <3>1. /\ ChangesRun(r)
          /\ runs[r].pc = "mark" /\ runs'[r].pc = "mark" /\ runs'[r].token = runs[r].token
          /\ row'.gen = row.gen
          /\ row' # row => /\ row # NoRow /\ row' # NoRow
                           /\ row.gen = runs[r].gen /\ row'.token = row.token
                           /\ row'.status \in {"provisioning", "healing", "removing"}
                           /\ runs[r].kind = "deprovision" => row'.status = "removing"
      BY <1>a, <2>2, MarkFacts
    <3>2. Kept(r) /\ tokens' = tokens
      BY <2>2, <3>1 DEF Kept, ChangesRun, MarkRow
    <3>3. RowKept
      BY <3>1 DEF RowKept, Draws
    <3> QED BY <2>1, <3>1, <3>2, <3>3, QuietOne, SameNet
  <2>3. CASE DeleteRow(r)
    <3>1. ChangesRun(r) /\ runs'[r].pc = "done" /\ runs'[r].token = 0
      BY <1>a, <2>3, DeleteFacts
    <3>2. Kept(r) /\ tokens' = tokens /\ RowKept
      BY <2>3, <3>1 DEF Kept, ChangesRun, DeleteRow, RowKept
    <3> QED BY <2>1, <3>1, <3>2, QuietOne, SameNet
  <2>4. CASE RemoveFromGithub(r)
    <3>1. /\ ChangesRun(r)
          /\ runs[r].pc = "github" /\ runs'[r].pc = "delete" /\ runs'[r].token = runs[r].token
      BY <1>a, <2>4, GithubFacts
    <3>2. /\ runs' = [runs EXCEPT ![r].pc = "delete"] /\ tokens' = tokens /\ row' = row
      BY <2>4 DEF RemoveFromGithub
    <3>3. RowKept /\ Kept(r)
      BY <3>1, <3>2 DEF RowKept, Kept, ChangesRun
    <3> QED BY <2>1, <3>1, <3>2, <3>3, QuietOne, SameNet
  <2> QED BY <1>1, <2>2, <2>3, <2>4 DEF RunStep
<1>2. CASE AskCtl(r)
  <2>1. /\ UNCHANGED <<row, gens, tokens, spent, container, calls, posting>>
        /\ envfile' = envfile \/ envfile' = [gen |-> runs[r].gen, token |-> runs[r].token]
    BY <1>2 DEF AskCtl, WriteEnv, outerVars
  <2>2. /\ ChangesRun(r) /\ runs[r].pc = "container" /\ runs'[r].pc = "container"
        /\ runs'[r].token = runs[r].token
    BY <1>a, <1>2, AskFacts
  <2>3. Kept(r) /\ RowKept /\ ~Draws(r)
    BY <2>1, <2>2 DEF Kept, ChangesRun, RowKept, Draws
  <2>4. \A t \in Nat \ {0} : OutOfHands(t)' => Handed(t)
    BY <2>1, <2>3 DEF OutOfHands, Handed
  <2> QED BY <2>1, <2>2, <2>3, <2>4, QuietOne
<1>3. CASE Memoize(r) /\ runs[r].pc # "token"
  <2>1. UNCHANGED <<row, gens, tokens, spent, envfile, container, calls, posting>>
    BY <1>3 DEF Memoize, workerRest, outerVars
  <2>2. runs[r].pc \in {"mark", "container"}
    BY <1>0, <1>3 DEF AskInv, Memoize
  <2>3. /\ ChangesRun(r) /\ runs'[r].pc = After(runs[r].pc, runs[r].kind)
        /\ runs'[r].token = runs[r].token /\ ~runs'[r].ran
    BY <1>a, <1>3, <2>2, MemoizeFacts
  <2>4. Kept(r) /\ RowKept
    BY <2>1, <2>2, <2>3 DEF Kept, ChangesRun, RowKept, After
  <2> QED BY <2>1, <2>3, <2>4, QuietOne, SameNet
<1>4. CASE CheckRegistration(r)
  <2>1. UNCHANGED <<gens, tokens, spent, envfile, container, calls, posting>>
    BY <1>4 DEF CheckRegistration, workerRest, outerVars
  <2>2. /\ ChangesRun(r) /\ runs[r].pc = "check"
        /\ \/ runs'[r].pc = "done" /\ runs'[r].token = 0
           \/ runs'[r].pc = "check" /\ runs'[r].token = runs[r].token
        /\ row'.gen = row.gen
        /\ row' # row => /\ row # NoRow /\ row' # NoRow /\ row'.token = row.token
                         /\ row'.status = "failed"
    BY <1>a, <1>4, CheckFacts
  <2>3. Kept(r) /\ RowKept
    BY <2>2, StatusKept DEF Kept, ChangesRun, Status
  <2> QED BY <2>1, <2>2, <2>3, QuietOne, SameNet
<1>5. CASE StepFails(r)
  <2>1. UNCHANGED <<gens, tokens, spent, envfile, container, calls, posting>> /\ StepThrows(r)
    BY <1>5 DEF StepFails, workerRest, outerVars
  <2>2. /\ ChangesRun(r)
        /\ \/ runs'[r].pc = "done" /\ runs'[r].token = 0
           \/ runs'[r].pc = runs[r].pc /\ runs'[r].token = runs[r].token
              /\ runs'[r].ran = runs[r].ran
        /\ row'.gen = row.gen
        /\ row' # row => /\ row # NoRow /\ row' # NoRow /\ row'.token = row.token
                         /\ row'.status = "failed"
    BY <1>a, <2>1, ThrowsFacts
  <2>3. Kept(r) /\ RowKept
    BY <2>2, StatusKept DEF Kept, ChangesRun, Status
  <2> QED BY <2>1, <2>2, <2>3, QuietOne, SameNet
<1> QED BY <1>1, <1>2, <1>3, <1>4, <1>5

\* The steps of runner-ctld, whose answers reach only a run that asked.
LEMMA QuietCtl == TypeInv /\ CtlStep => Quiet
<1> SUFFICES ASSUME TypeInv, NEW i \in DOMAIN ctl, CtlStops(i) \/ CtlRuns(i) \/ CtlUnlinks(i),
                    UNCHANGED <<gens, tokens, spent, calls, posting>>
             PROVE  Quiet
  BY DEF CtlStep, outerVars
<1>1. CASE CtlStops(i)
  <2>1. container' = NoContainer /\ UNCHANGED <<row, runs, envfile>>
    BY <1>1 DEF CtlStops
  <2>2. RowKept /\ \A t \in Nat \ {0} : OutOfHands(t)' => Handed(t)
    BY <2>1 DEF RowKept, OutOfHands, Handed
  <2> QED BY <2>1, <2>2, QuietNone
<1>2. ASSUME NEW ok \in BOOLEAN, Answer(i, ok), \A t \in Nat \ {0} : OutOfHands(t)' => Handed(t)
      PROVE  Quiet
  <2>1. /\ row'.gen = row.gen
        /\ \/ runs' = runs /\ row' = row
           \/ /\ worker \in DOMAIN runs /\ ChangesRun(worker) /\ runs[worker].pc = "container"
              /\ \/ runs'[worker].pc = "done" /\ runs'[worker].token = 0
                 \/ /\ runs'[worker].pc = "container"
                    /\ runs'[worker].token = runs[worker].token
              /\ row' # row => /\ row # NoRow /\ row' # NoRow
                               /\ row'.token = row.token /\ row'.status = "failed"
    BY <1>2, AnswerFacts
  <2>2. RowKept
    BY <2>1, StatusKept DEF Status
  <2>3. CASE runs' = runs
    BY <1>2, <2>2, <2>3, QuietNone
  <2>4. CASE runs' # runs
    <3>1. worker \in DOMAIN runs /\ ChangesRun(worker) /\ Kept(worker)
      BY <2>1, <2>4 DEF Kept, ChangesRun
    <3> QED BY <1>2, <2>2, <3>1, QuietOne
  <2> QED BY <2>3, <2>4
<1>3. CASE CtlRuns(i)
  <2>0. \/ container' = [state |-> "starting", gen |-> envfile.gen, token |-> envfile.token]
        \/ container' = container
    BY <1>3 DEF CtlRuns
  <2>1. envfile' = envfile /\ (container' = container \/ container'.token = envfile.token)
    BY <1>3, <2>0 DEF CtlRuns
  <2>2. \A t \in Nat \ {0} : OutOfHands(t)' => Handed(t)
    BY <2>1 DEF OutOfHands, Handed
  <2>3. Answer(i, TRUE) \/ Answer(i, FALSE)
    BY <1>3 DEF CtlRuns
  <2> QED BY <1>2, <2>2, <2>3
<1>4. CASE CtlUnlinks(i)
  <2>1. envfile' = NoEnv /\ container' = container /\ Answer(i, TRUE)
    BY <1>4 DEF CtlUnlinks
  <2>2. \A t \in Nat \ {0} : OutOfHands(t)' => Handed(t)
    BY <2>1 DEF OutOfHands, Handed, NoEnv
  <2> QED BY <1>2, <2>1, <2>2
<1> QED BY <1>1, <1>3, <1>4

\* Routes, strikes, a callback that is refused, and the container.
LEMMA QuietRoute ==
  ASSUME TypeInv, RegInv,
         \/ StartProvision
         \/ \E hasToken \in BOOLEAN : DeleteRunner(hasToken)
         \/ \E c \in calls : Callback(c) /\ UNCHANGED <<row, spent>>
         \/ StrikeOut \/ ResetStrikes \/ ContainerRegisters \/ ContainerExits
  PROVE  Quiet
<1>0. RunnerTypeOK /\ PostInv
  BY DEF TypeInv, RegInv
<1>a. /\ row \in Row \cup {NoRow} /\ (row = NoRow <=> row.gen = 0) /\ row.gen \in Nat
      /\ row.gen <= gens /\ posting \in 0..gens /\ gens \in Nat
      /\ row # NoRow => row \in Row
  BY <1>0, RowFacts DEF RunnerTypeOK
<1>1. CASE StartProvision
  <2>1. /\ posting # 0 /\ posting' = 0
        /\ UNCHANGED <<gens, tokens, spent, worker, ctl, envfile, container, calls>>
        /\ row' = row \/ row' = NoRow
        /\ runs' = runs \/ runs' = Append(runs, NewRun("provision", posting))
    BY <1>1 DEF StartProvision, StartRun, netVars
  <2>2. RowKept
    BY <2>1 DEF RowKept
  <2>3. CASE runs' = runs
    BY <2>1, <2>2, <2>3, QuietNone, SameNet
  <2>4. CASE runs' = Append(runs, NewRun("provision", posting))
    <3>1. posting \in Nat \ {0} /\ posting <= gens
      BY <1>a, <2>1
    <3>2. \A p \in DOMAIN runs : Draws(p) => runs[p].gen # posting
      BY <1>0, <2>1 DEF PostInv, Draws
    <3>3. row'.gen = posting => row'.token = 0 /\ row'.status # "online"
      BY <1>0, <2>1 DEF PostInv, NoRow
    <3>4. \A t \in Nat \ {0} : OutOfHands(t)' => Handed(t)
      BY <2>1, SameNet
    <3> QED BY <2>1, <2>2, <2>4, <3>1, <3>2, <3>3, <3>4, QuietAppend
  <2> QED BY <2>1, <2>3, <2>4
<1>2. ASSUME NEW hasToken \in BOOLEAN, DeleteRunner(hasToken) PROVE Quiet
  <2>1. /\ row # NoRow /\ (row' = row \/ row' = NoRow)
        /\ runs' = runs \/ runs' = Append(runs, NewRun("deprovision", row.gen))
        /\ UNCHANGED <<gens, tokens, spent, worker, ctl, envfile, container, calls, posting>>
    BY <1>2 DEF DeleteRunner, StartRun, netVars
  <2>2. RowKept
    BY <2>1 DEF RowKept
  <2>3. CASE runs' = runs
    BY <2>1, <2>2, <2>3, QuietNone, SameNet
  <2>4. CASE runs' = Append(runs, NewRun("deprovision", row.gen))
    <3>1. row.gen \in Nat \ {0} /\ row.gen <= gens
      BY <1>a, <2>1
    <3>2. \A t \in Nat \ {0} : OutOfHands(t)' => Handed(t)
      BY <2>1, SameNet
    <3> QED BY <2>1, <2>2, <2>4, <3>1, <3>2, QuietAppend
  <2> QED BY <2>1, <2>3, <2>4
<1>3. ASSUME NEW c \in calls, Callback(c), UNCHANGED <<row, spent>> PROVE Quiet
  <2>1. calls' \subseteq calls /\ UNCHANGED <<gens, tokens, runs, envfile, container, posting>>
    BY <1>3 DEF Callback, outerVars
  <2>2. RowKept /\ \A t \in Nat \ {0} : OutOfHands(t)' => Handed(t)
    BY <1>3, <2>1 DEF RowKept, OutOfHands, Handed
  <2> QED BY <1>3, <2>1, <2>2, QuietNone
<1>4. CASE StrikeOut \/ ResetStrikes
  <2>1. /\ row # NoRow
        /\ \E status \in {"disabled", "offline"} : row' = [row EXCEPT !.status = status]
        /\ UNCHANGED <<gens, tokens, spent, runs, envfile, container, calls, posting>>
    BY <1>4 DEF StrikeOut, ResetStrikes, netVars, outerVars
  <2>2. /\ row'.gen = row.gen /\ row'.token = row.token /\ row'.status \in {"disabled", "offline"}
        /\ row' # NoRow
    BY <1>a, <2>1 DEF Row, NoRow
  <2>3. RowKept
    BY <2>1, <2>2 DEF RowKept
  <2> QED BY <2>1, <2>3, QuietNone, SameNet
<1>5. CASE ContainerRegisters
  <2>1. /\ container # NoContainer /\ container' = [container EXCEPT !.state = "up"]
        /\ calls' = calls \cup {[gen |-> container.gen, token |-> container.token]}
        /\ UNCHANGED <<row, gens, tokens, spent, runs, envfile, posting>>
    BY <1>5 DEF ContainerRegisters, outerVars
  <2>2. container'.token = container.token
    <3>1. container \in [state : {"starting", "up"}, gen : Nat \ {0}, token : Nat]
      BY <1>0, <2>1 DEF RunnerTypeOK
    <3> QED BY <2>1, <3>1
  <2>3. \A c \in calls' : c \in calls \/ c.token = container.token
    BY <2>1
  <2>4. RowKept /\ \A t \in Nat \ {0} : OutOfHands(t)' => Handed(t)
    BY <2>1, <2>2, <2>3 DEF RowKept, OutOfHands, Handed
  <2> QED BY <2>1, <2>4, QuietNone
<1>6. CASE ContainerExits
  <2>1. /\ container' = NoContainer
        /\ UNCHANGED <<row, gens, tokens, spent, runs, envfile, calls, posting>>
    BY <1>6 DEF ContainerExits, outerVars
  <2>2. RowKept /\ \A t \in Nat \ {0} : OutOfHands(t)' => Handed(t)
    BY <2>1 DEF RowKept, OutOfHands, Handed
  <2> QED BY <2>1, <2>2, QuietNone
<1> QED BY <1>1, <1>2, <1>3, <1>4, <1>5, <1>6

\* The health check heals a row that is online, so no run draws for it.
LEMMA QuietCheck == TypeInv /\ CheckInv /\ RegInv /\ CheckStep => Quiet
<1> SUFFICES ASSUME TypeInv, CheckInv, RegInv, CheckReads \/ CheckHears \/ CheckActs,
                    UNCHANGED <<gens, tokens, spent, worker, ctl, envfile, container, calls,
                                posting>>
             PROVE  Quiet
  BY DEF CheckStep, netVars
<1>0. RunnerTypeOK /\ DrawInv /\ PostInv /\ OnlineHasSpent
  BY DEF TypeInv, RegInv
<1>1. CASE UNCHANGED <<row, runs>>
  <2>1. RowKept
    BY <1>1 DEF RowKept
  <2> QED BY <1>1, <2>1, QuietNone, SameNet
<1>2. CASE CheckActs /\ check.seen = "dead"
  <2>1. MarkOfflineAndHeal(check.gen)
    BY <1>2 DEF CheckActs
  <2>2. check.gen \in Nat \ {0}
    BY <1>0, <1>2 DEF CheckInv, NoCheck, RunnerTypeOK
  <2>3. /\ row'.gen = row.gen
        /\ row' # row => /\ row # NoRow /\ row' # NoRow
                         /\ row'.token = row.token /\ row'.status = "offline"
        /\ \/ runs' = runs
           \/ runs' = Append(runs, NewRun("heal", check.gen)) /\ row.gen = check.gen
              /\ row # NoRow
    BY <2>1, <2>2, MarkOfflineFacts
  <2>4. RowKept
    BY <2>3, StatusKept DEF Status
  <2>5. CASE runs' = runs
    BY <2>4, <2>5, QuietNone, SameNet
  <2>6. CASE runs' # runs
    <3>1. /\ runs' = Append(runs, NewRun("heal", check.gen)) /\ row.gen = check.gen
          /\ row # NoRow
      BY <2>3, <2>6
    <3>2. row.status = "online" /\ row'.status = "offline"
      <4>1. row.status = "online" /\ SetStatus(check.gen, "offline")
        BY <2>1, <2>6 DEF MarkOfflineAndHeal
      <4>2. row \in Row /\ row' = [row EXCEPT !.status = "offline"]
        BY <1>0, <3>1, <4>1 DEF SetStatus, RunnerTypeOK
      <4> QED BY <4>1, <4>2 DEF Row
    <3>3. row'.token = 0
      BY <1>0, <2>3, <3>1, <3>2 DEF OnlineHasSpent
    <3>4. \A p \in DOMAIN runs : Draws(p) => runs[p].gen # check.gen
      BY <1>0, <3>1, <3>2 DEF DrawInv
    <3>5. check.gen # posting
      BY <1>0, <2>2, <3>1, <3>2 DEF PostInv
    <3>6. check.gen <= gens
      BY <1>0, <3>1 DEF RunnerTypeOK
    <3>7. \A t \in Nat \ {0} : OutOfHands(t)' => Handed(t)
      BY SameNet
    <3> QED BY <2>2, <2>4, <3>1, <3>2, <3>3, <3>4, <3>5, <3>6, <3>7, QuietAppend
  <2> QED BY <2>5, <2>6
<1> QED BY <1>1, <1>2 DEF CheckReads, CheckHears, CheckActs

\* Deaths forget what was awaited, not what was stored.
LEMMA QuietCrash == TypeInv /\ (WebCrash \/ CtlCrash) => Quiet
<1> SUFFICES ASSUME TypeInv, WebCrash \/ CtlCrash PROVE Quiet
  OBVIOUS
<1>0. RunnerTypeOK /\ AskInv /\ HeardInv
  BY DEF TypeInv
<1>1. CASE WebCrash
  <2>1. UNCHANGED <<row, gens, tokens, spent, envfile, container, calls>> /\ posting' = 0
    BY <1>1 DEF WebCrash
  <2>2. /\ DOMAIN runs' = DOMAIN runs
        /\ \A q \in DOMAIN runs :
             /\ runs'[q].kind = runs[q].kind /\ runs'[q].gen = runs[q].gen
             /\ runs'[q].pc = runs[q].pc /\ runs'[q].token = runs[q].token /\ ~runs'[q].ran
    BY <1>1, WebCrashFacts
  <2>3. \A q \in DOMAIN runs : Kept(q)
    BY <2>2 DEF Kept
  <2>4. RowKept
    BY <2>1 DEF RowKept
  <2> QED BY <2>1, <2>2, <2>3, <2>4, SameNet DEF Quiet
<1>2. CASE CtlCrash
  <2>1. /\ UNCHANGED <<gens, tokens, spent, envfile, container, calls, posting>>
        /\ \/ UNCHANGED <<row, runs, worker>>
           \/ (\E i \in DOMAIN ctl : ctl[i].heard) /\ StepThrows(worker)
    BY <1>2 DEF CtlCrash
  <2>2. CASE UNCHANGED <<row, runs, worker>>
    <3>1. RowKept
      BY <2>2 DEF RowKept
    <3> QED BY <2>1, <2>2, <3>1, QuietNone, SameNet
  <2>3. CASE (\E i \in DOMAIN ctl : ctl[i].heard) /\ StepThrows(worker)
    <3>a. runs \in Seq(Run) /\ row \in Row \cup {NoRow} /\ worker \in 0..Len(runs)
      BY <1>0 DEF RunnerTypeOK
    <3>1. worker \in DOMAIN runs
      BY <1>0, <2>3, <3>a DEF HeardInv
    <3>2. /\ ChangesRun(worker)
          /\ \/ runs'[worker].pc = "done" /\ runs'[worker].token = 0
             \/ runs'[worker].pc = runs[worker].pc /\ runs'[worker].token = runs[worker].token
                /\ runs'[worker].ran = runs[worker].ran
          /\ row'.gen = row.gen
          /\ row' # row => /\ row # NoRow /\ row' # NoRow
                           /\ row'.token = row.token /\ row'.status = "failed"
      BY <2>3, <3>a, <3>1, ThrowsFacts
    <3>3. Kept(worker) /\ RowKept
      BY <3>2, StatusKept DEF Kept, ChangesRun, Status
    <3> QED BY <2>1, <3>1, <3>2, <3>3, QuietOne, SameNet
  <2> QED BY <2>1, <2>2, <2>3
<1> QED BY <1>1, <1>2

-----------------------------------------------------------------------------
(* The steps that are not quiet.                                           *)

\* A new row has a number that no run knows.
LEMMA CreateReg == TypeInv /\ RegInv /\ CreateRunner => RegInv'
<1> SUFFICES ASSUME TypeInv, RegInv, CreateRunner PROVE RegInv'
  OBVIOUS
<1>a. /\ gens \in Nat /\ tokens \in Nat /\ spent \subseteq 1..tokens
  BY DEF TypeInv, RunnerTypeOK
<1>b. KnownInv /\ DrawsLast
  BY DEF RegInv
<1>1. /\ row' = [gen |-> gens + 1, status |-> "pending", token |-> 0]
      /\ gens' = gens + 1 /\ posting' = gens + 1
      /\ UNCHANGED <<tokens, spent, runs, envfile, container, calls>>
  BY DEF CreateRunner, netVars
<1>2. row'.gen = gens + 1 /\ row'.status = "pending" /\ row'.token = 0
  BY <1>1
<1>3. \A q \in DOMAIN runs : runs[q].gen \in Nat /\ runs[q].gen # gens + 1 /\ runs[q].gen <= gens + 1
  <2> SUFFICES ASSUME NEW q \in DOMAIN runs
               PROVE  runs[q].gen \in Nat /\ runs[q].gen # gens + 1 /\ runs[q].gen <= gens + 1
    OBVIOUS
  <2>1. runs[q] \in Run
    BY DEF TypeInv, RunnerTypeOK
  <2>2. runs[q].gen \in Nat /\ runs[q].gen <= gens
    BY <1>b, <2>1 DEF Run, KnownInv
  <2> QED BY <1>a, <2>2
<1>4. KnownInv'
  BY <1>b, <1>1, <1>3 DEF KnownInv, OutOfHands
<1>5. DrawsLast'
  BY <1>b, <1>1 DEF DrawsLast, Draws
<1>6. DrawInv' /\ ExpectsNewest'
  BY <1>1, <1>2, <1>3 DEF DrawInv, ExpectsNewest, Registers
<1>7. PostInv'
  BY <1>1, <1>2, <1>3 DEF PostInv
<1>8. FreshInv' /\ OnlineHasSpent'
  BY <1>a, <1>1, <1>2 DEF FreshInv, OnlineHasSpent
<1> QED BY <1>4, <1>5, <1>6, <1>7, <1>8 DEF RegInv

\* A callback that is accepted: no run draws for the row, whose token is out.
LEMMA AcceptReg ==
  ASSUME TypeInv, RegInv, NEW c \in calls, Callback(c),
         row # NoRow, CallAccepted(c), Register(c)
  PROVE  /\ RegInv'
         /\ row.token \in Nat \ {0} /\ row.token \notin spent /\ spent' = spent \cup {row.token}
         /\ row' # NoRow /\ row'.token = 0 /\ row'.status = "online" /\ tokens' = tokens
<1>a. /\ row \in Row /\ tokens \in Nat /\ spent \subseteq 1..tokens
      /\ DrawInv /\ KnownInv /\ DrawsLast /\ PostInv /\ FreshInv
  BY DEF TypeInv, RunnerTypeOK, RegInv
<1>1. /\ row' = [row EXCEPT !.status = "online", !.token = 0] /\ spent' = spent \cup {c.token}
      /\ row.token = c.token /\ row.token # 0 /\ calls' \subseteq calls
      /\ UNCHANGED <<gens, tokens, runs, envfile, container, posting>>
  BY DEF CallAccepted, Register, Callback, outerVars
<1>2. /\ row'.gen = row.gen /\ row'.token = 0 /\ row'.status = "online"
      /\ row.token \in Nat \ {0} /\ row' # NoRow
  BY <1>a, <1>1 DEF Row, NoRow
<1>3. \A r \in DOMAIN runs : Draws(r) => runs[r].gen # row.gen
  <2>1. Handed(row.token)
    BY <1>1 DEF Handed, OutOfHands
  <2> QED BY <1>a, <1>2, <2>1 DEF DrawInv
<1>4. KnownInv' /\ DrawsLast'
  <2>1. \A t : OutOfHands(t)' => OutOfHands(t)
    BY <1>1 DEF OutOfHands
  <2> QED BY <1>a, <1>1, <2>1 DEF KnownInv, DrawsLast, Draws
<1>5. DrawInv'
  BY <1>1, <1>2, <1>3 DEF DrawInv, Draws
<1>6. PostInv'
  <2>1. row.gen # posting \/ posting = 0
    BY <1>a, <1>2 DEF PostInv
  <2>2. row.gen # 0
    BY <1>a DEF Row
  <2> QED BY <1>a, <1>1, <1>2, <2>1, <2>2 DEF PostInv
<1>7. FreshInv' /\ OnlineHasSpent' /\ ExpectsNewest'
  BY <1>a, <1>1, <1>2 DEF FreshInv, OnlineHasSpent, ExpectsNewest
<1>8. row.token \notin spent
  BY <1>a, <1>1 DEF FreshInv, Row, NoRow
<1> QED BY <1>1, <1>2, <1>4, <1>5, <1>6, <1>7, <1>8 DEF RegInv

\* A token is drawn by the newest run, and nobody knows it yet.
LEMMA DrawReg ==
  ASSUME TypeInv, RegInv, NEW r \in DOMAIN runs, RunStep(r), DrawToken(r)
  PROVE  RegInv'
<1>0. RunnerTypeOK
  BY DEF TypeInv
<1>a. /\ row \in Row \cup {NoRow} /\ runs \in Seq(Run) /\ tokens \in Nat
      /\ spent \subseteq 1..tokens /\ (row = NoRow <=> row.gen = 0)
  BY <1>0, RowFacts DEF RunnerTypeOK
<1>b. KnownInv /\ DrawsLast /\ DrawInv /\ PostInv /\ FreshInv /\ OnlineHasSpent /\ ExpectsNewest
  BY DEF RegInv
<1>c. UNCHANGED <<gens, spent, envfile, container, calls, posting>>
  BY DEF RunStep, netVars
<1>1. /\ ChangesRun(r) /\ tokens' = tokens + 1
      /\ runs[r].pc = "token" /\ runs'[r].pc = "token" /\ runs'[r].token = tokens + 1
      /\ row.gen # runs[r].gen => row' = row
      /\ row.gen = runs[r].gen => /\ row # NoRow /\ row' # NoRow
                                  /\ row'.token = tokens + 1 /\ row'.status = row.status
      /\ row'.gen = row.gen
  BY <1>a, DrawFacts
<1>2. /\ DOMAIN runs' = DOMAIN runs /\ \A q \in DOMAIN runs : q # r => runs'[q] = runs[q]
      /\ \A q \in DOMAIN runs : /\ runs'[q].kind = runs[q].kind /\ runs'[q].gen = runs[q].gen
                                /\ runs'[q].pc = runs[q].pc
                                /\ Draws(q)' <=> Draws(q)
  BY <1>1 DEF ChangesRun, Draws
<1>3. Draws(r) /\ runs[r].gen # 0
  <2>1. runs[r] \in Run
    BY <1>a
  <2> QED BY <1>b, <1>1, <2>1 DEF KnownInv, Draws, Run
<1>4. KnownInv'
  <2>1. \A q \in DOMAIN runs : runs'[q].token <= tokens + 1
    <3> SUFFICES ASSUME NEW q \in DOMAIN runs PROVE runs'[q].token <= tokens + 1
      OBVIOUS
    <3>1. runs[q].token \in Nat /\ runs[q].token <= tokens
      <4>1. runs[q] \in Run
        BY <1>a
      <4> QED BY <1>b, <4>1 DEF Run, KnownInv
    <3> QED BY <1>a, <1>1, <1>2, <3>1
  <2>2. \A t \in Nat : OutOfHands(t)' => t <= tokens + 1
    <3>1. \A t \in Nat : OutOfHands(t)' => OutOfHands(t)
      BY <1>c DEF OutOfHands
    <3> QED BY <1>a, <1>b, <3>1 DEF KnownInv
  <2> QED BY <1>b, <1>c, <1>1, <1>2, <2>1, <2>2 DEF KnownInv
<1>5. DrawsLast'
  BY <1>b, <1>2 DEF DrawsLast
<1>6. ~Handed(tokens + 1)
  <2>1. ~OutOfHands(tokens + 1)
    BY <1>a, <1>b DEF KnownInv
  <2>2. \A q \in DOMAIN runs : runs[q].token # tokens + 1
    BY <1>a, <1>b DEF KnownInv
  <2> QED BY <2>1, <2>2 DEF Handed
<1>7. \A t : Handed(t)' => Handed(t)
  <2> SUFFICES ASSUME NEW t, Handed(t)' PROVE Handed(t)
    OBVIOUS
  <2>1. OutOfHands(t)' => OutOfHands(t)
    BY <1>c DEF OutOfHands
  <2> QED BY <1>2, <1>3, <2>1 DEF Handed
<1>8. DrawInv'
  <2> SUFFICES ASSUME NEW p \in DOMAIN runs', Draws(p)', runs'[p].gen = row'.gen
               PROVE  /\ row'.status # "online"
                      /\ \A t \in Nat \ {0} : row'.token = t => ~Handed(t)'
                      /\ \A q \in DOMAIN runs' : q # p /\ runs'[q].token # 0 =>
                                                    runs'[q].token # row'.token
                      /\ runs'[p].pc = "token" /\ runs'[p].ran => row'.token = runs'[p].token
    BY DEF DrawInv
  <2>1. Draws(p) /\ runs[p].gen = row.gen
    BY <1>1, <1>2
  <2>2. CASE runs[r].gen = row.gen
    <3>1. p <= r /\ r <= p
      BY <1>b, <1>2, <1>3, <2>1, <2>2 DEF DrawsLast, Draws
    <3>2. p = r
      BY <1>a, <1>2, <3>1
    <3>3. row.status # "online"
      BY <1>b, <1>3, <2>2 DEF DrawInv
    <3>4. \A q \in DOMAIN runs : q # r => runs'[q].token # tokens + 1
      BY <1>a, <1>b, <1>2 DEF KnownInv
    <3> QED BY <1>1, <1>2, <1>6, <1>7, <2>2, <3>2, <3>3, <3>4
  <2>3. CASE runs[r].gen # row.gen
    <3>1. p # r /\ row' = row /\ runs'[p] = runs[p]
      BY <1>1, <1>2, <2>1, <2>3
    <3>2. row.token # tokens + 1
      <4>1. row # NoRow /\ row \in Row
        <5>1. runs[p] \in Run
          BY <1>a, <1>2
        <5> QED BY <1>a, <2>1, <5>1 DEF Run
      <4> QED BY <1>a, <4>1 DEF TypeInv, TokenInv, Row
    <3> QED BY <1>b, <1>1, <1>2, <1>7, <2>1, <3>1, <3>2 DEF DrawInv
  <2> QED BY <2>2, <2>3
<1>9. PostInv'
  <2>1. posting # 0 => posting # runs[r].gen
    BY <1>b, <1>3 DEF PostInv, Draws
  <2> QED BY <1>b, <1>c, <1>1, <1>2, <2>1 DEF PostInv
<1>10. FreshInv' /\ OnlineHasSpent'
  <2>1. CASE row.gen = runs[r].gen
    <3>1. row.status # "online"
      BY <1>b, <1>3, <2>1 DEF DrawInv
    <3> QED BY <1>a, <1>c, <1>1, <2>1, <3>1 DEF FreshInv, OnlineHasSpent
  <2>2. CASE row.gen # runs[r].gen
    BY <1>b, <1>c, <1>1, <2>2 DEF FreshInv, OnlineHasSpent
  <2> QED BY <2>1, <2>2
<1>11. ExpectsNewest'
  <2> SUFFICES ASSUME NEW p \in DOMAIN runs',
                      runs'[p].gen = row'.gen, runs'[p].kind # "deprovision",
                      runs'[p].pc \in {"container", "check"},
                      \A q \in DOMAIN runs' : runs'[q].gen = row'.gen
                                              /\ runs'[q].kind # "deprovision" => q <= p,
                      row'.status \in {"provisioning", "healing"}
               PROVE  row'.token = runs'[p].token
    BY DEF ExpectsNewest, Registers
  <2>1. p # r /\ runs'[p] = runs[p]
    BY <1>1, <1>2
  <2>2. CASE row.gen # runs[r].gen
    <3>1. row' = row
      BY <1>1, <2>2
    <3> QED BY <1>b, <1>2, <2>1, <3>1 DEF ExpectsNewest, Registers
  <2>3. CASE row.gen = runs[r].gen
    <3>1. r <= p
      BY <1>1, <1>2, <1>3, <2>3 DEF Draws
    <3>2. p <= r
      BY <1>b, <1>1, <1>2, <1>3, <2>3 DEF DrawsLast
    <3> QED BY <1>a, <1>2, <2>1, <3>1, <3>2
  <2> QED BY <2>2, <2>3
<1> QED BY <1>4, <1>5, <1>8, <1>9, <1>10, <1>11 DEF RegInv

\* The token is stored: it is the one the row expects, if it is this run's row.
LEMMA StoreReg ==
  ASSUME TypeInv, RegInv, NEW r \in DOMAIN runs, Memoize(r), runs[r].pc = "token"
  PROVE  RegInv'
<1>0. RunnerTypeOK
  BY DEF TypeInv
<1>a. runs \in Seq(Run) /\ runs[r].ran /\ DOMAIN runs \subseteq Nat
  BY <1>0 DEF RunnerTypeOK, Memoize
<1>b. KnownInv /\ DrawsLast /\ DrawInv /\ PostInv /\ FreshInv /\ OnlineHasSpent /\ ExpectsNewest
  BY DEF RegInv
<1>c. UNCHANGED <<row, gens, tokens, spent, envfile, container, calls, posting>>
  BY DEF Memoize, workerRest, outerVars
<1>1. /\ ChangesRun(r) /\ runs'[r].pc = "container" /\ runs'[r].token = runs[r].token
  BY <1>a, MemoizeFacts DEF After
<1>2. /\ DOMAIN runs' = DOMAIN runs /\ \A q \in DOMAIN runs : q # r => runs'[q] = runs[q]
      /\ \A q \in DOMAIN runs : /\ runs'[q].kind = runs[q].kind /\ runs'[q].gen = runs[q].gen
                                /\ runs'[q].token = runs[q].token
                                /\ Draws(q)' => Draws(q) /\ q # r
  BY <1>1 DEF ChangesRun, Draws
<1>3. Draws(r)
  BY <1>b, <1>1 DEF KnownInv, Draws
<1>4. KnownInv'
  <2>1. \A t : OutOfHands(t)' => OutOfHands(t)
    BY <1>c DEF OutOfHands
  <2> QED BY <1>b, <1>c, <1>1, <1>2, <2>1 DEF KnownInv
<1>5. DrawsLast'
  BY <1>b, <1>2 DEF DrawsLast
<1>6. DrawInv'
  <2> SUFFICES ASSUME NEW p \in DOMAIN runs', Draws(p)', runs'[p].gen = row.gen
               PROVE  /\ row.status # "online"
                      /\ \A t \in Nat \ {0} : row.token = t => ~Handed(t)'
                      /\ \A q \in DOMAIN runs' : q # p /\ runs'[q].token # 0 =>
                                                    runs'[q].token # row.token
                      /\ runs'[p].pc = "token" /\ runs'[p].ran => row.token = runs'[p].token
    BY <1>c DEF DrawInv
  <2>1. Draws(p) /\ p # r /\ runs[p].gen = row.gen /\ runs'[p] = runs[p]
    BY <1>2
  <2>2. /\ row.status # "online"
        /\ \A t \in Nat \ {0} : row.token = t => ~Handed(t)
        /\ \A q \in DOMAIN runs : q # p /\ runs[q].token # 0 => runs[q].token # row.token
        /\ runs[p].pc = "token" /\ runs[p].ran => row.token = runs[p].token
    BY <1>b, <1>2, <2>1 DEF DrawInv
  <2>3. ASSUME NEW t \in Nat \ {0}, row.token = t, Handed(t)' PROVE FALSE
    <3>1. OutOfHands(t)' => OutOfHands(t)
      BY <1>c DEF OutOfHands
    <3>2. ASSUME NEW q \in DOMAIN runs', ~Draws(q)', runs'[q].token = t PROVE FALSE
      <4>1. q = p \/ runs[q].token # row.token
        BY <1>2, <2>2, <2>3, <3>2
      <4> QED BY <1>2, <2>1, <2>3, <3>2, <4>1 DEF Draws
    <3> QED BY <2>2, <2>3, <3>1, <3>2 DEF Handed
  <2> QED BY <1>2, <2>1, <2>2, <2>3
<1>7. PostInv' /\ FreshInv' /\ OnlineHasSpent'
  BY <1>b, <1>c, <1>2 DEF PostInv, FreshInv, OnlineHasSpent
<1>8. ExpectsNewest'
  <2> SUFFICES ASSUME NEW p \in DOMAIN runs',
                      runs'[p].gen = row.gen, runs'[p].kind # "deprovision",
                      runs'[p].pc \in {"container", "check"},
                      \A q \in DOMAIN runs' : runs'[q].gen = row.gen
                                              /\ runs'[q].kind # "deprovision" => q <= p,
                      row.status \in {"provisioning", "healing"}
               PROVE  row.token = runs'[p].token
    BY <1>c DEF ExpectsNewest, Registers
  <2>1. CASE p = r
    <3>1. row.token = runs[r].token
      BY <1>a, <1>b, <1>2, <1>3, <2>1 DEF DrawInv
    <3> QED BY <1>1, <2>1, <3>1
  <2>2. CASE p # r
    BY <1>b, <1>2, <2>2 DEF ExpectsNewest, Registers
  <2> QED BY <2>1, <2>2
<1> QED BY <1>4, <1>5, <1>6, <1>7, <1>8 DEF RegInv

-----------------------------------------------------------------------------
(* The theorems.                                                           *)

IInv == TypeInv /\ CheckInv /\ RegInv

\* Every step keeps the invariant, and is a step of Registration or none.
LEMMA RegStep ==
  ASSUME IInv, [RunnerNext]_runnerVars
  PROVE  RegInv' /\ [Reg!Next]_(Reg!vars)
<1>0. TypeInv /\ CheckInv /\ RegInv /\ TypeInv'
  BY TypeStep DEF IInv
<1>a. /\ row \in Row \cup {NoRow} /\ tokens \in Nat /\ (row = NoRow <=> row.gen = 0)
      /\ row # NoRow => row.token \in Nat
  BY <1>0, RowFacts DEF TypeInv, RunnerTypeOK, Row
<1>1. CASE Quiet
  <2>1. RegInv'
    BY <1>0, <1>1, QuietReg
  <2>2. tokens' = tokens /\ spent' = spent /\ RowKept
    BY <1>1 DEF Quiet
  <2>3. [Reg!Next]_(Reg!vars)
    <3>1. CASE row' = row
      BY <2>2, <3>1 DEF Reg!vars
    <3>2. CASE row' # row
      BY <2>2, <3>2 DEF RowKept, Reg!Next, Reg!Down
    <3> QED BY <3>1, <3>2
  <2> QED BY <2>1, <2>3
<1>2. CASE CreateRunner
  <2>1. RegInv'
    BY <1>0, <1>2, CreateReg
  <2>2. /\ row = NoRow /\ row' = [gen |-> gens + 1, status |-> "pending", token |-> 0]
        /\ tokens' = tokens /\ spent' = spent
    BY <1>2 DEF CreateRunner
  <2>3. row'.token = 0 /\ row'.status # "online"
    BY <2>2
  <2> QED BY <2>1, <2>2, <2>3 DEF Reg!Next, Reg!Down
<1>3. ASSUME NEW c \in calls, Callback(c), row # NoRow, CallAccepted(c), Register(c)
      PROVE  RegInv' /\ [Reg!Next]_(Reg!vars)
  <2>1. /\ RegInv'
        /\ row.token \in Nat \ {0} /\ row.token \notin spent /\ spent' = spent \cup {row.token}
        /\ row' # NoRow /\ row'.token = 0 /\ row'.status = "online" /\ tokens' = tokens
    BY <1>0, <1>3, AcceptReg
  <2> QED BY <1>3, <2>1 DEF Reg!Next, Reg!Accept
<1>4. ASSUME NEW r \in DOMAIN runs, RunStep(r), DrawToken(r)
      PROVE  RegInv' /\ [Reg!Next]_(Reg!vars)
  <2>1. RegInv'
    BY <1>0, <1>4, DrawReg
  <2>2. runs \in Seq(Run) /\ spent' = spent
    BY <1>0, <1>4 DEF TypeInv, RunnerTypeOK, RunStep
  <2>3. /\ tokens' = tokens + 1
        /\ row.gen # runs[r].gen => row' = row
        /\ row.gen = runs[r].gen => /\ row # NoRow /\ row' # NoRow
                                    /\ row'.token = tokens + 1 /\ row'.status = row.status
    BY <1>a, <1>4, <2>2, DrawFacts
  <2>4. CASE row.gen = runs[r].gen
    BY <2>1, <2>2, <2>3, <2>4 DEF Reg!Next, Reg!Issue
  <2>5. CASE row.gen # runs[r].gen
    BY <2>1, <2>2, <2>3, <2>5 DEF Reg!Next, Reg!Waste
  <2> QED BY <2>1, <2>4, <2>5
<1>5. ASSUME NEW r \in DOMAIN runs, Memoize(r), runs[r].pc = "token"
      PROVE  RegInv' /\ [Reg!Next]_(Reg!vars)
  <2>1. RegInv'
    BY <1>0, <1>5, StoreReg
  <2>2. UNCHANGED <<row, tokens, spent>>
    BY <1>5 DEF Memoize, workerRest
  <2> QED BY <2>1, <2>2 DEF Reg!vars
<1>6. CASE UNCHANGED runnerVars
  <2>1. /\ UNCHANGED <<row, gens, tokens, spent, runs, envfile, container, calls, posting>>
    BY <1>6 DEF runnerVars, netVars, outerVars
  <2>2. RowKept
    BY <2>1 DEF RowKept
  <2> QED BY <1>1, <2>1, <2>2, QuietNone, SameNet
<1>7. CASE WorkflowStep
  <2>1. PICK r \in DOMAIN runs : \/ RunStep(r) \/ AskCtl(r) \/ Memoize(r)
                                 \/ CheckRegistration(r) \/ StepFails(r)
    BY <1>7 DEF WorkflowStep
  <2>2. CASE RunStep(r) /\ DrawToken(r)
    BY <1>4, <2>2
  <2>3. CASE Memoize(r) /\ runs[r].pc = "token"
    BY <1>5, <2>3
  <2>4. CASE ~(RunStep(r) /\ DrawToken(r)) /\ ~(Memoize(r) /\ runs[r].pc = "token")
    BY <1>0, <1>1, <2>1, <2>4, QuietWorkflow
  <2> QED BY <2>2, <2>3, <2>4
<1>8. ASSUME NEW c \in calls, Callback(c) PROVE RegInv' /\ [Reg!Next]_(Reg!vars)
  <2>1. CASE row # NoRow /\ CallAccepted(c) /\ Register(c)
    BY <1>3, <1>8, <2>1
  <2>2. CASE UNCHANGED <<row, spent>>
    BY <1>0, <1>1, <1>8, <2>2, QuietRoute
  <2> QED BY <1>8, <2>1, <2>2 DEF Callback
<1>9. CASE \/ StartProvision
           \/ \E hasToken \in BOOLEAN : DeleteRunner(hasToken)
           \/ StrikeOut \/ ResetStrikes \/ ContainerRegisters \/ ContainerExits
  <2>1. Quiet
    BY <1>0, <1>9, QuietRoute
  <2> QED BY <1>1, <2>1
<1>10. CASE CtlStep \/ CheckStep \/ WebCrash \/ CtlCrash
  <2>1. Quiet
    BY <1>0, <1>10, QuietCtl, QuietCheck, QuietCrash
  <2> QED BY <1>1, <2>1
<1> QED BY <1>2, <1>6, <1>7, <1>8, <1>9, <1>10 DEF RunnerNext

\* At the start nothing is drawn.
LEMMA RegStart == RunnerInit => IInv /\ Reg!Init
<1> SUFFICES ASSUME RunnerInit PROVE IInv /\ Reg!Init
  OBVIOUS
<1>1. TypeInv /\ CheckInv
  BY TypeInit
<1>2. RegInv
  BY DEF RunnerInit, RegInv, KnownInv, DrawsLast, DrawInv, PostInv, FreshInv, OnlineHasSpent,
         ExpectsNewest, OutOfHands, NoRow, NoEnv, NoContainer
<1>3. Reg!Init
  BY DEF RunnerInit, Reg!Init
<1> QED BY <1>1, <1>2, <1>3 DEF IInv

\* The invariant holds in every run.
LEMMA Invariance == RunnerSpec => []IInv
<1>1. RunnerInit => IInv
  BY RegStart
<1>2. IInv /\ [RunnerNext]_runnerVars => IInv'
  BY TypeStep, RegStep DEF IInv
<1> QED BY <1>1, <1>2, PTL DEF RunnerSpec

\* A runner that is online has spent its token: whatever was replayed, retried,
\* healed, struck or restarted, no second callback can be accepted.
THEOREM OnlineRunnersHaveSpent == RunnerSpec => []OnlineHasSpent
<1>1. IInv => OnlineHasSpent
  BY DEF IInv, RegInv
<1> QED BY <1>1, Invariance, PTL

\* While a row waits for a registration it expects the token of the newest
\* workflow that has handed one out.
THEOREM NewestIsExpected == RunnerSpec => []ExpectsNewest
<1>1. IInv => ExpectsNewest
  BY DEF IInv, RegInv
<1> QED BY <1>1, Invariance, PTL

\* The workflows, routes and restarts implement Registration: a runner counts
\* as registered only by the credential issued last, and each counts once.
THEOREM LifecycleImplementsRegistration == RunnerSpec => ImplementsRegistration
<1>1. RunnerInit => Reg!Init
  BY RegStart
<1>2. IInv /\ [RunnerNext]_runnerVars => [Reg!Next]_(Reg!vars)
  BY RegStep
<1> QED BY <1>1, <1>2, Invariance, PTL DEF RunnerSpec, ImplementsRegistration, Reg!Spec

\* Row, workflows and credentials agree in every run.
THEOREM RegistrationCorrect == RunnerSpec => []RegistrationIsSound
<1>1. RunnerTypeOK /\ OnlineHasSpent /\ ExpectsNewest => RegistrationIsSound
  BY DEF RegistrationIsSound
<1> QED BY <1>1, RunnerTypeCorrect, OnlineRunnersHaveSpent, NewestIsExpected, PTL
=============================================================================
