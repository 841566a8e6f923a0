----------------------------- MODULE HostProofs -----------------------------
(***************************************************************************)
(* Proofs about SelfUpdate, for every number of crashes, requests and      *)
(* services: whatever the crashes and the retries, a file that is          *)
(* installed is of the version the version file names or of one whose      *)
(* copying did not come to its end; and the row of an update only moves    *)
(* forward.                                                                *)
(***************************************************************************)
EXTENDS SelfUpdate, FiniteSetTheorems, WellFoundedInduction, TLAPS

-----------------------------------------------------------------------------
(* Sequences and maxima.                                                   *)

\* A function on 1..n is a sequence.
LEMMA FunctionIsSeq ==
  ASSUME NEW S, NEW n \in Nat, NEW f \in [1..n -> S]
  PROVE  f \in Seq(S) /\ Len(f) = n /\ DOMAIN f = 1..n
OBVIOUS

\* What a sequence is: its length, its domain, its entries.
LEMMA SeqFacts ==
  ASSUME NEW S, NEW s \in Seq(S)
  PROVE  /\ Len(s) \in Nat /\ DOMAIN s = 1..Len(s)
         /\ \A k \in 1..Len(s) : s[k] \in S
OBVIOUS

\* Appending keeps the entries there are.
LEMMA AppendKeeps ==
  ASSUME NEW S, NEW s \in Seq(S), NEW e \in S
  PROVE  /\ Append(s, e) \in Seq(S)
         /\ Len(Append(s, e)) = Len(s) + 1
         /\ \A k \in 1..Len(s) : Append(s, e)[k] = s[k]
         /\ Append(s, e)[Len(s) + 1] = e
OBVIOUS

\* Changing an entry keeps the others.
LEMMA ExceptKeeps ==
  ASSUME NEW S, NEW s \in Seq(S), NEW i \in 1..Len(s), NEW e \in S
  PROVE  /\ [s EXCEPT ![i] = e] \in Seq(S)
         /\ Len([s EXCEPT ![i] = e]) = Len(s)
         /\ \A k \in 1..Len(s) : [s EXCEPT ![i] = e][k] = IF k = i THEN e ELSE s[k]
OBVIOUS

\* Two sequences put together.
LEMMA ConcatKeeps ==
  ASSUME NEW S, NEW a \in Seq(S), NEW b \in Seq(S)
  PROVE  /\ a \o b \in Seq(S) /\ Len(a \o b) = Len(a) + Len(b)
         /\ \A k \in 1..(Len(a) + Len(b)) :
              (a \o b)[k] = IF k <= Len(a) THEN a[k] ELSE b[k - Len(a)]
OBVIOUS

\* Removing an entry moves the later ones up.
LEMMA RemoveAtKeeps ==
  ASSUME NEW S, NEW s \in Seq(S), NEW i \in 1..Len(s)
  PROVE  /\ RemoveAt(s, i) \in Seq(S)
         /\ Len(RemoveAt(s, i)) = Len(s) - 1
         /\ \A k \in 1..(Len(s) - 1) :
              RemoveAt(s, i)[k] = s[IF k < i THEN k ELSE k + 1]
<1> DEFINE a == SubSeq(s, 1, i - 1)
           b == SubSeq(s, i + 1, Len(s))
<1>1. /\ a \in Seq(S) /\ Len(a) = i - 1
      /\ \A k \in 1..(i - 1) : a[k] = s[k]
  OBVIOUS
<1>2. /\ b \in Seq(S) /\ Len(b) = Len(s) - i
      /\ \A k \in 1..(Len(s) - i) : b[k] = s[i + k]
  OBVIOUS
<1>3. RemoveAt(s, i) = a \o b
  BY DEF RemoveAt
<1> HIDE DEF a, b
<1>4. /\ a \o b \in Seq(S) /\ Len(a \o b) = Len(s) - 1
      /\ \A k \in 1..(Len(s) - 1) :
           (a \o b)[k] = IF k <= i - 1 THEN a[k] ELSE b[k - (i - 1)]
  <2>1. /\ a \o b \in Seq(S) /\ Len(a \o b) = Len(a) + Len(b)
        /\ \A k \in 1..(Len(a) + Len(b)) :
             (a \o b)[k] = IF k <= Len(a) THEN a[k] ELSE b[k - Len(a)]
    BY <1>1, <1>2, ConcatKeeps
  <2>2. Len(a) + Len(b) = Len(s) - 1
    BY <1>1, <1>2
  <2> QED BY <1>1, <2>1, <2>2
<1>5. ASSUME NEW k \in 1..(Len(s) - 1)
      PROVE  (a \o b)[k] = s[IF k < i THEN k ELSE k + 1]
  <2>1. CASE k < i
    BY <1>1, <1>4, <2>1
  <2>2. CASE ~(k < i)
    <3>1. k - (i - 1) \in 1..(Len(s) - i) /\ i + (k - (i - 1)) = k + 1
      BY <2>2
    <3> QED BY <1>2, <1>4, <2>2, <3>1
  <2> QED BY <2>1, <2>2
<1> QED BY <1>3, <1>4, <1>5

\* A set of versions has a highest one.
LEMMA HighestVersion ==
  ASSUME NEW n \in Nat, NEW T \in SUBSET (1..n), T # {}
  PROVE  Max(T) \in T
<1> DEFINE D == {n - v : v \in T}
           R == OpToRel(<, Nat)
<1>1. D \subseteq Nat /\ D # {}
  <2>1. \A v \in T : n - v \in Nat
    OBVIOUS
  <2> QED BY <2>1
<1>2. \A x, y \in Nat : <<y, x>> \in R <=> y < x
  BY DEF OpToRel
<1> HIDE DEF R, D
<1>3. IsWellFoundedOn(R, Nat)
  BY NatLessThanWellFounded DEF R
<1>4. \E x \in D : \A y \in D : ~(<<y, x>> \in R)
  BY <1>1, <1>3, WFMin
<1>5. PICK x \in D : \A y \in D : ~(y < x)
  BY <1>1, <1>2, <1>4
<1>6. PICK v \in T : x = n - v
  BY <1>5 DEF D
<1>7. \A w \in T : v >= w
  <2>1. ASSUME NEW w \in T PROVE v >= w
    <3>1. n - w \in D
      BY DEF D
    <3>2. ~(n - w < n - v)
      BY <1>5, <1>6, <3>1
    <3>3. v \in 1..n /\ w \in 1..n
      OBVIOUS
    <3> QED BY <3>2, <3>3
  <2> QED BY <2>1
<1> QED BY <1>7 DEF Max

-----------------------------------------------------------------------------
(* Types, the rows the runs are for, the scripts they wait for, the disk.  *)

Row == [version : Versions, state : States]

\* There are two parts.
LEMMA TwoParts == Len(Installed) = 2 /\ 1..Len(Installed) = {1, 2} /\ 1..(Len(Installed) + 1) = {1, 2, 3}
BY DEF Installed

BasicType ==
  /\ latest \in Versions
  /\ checks \in Seq(0..MaxVersion) /\ Len(checks) <= MaxChecks
  /\ rows \in Seq(Row) /\ Len(rows) <= MaxRows
  /\ worker \in 0..Len(runs)
  /\ files \in [1..Len(Installed) -> Versions] /\ versionFile \in Versions
  /\ backups \in [Versions -> [version : Versions, parts : [1..Len(Installed) -> Versions]]
                               \cup {NoBackup, EmptyBackup}]
  /\ up \subseteq Services /\ webVersion \in Versions /\ held \in BOOLEAN
  /\ supervised \in BOOLEAN
  /\ budget \in [crashes : 0..MaxCrashes, rollbacks : 0..MaxRollbacks]
  /\ touched \subseteq Versions /\ broken \in BOOLEAN /\ clash \in BOOLEAN

\* A run waits for a script, or has a result to store, only at the steps that
\* execute one, and never both.
RunFits(R) ==
  /\ R \in Run
  /\ ~(R.asked /\ R.ran)
  /\ R.asked \/ R.ran => R.pc \in {"backup", "apply", "rollback"}

\* The row of a run is where the run has brought it.
StateFits(R, state) ==
  /\ R.pc = "mark" => state = "pending"
  /\ R.pc \in {"download", "idle"} => state = "downloading"
  /\ R.pc = "backup" => state = "applying" \/ (state = "downloading" /\ ~R.asked /\ ~R.ran)
  /\ R.pc \in {"apply", "verify", "rollback", "markback", "rebuild", "complete"}
       => state = "applying"

\* No two runs are for one row.
RunsFit(rns, rs) ==
  /\ rns \in Seq(Run)
  /\ \A r \in 1..Len(rns) : /\ RunFits(rns[r])
                            /\ rns[r].row \in 1..Len(rs)
                            /\ StateFits(rns[r], rs[rns[r].row].state)
  /\ \A r, q \in 1..Len(rns) : rns[r].row = rns[q].row => r = q

\* What a script works on: a rollback copies from a directory that exists, and
\* from a whole one once it has copied a part.
ScriptFits(s, bs) ==
  /\ s \in Script
  /\ s.pc \in {"begin", "copy", "stop", "stopRest"} => s.part = 1
  /\ s.pc = "copy" => s.cmd = "backup" /\ s.src # 0
  /\ s.cmd = "backup" => s.pc \in {"begin", "copy"}
  /\ s.cmd = "apply" => s.src # 0
  /\ s.cmd = "rollback" /\ s.pc # "begin" => s.src # 0 /\ bs[s.src] # NoBackup
  /\ s.cmd = "rollback" /\ s.part > 1 => bs[s.src] \notin {NoBackup, EmptyBackup}

\* Who waits for a script is at the step that started it.
HeardFits(s, rns) ==
  s.heard => s.run \in 1..Len(rns) /\ rns[s.run].asked /\ rns[s.run].pc = s.cmd

ScriptsFit(ss, rns, bs) ==
  /\ ss \in Seq(Script)
  /\ \A i \in 1..Len(ss) : ScriptFits(ss[i], bs) /\ HeardFits(ss[i], rns)
  /\ \A i, j \in 1..Len(ss) : ss[i].heard /\ ss[j].heard /\ ss[i].run = ss[j].run => i = j

\* Until two scripts have been at work together there is one at work at most,
\* and what it has copied so far is not yet named by the version file.
DiskFits(ss, fs, tc, vf, cl) ==
  ~cl =>
    /\ \A p \in {1, 2} : fs[p] \in {vf} \cup tc
    /\ \A i, j \in 1..Len(ss) : ss[i].pc # "begin" /\ ss[j].pc # "begin" => i = j
    /\ \A i \in 1..Len(ss) :
         ss[i].pc = "install" => \A p \in {1, 2} : p < ss[i].part => fs[p] \in tc

UpdateInv ==
  /\ BasicType
  /\ RunsFit(runs, rows)
  /\ ScriptsFit(scripts, runs, backups)
  /\ DiskFits(scripts, files, touched, versionFile, clash)

-----------------------------------------------------------------------------
(* Scripts that come, move and go.                                         *)

\* A script that ends leaves the others as they are, and nobody who waits for it.
LEMMA ScriptGone ==
  ASSUME NEW ss, NEW rns, NEW bs, ScriptsFit(ss, rns, bs), NEW i \in 1..Len(ss)
  PROVE  /\ ScriptsFit(RemoveAt(ss, i), rns, bs)
         /\ \A k \in 1..Len(RemoveAt(ss, i)) :
              RemoveAt(ss, i)[k].heard /\ ss[i].heard => RemoveAt(ss, i)[k].run # ss[i].run
<1> DEFINE tt == RemoveAt(ss, i)
           m(k) == IF k < i THEN k ELSE k + 1
<1>1. ss \in Seq(Script) /\ Len(ss) \in Nat
  BY SeqFacts DEF ScriptsFit
<1>2. /\ tt \in Seq(Script) /\ Len(tt) = Len(ss) - 1
      /\ \A k \in 1..(Len(ss) - 1) : tt[k] = ss[m(k)]
  BY <1>1, RemoveAtKeeps
<1>3. /\ \A k \in 1..(Len(ss) - 1) : m(k) \in 1..Len(ss) /\ m(k) # i
      /\ \A k, l \in 1..(Len(ss) - 1) : m(k) = m(l) => k = l
  BY <1>1
<1> HIDE DEF tt, m
<1>4. ScriptsFit(tt, rns, bs)
  BY <1>1, <1>2, <1>3 DEF ScriptsFit
<1>5. \A k \in 1..Len(tt) : tt[k].heard /\ ss[i].heard => tt[k].run # ss[i].run
  BY <1>1, <1>2, <1>3 DEF ScriptsFit
<1> QED BY <1>4, <1>5 DEF tt

\* A new script.
LEMMA ScriptNew ==
  ASSUME NEW ss, NEW rns, NEW bs, ScriptsFit(ss, rns, bs), NEW s,
         ScriptFits(s, bs), HeardFits(s, rns),
         s.heard => \A k \in 1..Len(ss) : ss[k].heard => ss[k].run # s.run
  PROVE  ScriptsFit(Append(ss, s), rns, bs)
<1> DEFINE tt == Append(ss, s)
<1>1. ss \in Seq(Script) /\ s \in Script /\ Len(ss) \in Nat
  BY SeqFacts DEF ScriptsFit, ScriptFits
<1>2. /\ tt \in Seq(Script) /\ Len(tt) = Len(ss) + 1
      /\ \A k \in 1..Len(ss) : tt[k] = ss[k]
      /\ tt[Len(ss) + 1] = s
  BY <1>1, AppendKeeps
<1> HIDE DEF tt
<1>3. \A k \in 1..Len(tt) : k \in 1..Len(ss) \/ k = Len(ss) + 1
  BY <1>1, <1>2
<1>4. \A k \in 1..Len(tt) : ScriptFits(tt[k], bs) /\ HeardFits(tt[k], rns)
  BY <1>2, <1>3 DEF ScriptsFit
<1>5. \A k, l \in 1..Len(tt) : tt[k].heard /\ tt[l].heard /\ tt[k].run = tt[l].run => k = l
  BY <1>2, <1>3 DEF ScriptsFit
<1> QED BY <1>2, <1>4, <1>5 DEF ScriptsFit, tt

\* A script that goes on for the same run.
LEMMA ScriptMoves ==
  ASSUME NEW ss, NEW rns, NEW bs, ScriptsFit(ss, rns, bs), NEW i \in 1..Len(ss), NEW s,
         ScriptFits(s, bs), s.cmd = ss[i].cmd, s.run = ss[i].run, s.heard = ss[i].heard
  PROVE  ScriptsFit([ss EXCEPT ![i] = s], rns, bs)
<1> DEFINE tt == [ss EXCEPT ![i] = s]
<1>1. ss \in Seq(Script) /\ s \in Script
  BY DEF ScriptsFit, ScriptFits
<1>2. /\ tt \in Seq(Script) /\ Len(tt) = Len(ss)
      /\ \A k \in 1..Len(ss) : tt[k] = IF k = i THEN s ELSE ss[k]
  BY <1>1, ExceptKeeps
<1> HIDE DEF tt
<1>3. \A k \in 1..Len(tt) : ScriptFits(tt[k], bs) /\ HeardFits(tt[k], rns)
  BY <1>2 DEF ScriptsFit, HeardFits
<1>4. \A k \in 1..Len(tt) : tt[k].heard = ss[k].heard /\ tt[k].run = ss[k].run
  BY <1>2
<1>5. \A k, l \in 1..Len(tt) : tt[k].heard /\ tt[l].heard /\ tt[k].run = tt[l].run => k = l
  BY <1>2, <1>4 DEF ScriptsFit
<1> QED BY <1>2, <1>3, <1>5 DEF ScriptsFit, tt

\* Scripts nobody waits for, in place of the same with their listeners.
LEMMA ScriptsUnheard ==
  ASSUME NEW ss, NEW rns, NEW bs, ScriptsFit(ss, rns, bs), NEW rns2
  PROVE  /\ ScriptsFit(Unheard(ss), rns2, bs) /\ Len(Unheard(ss)) = Len(ss)
         /\ \A k \in 1..Len(ss) : /\ Unheard(ss)[k].pc = ss[k].pc
                                  /\ Unheard(ss)[k].part = ss[k].part
<1> DEFINE e(k) == [ss[k] EXCEPT !.heard = FALSE]
           tt == [k \in 1..Len(ss) |-> e(k)]
<1>1. ss \in Seq(Script) /\ Len(ss) \in Nat /\ DOMAIN ss = 1..Len(ss)
      /\ \A k \in 1..Len(ss) : ss[k] \in Script
  BY SeqFacts DEF ScriptsFit
<1>2. \A k \in 1..Len(ss) : /\ e(k) \in Script /\ e(k).heard = FALSE
                            /\ e(k).pc = ss[k].pc /\ e(k).part = ss[k].part
                            /\ e(k).cmd = ss[k].cmd /\ e(k).src = ss[k].src
  BY <1>1 DEF Script
<1>3. Unheard(ss) = tt
  BY <1>1 DEF Unheard
<1> HIDE DEF e
<1>4. tt \in Seq(Script) /\ Len(tt) = Len(ss) /\ \A k \in 1..Len(ss) : tt[k] = e(k)
  <2>1. tt \in [1..Len(ss) -> Script]
    BY <1>2
  <2> QED BY <1>1, <2>1, FunctionIsSeq
<1> HIDE DEF tt
<1>5. \A k \in 1..Len(tt) : ScriptFits(tt[k], bs) /\ HeardFits(tt[k], rns2) /\ ~tt[k].heard
  BY <1>2, <1>4 DEF ScriptsFit, ScriptFits, HeardFits
<1>6. ScriptsFit(tt, rns2, bs)
  BY <1>4, <1>5 DEF ScriptsFit
<1> QED BY <1>2, <1>3, <1>4, <1>6

\* Runs that change without a listener among them.
LEMMA ScriptsKeepRuns ==
  ASSUME NEW ss, NEW rns, NEW bs, ScriptsFit(ss, rns, bs), NEW rns2,
         Len(rns2) \in Nat, Len(rns) \in Nat, Len(rns2) >= Len(rns),
         \A k \in 1..Len(ss) : ss[k].heard =>
            rns2[ss[k].run].asked = rns[ss[k].run].asked /\ rns2[ss[k].run].pc = rns[ss[k].run].pc
  PROVE  ScriptsFit(ss, rns2, bs)
BY DEF ScriptsFit, HeardFits

\* Directories that are created or filled.
LEMMA ScriptsKeepBackups ==
  ASSUME NEW ss, NEW rns, NEW bs, ScriptsFit(ss, rns, bs), NEW bs2,
         \A v \in 1..MaxVersion :
            /\ bs[v] # NoBackup => bs2[v] # NoBackup
            /\ bs[v] \notin {NoBackup, EmptyBackup} => bs2[v] \notin {NoBackup, EmptyBackup}
  PROVE  ScriptsFit(ss, rns, bs2)
<1>1. ASSUME NEW k \in 1..Len(ss)
      PROVE  ScriptFits(ss[k], bs2)
  <2>1. ScriptFits(ss[k], bs) /\ ss[k] \in Script
    BY DEF ScriptsFit, ScriptFits
  <2>2. ss[k].src \in 0..MaxVersion /\ ss[k].pc \in {"begin", "copy", "stop", "stopRest", "install", "start", "startCtld", "startWeb"}
    BY <2>1 DEF Script
  <2>3. ss[k].src # 0 => ss[k].src \in 1..MaxVersion
    BY <2>2, UpdateAssumption DEF UpdateAssumption
  <2>4. ss[k].part > 1 => ss[k].pc # "begin"
    BY <2>1 DEF ScriptFits
  <2> QED BY <2>1, <2>3, <2>4 DEF ScriptFits
<1> QED BY <1>1 DEF ScriptsFit

\* No scripts at all.
LEMMA ScriptsNone ==
  ASSUME NEW rns, NEW bs
  PROVE  ScriptsFit(<<>>, rns, bs)
<1>1. <<>> \in Seq(Script) /\ Len(<<>>) = 0 /\ 1..0 = {}
  OBVIOUS
<1> QED BY <1>1 DEF ScriptsFit

-----------------------------------------------------------------------------
(* Runs and their rows.                                                    *)

\* Row k is given another state, or none is.
RowSet(rs, rs2, k) ==
  rs2 = rs \/ \E state \in States : rs2 = [rs EXCEPT ![k].state = state]

\* One run goes on, its row with it or not.
LEMMA RunMoves ==
  ASSUME NEW rns, NEW rs, RunsFit(rns, rs), rs \in Seq(Row), NEW r \in 1..Len(rns),
         NEW R, RunFits(R), R.row = rns[r].row,
         NEW rs2, RowSet(rs, rs2, R.row),
         StateFits(R, rs2[R.row].state)
  PROVE  /\ RunsFit([rns EXCEPT ![r] = R], rs2)
         /\ Len([rns EXCEPT ![r] = R]) = Len(rns)
         /\ \A q \in 1..Len(rns) : [rns EXCEPT ![r] = R][q] = IF q = r THEN R ELSE rns[q]
         /\ rs2 \in Seq(Row) /\ Len(rs2) = Len(rs)
<1> DEFINE tt == [rns EXCEPT ![r] = R]
<1>1. rns \in Seq(Run) /\ R \in Run /\ R.row \in 1..Len(rs)
  BY DEF RunsFit, RunFits
<1>2. /\ tt \in Seq(Run) /\ Len(tt) = Len(rns)
      /\ \A q \in 1..Len(rns) : tt[q] = IF q = r THEN R ELSE rns[q]
  BY <1>1, ExceptKeeps
<1> HIDE DEF tt
<1>3. /\ rs2 \in Seq(Row) /\ Len(rs2) = Len(rs)
      /\ \A k \in 1..Len(rs) : k # R.row => rs2[k] = rs[k]
  <2>1. CASE rs2 = rs
    BY <2>1
  <2>2. ASSUME NEW state \in States, rs2 = [rs EXCEPT ![R.row].state = state]
        PROVE  <1>3
    <3> DEFINE e == [version |-> rs[R.row].version, state |-> state]
    <3>1. rs[R.row] \in Row
      BY <1>1
    <3>2. e \in Row
      BY <3>1 DEF Row
    <3>3. [rs[R.row] EXCEPT !.state = state] = e
      BY <3>1 DEF Row
    <3>4. rs2 = [rs EXCEPT ![R.row] = e]
      BY <2>2, <3>3
    <3> HIDE DEF e
    <3> QED BY <1>1, <3>2, <3>4, ExceptKeeps
  <2> QED BY <2>1, <2>2 DEF RowSet
<1>4. \A q \in 1..Len(tt) : tt[q].row = rns[q].row
  BY <1>2
<1>5. \A p, q \in 1..Len(tt) : tt[p].row = tt[q].row => p = q
  BY <1>2, <1>4 DEF RunsFit
<1>6. ASSUME NEW q \in 1..Len(tt)
      PROVE  RunFits(tt[q]) /\ tt[q].row \in 1..Len(rs2) /\ StateFits(tt[q], rs2[tt[q].row].state)
  <2>1. CASE q = r
    BY <1>1, <1>2, <1>3, <2>1
  <2>2. CASE q # r
    <3>1. tt[q] = rns[q] /\ rns[q].row # R.row /\ rns[q].row \in 1..Len(rs)
      BY <1>2, <2>2 DEF RunsFit
    <3>2. rs2[rns[q].row] = rs[rns[q].row]
      BY <1>3, <3>1
    <3> QED BY <1>2, <1>3, <3>1, <3>2 DEF RunsFit
  <2> QED BY <2>1, <2>2
<1>7. RunsFit(tt, rs2)
  BY <1>2, <1>5, <1>6 DEF RunsFit
<1> QED BY <1>2, <1>3, <1>7 DEF tt

\* A new row.
LEMMA RowNew ==
  ASSUME NEW rns, NEW rs, RunsFit(rns, rs), rs \in Seq(Row), NEW e \in Row
  PROVE  RunsFit(rns, Append(rs, e))
<1> DEFINE tt == Append(rs, e)
<1>1. Len(rs) \in Nat /\ Len(tt) = Len(rs) + 1 /\ \A k \in 1..Len(rs) : tt[k] = rs[k]
  BY AppendKeeps
<1> HIDE DEF tt
<1>2. RunsFit(rns, tt)
  BY <1>1 DEF RunsFit
<1> QED BY <1>2 DEF tt

\* A new run, for a row that has none.
LEMMA RunNew ==
  ASSUME NEW rns, NEW rs, RunsFit(rns, rs), NEW R, RunFits(R), R.row \in 1..Len(rs),
         StateFits(R, rs[R.row].state), \A q \in 1..Len(rns) : rns[q].row # R.row
  PROVE  /\ RunsFit(Append(rns, R), rs)
         /\ Len(Append(rns, R)) = Len(rns) + 1
         /\ \A q \in 1..Len(rns) : Append(rns, R)[q] = rns[q]
<1> DEFINE tt == Append(rns, R)
<1>1. rns \in Seq(Run) /\ R \in Run /\ Len(rns) \in Nat
  BY SeqFacts DEF RunsFit, RunFits
<1>2. /\ tt \in Seq(Run) /\ Len(tt) = Len(rns) + 1
      /\ \A q \in 1..Len(rns) : tt[q] = rns[q]
      /\ tt[Len(rns) + 1] = R
  BY <1>1, AppendKeeps
<1> HIDE DEF tt
<1>3. \A q \in 1..Len(tt) : q \in 1..Len(rns) \/ q = Len(rns) + 1
  BY <1>1, <1>2
<1>4. \A q \in 1..Len(tt) :
         RunFits(tt[q]) /\ tt[q].row \in 1..Len(rs) /\ StateFits(tt[q], rs[tt[q].row].state)
  BY <1>2, <1>3 DEF RunsFit
<1>5. \A p, q \in 1..Len(tt) : tt[p].row = tt[q].row => p = q
  BY <1>2, <1>3 DEF RunsFit
<1>6. RunsFit(tt, rs)
  BY <1>2, <1>4, <1>5 DEF RunsFit
<1> QED BY <1>2, <1>6 DEF tt

\* What the end of bench-web leaves of the runs.
LEMMA RunsForgotten ==
  ASSUME RunsFit(runs, rows)
  PROVE  RunsFit(Forgotten, rows) /\ Len(Forgotten) = Len(runs)
<1> DEFINE e(r) == [runs[r] EXCEPT !.ran = FALSE, !.asked = FALSE]
           tt == [r \in 1..Len(runs) |-> e(r)]
<1>1. /\ Len(runs) \in Nat /\ DOMAIN runs = 1..Len(runs)
      /\ \A r \in 1..Len(runs) : runs[r] \in Run
  BY SeqFacts DEF RunsFit
<1>2. \A r \in 1..Len(runs) : /\ e(r) \in Run /\ e(r).ran = FALSE /\ e(r).asked = FALSE
                              /\ e(r).pc = runs[r].pc /\ e(r).row = runs[r].row
  BY <1>1 DEF Run
<1>3. Forgotten = tt
  BY <1>1 DEF Forgotten
<1> HIDE DEF e
<1>4. tt \in Seq(Run) /\ Len(tt) = Len(runs) /\ \A r \in 1..Len(runs) : tt[r] = e(r)
  <2>1. tt \in [1..Len(runs) -> Run]
    BY <1>2
  <2> QED BY <1>1, <2>1, FunctionIsSeq
<1> HIDE DEF tt
<1>5. ASSUME NEW r \in 1..Len(tt)
      PROVE  RunFits(tt[r]) /\ tt[r].row \in 1..Len(rows) /\ StateFits(tt[r], rows[tt[r].row].state)
  <2>1. /\ RunFits(runs[r]) /\ runs[r].row \in 1..Len(rows)
        /\ StateFits(runs[r], rows[runs[r].row].state)
    BY <1>4 DEF RunsFit
  <2>2. /\ tt[r] \in Run /\ tt[r].ran = FALSE /\ tt[r].asked = FALSE
        /\ tt[r].pc = runs[r].pc /\ tt[r].row = runs[r].row
    BY <1>2, <1>4
  <2>3. RunFits(tt[r])
    BY <2>2 DEF RunFits
  <2>4. StateFits(tt[r], rows[tt[r].row].state)
    BY <2>1, <2>2 DEF StateFits
  <2> QED BY <2>1, <2>2, <2>3, <2>4
<1>6. \A p, q \in 1..Len(tt) : tt[p].row = tt[q].row => p = q
  <2>1. \A p \in 1..Len(tt) : tt[p].row = runs[p].row
    BY <1>2, <1>4
  <2> QED BY <1>4, <2>1 DEF RunsFit
<1>7. RunsFit(tt, rows)
  BY <1>4, <1>5, <1>6 DEF RunsFit
<1> QED BY <1>3, <1>4, <1>7

-----------------------------------------------------------------------------
(* What a step makes of its run.                                           *)

\* A run that throws: it is over, or has one try less; its wait is over.
LEMMA RetriedFacts ==
  ASSUME NEW R, RunFits(R), NEW state, StateFits(R, state)
  PROVE  /\ RunFits(Retried(R)) /\ Retried(R).row = R.row /\ ~Retried(R).asked
         /\ ~R.ran => StateFits(Retried(R), state)
<1>1. R \in Run
  BY DEF RunFits
<1>2. CASE R.tries + 1 = MaxTries
  <2> DEFINE e == [R EXCEPT !.pc = "done", !.asked = FALSE, !.ran = FALSE]
  <2>1. e \in Run /\ e.row = R.row /\ e.pc = "done" /\ e.asked = FALSE /\ e.ran = FALSE
    BY <1>1 DEF Run
  <2>2. Retried(R) = e
    BY <1>2 DEF Retried
  <2> HIDE DEF e
  <2> QED BY <2>1, <2>2 DEF RunFits, StateFits
<1>3. CASE R.tries + 1 # MaxTries
  <2> DEFINE e == [R EXCEPT !.tries = R.tries + 1, !.asked = FALSE]
  <2>1. R.tries + 1 \in 0..(MaxTries - 1)
    BY <1>1, <1>3, UpdateAssumption DEF Run, UpdateAssumption
  <2>2. e \in Run /\ e.row = R.row /\ e.pc = R.pc /\ e.asked = FALSE /\ e.ran = R.ran
    BY <1>1, <2>1 DEF Run
  <2>3. Retried(R) = e
    BY <1>3 DEF Retried
  <2> HIDE DEF e
  <2>4. RunFits(e)
    BY <2>2 DEF RunFits
  <2>5. R.ran \in BOOLEAN
    BY <1>1 DEF Run
  <2>6. ~R.ran => StateFits(e, state)
    BY <2>2, <2>5 DEF StateFits
  <2> QED BY <2>2, <2>3, <2>4, <2>6
<1> QED BY <1>2, <1>3

AtPc(R, pc) == [R EXCEPT !.pc = pc, !.looks = 0]

\* A run at its next step.
LEMMA WentOn ==
  ASSUME NEW R, RunFits(R), NEW pc \in {"download", "idle", "backup", "rebuild", "complete", "done"},
         ~R.asked, ~R.ran
  PROVE  /\ RunFits(AtPc(R, pc)) /\ AtPc(R, pc).row = R.row /\ AtPc(R, pc).pc = pc
         /\ ~AtPc(R, pc).asked /\ ~AtPc(R, pc).ran
<1> DEFINE e == AtPc(R, pc)
<1>1. R \in Run /\ R.asked = FALSE /\ R.ran = FALSE
  BY DEF RunFits, Run
<1>2. 0 \in 0..(MaxLooks + MaxHealth)
  BY UpdateAssumption DEF UpdateAssumption
<1>3. e \in Run /\ e.row = R.row /\ e.pc = pc /\ e.asked = FALSE /\ e.ran = FALSE
  BY <1>1, <1>2 DEF Run, AtPc
<1>4. RunFits(e)
  BY <1>3 DEF RunFits
<1> QED BY <1>3, <1>4

\* A run that looks again.
LEMMA LookedAgain ==
  ASSUME NEW R, RunFits(R), R.looks + 1 < MaxLooks \/ R.looks + 1 < MaxHealth
  PROVE  /\ RunFits([R EXCEPT !.looks = R.looks + 1])
         /\ [R EXCEPT !.looks = R.looks + 1].row = R.row
         /\ \A state : StateFits(R, state) => StateFits([R EXCEPT !.looks = R.looks + 1], state)
<1> DEFINE e == [R EXCEPT !.looks = R.looks + 1]
<1>1. R \in Run
  BY DEF RunFits
<1>2. R.looks + 1 \in 0..(MaxLooks + MaxHealth)
  BY <1>1, UpdateAssumption DEF Run, UpdateAssumption
<1>3. e \in Run /\ e.row = R.row /\ e.pc = R.pc /\ e.asked = R.asked /\ e.ran = R.ran
  BY <1>1, <1>2 DEF Run
<1> HIDE DEF e
<1>4. RunFits(e)
  BY <1>3 DEF RunFits
<1>5. \A state : StateFits(R, state) => StateFits(e, state)
  BY <1>3 DEF StateFits
<1> QED BY <1>3, <1>4, <1>5 DEF e

\* A run that was not healthy.
LEMMA UnhealthyFacts ==
  ASSUME NEW R, RunFits(R), ~R.asked, ~R.ran
  PROVE  /\ RunFits(Unhealthy(R)) /\ Unhealthy(R).row = R.row
         /\ StateFits(Unhealthy(R), "applying")
<1> DEFINE pc == IF R.attempt = 0 THEN "apply" ELSE "rollback"
           e == [R EXCEPT !.looks = 0, !.attempt = 1, !.pc = pc]
<1>1. R \in Run /\ R.asked = FALSE /\ R.ran = FALSE
  BY DEF RunFits, Run
<1>2. 0 \in 0..(MaxLooks + MaxHealth) /\ 1 \in 0..1
  BY UpdateAssumption DEF UpdateAssumption
<1>3. Unhealthy(R) = e
  BY DEF Unhealthy
<1>4. pc \in {"apply", "rollback"}
  OBVIOUS
<1> HIDE DEF pc
<1>5. e \in Run /\ e.row = R.row /\ e.pc = pc /\ e.asked = FALSE /\ e.ran = FALSE
  BY <1>1, <1>2, <1>4 DEF Run
<1> HIDE DEF e
<1>6. RunFits(e) /\ StateFits(e, "applying")
  BY <1>4, <1>5 DEF RunFits, StateFits
<1> QED BY <1>3, <1>5, <1>6

\* A run whose result is stored.
LEMMA StoredFacts ==
  ASSUME NEW R, RunFits(R), R.ran
  PROVE  LET e == [R EXCEPT !.ran = FALSE, !.pc = Follows(R.pc)] IN
         /\ RunFits(e) /\ e.row = R.row
         /\ \A state : StateFits(R, state) => StateFits(e, state)
<1> DEFINE e == [R EXCEPT !.ran = FALSE, !.pc = Follows(R.pc)]
<1>1. R \in Run /\ R.asked = FALSE /\ R.ran = TRUE /\ R.pc \in {"backup", "apply", "rollback"}
  BY DEF RunFits, Run
<1>2. Follows(R.pc) \in {"apply", "verify", "markback"}
  BY <1>1 DEF Follows
<1>3. e \in Run /\ e.row = R.row /\ e.pc = Follows(R.pc) /\ e.asked = FALSE /\ e.ran = FALSE
  BY <1>1, <1>2 DEF Run
<1> HIDE DEF e
<1>4. RunFits(e)
  BY <1>3 DEF RunFits
<1>5. \A state : StateFits(R, state) => StateFits(e, state)
  BY <1>1, <1>2, <1>3 DEF StateFits
<1> QED BY <1>3, <1>4, <1>5 DEF e

\* A run whose script has ended well.
LEMMA ServedFacts ==
  ASSUME NEW R, RunFits(R), NEW s \in Script, s.heard => R.asked
  PROVE  /\ RunFits(Served(R, s)) /\ Served(R, s).row = R.row /\ Served(R, s).pc = R.pc
         /\ ~s.heard => Served(R, s).asked = R.asked
         /\ \A state : StateFits(R, state) => StateFits(Served(R, s), state)
<1> DEFINE n == IF s.cmd # "apply" \/ R.applied = 2 THEN R.applied ELSE R.applied + 1
           ran == R.ran \/ s.heard
           asked == R.asked /\ ~s.heard
           e == [R EXCEPT !.applied = n, !.ran = ran, !.asked = asked]
<1>1. /\ R \in Run /\ R.applied \in 0..2 /\ R.ran \in BOOLEAN /\ R.asked \in BOOLEAN
      /\ s.heard \in BOOLEAN
  BY DEF RunFits, Run, Script
<1>2. n \in 0..2 /\ ran \in BOOLEAN /\ asked \in BOOLEAN
  BY <1>1
<1>3. Served(R, s) = e
  BY DEF Served
<1>4. ~(asked /\ ran) /\ (asked \/ ran => R.pc \in {"backup", "apply", "rollback"})
      /\ (~s.heard => asked = R.asked /\ ran = R.ran)
      /\ (s.heard => R.asked)
  BY <1>1 DEF RunFits
<1> HIDE DEF n, ran, asked
<1>5. e \in Run /\ e.row = R.row /\ e.pc = R.pc /\ e.asked = asked /\ e.ran = ran
  BY <1>1, <1>2 DEF Run
<1> HIDE DEF e
<1>6. RunFits(e)
  BY <1>4, <1>5 DEF RunFits
<1>7. \A state : StateFits(R, state) => StateFits(e, state)
  BY <1>1, <1>4, <1>5 DEF StateFits
<1> QED BY <1>3, <1>4, <1>5, <1>6, <1>7

-----------------------------------------------------------------------------
(* The steps of the workflow.                                              *)

Forward ==
  \A i \in DOMAIN rows :
     rows'[i] # rows[i] => Rank(rows'[i].state) > Rank(rows[i].state)

\* The state of a row that is written.
LEMMA StateSet ==
  ASSUME rows \in Seq(Row), NEW k \in 1..Len(rows), NEW state \in States,
         rows' = [rows EXCEPT ![k].state = state]
  PROVE  /\ rows'[k].state = state
         /\ state = rows[k].state \/ Rank(state) > Rank(rows[k].state) => Forward
<1> DEFINE e == [version |-> rows[k].version, state |-> state]
<1>1. rows[k] \in Row
  OBVIOUS
<1>2. e \in Row
  BY <1>1 DEF Row
<1>3. [rows[k] EXCEPT !.state = state] = e
  BY <1>1 DEF Row
<1>4. rows' = [rows EXCEPT ![k] = e]
  BY <1>3
<1>5. e.state = state /\ (state = rows[k].state => e = rows[k])
  BY <1>1 DEF Row
<1> HIDE DEF e
<1>6. /\ \A i \in 1..Len(rows) : rows'[i] = IF i = k THEN e ELSE rows[i]
      /\ DOMAIN rows = 1..Len(rows)
  BY <1>2, <1>4, ExceptKeeps, SeqFacts
<1> QED BY <1>5, <1>6 DEF Forward

\* The same of the runs and the rows there are.
LEMMA RunMovesHere ==
  ASSUME RunsFit(runs, rows), rows \in Seq(Row), NEW r \in 1..Len(runs),
         NEW R, RunFits(R), R.row = runs[r].row,
         RowSet(rows, rows', R.row), StateFits(R, rows'[R.row].state)
  PROVE  /\ RunsFit([runs EXCEPT ![r] = R], rows')
         /\ Len([runs EXCEPT ![r] = R]) = Len(runs)
         /\ rows' \in Seq(Row) /\ Len(rows') = Len(rows)
BY RunMoves

\* A run that no script is at work for goes on, its row with it or not.
LEMMA OneRunMoves ==
  ASSUME RunsFit(runs, rows), ScriptsFit(scripts, runs, backups), rows \in Seq(Row),
         NEW r \in 1..Len(runs), NEW R, RunFits(R), R.row = runs[r].row,
         \A k \in 1..Len(scripts) : scripts[k].heard => scripts[k].run # r,
         runs' = [runs EXCEPT ![r] = R],
         \/ rows' = rows /\ StateFits(R, rows[R.row].state)
         \/ \E state \in States : /\ rows' = [rows EXCEPT ![R.row].state = state]
                                  /\ StateFits(R, state)
  PROVE  /\ RunsFit(runs', rows') /\ Len(runs') = Len(runs)
         /\ ScriptsFit(scripts, runs', backups)
         /\ rows' \in Seq(Row) /\ Len(rows') = Len(rows)
<1>1. R.row \in 1..Len(rows)
  BY DEF RunsFit
<1>2. StateFits(R, rows'[R.row].state)
  BY <1>1, StateSet
<1>3. RowSet(rows, rows', R.row)
  BY DEF RowSet
<1>4. /\ RunsFit(runs', rows') /\ Len(runs') = Len(runs)
      /\ \A q \in 1..Len(runs) : runs'[q] = IF q = r THEN R ELSE runs[q]
      /\ rows' \in Seq(Row) /\ Len(rows') = Len(rows)
  <2> DEFINE tt == [runs EXCEPT ![r] = R]
  <2>1. RunsFit(tt, rows') /\ Len(tt) = Len(runs) /\ rows' \in Seq(Row) /\ Len(rows') = Len(rows)
    BY <1>2, <1>3, RunMovesHere
  <2>2. \A q \in 1..Len(runs) : tt[q] = IF q = r THEN R ELSE runs[q]
    <3>1. runs \in Seq(Run) /\ R \in Run
      BY DEF RunsFit, RunFits
    <3> QED BY <3>1, ExceptKeeps
  <2> QED BY <2>1, <2>2
<1>5. Len(runs) \in Nat /\ Len(runs') \in Nat /\ Len(runs') >= Len(runs)
  <2>1. Len(runs) \in Nat
    BY SeqFacts DEF RunsFit
  <2> QED BY <1>4, <2>1
<1>6. \A k \in 1..Len(scripts) : scripts[k].heard =>
         /\ runs'[scripts[k].run].asked = runs[scripts[k].run].asked
         /\ runs'[scripts[k].run].pc = runs[scripts[k].run].pc
  BY <1>4 DEF ScriptsFit, HeardFits
<1>7. ScriptsFit(scripts, runs', backups)
  BY <1>5, <1>6, ScriptsKeepRuns, Zenon
<1> QED BY <1>4, <1>7

\* Nobody waits for a script while its run does not.
LEMMA NobodyHeard ==
  ASSUME ScriptsFit(scripts, runs, backups), NEW r, ~runs[r].asked
  PROVE  \A k \in 1..Len(scripts) : scripts[k].heard => scripts[k].run # r
BY DEF ScriptsFit, HeardFits

\* A workflow step touches the runs, the rows and the worker alone, but for the
\* script it may start.
LEMMA WorkflowKeeps ==
  ASSUME UpdateInv, workerRest' = workerRest, worker' \in 0..Len(runs'),
         rows' \in Seq(Row), Len(rows') = Len(rows),
         RunsFit(runs', rows'), ScriptsFit(scripts', runs', backups),
         \/ scripts' = scripts
         \/ \E s : scripts' = Append(scripts, s) /\ s \in Script /\ s.pc = "begin"
  PROVE  UpdateInv'
<1>1. BasicType'
  BY DEF UpdateInv, BasicType, workerRest, diskVars, hostVars
<1>2. /\ backups' = backups /\ files' = files /\ touched' = touched
      /\ versionFile' = versionFile /\ clash' = clash
  BY DEF workerRest, diskVars
<1>3. DiskFits(scripts', files, touched, versionFile, clash)
  <2>1. CASE scripts' = scripts
    BY <2>1 DEF UpdateInv
  <2>2. ASSUME NEW s \in Script, scripts' = Append(scripts, s), s.pc = "begin"
        PROVE  <1>3
    <3>1. /\ Len(scripts) \in Nat /\ Len(scripts') = Len(scripts) + 1
          /\ \A k \in 1..Len(scripts) : scripts'[k] = scripts[k]
          /\ scripts'[Len(scripts) + 1] = s
      <4>1. scripts \in Seq(Script)
        BY DEF UpdateInv, ScriptsFit
      <4> QED BY <2>2, <4>1, AppendKeeps, SeqFacts
    <3>2. \A k \in 1..Len(scripts') : scripts'[k].pc # "begin" =>
            k \in 1..Len(scripts) /\ scripts'[k] = scripts[k]
      BY <2>2, <3>1
    <3>3. DiskFits(scripts, files, touched, versionFile, clash)
      BY DEF UpdateInv
    <3>4. \A k \in 1..Len(scripts') : scripts'[k].pc = "install" => scripts'[k].pc # "begin"
      OBVIOUS
    <3> QED BY <3>2, <3>3, <3>4 DEF DiskFits
  <2> QED BY <2>1, <2>2
<1>4. RunsFit(runs, rows)'
  BY DEF RunsFit, RunFits, StateFits
<1>5. ScriptsFit(scripts, runs, backups)'
  BY <1>2 DEF ScriptsFit, ScriptFits, HeardFits
<1>6. DiskFits(scripts, files, touched, versionFile, clash)'
  BY <1>2, <1>3 DEF DiskFits
<1> QED BY <1>1, <1>4, <1>5, <1>6 DEF UpdateInv

\* What is left to show of a step of run r.
RunStepFits ==
  /\ RunsFit(runs', rows') /\ Len(runs') = Len(runs)
  /\ ScriptsFit(scripts, runs', backups)
  /\ rows' \in Seq(Row) /\ Len(rows') = Len(rows)
  /\ worker' \in 0..Len(runs')
  /\ Forward

\* A run at work, and its row.
LEMMA AtStep ==
  ASSUME UpdateInv, NEW r \in 1..Len(runs)
  PROVE  /\ RunsFit(runs, rows) /\ ScriptsFit(scripts, runs, backups) /\ rows \in Seq(Row)
         /\ runs \in Seq(Run) /\ Len(runs) \in Nat
         /\ RunFits(runs[r]) /\ runs[r] \in Run /\ runs[r].row \in 1..Len(rows)
         /\ rows[runs[r].row] \in Row /\ rows[runs[r].row].state \in States
         /\ StateFits(runs[r], rows[runs[r].row].state)
         /\ runs[r].asked \in BOOLEAN /\ runs[r].ran \in BOOLEAN
         /\ r \in 0..Len(runs) /\ 0 \in 0..Len(runs)
<1>1. RunsFit(runs, rows) /\ ScriptsFit(scripts, runs, backups) /\ rows \in Seq(Row)
  BY DEF UpdateInv, BasicType
<1>2. runs \in Seq(Run) /\ Len(runs) \in Nat
  BY <1>1, SeqFacts DEF RunsFit
<1>3. /\ RunFits(runs[r]) /\ runs[r] \in Run /\ runs[r].row \in 1..Len(rows)
      /\ StateFits(runs[r], rows[runs[r].row].state)
  BY <1>1 DEF RunsFit, RunFits
<1>4. rows[runs[r].row] \in Row
  BY <1>1, <1>3
<1>5. rows[runs[r].row].state \in States
  BY <1>4 DEF Row
<1>6. runs[r].asked \in BOOLEAN /\ runs[r].ran \in BOOLEAN
  BY <1>3 DEF Run
<1>7. r \in 0..Len(runs) /\ 0 \in 0..Len(runs)
  BY <1>2
<1> QED BY <1>1, <1>2, <1>3, <1>4, <1>5, <1>6, <1>7

\* A step that neither starts nor ends a script.
LEMMA PlainStep ==
  ASSUME UpdateInv, NEW r \in 1..Len(runs), NEW R, RunFits(R), R.row = runs[r].row,
         ~runs[r].asked, runs' = [runs EXCEPT ![r] = R], worker' \in {0, r},
         \/ rows' = rows /\ StateFits(R, rows[R.row].state)
         \/ \E state \in States :
              /\ rows' = [rows EXCEPT ![R.row].state = state]
              /\ StateFits(R, state)
              /\ \/ state = rows[R.row].state
                 \/ Rank(state) > Rank(rows[R.row].state)
  PROVE  RunStepFits
<1>1. /\ RunsFit(runs, rows) /\ ScriptsFit(scripts, runs, backups) /\ rows \in Seq(Row)
      /\ R.row \in 1..Len(rows) /\ r \in 0..Len(runs) /\ 0 \in 0..Len(runs)
  BY AtStep
<1>2. \A k \in 1..Len(scripts) : scripts[k].heard => scripts[k].run # r
  BY <1>1, NobodyHeard
<1>3. \/ rows' = rows /\ StateFits(R, rows[R.row].state)
      \/ \E state \in States : /\ rows' = [rows EXCEPT ![R.row].state = state]
                               /\ StateFits(R, state)
  OBVIOUS
<1>4. /\ RunsFit(runs', rows') /\ Len(runs') = Len(runs)
      /\ ScriptsFit(scripts, runs', backups)
      /\ rows' \in Seq(Row) /\ Len(rows') = Len(rows)
  BY <1>1, <1>2, <1>3, OneRunMoves
<1>5. Forward
  <2>1. CASE rows' = rows
    BY <2>1 DEF Forward
  <2>2. ASSUME NEW state \in States, rows' = [rows EXCEPT ![R.row].state = state],
               state = rows[R.row].state \/ Rank(state) > Rank(rows[R.row].state)
        PROVE  Forward
    BY <1>1, <2>2, StateSet
  <2> QED BY <2>1, <2>2
<1>6. worker' \in 0..Len(runs')
  BY <1>1, <1>4
<1> QED BY <1>4, <1>5, <1>6 DEF RunStepFits

\* GoOn, as a change of one run.
LEMMA GoOnIs ==
  ASSUME runs \in Seq(Run), NEW r \in 1..Len(runs), NEW pc, GoOn(r, pc)
  PROVE  /\ runs' = [runs EXCEPT ![r] = AtPc(runs[r], pc)]
         /\ worker' \in {0, r}
BY DEF GoOn, AtPc

\* The run goes on to pc, where its row belongs.
LEMMA GoOnStep ==
  ASSUME UpdateInv, NEW r \in 1..Len(runs), ~runs[r].asked, ~runs[r].ran,
         NEW pc \in {"download", "idle", "backup", "rebuild", "complete", "done"}, GoOn(r, pc),
         NEW row, row = rows[runs[r].row].state,
         \/ /\ rows' = rows
            /\ \/ pc \in {"idle", "backup"} /\ row = "downloading"
               \/ pc \in {"rebuild", "complete"} /\ row = "applying"
         \/ pc = "download" /\ SetState(r, "downloading") /\ row = "pending"
         \/ pc = "done" /\ row = "applying"
            /\ (SetState(r, "completed") \/ SetState(r, "rolled_back"))
  PROVE  RunStepFits
<1> DEFINE R == AtPc(runs[r], pc)
<1>1. RunFits(runs[r]) /\ runs \in Seq(Run)
  BY AtStep
<1>2. RunFits(R) /\ R.row = runs[r].row /\ R.pc = pc /\ ~R.asked /\ ~R.ran
  BY <1>1, WentOn
<1>3. runs' = [runs EXCEPT ![r] = R] /\ worker' \in {0, r}
  BY <1>1, GoOnIs
<1> HIDE DEF R
<1>4. CASE rows' = rows /\ (\/ pc \in {"idle", "backup"} /\ row = "downloading"
                            \/ pc \in {"rebuild", "complete"} /\ row = "applying")
  <2>1. StateFits(R, rows[R.row].state)
    BY <1>2, <1>4 DEF StateFits
  <2> QED BY <1>2, <1>3, <1>4, <2>1, PlainStep
<1>5. CASE pc = "download" /\ SetState(r, "downloading") /\ row = "pending"
  <2>1. /\ StateFits(R, "downloading") /\ "downloading" \in States
        /\ rows' = [rows EXCEPT ![R.row].state = "downloading"]
        /\ Rank("downloading") > Rank(rows[R.row].state)
    BY <1>2, <1>5 DEF StateFits, States, SetState, Rank
  <2> QED BY <1>2, <1>3, <2>1, PlainStep
<1>6. ASSUME NEW state \in {"completed", "rolled_back"}, pc = "done", row = "applying",
             SetState(r, state)
      PROVE  RunStepFits
  <2>1. /\ StateFits(R, state) /\ state \in States
        /\ rows' = [rows EXCEPT ![R.row].state = state]
        /\ Rank(state) > Rank(rows[R.row].state)
    BY <1>2, <1>6 DEF StateFits, States, SetState, Rank
  <2> QED BY <1>2, <1>3, <2>1, PlainStep
<1> QED BY <1>4, <1>5, <1>6

\* Fails, of a run without a result to store.
LEMMA FailsStep ==
  ASSUME UpdateInv, NEW r \in 1..Len(runs), ~runs[r].asked, ~runs[r].ran, Fails(r), rows' = rows
  PROVE  RunStepFits
<1>1. /\ RunFits(runs[r]) /\ runs \in Seq(Run) /\ StateFits(runs[r], rows[runs[r].row].state)
  BY AtStep
<1>2. /\ RunFits(Retried(runs[r])) /\ Retried(runs[r]).row = runs[r].row
      /\ StateFits(Retried(runs[r]), rows[runs[r].row].state)
  BY <1>1, RetriedFacts
<1>3. runs' = [runs EXCEPT ![r] = Retried(runs[r])] /\ worker' = 0
  BY DEF Fails
<1> QED BY <1>2, <1>3, PlainStep

\* LookAgain, of a run with a check left.
LEMMA LookStep ==
  ASSUME UpdateInv, NEW r \in 1..Len(runs), ~runs[r].asked, LookAgain(r), rows' = rows,
         runs[r].looks + 1 < MaxLooks \/ runs[r].looks + 1 < MaxHealth
  PROVE  RunStepFits
<1> DEFINE R == [runs[r] EXCEPT !.looks = runs[r].looks + 1]
<1>1. RunFits(runs[r]) /\ runs \in Seq(Run) /\ StateFits(runs[r], rows[runs[r].row].state)
  BY AtStep
<1>2. RunFits(R) /\ R.row = runs[r].row /\ StateFits(R, rows[runs[r].row].state)
  BY <1>1, LookedAgain
<1>3. runs' = [runs EXCEPT ![r] = R] /\ worker' = 0
  BY <1>1 DEF LookAgain
<1> HIDE DEF R
<1> QED BY <1>2, <1>3, PlainStep

\* The steps that start no script.
LEMMA QuietSteps ==
  ASSUME UpdateInv, NEW r \in 1..Len(runs),
         \/ MarkDownloading(r) \/ Download(r) \/ CheckIdle(r) \/ VerifyHealth(r)
         \/ Rebuild(r) \/ MarkEnd(r) \/ Memoize(r)
  PROVE  RunStepFits
<1> DEFINE row == rows[runs[r].row].state
<1>1. /\ RunFits(runs[r]) /\ runs \in Seq(Run) /\ StateFits(runs[r], row)
      /\ runs[r].asked \in BOOLEAN /\ runs[r].ran \in BOOLEAN
  BY AtStep
<1>2. runs[r].pc \notin {"backup", "apply", "rollback"} => ~runs[r].asked /\ ~runs[r].ran
  BY <1>1 DEF RunFits
<1>3. CASE MarkDownloading(r)
  <2>1. /\ ~runs[r].asked /\ ~runs[r].ran /\ row = "pending"
        /\ SetState(r, "downloading") /\ GoOn(r, "download")
    BY <1>1, <1>2, <1>3 DEF MarkDownloading, StateFits
  <2> HIDE DEF row
  <2> QED BY <2>1, GoOnStep DEF row
<1>4. CASE Download(r)
  <2>1. ~runs[r].asked /\ ~runs[r].ran /\ row = "downloading" /\ rows' = rows
    BY <1>1, <1>2, <1>4 DEF Download, StateFits
  <2>2. GoOn(r, "idle") => RunStepFits
    BY <2>1, GoOnStep
  <2>3. Fails(r) => RunStepFits
    BY <2>1, FailsStep
  <2> QED BY <1>4, <2>2, <2>3 DEF Download
<1>5. CASE CheckIdle(r)
  <2>1. ~runs[r].asked /\ ~runs[r].ran /\ row = "downloading" /\ rows' = rows
    BY <1>1, <1>2, <1>5 DEF CheckIdle, StateFits
  <2>2. GoOn(r, "backup") => RunStepFits
    BY <2>1, GoOnStep
  <2>3. LookAgain(r) /\ runs[r].looks + 1 < MaxLooks => RunStepFits
    BY <2>1, LookStep
  <2> QED BY <1>5, <2>2, <2>3 DEF CheckIdle
<1>6. CASE VerifyHealth(r)
  <2>1. ~runs[r].asked /\ ~runs[r].ran /\ row = "applying" /\ rows' = rows
    BY <1>1, <1>2, <1>6 DEF VerifyHealth, StateFits
  <2>2. GoOn(r, "rebuild") => RunStepFits
    BY <2>1, GoOnStep
  <2>3. LookAgain(r) /\ runs[r].looks + 1 < MaxHealth => RunStepFits
    BY <2>1, LookStep
  <2>4. ASSUME runs' = [runs EXCEPT ![r] = Unhealthy(@)], worker' = 0
        PROVE  RunStepFits
    <3>1. RunFits(Unhealthy(runs[r])) /\ Unhealthy(runs[r]).row = runs[r].row
          /\ StateFits(Unhealthy(runs[r]), row)
      BY <1>1, <2>1, UnhealthyFacts
    <3>2. runs' = [runs EXCEPT ![r] = Unhealthy(runs[r])]
      BY <2>4
    <3> QED BY <2>1, <2>4, <3>1, <3>2, PlainStep
  <2> QED BY <1>6, <2>2, <2>3, <2>4 DEF VerifyHealth
<1>7. CASE Rebuild(r)
  <2>1. ~runs[r].asked /\ ~runs[r].ran /\ row = "applying" /\ rows' = rows /\ GoOn(r, "complete")
    BY <1>1, <1>2, <1>7 DEF Rebuild, StateFits
  <2> QED BY <2>1, GoOnStep
<1>8. CASE MarkEnd(r)
  <2>1. ~runs[r].asked /\ ~runs[r].ran /\ row = "applying" /\ GoOn(r, "done")
        /\ (SetState(r, "completed") \/ SetState(r, "rolled_back"))
    BY <1>1, <1>2, <1>8 DEF MarkEnd, StateFits
  <2> QED BY <2>1, GoOnStep
<1>9. CASE Memoize(r)
  <2> DEFINE R == [runs[r] EXCEPT !.ran = FALSE, !.pc = Follows(runs[r].pc)]
  <2>1. RunFits(R) /\ R.row = runs[r].row /\ StateFits(R, row) /\ ~runs[r].asked
    <3>1. runs[r].ran
      BY <1>9 DEF Memoize
    <3>2. ~runs[r].asked
      BY <1>1, <3>1 DEF RunFits
    <3> QED BY <1>1, <3>1, <3>2, StoredFacts
  <2>2. runs' = [runs EXCEPT ![r] = R] /\ worker' \in {0, r} /\ rows' = rows
    BY <1>1, <1>9 DEF Memoize
  <2> HIDE DEF R
  <2> QED BY <2>1, <2>2, PlainStep
<1> QED BY <1>3, <1>4, <1>5, <1>6, <1>7, <1>8, <1>9

\* A script is started for the run.
LEMMA UpdaterStep ==
  ASSUME UpdateInv, NEW r \in 1..Len(runs), RunUpdater(r)
  PROVE  /\ RunsFit(runs', rows') /\ Len(runs') = Len(runs)
         /\ rows' \in Seq(Row) /\ Len(rows') = Len(rows)
         /\ ScriptsFit(scripts', runs', backups)
         /\ \E s \in Script : scripts' = Append(scripts, s) /\ s.pc = "begin"
         /\ worker' \in 0..Len(runs') /\ Forward
<1> DEFINE R == [runs[r] EXCEPT !.asked = TRUE]
           src == IF runs[r].pc = "apply" THEN runs[r].version ELSE 0
           s == [cmd |-> runs[r].pc, run |-> r, pc |-> "begin", part |-> 1,
                 src |-> src, heard |-> TRUE]
           row == rows[runs[r].row].state
<1>1. /\ RunFits(runs[r]) /\ runs \in Seq(Run) /\ StateFits(runs[r], row)
      /\ runs[r] \in Run /\ Len(runs) \in Nat
      /\ RunsFit(runs, rows) /\ ScriptsFit(scripts, runs, backups) /\ row \in States
  BY AtStep
<1>2. /\ runs[r].pc \in {"backup", "apply", "rollback"} /\ ~runs[r].asked /\ ~runs[r].ran
      /\ worker' = r /\ scripts' = Append(scripts, s)
      /\ IF runs[r].pc = "backup" THEN SetState(r, "applying") ELSE rows' = rows
  BY DEF RunUpdater
<1>3. runs' = [runs EXCEPT ![r] = R]
  BY <1>1 DEF RunUpdater
<1>4. R \in Run /\ R.row = runs[r].row /\ R.pc = runs[r].pc /\ R.asked = TRUE /\ R.ran = FALSE
  BY <1>1, <1>2 DEF Run
<1> HIDE DEF R, row
<1>5. RunFits(R) /\ StateFits(R, "applying")
  BY <1>2, <1>4 DEF RunFits, StateFits
<1>6. RunStepFits
  <2>1. CASE runs[r].pc = "backup"
    <3>1. "applying" \in States /\ rows' = [rows EXCEPT ![R.row].state = "applying"]
          /\ (row = "applying" \/ row = "downloading")
      BY <1>1, <1>2, <1>4, <2>1 DEF States, SetState, StateFits
    <3>2. "applying" = row \/ Rank("applying") > Rank(row)
      BY <3>1 DEF Rank
    <3> QED BY <1>2, <1>3, <1>4, <1>5, <3>1, <3>2, PlainStep DEF row
  <2>2. CASE runs[r].pc # "backup"
    <3>1. row = "applying" /\ rows' = rows
      BY <1>1, <1>2, <2>2 DEF StateFits
    <3>2. StateFits(R, rows[R.row].state)
      BY <1>4, <1>5, <3>1 DEF row
    <3> QED BY <1>2, <1>3, <1>4, <1>5, <3>1, <3>2, PlainStep
  <2> QED BY <2>1, <2>2
<1>7. src \in 0..MaxVersion /\ (runs[r].pc = "apply" => src # 0)
  <2>1. runs[r].version \in Versions
    BY <1>1 DEF Run
  <2>2. MaxVersion \in Nat
    BY UpdateAssumption
  <2> QED BY <2>1, <2>2 DEF Versions
<1> HIDE DEF src
<1>8. /\ s \in Script /\ s.cmd = runs[r].pc /\ s.run = r /\ s.pc = "begin" /\ s.part = 1
      /\ s.src = src /\ s.heard
  <2>1. r \in Nat /\ 1 \in 1..(Len(Installed) + 1)
    BY <1>1, TwoParts
  <2> QED BY <1>2, <1>7, <2>1 DEF Script
<1> HIDE DEF s
<1>9. ScriptFits(s, backups)
  BY <1>7, <1>8 DEF ScriptFits
<1>10. HeardFits(s, runs')
  <2>1. Len(runs') = Len(runs) /\ runs'[r] = R
    BY <1>1, <1>3, <1>4, ExceptKeeps
  <2> QED BY <1>4, <1>8, <2>1 DEF HeardFits
<1>11. \A k \in 1..Len(scripts) : scripts[k].heard => scripts[k].run # s.run
  BY <1>1, <1>2, <1>8, NobodyHeard
<1>12. ScriptsFit(scripts', runs', backups)
  BY <1>2, <1>6, <1>9, <1>10, <1>11, ScriptNew DEF RunStepFits
<1> QED BY <1>2, <1>6, <1>8, <1>12 DEF RunStepFits

\* The worker's steps.
LEMMA WorkflowInv == UpdateInv /\ WorkflowStep => UpdateInv' /\ Forward
<1> SUFFICES ASSUME UpdateInv, WorkflowStep PROVE UpdateInv' /\ Forward
  OBVIOUS
<1>1. workerRest' = workerRest
  BY DEF WorkflowStep, workerRest, diskVars, hostVars
<1>2. PICK r \in 1..Len(runs) :
         \/ /\ \/ MarkDownloading(r) \/ Download(r) \/ CheckIdle(r) \/ VerifyHealth(r)
               \/ Rebuild(r) \/ MarkEnd(r) \/ Memoize(r)
            /\ UNCHANGED scripts
         \/ RunUpdater(r)
  <2>1. DOMAIN runs = 1..Len(runs)
    BY SeqFacts DEF UpdateInv, RunsFit
  <2> QED BY <2>1 DEF WorkflowStep
<1>3. CASE /\ \/ MarkDownloading(r) \/ Download(r) \/ CheckIdle(r) \/ VerifyHealth(r)
              \/ Rebuild(r) \/ MarkEnd(r) \/ Memoize(r)
           /\ UNCHANGED scripts
  <2>1. RunStepFits
    BY <1>3, QuietSteps
  <2>2. scripts' = scripts
    BY <1>3
  <2> QED BY <1>1, <2>1, <2>2, WorkflowKeeps DEF RunStepFits
<1>4. CASE RunUpdater(r)
  BY <1>1, <1>4, UpdaterStep, WorkflowKeeps
<1> QED BY <1>2, <1>3, <1>4

-----------------------------------------------------------------------------
(* The disk, seen from the scripts.                                        *)

\* A script that ends leaves nothing new at work.
LEMMA DiskGone ==
  ASSUME NEW ss \in Seq(Script), NEW fs, NEW tc, NEW vf, NEW cl,
         DiskFits(ss, fs, tc, vf, cl), NEW i \in 1..Len(ss)
  PROVE  DiskFits(RemoveAt(ss, i), fs, tc, vf, cl)
<1> DEFINE tt == RemoveAt(ss, i)
           m(k) == IF k < i THEN k ELSE k + 1
<1>1. Len(ss) \in Nat
  BY SeqFacts
<1>2. Len(tt) = Len(ss) - 1 /\ \A k \in 1..(Len(ss) - 1) : tt[k] = ss[m(k)]
  BY RemoveAtKeeps
<1>3. /\ \A k \in 1..(Len(ss) - 1) : m(k) \in 1..Len(ss)
      /\ \A k, l \in 1..(Len(ss) - 1) : m(k) = m(l) => k = l
  BY <1>1
<1> HIDE DEF tt, m
<1>4. DiskFits(tt, fs, tc, vf, cl)
  BY <1>2, <1>3 DEF DiskFits
<1> QED BY <1>4 DEF tt

\* One script goes on while the others have not begun.
LEMMA DiskMoves ==
  ASSUME NEW ss \in Seq(Script), NEW i \in 1..Len(ss), NEW s \in Script,
         NEW fs, NEW tc, NEW vf, NEW cl,
         ~cl => /\ \A k \in 1..Len(ss) : ss[k].pc # "begin" => k = i
                /\ \A p \in {1, 2} : fs[p] \in {vf} \cup tc
                /\ s.pc = "install" => \A p \in {1, 2} : p < s.part => fs[p] \in tc
  PROVE  DiskFits([ss EXCEPT ![i] = s], fs, tc, vf, cl)
<1> DEFINE tt == [ss EXCEPT ![i] = s]
<1>1. Len(tt) = Len(ss) /\ \A k \in 1..Len(ss) : tt[k] = IF k = i THEN s ELSE ss[k]
  BY ExceptKeeps
<1> HIDE DEF tt
<1>2. ~cl => \A k \in 1..Len(tt) : tt[k].pc # "begin" => k = i
  BY <1>1
<1>3. \A k \in 1..Len(tt) : tt[k].pc = "install" => tt[k].pc # "begin"
  OBVIOUS
<1>4. tt[i] = s
  BY <1>1
<1>5. ~cl => \A k \in 1..Len(tt) :
                tt[k].pc = "install" => \A p \in {1, 2} : p < tt[k].part => fs[p] \in tc
  BY <1>2, <1>3, <1>4
<1>6. DiskFits(tt, fs, tc, vf, cl)
  BY <1>2, <1>5 DEF DiskFits
<1> QED BY <1>6 DEF tt

\* The scripts with nobody who listens.
LEMMA DiskUnheard ==
  ASSUME NEW ss, NEW fs, NEW tc, NEW vf, NEW cl, DiskFits(ss, fs, tc, vf, cl),
         NEW tt, Len(tt) = Len(ss),
         \A k \in 1..Len(ss) : tt[k].pc = ss[k].pc /\ tt[k].part = ss[k].part
  PROVE  DiskFits(tt, fs, tc, vf, cl)
BY DEF DiskFits

\* No script: nothing at work.
LEMMA DiskNone ==
  ASSUME NEW ss, NEW fs, NEW tc, NEW vf, NEW cl, DiskFits(ss, fs, tc, vf, cl)
  PROVE  DiskFits(<<>>, fs, tc, vf, cl)
<1>1. Len(<<>>) = 0 /\ 1..0 = {}
  OBVIOUS
<1> QED BY <1>1 DEF DiskFits

\* A new script has not begun.
LEMMA DiskNew ==
  ASSUME NEW ss \in Seq(Script), NEW fs, NEW tc, NEW vf, NEW cl,
         DiskFits(ss, fs, tc, vf, cl), NEW s \in Script, s.pc = "begin"
  PROVE  DiskFits(Append(ss, s), fs, tc, vf, cl)
<1> DEFINE tt == Append(ss, s)
<1>1. /\ Len(ss) \in Nat /\ Len(tt) = Len(ss) + 1
      /\ \A k \in 1..Len(ss) : tt[k] = ss[k]
      /\ tt[Len(ss) + 1] = s
  BY AppendKeeps, SeqFacts
<1> HIDE DEF tt
<1>2. \A k \in 1..Len(tt) : tt[k].pc # "begin" => k \in 1..Len(ss) /\ tt[k] = ss[k]
  BY <1>1
<1>3. \A k \in 1..Len(tt) : tt[k].pc = "install" => tt[k].pc # "begin"
  OBVIOUS
<1>4. DiskFits(tt, fs, tc, vf, cl)
  BY <1>2, <1>3 DEF DiskFits
<1> QED BY <1>4 DEF tt

-----------------------------------------------------------------------------
(* The steps of a script.                                                  *)

\* The parts of the invariant, after a step.
LEMMA NextInv ==
  ASSUME BasicType', RunsFit(runs', rows'), ScriptsFit(scripts', runs', backups'),
         DiskFits(scripts', files', touched', versionFile', clash')
  PROVE  UpdateInv'
<1>1. RunsFit(runs, rows)'
  BY DEF RunsFit, RunFits, StateFits
<1>2. ScriptsFit(scripts, runs, backups)'
  BY DEF ScriptsFit, ScriptFits, HeardFits
<1>3. DiskFits(scripts, files, touched, versionFile, clash)'
  BY DEF DiskFits
<1> QED BY <1>1, <1>2, <1>3 DEF UpdateInv

\* A script in flight.
LEMMA AtScript ==
  ASSUME UpdateInv, NEW i \in 1..Len(scripts)
  PROVE  /\ BasicType /\ RunsFit(runs, rows) /\ ScriptsFit(scripts, runs, backups)
         /\ DiskFits(scripts, files, touched, versionFile, clash)
         /\ scripts \in Seq(Script) /\ scripts[i] \in Script
         /\ ScriptFits(scripts[i], backups) /\ HeardFits(scripts[i], runs)
         /\ runs \in Seq(Run) /\ Len(runs) \in Nat
         /\ scripts[i].heard \in BOOLEAN
<1>1. /\ BasicType /\ RunsFit(runs, rows) /\ ScriptsFit(scripts, runs, backups)
      /\ DiskFits(scripts, files, touched, versionFile, clash)
  BY DEF UpdateInv
<1>2. /\ scripts \in Seq(Script) /\ scripts[i] \in Script
      /\ ScriptFits(scripts[i], backups) /\ HeardFits(scripts[i], runs)
  BY <1>1 DEF ScriptsFit, ScriptFits
<1>3. runs \in Seq(Run) /\ Len(runs) \in Nat
  BY <1>1, SeqFacts DEF RunsFit
<1>4. scripts[i].heard \in BOOLEAN
  BY <1>2 DEF Script
<1> QED BY <1>1, <1>2, <1>3, <1>4

\* One run hears something that none of the scripts ss has to tell it.
LEMMA RunHears ==
  ASSUME RunsFit(runs, rows), rows \in Seq(Row), NEW ss, ScriptsFit(ss, runs, backups),
         NEW r \in 1..Len(runs), NEW R, RunFits(R), R.row = runs[r].row,
         StateFits(R, rows[R.row].state),
         \A k \in 1..Len(ss) : ss[k].heard /\ ss[k].run = r =>
            R.asked = runs[r].asked /\ R.pc = runs[r].pc
  PROVE  /\ RunsFit([runs EXCEPT ![r] = R], rows)
         /\ Len([runs EXCEPT ![r] = R]) = Len(runs)
         /\ ScriptsFit(ss, [runs EXCEPT ![r] = R], backups)
<1> DEFINE rns == [runs EXCEPT ![r] = R]
<1>1. runs \in Seq(Run) /\ R \in Run /\ Len(runs) \in Nat
  BY SeqFacts DEF RunsFit, RunFits
<1>2. Len(rns) = Len(runs) /\ \A q \in 1..Len(runs) : rns[q] = IF q = r THEN R ELSE runs[q]
  BY <1>1, ExceptKeeps
<1>3. RowSet(rows, rows, R.row)
  BY DEF RowSet
<1>4. RunsFit([runs EXCEPT ![r] = R], rows)
  BY <1>3, RunMoves
<1>5. RunsFit(rns, rows)
  BY <1>4
<1> HIDE DEF rns
<1>6. \A k \in 1..Len(ss) : ss[k].heard =>
         rns[ss[k].run].asked = runs[ss[k].run].asked /\ rns[ss[k].run].pc = runs[ss[k].run].pc
  BY <1>2 DEF ScriptsFit, HeardFits
<1>7. Len(rns) \in Nat /\ Len(rns) >= Len(runs)
  BY <1>1, <1>2
<1>8. ScriptsFit(ss, rns, backups)
  BY <1>1, <1>6, <1>7, ScriptsKeepRuns, Zenon
<1> QED BY <1>2, <1>5, <1>8 DEF rns

\* The script ends, and whoever waits for it has its result.
LEMMA ExitStep ==
  ASSUME UpdateInv, NEW i \in 1..Len(scripts), NEW ok, Exit(i, ok)
  PROVE  /\ RunsFit(runs', rows) /\ Len(runs') = Len(runs)
         /\ ScriptsFit(scripts', runs', backups)
         /\ DiskFits(scripts', files, touched, versionFile, clash)
         /\ worker' \in 0..Len(runs')
<1> DEFINE s == scripts[i]
           r == s.run
           tt == RemoveAt(scripts, i)
<1>1. /\ RunsFit(runs, rows) /\ ScriptsFit(scripts, runs, backups)
      /\ DiskFits(scripts, files, touched, versionFile, clash)
      /\ scripts \in Seq(Script) /\ s \in Script /\ s.heard \in BOOLEAN /\ HeardFits(s, runs)
      /\ runs \in Seq(Run) /\ Len(runs) \in Nat
      /\ rows \in Seq(Row) /\ worker \in 0..Len(runs)
  BY AtScript DEF BasicType
<1>2. scripts' = tt
  BY DEF Exit
<1>3. /\ ScriptsFit(tt, runs, backups)
      /\ \A k \in 1..Len(tt) : tt[k].heard /\ s.heard => tt[k].run # r
  BY <1>1, ScriptGone
<1>4. DiskFits(tt, files, touched, versionFile, clash)
  BY <1>1, DiskGone
<1>5. CASE ~s.heard
  <2>1. runs' = runs /\ worker' = worker
    BY <1>5 DEF Exit
  <2> QED BY <1>1, <1>2, <1>3, <1>4, <2>1
<1>6. CASE s.heard
  <2> HIDE DEF tt
  <2>1. r \in 1..Len(runs) /\ runs[r].asked /\ runs[r].pc = s.cmd
    BY <1>1, <1>6 DEF HeardFits
  <2>2. RunFits(runs[r]) /\ runs[r] \in Run /\ StateFits(runs[r], rows[runs[r].row].state)
    BY <1>1, <2>1 DEF RunsFit, RunFits
  <2>3. \A R : \A k \in 1..Len(tt) : tt[k].heard /\ tt[k].run = r =>
            R.asked = runs[r].asked /\ R.pc = runs[r].pc
    BY <1>3, <1>6
  <2>4. ASSUME Fails(r)
        PROVE  RunsFit(runs', rows) /\ Len(runs') = Len(runs) /\ ScriptsFit(tt, runs', backups)
               /\ worker' \in 0..Len(runs')
    <3>1. runs[r].ran = FALSE
      BY <2>1, <2>2 DEF RunFits, Run
    <3>2. /\ RunFits(Retried(runs[r])) /\ Retried(runs[r]).row = runs[r].row
          /\ StateFits(Retried(runs[r]), rows[runs[r].row].state)
      BY <2>2, <3>1, RetriedFacts
    <3>3. runs' = [runs EXCEPT ![r] = Retried(runs[r])] /\ worker' = 0
      BY <2>4 DEF Fails
    <3>4. RunsFit(runs', rows) /\ Len(runs') = Len(runs) /\ ScriptsFit(tt, runs', backups)
      <4> DEFINE R == Retried(runs[r])
      <4>1. \A k \in 1..Len(tt) : tt[k].heard /\ tt[k].run = r =>
              R.asked = runs[r].asked /\ R.pc = runs[r].pc
        BY <2>3
      <4>2. /\ RunsFit([runs EXCEPT ![r] = R], rows)
            /\ Len([runs EXCEPT ![r] = R]) = Len(runs)
            /\ ScriptsFit(tt, [runs EXCEPT ![r] = R], backups)
        BY <1>1, <1>3, <2>1, <3>2, <4>1, RunHears
      <4> QED BY <3>3, <4>2
    <3> QED BY <1>1, <3>3, <3>4
  <2>5. ASSUME runs' = [runs EXCEPT ![r].ran = TRUE, ![r].asked = FALSE], worker' = worker
        PROVE  RunsFit(runs', rows) /\ Len(runs') = Len(runs) /\ ScriptsFit(tt, runs', backups)
               /\ worker' \in 0..Len(runs')
    <3> DEFINE R == [runs[r] EXCEPT !.ran = TRUE, !.asked = FALSE]
    <3>1. R \in Run /\ R.row = runs[r].row /\ R.pc = s.cmd /\ R.asked = FALSE /\ R.ran = TRUE
      BY <2>1, <2>2 DEF Run
    <3>2. s.cmd \in {"backup", "apply", "rollback"}
      BY <1>1 DEF Script
    <3>3. runs' = [runs EXCEPT ![r] = R]
      BY <1>1, <2>1, <2>5
    <3> HIDE DEF R
    <3>4. RunFits(R) /\ StateFits(R, rows[R.row].state)
      BY <2>1, <2>2, <3>1, <3>2 DEF RunFits, StateFits
    <3>5. RunsFit(runs', rows) /\ Len(runs') = Len(runs) /\ ScriptsFit(tt, runs', backups)
      <4>1. \A k \in 1..Len(tt) : tt[k].heard /\ tt[k].run = r =>
              R.asked = runs[r].asked /\ R.pc = runs[r].pc
        BY <2>3
      <4>2. /\ RunsFit([runs EXCEPT ![r] = R], rows)
            /\ Len([runs EXCEPT ![r] = R]) = Len(runs)
            /\ ScriptsFit(tt, [runs EXCEPT ![r] = R], backups)
        BY <1>1, <1>3, <2>1, <3>1, <3>4, <4>1, RunHears
      <4> QED BY <3>3, <4>2
    <3> QED BY <1>1, <2>5, <3>5
  <2>6. Fails(r) \/ (runs' = [runs EXCEPT ![r].ran = TRUE, ![r].asked = FALSE] /\ worker' = worker)
    BY <1>6 DEF Exit
  <2> QED BY <1>2, <1>4, <2>4, <2>5, <2>6
<1> QED BY <1>1, <1>5, <1>6

\* A directory of a backup that is empty, or whole, is there.
LEMMA BackupKinds ==
  /\ EmptyBackup # NoBackup
  /\ \A vf \in Versions, fs \in [1..Len(Installed) -> Versions] :
       [version |-> vf, parts |-> fs] \notin {NoBackup, EmptyBackup}
<1>1. EmptyBackup.parts # NoBackup.parts
  <2>1. DOMAIN EmptyBackup.parts = 1..Len(Installed) /\ DOMAIN NoBackup.parts = {}
    BY DEF EmptyBackup, NoBackup
  <2> QED BY <2>1, TwoParts
<1>2. ASSUME NEW vf \in Versions, NEW fs \in [1..Len(Installed) -> Versions]
      PROVE  [version |-> vf, parts |-> fs] \notin {NoBackup, EmptyBackup}
  <2>1. vf # 0
    BY UpdateAssumption DEF Versions, UpdateAssumption
  <2>2. NoBackup.version = 0 /\ EmptyBackup.version = 0
    BY DEF NoBackup, EmptyBackup
  <2>3. [version |-> vf, parts |-> fs].version = vf
    OBVIOUS
  <2> QED BY <2>1, <2>2, <2>3
<1> QED BY <1>1, <1>2

BackupType == [Versions -> [version : Versions, parts : [1..Len(Installed) -> Versions]]
                             \cup {NoBackup, EmptyBackup}]

\* What is not touched by the scripts.
ScriptRest == latest' = latest /\ rows' = rows /\ supervised' = supervised /\ budget' = budget

\* What a script at work, or about to be, does to the others and the disk.
LEMMA MoveStep ==
  ASSUME UpdateInv, NEW i \in 1..Len(scripts), NEW s,
         scripts' = [scripts EXCEPT ![i] = s], s.cmd = scripts[i].cmd, s.run = scripts[i].run,
         s.heard = scripts[i].heard, runs' = runs, ScriptRest, BasicType',
         ScriptFits(s, backups'),
         \A v \in 1..MaxVersion :
            /\ backups[v] # NoBackup => backups'[v] # NoBackup
            /\ backups[v] \notin {NoBackup, EmptyBackup}
                 => backups'[v] \notin {NoBackup, EmptyBackup},
         DiskFits([scripts EXCEPT ![i] = s], files', touched', versionFile', clash')
  PROVE  UpdateInv'
<1>1. ScriptsFit(scripts, runs, backups')
  BY AtScript, ScriptsKeepBackups
<1>2. ScriptsFit([scripts EXCEPT ![i] = s], runs, backups')
  BY <1>1, ScriptMoves
<1>3. RunsFit(runs', rows') /\ ScriptsFit(scripts', runs', backups')
  BY <1>2, AtScript DEF ScriptRest
<1>4. DiskFits(scripts', files', touched', versionFile', clash')
  OBVIOUS
<1> QED BY <1>3, <1>4, NextInv

\* While one script is at work the others have not begun.
LEMMA OthersWait ==
  ASSUME UpdateInv, NEW i \in 1..Len(scripts), scripts[i].pc # "begin", ~clash
  PROVE  /\ \A k \in 1..Len(scripts) : scripts[k].pc # "begin" => k = i
         /\ \A p \in {1, 2} : files[p] \in {versionFile} \cup touched
         /\ scripts[i].pc = "install" => \A p \in {1, 2} : p < scripts[i].part => files[p] \in touched
BY DEF UpdateInv, DiskFits

\* A script that begins finds nothing at work, or it is a clash.
LEMMA NoneAtWork ==
  ASSUME UpdateInv, NEW i \in 1..Len(scripts), scripts[i].pc = "begin",
         clash' = (clash \/ AtWork # {})
  PROVE  /\ clash' \in BOOLEAN
         /\ ~clash' => /\ \A k \in 1..Len(scripts) : scripts[k].pc # "begin" => k = i
                       /\ \A p \in {1, 2} : files[p] \in {versionFile} \cup touched
<1>1. DOMAIN scripts = 1..Len(scripts) /\ clash \in BOOLEAN
  BY AtScript, SeqFacts DEF BasicType
<1>2. ~clash' => ~clash /\ AtWork = {}
  BY <1>1
<1>3. ~clash' => \A k \in 1..Len(scripts) : scripts[k].pc = "begin"
  BY <1>1, <1>2 DEF AtWork
<1>4. ~clash => \A p \in {1, 2} : files[p] \in {versionFile} \cup touched
  BY DEF UpdateInv, DiskFits
<1> QED BY <1>1, <1>2, <1>3, <1>4

\* A script that ends.
LEMMA ExitInv ==
  ASSUME UpdateInv, NEW i \in 1..Len(scripts), NEW ok, Exit(i, ok), ScriptRest, checks' = checks,
         files' = files, versionFile' = versionFile, touched' = touched,
         clash' \in BOOLEAN, clash => clash',
         hostVars' = hostVars, broken' \in BOOLEAN, backups' \in BackupType,
         \A v \in 1..MaxVersion :
            /\ backups[v] # NoBackup => backups'[v] # NoBackup
            /\ backups[v] \notin {NoBackup, EmptyBackup}
                 => backups'[v] \notin {NoBackup, EmptyBackup}
  PROVE  UpdateInv'
<1>1. /\ RunsFit(runs', rows) /\ Len(runs') = Len(runs)
      /\ ScriptsFit(scripts', runs', backups)
      /\ DiskFits(scripts', files, touched, versionFile, clash)
      /\ worker' \in 0..Len(runs')
  BY ExitStep
<1>2. ScriptsFit(scripts', runs', backups')
  BY <1>1, ScriptsKeepBackups
<1>3. DiskFits(scripts', files', touched', versionFile', clash')
  <2>1. DiskFits(scripts', files, touched, versionFile, clash')
    BY <1>1 DEF DiskFits
  <2> QED BY <2>1
<1>4. RunsFit(runs', rows')
  BY <1>1 DEF ScriptRest
<1>5. BasicType'
  BY <1>1 DEF UpdateInv, BasicType, ScriptRest, hostVars, BackupType
<1> QED BY <1>2, <1>3, <1>4, <1>5, NextInv

\* cmd_backup.
LEMMA BackupInv ==
  ASSUME UpdateInv, NEW i \in 1..Len(scripts), ScriptRest, checks' = checks,
         BackupBegins(i) \/ BackupCopies(i)
  PROVE  UpdateInv'
<1>1. /\ BasicType /\ scripts[i] \in Script /\ scripts \in Seq(Script)
      /\ ScriptFits(scripts[i], backups)
      /\ DiskFits(scripts, files, touched, versionFile, clash)
  BY AtScript
<1>2. /\ backups \in BackupType /\ versionFile \in Versions /\ Versions = 1..MaxVersion
      /\ files \in [1..Len(Installed) -> Versions]
  BY <1>1 DEF BasicType, BackupType, Versions
<1>3. CASE BackupBegins(i) /\ backups[versionFile] = NoBackup
  <2> DEFINE s == [scripts[i] EXCEPT !.pc = "copy", !.src = versionFile]
  <2>1. /\ scripts[i].cmd = "backup" /\ scripts[i].pc = "begin"
        /\ backups' = [backups EXCEPT ![versionFile] = EmptyBackup]
        /\ runs' = runs /\ worker' = worker /\ clash' = (clash \/ AtWork # {})
        /\ files' = files /\ versionFile' = versionFile /\ touched' = touched
        /\ broken' = broken /\ hostVars' = hostVars
    BY <1>3 DEF BackupBegins
  <2>2. scripts' = [scripts EXCEPT ![i] = s]
    BY <1>1, <1>3 DEF BackupBegins
  <2>3. /\ s \in Script /\ s.cmd = "backup" /\ s.run = scripts[i].run
        /\ s.heard = scripts[i].heard /\ s.pc = "copy" /\ s.src = versionFile
        /\ s.part = scripts[i].part
    <3>1. versionFile \in 0..MaxVersion
      BY <1>2, UpdateAssumption DEF UpdateAssumption
    <3> QED BY <1>1, <2>1, <3>1 DEF Script
  <2> HIDE DEF s
  <2>4. ScriptFits(s, backups')
    BY <1>1, <1>2, <2>1, <2>3, UpdateAssumption DEF ScriptFits, UpdateAssumption
  <2>5. /\ backups' \in BackupType
        /\ \A v \in 1..MaxVersion :
             /\ backups[v] # NoBackup => backups'[v] # NoBackup
             /\ backups[v] \notin {NoBackup, EmptyBackup}
                  => backups'[v] \notin {NoBackup, EmptyBackup}
    BY <1>2, <1>3, <2>1, BackupKinds DEF BackupType
  <2>6. BasicType'
    BY <1>1, <2>1, <2>5, NoneAtWork DEF BasicType, ScriptRest, hostVars, BackupType
  <2>7. DiskFits([scripts EXCEPT ![i] = s], files', touched', versionFile', clash')
    BY <1>1, <2>1, <2>3, NoneAtWork, DiskMoves
  <2> QED BY <2>1, <2>2, <2>3, <2>4, <2>5, <2>6, <2>7, MoveStep
<1>4. CASE BackupBegins(i) /\ backups[versionFile] # NoBackup
  <2>1. /\ scripts[i].pc = "begin" /\ Exit(i, FALSE) /\ backups' = backups
        /\ clash' = (clash \/ AtWork # {})
        /\ files' = files /\ versionFile' = versionFile /\ touched' = touched
        /\ broken' = broken /\ hostVars' = hostVars
    BY <1>4 DEF BackupBegins
  <2>2. clash' \in BOOLEAN /\ (clash => clash') /\ broken' \in BOOLEAN /\ backups' \in BackupType
    BY <1>1, <1>2, <2>1, NoneAtWork DEF BasicType
  <2> QED BY <2>1, <2>2, ExitInv
<1>5. CASE BackupCopies(i)
  <2>1. /\ scripts[i].pc = "copy"
        /\ files' = files /\ versionFile' = versionFile /\ touched' = touched
        /\ broken' = broken /\ clash' = clash /\ hostVars' = hostVars
    BY <1>5 DEF BackupCopies
  <2>2. scripts[i].src \in Versions
    BY <1>1, <1>2, <2>1, UpdateAssumption DEF ScriptFits, Script, UpdateAssumption
  <2>3. clash' \in BOOLEAN /\ (clash => clash') /\ broken' \in BOOLEAN
    BY <1>1, <2>1 DEF BasicType
  <2>4. CASE backups' = backups /\ Exit(i, FALSE)
    BY <1>2, <2>1, <2>3, <2>4, ExitInv
  <2>5. CASE /\ backups' = [backups EXCEPT ![scripts[i].src] =
                              [version |-> versionFile, parts |-> files]]
             /\ Exit(i, TRUE)
    <3> DEFINE new == [version |-> versionFile, parts |-> files]
    <3>1. /\ new \in [version : Versions, parts : [1..Len(Installed) -> Versions]]
          /\ new \notin {NoBackup, EmptyBackup}
      BY <1>2, BackupKinds
    <3>2. backups' = [backups EXCEPT ![scripts[i].src] = new]
      BY <2>5
    <3> HIDE DEF new
    <3>3. /\ backups' \in BackupType
          /\ \A v \in 1..MaxVersion :
               /\ backups[v] # NoBackup => backups'[v] # NoBackup
               /\ backups[v] \notin {NoBackup, EmptyBackup}
                    => backups'[v] \notin {NoBackup, EmptyBackup}
      BY <1>2, <2>2, <3>1, <3>2 DEF BackupType
    <3> QED BY <2>1, <2>3, <2>5, <3>3, ExitInv
  <2> QED BY <1>5, <2>4, <2>5 DEF BackupCopies
<1> QED BY <1>3, <1>4, <1>5

\* The directory a rollback copies from is there.
LEMMA SourceFacts ==
  ASSUME UpdateInv, NEW i \in 1..Len(scripts), scripts[i].cmd # "backup",
         scripts[i].cmd = "rollback" => RollbackDirs # {}
  PROVE  /\ Source(scripts[i]) \in 1..MaxVersion
         /\ scripts[i].cmd = "rollback" => backups[Source(scripts[i])] # NoBackup
<1>1. scripts[i] \in Script /\ ScriptFits(scripts[i], backups)
  BY AtScript
<1>2. CASE scripts[i].cmd = "apply"
  BY <1>1, <1>2, UpdateAssumption DEF Source, ScriptFits, Script, UpdateAssumption
<1>3. CASE scripts[i].cmd = "rollback"
  <2>1. RollbackDirs \in SUBSET (1..MaxVersion) /\ MaxVersion \in Nat
    BY UpdateAssumption DEF RollbackDirs, Versions, UpdateAssumption
  <2>2. Max(RollbackDirs) \in RollbackDirs
    BY <1>3, <2>1, HighestVersion
  <2>3. Source(scripts[i]) = Max(RollbackDirs)
    BY <1>3 DEF Source
  <2> QED BY <2>2, <2>3 DEF RollbackDirs, Versions
<1> QED BY <1>1, <1>2, <1>3 DEF Script

\* The script of an apply or a rollback begins.
LEMMA EnsureIdleInv ==
  ASSUME UpdateInv, NEW i \in 1..Len(scripts), ScriptRest, checks' = checks, EnsureIdle(i)
  PROVE  UpdateInv'
<1>1. /\ BasicType /\ scripts[i] \in Script /\ scripts \in Seq(Script)
      /\ ScriptFits(scripts[i], backups)
  BY AtScript
<1>2. /\ scripts[i].cmd # "backup" /\ scripts[i].pc = "begin"
      /\ files' = files /\ versionFile' = versionFile /\ touched' = touched
      /\ backups' = backups /\ broken' = broken /\ hostVars' = hostVars
  BY DEF EnsureIdle
<1>3. backups \in BackupType /\ broken \in BOOLEAN /\ clash \in BOOLEAN
  BY <1>1 DEF BasicType, BackupType
<1>4. CASE Exit(i, FALSE) /\ clash' = clash
  BY <1>2, <1>3, <1>4, ExitInv
<1>5. CASE ~(scripts[i].cmd = "rollback" /\ RollbackDirs = {}) /\ ~(Exit(i, FALSE) /\ clash' = clash)
  <2> DEFINE src == Source(scripts[i])
             s == [scripts[i] EXCEPT !.pc = "stop", !.src = src]
  <2>1. /\ scripts' = [scripts EXCEPT ![i].pc = "stop", ![i].src = src]
        /\ clash' = (clash \/ AtWork # {}) /\ runs' = runs /\ worker' = worker
    BY <1>5 DEF EnsureIdle
  <2>2. scripts' = [scripts EXCEPT ![i] = s]
    BY <1>1, <2>1
  <2>3. src \in 1..MaxVersion /\ (scripts[i].cmd = "rollback" => backups[src] # NoBackup)
    BY <1>2, <1>5, SourceFacts
  <2> HIDE DEF src
  <2>4. /\ s \in Script /\ s.cmd = scripts[i].cmd /\ s.run = scripts[i].run
        /\ s.heard = scripts[i].heard /\ s.pc = "stop" /\ s.src = src
        /\ s.part = scripts[i].part
    <3>1. src \in 0..MaxVersion
      BY <2>3
    <3> QED BY <1>1, <3>1 DEF Script
  <2> HIDE DEF s
  <2>5. ScriptFits(s, backups')
    <3>1. s.part = 1 /\ src # 0
      BY <1>1, <1>2, <2>3, <2>4 DEF ScriptFits
    <3> QED BY <1>2, <2>3, <2>4, <3>1 DEF ScriptFits
  <2>6. BasicType'
    BY <1>1, <1>2, <2>1, NoneAtWork DEF BasicType, ScriptRest, hostVars
  <2>7. DiskFits([scripts EXCEPT ![i] = s], files', touched', versionFile', clash')
    BY <1>1, <1>2, <2>1, <2>4, NoneAtWork, DiskMoves
  <2> QED BY <1>2, <2>1, <2>2, <2>4, <2>5, <2>6, <2>7, MoveStep
<1> QED BY <1>4, <1>5 DEF EnsureIdle

\* What the end of bench-web, and of its scripts or not, leaves.
LEMMA WebEndsInv ==
  ASSUME UpdateInv, WebEnds, latest' = latest, rows' = rows, supervised' = supervised,
         budget' \in [crashes : 0..MaxCrashes, rollbacks : 0..MaxRollbacks],
         files' = files, versionFile' = versionFile, backups' = backups, touched' = touched,
         clash' = clash, broken' \in BOOLEAN, up' \subseteq Services, webVersion' \in Versions,
         held' \in BOOLEAN,
         NEW ss, ScriptsFit(ss, runs, backups), DiskFits(ss, files, touched, versionFile, clash),
         scripts' = Unheard(ss) \/ scripts' = <<>>
  PROVE  UpdateInv'
<1>1. RunsFit(runs', rows') /\ Len(runs') = Len(runs)
  BY RunsForgotten DEF WebEnds, UpdateInv
<1>2. ScriptsFit(scripts', runs', backups')
  BY ScriptsUnheard, ScriptsNone
<1>3. DiskFits(scripts', files', touched', versionFile', clash')
  <2>1. DiskFits(Unheard(ss), files, touched, versionFile, clash)
    BY ScriptsUnheard, DiskUnheard
  <2>2. DiskFits(<<>>, files, touched, versionFile, clash)
    BY DiskNone
  <2> QED BY <2>1, <2>2
<1>4. BasicType'
  <2>1. checks' = <<>> /\ worker' = 0 /\ Len(runs) \in Nat /\ MaxChecks \in Nat
    BY UpdateAssumption, SeqFacts DEF WebEnds, UpdateInv, RunsFit, UpdateAssumption
  <2>2. checks' \in Seq(0..MaxVersion) /\ Len(checks') <= MaxChecks /\ worker' \in 0..Len(runs')
    BY <1>1, <2>1
  <2> QED BY <2>2 DEF UpdateInv, BasicType
<1> QED BY <1>1, <1>2, <1>3, <1>4, NextInv

\* A script at work goes on without touching the disk.
LEMMA GoesOn ==
  ASSUME UpdateInv, NEW i \in 1..Len(scripts), scripts[i].pc # "begin", NEW s \in Script,
         ScriptFits(s, backups), s.pc \notin {"begin", "install"} \/ s.part = 1
  PROVE  DiskFits([scripts EXCEPT ![i] = s], files, touched, versionFile, clash)
<1>1. scripts \in Seq(Script) /\ s.part \in {1, 2, 3}
  BY AtScript, TwoParts DEF Script
<1>2. s.pc = "install" => \A p \in {1, 2} : ~(p < s.part)
  BY <1>1
<1> QED BY <1>1, <1>2, OthersWait, DiskMoves

\* The services are stopped.
LEMMA StopInv ==
  ASSUME UpdateInv, NEW i \in 1..Len(scripts), ScriptRest,
         StopWeb(i) \/ (StopRest(i) /\ checks' = checks)
  PROVE  UpdateInv'
<1>1. /\ BasicType /\ scripts[i] \in Script /\ scripts \in Seq(Script)
      /\ ScriptFits(scripts[i], backups) /\ ScriptsFit(scripts, runs, backups)
      /\ DiskFits(scripts, files, touched, versionFile, clash)
  BY AtScript
<1>2. CASE StopWeb(i)
  <2> DEFINE s == [scripts[i] EXCEPT !.pc = "stopRest"]
             stopping == [scripts EXCEPT ![i] = s]
  <2>1. /\ scripts[i].pc = "stop"
        /\ files' = files /\ versionFile' = versionFile /\ touched' = touched
        /\ backups' = backups /\ clash' = clash /\ webVersion' = webVersion /\ held' = held
    BY <1>2 DEF StopWeb
  <2>2. [scripts EXCEPT ![i].pc = "stopRest"] = stopping
    BY <1>1
  <2>3. /\ s \in Script /\ s.cmd = scripts[i].cmd /\ s.run = scripts[i].run
        /\ s.heard = scripts[i].heard /\ s.pc = "stopRest" /\ s.src = scripts[i].src
        /\ s.part = scripts[i].part
    BY <1>1 DEF Script
  <2> HIDE DEF s
  <2>4. ScriptFits(s, backups)
    BY <1>1, <2>1, <2>3 DEF ScriptFits
  <2>5. /\ ScriptsFit(stopping, runs, backups)
        /\ DiskFits(stopping, files, touched, versionFile, clash)
    BY <1>1, <2>1, <2>3, <2>4, ScriptMoves, GoesOn
  <2> HIDE DEF stopping
  <2>6. CASE supervised
    <3>1. /\ up' = up \ {"web"} /\ WebEnds
          /\ scripts' = Unheard(stopping) \/ scripts' = <<>>
          /\ broken' = broken \/ broken' = TRUE
      BY <1>2, <2>2, <2>6 DEF StopWeb
    <3>2. up' \subseteq Services /\ broken' \in BOOLEAN /\ webVersion' \in Versions
          /\ held' \in BOOLEAN
          /\ budget' \in [crashes : 0..MaxCrashes, rollbacks : 0..MaxRollbacks]
      BY <1>1, <2>1, <3>1 DEF BasicType, ScriptRest
    <3> QED BY <2>1, <2>5, <3>1, <3>2, WebEndsInv DEF ScriptRest
  <2>7. CASE ~supervised
    <3>1. scripts' = stopping /\ up' = up /\ runs' = runs /\ worker' = worker
          /\ checks' = checks /\ broken' = broken
      BY <1>2, <2>2, <2>7 DEF StopWeb
    <3>2. BasicType'
      BY <1>1, <2>1, <3>1 DEF BasicType, ScriptRest
    <3>3. ScriptsFit(scripts', runs', backups')
      BY <2>1, <2>5, <3>1
    <3>4. RunsFit(runs', rows')
      BY <3>1, AtScript DEF ScriptRest
    <3>5. DiskFits(scripts', files', touched', versionFile', clash')
      BY <2>1, <2>5, <3>1
    <3> QED BY <3>2, <3>3, <3>4, <3>5, NextInv
  <2> QED BY <2>6, <2>7
<1>3. CASE StopRest(i) /\ checks' = checks
  <2> DEFINE s == [scripts[i] EXCEPT !.pc = "install"]
  <2>1. /\ scripts[i].pc = "stopRest" /\ up' = up \ {"ctld", "benchd"} /\ held' = FALSE
        /\ runs' = runs /\ worker' = worker /\ diskVars' = diskVars /\ webVersion' = webVersion
    BY <1>3 DEF StopRest
  <2>2. scripts' = [scripts EXCEPT ![i] = s]
    BY <1>1, <1>3 DEF StopRest
  <2>3. /\ s \in Script /\ s.cmd = scripts[i].cmd /\ s.run = scripts[i].run
        /\ s.heard = scripts[i].heard /\ s.pc = "install" /\ s.src = scripts[i].src
        /\ s.part = scripts[i].part
    BY <1>1 DEF Script
  <2> HIDE DEF s
  <2>4. ScriptFits(s, backups) /\ s.part = 1
    BY <1>1, <2>1, <2>3 DEF ScriptFits
  <2>5. /\ files' = files /\ versionFile' = versionFile /\ touched' = touched
        /\ backups' = backups /\ clash' = clash /\ broken' = broken
    BY <2>1 DEF diskVars
  <2>6. DiskFits([scripts EXCEPT ![i] = s], files', touched', versionFile', clash')
    BY <2>1, <2>3, <2>4, <2>5, GoesOn
  <2>7. BasicType'
    BY <1>1, <1>3, <2>1, <2>5 DEF BasicType, ScriptRest
  <2> QED BY <2>1, <2>2, <2>3, <2>4, <2>5, <2>6, <2>7, MoveStep
<1> QED BY <1>2, <1>3

\* What is copied: a part of a release, or of a directory that has it.
LEMMA PartFacts ==
  ASSUME UpdateInv, NEW i \in 1..Len(scripts), scripts[i].pc = "install"
  PROVE  /\ scripts[i].part <= Len(Installed) /\ PartOf(scripts[i]) # 0 =>
              /\ PartOf(scripts[i]) \in Versions
              /\ scripts[i].cmd = "rollback" =>
                   backups[scripts[i].src] \notin {NoBackup, EmptyBackup}
         /\ scripts[i].part > Len(Installed) => VersionOf(scripts[i]) \in Versions
<1> DEFINE s == scripts[i]
           Whole == [version : Versions, parts : [1..Len(Installed) -> Versions]]
<1>1. BasicType /\ s \in Script /\ ScriptFits(s, backups)
  BY AtScript
<1>2. s.cmd \in {"apply", "rollback"} /\ s.src # 0 /\ s.src \in 0..MaxVersion
      /\ s.part \in {1, 2, 3}
  BY <1>1, TwoParts DEF ScriptFits, Script
<1>3. s.src \in Versions /\ MaxVersion \in Nat /\ Versions = 1..MaxVersion
  BY <1>2, UpdateAssumption DEF Versions, UpdateAssumption
<1>4. CASE s.cmd = "apply"
  BY <1>3, <1>4 DEF PartOf, VersionOf
<1>5. CASE s.cmd = "rollback"
  <2> DEFINE b == backups[s.src]
  <2>1. b # NoBackup /\ (s.part > 1 => b # EmptyBackup)
    BY <1>1, <1>5 DEF ScriptFits
  <2>2. b \in Whole \/ b = EmptyBackup
    BY <1>1, <1>3, <2>1 DEF BasicType
  <2>3. PartOf(s) = b.parts[s.part] /\ VersionOf(s) = b.version
    BY <1>5 DEF PartOf, VersionOf
  <2> HIDE DEF b
  <2>4. b = EmptyBackup /\ s.part \in 1..Len(Installed) => b.parts[s.part] = 0
    BY DEF EmptyBackup
  <2>5. b \in Whole => /\ b.version \in Versions
                       /\ s.part \in 1..Len(Installed) => b.parts[s.part] \in Versions
    OBVIOUS
  <2>6. s.part <= Len(Installed) => s.part \in 1..Len(Installed)
    BY <1>2, TwoParts
  <2>7. s.part > Len(Installed) => s.part > 1
    BY <1>2, TwoParts
  <2>8. b = backups[s.src]
    BY DEF b
  <2> QED BY <2>1, <2>2, <2>3, <2>4, <2>5, <2>6, <2>7, <2>8
<1> QED BY <1>2, <1>4, <1>5

\* A part is copied.
LEMMA CopyInv ==
  ASSUME UpdateInv, NEW i \in 1..Len(scripts), ScriptRest, checks' = checks, CopyPart(i)
  PROVE  UpdateInv'
<1> DEFINE v == PartOf(scripts[i])
           part == scripts[i].part
           s == [scripts[i] EXCEPT !.part = part + 1]
<1>1. /\ BasicType /\ scripts[i] \in Script /\ scripts \in Seq(Script)
      /\ ScriptFits(scripts[i], backups)
  BY AtScript
<1>2. /\ scripts[i].pc = "install" /\ part <= Len(Installed) /\ v # 0
      /\ files' = [files EXCEPT ![part] = v] /\ touched' = touched \cup {v}
      /\ runs' = runs /\ worker' = worker /\ versionFile' = versionFile
      /\ backups' = backups /\ broken' = broken /\ clash' = clash /\ hostVars' = hostVars
  BY DEF CopyPart
<1>3. scripts' = [scripts EXCEPT ![i] = s]
  BY <1>1 DEF CopyPart
<1>4. /\ v \in Versions
      /\ scripts[i].cmd = "rollback" => backups[scripts[i].src] \notin {NoBackup, EmptyBackup}
  BY <1>2, PartFacts
<1>5. part \in {1, 2} /\ part + 1 \in 1..(Len(Installed) + 1)
  BY <1>1, <1>2, TwoParts DEF Script
<1> HIDE DEF v
<1>6. /\ s \in Script /\ s.cmd = scripts[i].cmd /\ s.run = scripts[i].run
      /\ s.heard = scripts[i].heard /\ s.pc = "install" /\ s.src = scripts[i].src
      /\ s.part = part + 1
  BY <1>1, <1>2, <1>5 DEF Script
<1> HIDE DEF s
<1>7. ScriptFits(s, backups')
  BY <1>1, <1>2, <1>4, <1>6 DEF ScriptFits
<1>8. files' \in [1..Len(Installed) -> Versions] /\ touched' \subseteq Versions
      /\ \A p \in {1, 2} : files'[p] = IF p = part THEN v ELSE files[p]
  BY <1>1, <1>2, <1>4, <1>5, TwoParts DEF BasicType
<1>9. BasicType'
  BY <1>1, <1>2, <1>8 DEF BasicType, ScriptRest, hostVars
<1>10. ~clash' => /\ \A k \in 1..Len(scripts) : scripts[k].pc # "begin" => k = i
                  /\ \A p \in {1, 2} : files[p] \in {versionFile} \cup touched
                  /\ \A p \in {1, 2} : p < part => files[p] \in touched
  BY <1>2, OthersWait
<1>11. \A p \in {1, 2} : p < part + 1 => p < part \/ p = part
  BY <1>5
<1>12. ~clash' => /\ \A k \in 1..Len(scripts) : scripts[k].pc # "begin" => k = i
                  /\ \A p \in {1, 2} : files'[p] \in {versionFile'} \cup touched'
                  /\ \A p \in {1, 2} : p < s.part => files'[p] \in touched'
  BY <1>2, <1>6, <1>8, <1>10, <1>11
<1>13. DiskFits([scripts EXCEPT ![i] = s], files', touched', versionFile', clash')
  BY <1>1, <1>6, <1>12, DiskMoves
<1> QED BY <1>2, <1>3, <1>6, <1>7, <1>9, <1>13, MoveStep

\* The version file is written: by now every part has been copied.
LEMMA WriteInv ==
  ASSUME UpdateInv, NEW i \in 1..Len(scripts), ScriptRest, checks' = checks, WriteVersion(i)
  PROVE  UpdateInv'
<1> DEFINE v == VersionOf(scripts[i])
           s == [scripts[i] EXCEPT !.pc = "start"]
<1>1. /\ BasicType /\ scripts[i] \in Script /\ scripts \in Seq(Script)
      /\ ScriptFits(scripts[i], backups)
  BY AtScript
<1>2. /\ scripts[i].pc = "install" /\ scripts[i].part > Len(Installed)
      /\ versionFile' = v /\ touched' = touched \ {v} /\ files' = files
      /\ runs' = runs /\ worker' = worker
      /\ backups' = backups /\ broken' = broken /\ clash' = clash /\ hostVars' = hostVars
  BY DEF WriteVersion
<1>3. scripts' = [scripts EXCEPT ![i] = s]
  BY <1>1 DEF WriteVersion
<1>4. v \in Versions
  BY <1>2, PartFacts
<1> HIDE DEF v
<1>5. /\ s \in Script /\ s.cmd = scripts[i].cmd /\ s.run = scripts[i].run
      /\ s.heard = scripts[i].heard /\ s.pc = "start" /\ s.src = scripts[i].src
      /\ s.part = scripts[i].part
  BY <1>1 DEF Script
<1> HIDE DEF s
<1>6. ScriptFits(s, backups')
  BY <1>1, <1>2, <1>5 DEF ScriptFits
<1>7. BasicType'
  BY <1>1, <1>2, <1>4 DEF BasicType, ScriptRest, hostVars
<1>8. scripts[i].part = 3
  BY <1>1, <1>2, TwoParts DEF Script
<1>9. ~clash' => /\ \A k \in 1..Len(scripts) : scripts[k].pc # "begin" => k = i
                 /\ \A p \in {1, 2} : files[p] \in touched
  BY <1>2, <1>8, OthersWait
<1>10. DiskFits([scripts EXCEPT ![i] = s], files', touched', versionFile', clash')
  BY <1>1, <1>2, <1>5, <1>9, DiskMoves
<1> QED BY <1>2, <1>3, <1>5, <1>6, <1>7, <1>10, MoveStep

\* benchd and runner-ctld are started again.
LEMMA StartInv ==
  ASSUME UpdateInv, NEW i \in 1..Len(scripts), ScriptRest, checks' = checks,
         StartBenchd(i) \/ StartCtld(i)
  PROVE  UpdateInv'
<1> DEFINE pc == IF scripts[i].pc = "start" THEN "startCtld" ELSE "startWeb"
           s == [scripts[i] EXCEPT !.pc = pc]
<1>1. /\ BasicType /\ scripts[i] \in Script /\ scripts \in Seq(Script)
      /\ ScriptFits(scripts[i], backups)
      /\ DiskFits(scripts, files, touched, versionFile, clash)
  BY AtScript
<1>2. /\ scripts[i].pc \in {"start", "startCtld"}
      /\ up' = up \cup {"benchd"} \/ up' = up \cup {"ctld"}
      /\ runs' = runs /\ worker' = worker /\ diskVars' = diskVars
      /\ webVersion' = webVersion /\ held' = held
      /\ scripts' = [scripts EXCEPT ![i].pc = pc]
  BY DEF StartBenchd, StartCtld
<1>3. pc \in {"startCtld", "startWeb"}
  OBVIOUS
<1> HIDE DEF pc
<1>4. scripts' = [scripts EXCEPT ![i] = s]
  BY <1>1, <1>2
<1>5. /\ s \in Script /\ s.cmd = scripts[i].cmd /\ s.run = scripts[i].run
      /\ s.heard = scripts[i].heard /\ s.pc = pc /\ s.src = scripts[i].src
      /\ s.part = scripts[i].part
  BY <1>1, <1>3 DEF Script
<1> HIDE DEF s
<1>6. ScriptFits(s, backups)
  BY <1>1, <1>2, <1>3, <1>5 DEF ScriptFits
<1>7. /\ files' = files /\ versionFile' = versionFile /\ touched' = touched
      /\ backups' = backups /\ clash' = clash /\ broken' = broken
  BY <1>2 DEF diskVars
<1>8. DiskFits([scripts EXCEPT ![i] = s], files', touched', versionFile', clash')
  BY <1>1, <1>2, <1>3, <1>5, <1>7, <1>6, GoesOn
<1>9. BasicType'
  <2>1. up' \subseteq Services
    BY <1>1, <1>2 DEF BasicType, Services
  <2> QED BY <1>1, <1>2, <1>7, <2>1 DEF BasicType, ScriptRest
<1> QED BY <1>2, <1>4, <1>5, <1>6, <1>7, <1>8, <1>9, MoveStep

\* The script ends: at a file that does not fit, or at a start that
\* fails, or with the services started.
LEMMA EndInv ==
  ASSUME UpdateInv, NEW i \in 1..Len(scripts), ScriptRest, checks' = checks,
         InstallFails(i) \/ StartFails(i) \/ StartWeb(i)
  PROVE  UpdateInv'
<1> DEFINE s == scripts[i]
           tt == RemoveAt(scripts, i)
<1>1. /\ BasicType /\ s \in Script /\ scripts \in Seq(Script) /\ s.heard \in BOOLEAN
      /\ ScriptFits(s, backups) /\ HeardFits(s, runs)
      /\ RunsFit(runs, rows) /\ ScriptsFit(scripts, runs, backups)
      /\ DiskFits(scripts, files, touched, versionFile, clash)
      /\ runs \in Seq(Run) /\ Len(runs) \in Nat
  BY AtScript
<1>2. CASE InstallFails(i) \/ StartFails(i)
  <2>1. /\ Exit(i, FALSE) /\ broken' = TRUE /\ files' = files /\ versionFile' = versionFile
        /\ backups' = backups /\ touched' = touched /\ clash' = clash /\ hostVars' = hostVars
    BY <1>2 DEF InstallFails, StartFails
  <2>2. backups' \in BackupType /\ broken' \in BOOLEAN /\ clash' \in BOOLEAN
    BY <1>1, <2>1 DEF BasicType, BackupType
  <2> QED BY <2>1, <2>2, ExitInv
<1>3. CASE StartWeb(i)
  <2>1. /\ s.pc = "startWeb" /\ up' = up \cup {"web"} /\ broken' = (broken /\ up' # Services)
        /\ scripts' = tt
        /\ webVersion' = IF "web" \in up THEN webVersion ELSE files[2]
        /\ runs' = [r \in DOMAIN runs |-> IF r = s.run THEN Served(runs[r], s) ELSE runs[r]]
        /\ worker' = worker /\ files' = files /\ versionFile' = versionFile
        /\ backups' = backups /\ touched' = touched /\ clash' = clash /\ held' = held
    BY <1>3 DEF StartWeb
  <2>2. /\ ScriptsFit(tt, runs, backups)
        /\ \A k \in 1..Len(tt) : tt[k].heard /\ s.heard => tt[k].run # s.run
    BY <1>1, ScriptGone
  <2>3. DiskFits(tt, files, touched, versionFile, clash)
    BY <1>1, DiskGone
  <2> HIDE DEF tt
  <2>4. RunsFit(runs', rows) /\ Len(runs') = Len(runs) /\ ScriptsFit(tt, runs', backups)
    <3>1. CASE s.run \in 1..Len(runs)
      <4> DEFINE r == s.run
                 R == Served(runs[r], s)
      <4>1. RunFits(runs[r]) /\ StateFits(runs[r], rows[runs[r].row].state)
        BY <1>1, <3>1 DEF RunsFit
      <4>2. s.heard => runs[r].asked
        BY <1>1 DEF HeardFits
      <4>3. /\ RunFits(R) /\ R.row = runs[r].row /\ R.pc = runs[r].pc
            /\ ~s.heard => R.asked = runs[r].asked
            /\ StateFits(R, rows[runs[r].row].state)
        BY <1>1, <4>1, <4>2, ServedFacts
      <4>4. runs' = [runs EXCEPT ![r] = R]
        BY <1>1, <2>1, <3>1
      <4> HIDE DEF R
      <4>5. \A k \in 1..Len(tt) : tt[k].heard /\ tt[k].run = r =>
              R.asked = runs[r].asked /\ R.pc = runs[r].pc
        BY <2>2, <4>3
      <4>6. rows \in Seq(Row)
        BY <1>1 DEF BasicType
      <4>7. /\ RunsFit([runs EXCEPT ![r] = R], rows)
            /\ Len([runs EXCEPT ![r] = R]) = Len(runs)
            /\ ScriptsFit(tt, [runs EXCEPT ![r] = R], backups)
        BY <1>1, <2>2, <3>1, <4>3, <4>5, <4>6, RunHears
      <4> QED BY <4>4, <4>7
    <3>2. CASE s.run \notin 1..Len(runs)
      <4>1. runs' = runs
        BY <1>1, <2>1, <3>2
      <4> QED BY <1>1, <2>2, <4>1
    <3> QED BY <3>1, <3>2
  <2>5. webVersion' \in Versions
    BY <1>1, <2>1, TwoParts DEF BasicType
  <2>6. BasicType'
    <3>1. up' \subseteq Services /\ broken' \in BOOLEAN
      BY <1>1, <2>1 DEF BasicType, Services
    <3> QED BY <1>1, <1>3, <2>1, <2>4, <2>5, <3>1 DEF BasicType, ScriptRest
  <2>7. RunsFit(runs', rows') /\ ScriptsFit(scripts', runs', backups')
        /\ DiskFits(scripts', files', touched', versionFile', clash')
    BY <2>1, <2>3, <2>4 DEF ScriptRest
  <2> QED BY <2>6, <2>7, NextInv
<1> QED BY <1>2, <1>3

\* The steps of bench-updater.
LEMMA ScriptInv ==
  UpdateInv /\ (\E i \in DOMAIN scripts : ScriptStep(i)) => UpdateInv' /\ Forward
<1> SUFFICES ASSUME UpdateInv, \E i \in DOMAIN scripts : ScriptStep(i) PROVE UpdateInv' /\ Forward
  OBVIOUS
<1>1. ScriptRest /\ Forward
  BY DEF ScriptStep, ScriptRest, Forward
<1>2. PICK i \in 1..Len(scripts) :
         \/ StopWeb(i)
         \/ /\ \/ BackupBegins(i) \/ BackupCopies(i) \/ EnsureIdle(i) \/ StopRest(i)
               \/ CopyPart(i) \/ WriteVersion(i) \/ InstallFails(i)
               \/ StartBenchd(i) \/ StartCtld(i) \/ StartWeb(i) \/ StartFails(i)
            /\ UNCHANGED checks
  <2>1. DOMAIN scripts = 1..Len(scripts)
    BY SeqFacts DEF UpdateInv, ScriptsFit
  <2> QED BY <2>1 DEF ScriptStep
<1>3. CASE StopWeb(i)
  BY <1>1, <1>3, StopInv
<1>4. CASE checks' = checks /\ (BackupBegins(i) \/ BackupCopies(i))
  BY <1>1, <1>4, BackupInv
<1>5. CASE checks' = checks /\ EnsureIdle(i)
  BY <1>1, <1>5, EnsureIdleInv
<1>6. CASE checks' = checks /\ StopRest(i)
  BY <1>1, <1>6, StopInv
<1>7. CASE checks' = checks /\ CopyPart(i)
  BY <1>1, <1>7, CopyInv
<1>8. CASE checks' = checks /\ WriteVersion(i)
  BY <1>1, <1>8, WriteInv
<1>9. CASE checks' = checks /\ (InstallFails(i) \/ StartFails(i) \/ StartWeb(i))
  BY <1>1, <1>9, EndInv
<1>10. CASE checks' = checks /\ (StartBenchd(i) \/ StartCtld(i))
  BY <1>1, <1>10, StartInv
<1> QED BY <1>1, <1>2, <1>3, <1>4, <1>5, <1>6, <1>7, <1>8, <1>9, <1>10

-----------------------------------------------------------------------------
(* Everything else that happens.                                           *)

\* A step that leaves the runs, their rows, the scripts and the disk alone.
LEMMA SameWork ==
  ASSUME UpdateInv, BasicType', rows' = rows, runs' = runs, scripts' = scripts,
         diskVars' = diskVars
  PROVE  UpdateInv'
<1>1. /\ files' = files /\ versionFile' = versionFile /\ backups' = backups
      /\ touched' = touched /\ clash' = clash
  BY DEF diskVars
<1> QED BY <1>1, NextInv DEF UpdateInv

\* Releases, checks for them and their answers.
LEMMA CheckInv ==
  ASSUME UpdateInv,
         \/ PublishRelease \/ BeginCheck \/ JobHolds
         \/ \E i \in DOMAIN checks : HearRelease(i)
  PROVE  UpdateInv' /\ Forward
<1>1. BasicType /\ UpdateAssumption /\ Len(runs) \in Nat
  BY UpdateAssumption, SeqFacts DEF UpdateInv, RunsFit
<1>2. CASE PublishRelease
  <2>1. latest' \in Versions
    BY <1>1, <1>2 DEF PublishRelease, BasicType, Versions, UpdateAssumption
  <2> QED BY <1>1, <1>2, <2>1, SameWork DEF PublishRelease, BasicType, diskVars, hostVars, Forward
<1>3. CASE BeginCheck
  <2>1. checks' \in Seq(0..MaxVersion) /\ Len(checks') <= MaxChecks
    <3>1. 0 \in 0..MaxVersion /\ MaxChecks \in Nat
      BY <1>1 DEF UpdateAssumption
    <3>2. Len(checks) \in Nat /\ Len(checks') = Len(checks) + 1 /\ checks' \in Seq(0..MaxVersion)
      BY <1>1, <1>3, <3>1, AppendKeeps, SeqFacts DEF BeginCheck, BasicType
    <3> QED BY <1>3, <3>1, <3>2 DEF BeginCheck
  <2> QED BY <1>1, <1>3, <2>1, SameWork DEF BeginCheck, BasicType, diskVars, hostVars, Forward
<1>4. CASE JobHolds
  <2>1. held' \in BOOLEAN
    BY <1>1, <1>4 DEF JobHolds, BasicType
  <2> QED BY <1>1, <1>4, <2>1, SameWork DEF JobHolds, BasicType, diskVars, Forward
<1>5. ASSUME NEW i \in DOMAIN checks, HearRelease(i)
      PROVE  UpdateInv' /\ Forward
  <2>1. checks' \in Seq(0..MaxVersion) /\ Len(checks') <= MaxChecks
    <3>1. checks \in Seq(0..MaxVersion) /\ i \in 1..Len(checks) /\ Len(checks) \in Nat
          /\ Len(checks) <= MaxChecks /\ MaxChecks \in Nat
      BY <1>1, <1>5, SeqFacts DEF BasicType, UpdateAssumption
    <3>2. latest \in 0..MaxVersion
      BY <1>1 DEF BasicType, Versions
    <3>3. CASE checks' = [checks EXCEPT ![i] = latest]
      BY <3>1, <3>2, <3>3, ExceptKeeps
    <3>4. CASE checks' = RemoveAt(checks, i)
      BY <3>1, <3>4, RemoveAtKeeps
    <3> QED BY <1>5, <3>3, <3>4 DEF HearRelease
  <2> QED BY <1>1, <1>5, <2>1, SameWork DEF HearRelease, BasicType, diskVars, hostVars, Forward
<1> QED BY <1>2, <1>3, <1>4, <1>5

\* A run that is created.
LEMMA NewRunFacts ==
  ASSUME NEW row \in Nat \ {0}, NEW version \in Versions
  PROVE  /\ RunFits(NewRun(row, version)) /\ NewRun(row, version).row = row
         /\ StateFits(NewRun(row, version), "pending")
<1> DEFINE R == NewRun(row, version)
<1>1. /\ 0 \in 0..(MaxLooks + MaxHealth) /\ 0 \in 0..1 /\ 0 \in 0..2 /\ 0 \in 0..(MaxTries - 1)
  BY UpdateAssumption DEF UpdateAssumption
<1>2. R \in Run /\ R.row = row /\ R.pc = "mark" /\ R.asked = FALSE /\ R.ran = FALSE
  BY <1>1 DEF Run, NewRun
<1> HIDE DEF R
<1> QED BY <1>2 DEF RunFits, StateFits, R

\* A row is inserted, with a run or without.
LEMMA RecordInv ==
  ASSUME UpdateInv, NEW i \in DOMAIN checks, RecordUpdate(i)
  PROVE  UpdateInv' /\ Forward
<1> DEFINE version == checks[i]
           row == Len(rows) + 1
           e == [version |-> version, state |-> "pending"]
           R == NewRun(row, version)
<1>1. /\ BasicType /\ RunsFit(runs, rows) /\ ScriptsFit(scripts, runs, backups)
      /\ runs \in Seq(Run) /\ Len(runs) \in Nat
      /\ rows \in Seq(Row) /\ Len(rows) \in Nat /\ DOMAIN rows = 1..Len(rows)
      /\ checks \in Seq(0..MaxVersion) /\ Len(checks) \in Nat /\ i \in 1..Len(checks)
      /\ Len(checks) <= MaxChecks /\ MaxChecks \in Nat /\ MaxRows \in Nat
      /\ worker \in 0..Len(runs)
  BY UpdateAssumption, SeqFacts DEF UpdateInv, BasicType, RunsFit, UpdateAssumption
<1>2. /\ version # 0 /\ Len(rows) < MaxRows /\ rows' = Append(rows, e)
      /\ checks' = RemoveAt(checks, i)
      /\ runs' = runs \/ runs' = Append(runs, R)
      /\ latest' = latest /\ worker' = worker /\ scripts' = scripts /\ diskVars' = diskVars
      /\ hostVars' = hostVars /\ supervised' = supervised /\ budget' = budget
  BY DEF RecordUpdate, StartSelfUpdate
<1>3. version \in Versions /\ row \in Nat \ {0}
  <2>1. version \in 0..MaxVersion
    <3>1. checks \in Seq(0..MaxVersion) /\ i \in 1..Len(checks)
      BY <1>1
    <3> QED BY <3>1, SeqFacts
  <2> QED BY <1>1, <1>2, <2>1 DEF Versions
<1>4. e \in Row
  BY <1>3 DEF Row, States
<1>5. RunFits(R) /\ R.row = row /\ StateFits(R, "pending")
  BY <1>3, NewRunFacts
<1> HIDE DEF R, version
<1>6. /\ rows' \in Seq(Row) /\ Len(rows') = row /\ \A k \in 1..Len(rows) : rows'[k] = rows[k]
      /\ rows'[row].state = "pending"
  BY <1>1, <1>2, <1>4, AppendKeeps
<1>7. checks' \in Seq(0..MaxVersion) /\ Len(checks') <= MaxChecks
  BY <1>1, <1>2, RemoveAtKeeps
<1>8. RunsFit(runs, rows')
  BY <1>1, <1>2, <1>4, RowNew
<1>9. RunsFit(runs', rows') /\ Len(runs') >= Len(runs) /\ Len(runs') \in Nat
      /\ \A q \in 1..Len(runs) : runs'[q] = runs[q]
  <2>1. CASE runs' = runs
    BY <1>1, <1>8, <2>1
  <2>2. CASE runs' = Append(runs, R)
    <3>1. \A q \in 1..Len(runs) : runs[q].row # R.row
      BY <1>1, <1>5 DEF RunsFit
    <3>2. R.row \in 1..Len(rows') /\ StateFits(R, rows'[R.row].state)
      BY <1>1, <1>5, <1>6
    <3>3. /\ RunsFit(Append(runs, R), rows') /\ Len(Append(runs, R)) = Len(runs) + 1
          /\ \A q \in 1..Len(runs) : Append(runs, R)[q] = runs[q]
      BY <1>5, <1>8, <3>1, <3>2, RunNew
    <3> QED BY <1>1, <2>2, <3>3
  <2> QED BY <1>2, <2>1, <2>2
<1>10. ScriptsFit(scripts, runs', backups)
  <2>1. \A k \in 1..Len(scripts) : scripts[k].heard =>
           /\ runs'[scripts[k].run].asked = runs[scripts[k].run].asked
           /\ runs'[scripts[k].run].pc = runs[scripts[k].run].pc
    BY <1>1, <1>9 DEF ScriptsFit, HeardFits
  <2> QED BY <1>1, <1>9, <2>1, ScriptsKeepRuns, Zenon
<1>11. BasicType'
  <2>1. worker' \in 0..Len(runs') /\ Len(rows') <= MaxRows
    BY <1>1, <1>2, <1>6, <1>9
  <2> QED BY <1>1, <1>2, <1>6, <1>7, <2>1 DEF BasicType, diskVars, hostVars
<1>12. /\ ScriptsFit(scripts', runs', backups')
       /\ DiskFits(scripts', files', touched', versionFile', clash')
  BY <1>2, <1>10 DEF UpdateInv, diskVars
<1>13. Forward
  BY <1>1, <1>6 DEF Forward
<1> QED BY <1>9, <1>11, <1>12, <1>13, NextInv

\* An admin's rollback.
LEMMA AdminInv ==
  ASSUME UpdateInv, AdminRollback
  PROVE  UpdateInv' /\ Forward
<1> DEFINE s == [cmd |-> "rollback", run |-> 0, pc |-> "begin", part |-> 1,
                 src |-> 0, heard |-> FALSE]
<1>1. /\ BasicType /\ ScriptsFit(scripts, runs, backups) /\ scripts \in Seq(Script)
      /\ DiskFits(scripts, files, touched, versionFile, clash)
  BY DEF UpdateInv, ScriptsFit
<1>2. /\ budget.rollbacks < MaxRollbacks /\ scripts' = Append(scripts, s)
      /\ budget' = [budget EXCEPT !.rollbacks = @ + 1]
      /\ latest' = latest /\ checks' = checks /\ rows' = rows /\ runs' = runs
      /\ worker' = worker /\ diskVars' = diskVars /\ hostVars' = hostVars
      /\ supervised' = supervised
  BY DEF AdminRollback
<1>3. s \in Script /\ s.pc = "begin" /\ ~s.heard /\ s.cmd = "rollback" /\ s.part = 1
  <2>1. 0 \in 0..MaxVersion /\ 1 \in 1..(Len(Installed) + 1)
    BY UpdateAssumption, TwoParts DEF UpdateAssumption
  <2> QED BY <2>1 DEF Script
<1> HIDE DEF s
<1>4. ScriptFits(s, backups) /\ HeardFits(s, runs)
  BY <1>3 DEF ScriptFits, HeardFits
<1>5. ScriptsFit(Append(scripts, s), runs, backups)
  BY <1>1, <1>3, <1>4, ScriptNew
<1>6. DiskFits(Append(scripts, s), files, touched, versionFile, clash)
  BY <1>1, <1>3, DiskNew
<1>7. budget' \in [crashes : 0..MaxCrashes, rollbacks : 0..MaxRollbacks]
  <2>1. budget.rollbacks + 1 \in 0..MaxRollbacks
    <3>1. budget.rollbacks \in 0..MaxRollbacks /\ MaxRollbacks \in Nat
      BY <1>1, UpdateAssumption DEF BasicType, UpdateAssumption
    <3> QED BY <1>2, <3>1
  <2>2. budget' = [budget EXCEPT !.rollbacks = budget.rollbacks + 1]
    BY <1>1, <1>2 DEF BasicType
  <2> QED BY <1>1, <2>1, <2>2 DEF BasicType
<1>8. BasicType'
  BY <1>1, <1>2, <1>7 DEF BasicType, diskVars, hostVars
<1>9. /\ RunsFit(runs', rows') /\ ScriptsFit(scripts', runs', backups')
      /\ DiskFits(scripts', files', touched', versionFile', clash')
  BY <1>2, <1>5, <1>6 DEF UpdateInv, diskVars
<1> QED BY <1>2, <1>8, <1>9, NextInv DEF Forward

\* What dies.
LEMMA DeathInv ==
  ASSUME UpdateInv, WebDies \/ PowerLoss
  PROVE  UpdateInv' /\ Forward
<1>1. /\ BasicType /\ ScriptsFit(scripts, runs, backups)
      /\ DiskFits(scripts, files, touched, versionFile, clash)
  BY DEF UpdateInv
<1>2. /\ WebEnds /\ latest' = latest /\ rows' = rows /\ supervised' = supervised
      /\ files' = files /\ versionFile' = versionFile /\ backups' = backups
      /\ touched' = touched /\ clash' = clash /\ webVersion' = files[2]
      /\ budget.crashes < MaxCrashes /\ budget' = [budget EXCEPT !.crashes = @ + 1]
      /\ scripts' = Unheard(scripts) \/ scripts' = <<>>
  BY DEF WebDies, PowerLoss
<1>3. broken' \in BOOLEAN
  BY <1>1 DEF WebDies, PowerLoss, BasicType
<1>4. held' \in BOOLEAN /\ up' \subseteq Services
  BY <1>1 DEF WebDies, PowerLoss, BasicType
<1>5. budget' \in [crashes : 0..MaxCrashes, rollbacks : 0..MaxRollbacks]
  <2>1. budget.crashes + 1 \in 0..MaxCrashes
    <3>1. budget.crashes \in 0..MaxCrashes /\ MaxCrashes \in Nat
      BY <1>1, UpdateAssumption DEF BasicType, UpdateAssumption
    <3> QED BY <1>2, <3>1
  <2>2. budget' = [budget EXCEPT !.crashes = budget.crashes + 1]
    BY <1>1, <1>2 DEF BasicType
  <2> QED BY <1>1, <2>1, <2>2 DEF BasicType
<1>6. webVersion' \in Versions
  BY <1>1, <1>2, TwoParts DEF BasicType
<1>7. UpdateInv'
  BY <1>1, <1>2, <1>3, <1>4, <1>5, <1>6, WebEndsInv
<1> QED BY <1>2, <1>7 DEF Forward

\* Every step keeps the invariant and takes no row back.
LEMMA UpdateStep == UpdateInv /\ [UpdateNext]_updateVars => UpdateInv' /\ [Forward]_updateVars
<1> SUFFICES ASSUME UpdateInv, [UpdateNext]_updateVars PROVE UpdateInv' /\ Forward
  OBVIOUS
<1>1. CASE CheckStep
  BY <1>1, CheckInv, RecordInv DEF CheckStep
<1>2. CASE UNCHANGED updateVars
  <2>1. UpdateInv'
    <3>1. BasicType'
      BY <1>2 DEF UpdateInv, BasicType, updateVars
    <3> QED BY <1>2, <3>1, SameWork DEF updateVars, diskVars
  <2> QED BY <1>2, <2>1 DEF updateVars, Forward
<1> QED
  BY <1>1, <1>2, CheckInv, WorkflowInv, ScriptInv, AdminInv, DeathInv DEF UpdateNext

\* The appliance as it is installed.
LEMMA UpdateStart == UpdateInit => UpdateInv
<1> SUFFICES ASSUME UpdateInit PROVE UpdateInv
  OBVIOUS
<1>1. <<>> \in Seq(Run) /\ <<>> \in Seq(Row) /\ <<>> \in Seq(0..MaxVersion) /\ Len(<<>>) = 0
      /\ 1..0 = {}
  OBVIOUS
<1>2. 1 \in Versions /\ MaxRows \in Nat /\ MaxChecks \in Nat /\ MaxCrashes \in Nat
      /\ MaxRollbacks \in Nat
  BY UpdateAssumption DEF UpdateAssumption, Versions
<1>3. BasicType
  <2>1. files \in [1..Len(Installed) -> Versions] /\ backups \in BackupType
    BY <1>2 DEF UpdateInit, BackupType
  <2>2. budget \in [crashes : 0..MaxCrashes, rollbacks : 0..MaxRollbacks]
    BY <1>2 DEF UpdateInit
  <2>3. /\ latest \in Versions /\ checks \in Seq(0..MaxVersion) /\ Len(checks) <= MaxChecks
        /\ rows \in Seq(Row) /\ Len(rows) <= MaxRows /\ worker \in 0..Len(runs)
    BY <1>1, <1>2 DEF UpdateInit
  <2> QED BY <1>2, <2>1, <2>2, <2>3 DEF UpdateInit, BasicType, BackupType
<1>4. RunsFit(runs, rows)
  BY <1>1 DEF UpdateInit, RunsFit
<1>5. ScriptsFit(scripts, runs, backups)
  BY ScriptsNone DEF UpdateInit
<1>6. DiskFits(scripts, files, touched, versionFile, clash)
  <2>1. \A p \in {1, 2} : files[p] = versionFile
    BY TwoParts DEF UpdateInit
  <2> QED BY <1>1, <2>1 DEF UpdateInit, DiskFits
<1> QED BY <1>3, <1>4, <1>5, <1>6 DEF UpdateInv

\* What the invariant says of the types and the files.
LEMMA UpdateInvSound == UpdateInv => UpdateIsSound
<1> SUFFICES ASSUME UpdateInv PROVE UpdateIsSound
  OBVIOUS
<1>1. UpdateTypeOK
  BY DEF UpdateInv, BasicType, RunsFit, ScriptsFit, UpdateTypeOK, Row
<1>2. FilesMatchVersion
  <2>1. DOMAIN files = {1, 2}
    BY TwoParts DEF UpdateInv, BasicType
  <2> QED BY <2>1 DEF UpdateInv, DiskFits, FilesMatchVersion
<1> QED BY <1>1, <1>2 DEF UpdateIsSound

\* An update is whole or not named: whatever is cut short, and wherever,
\* install_from_source has either copied every part by the time the version
\* file names a release, or the parts of another are known to be half copied.
THEOREM InstalledIsWhole == UpdateSpec => []UpdateIsSound
<1>1. UpdateInit => UpdateInv
  BY UpdateStart
<1>2. UpdateInv /\ [UpdateNext]_updateVars => UpdateInv'
  BY UpdateStep
<1>3. UpdateInv => UpdateIsSound
  BY UpdateInvSound
<1> QED BY <1>1, <1>2, <1>3, PTL DEF UpdateSpec

\* However often a run is replayed, a row of the updates table never goes back,
\* and one that has ended never changes.
THEOREM RowsMoveForward == UpdateSpec => StatesMoveForward
<1>1. UpdateInit => UpdateInv
  BY UpdateStart
<1>2. UpdateInv /\ [UpdateNext]_updateVars => UpdateInv' /\ [Forward]_updateVars
  BY UpdateStep
<1>3. [Forward]_updateVars
        => [\A i \in DOMAIN rows :
              rows'[i] # rows[i] => Rank(rows'[i].state) > Rank(rows[i].state)]_updateVars
  BY DEF Forward
<1> QED BY <1>1, <1>2, <1>3, PTL DEF UpdateSpec, StatesMoveForward
=============================================================================
